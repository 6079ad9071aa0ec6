------------------------ MODULE PublishRecordsProofs ------------------------
(***************************************************************************)
(* Lemmas on positions of an array, and on what core_mqtt_state.c does to  *)
(* an array of publish records: it stays one, a record is stored at a      *)
(* position of the array, and no state is one the library does not know.   *)
(***************************************************************************)
EXTENDS PublishRecords, FiniteSetTheorems, WellFoundedInduction, TLAPS

-----------------------------------------------------------------------------
(* Positions *)

(* The first of some positions is one of them.                             *)
LEMMA FirstIsMember ==
  ASSUME NEW S \in SUBSET Nat, S # {}
  PROVE  FirstOf(S) \in S /\ \A q \in S : FirstOf(S) <= q
<1>1. PICK x \in S : \A y \in S : ~ (<<y, x>> \in OpToRel(<, Nat))
  BY WFMin, NatLessThanWellFounded
<1>2. ASSUME NEW y \in S
      PROVE  x <= y
  <2>1. <<y, x>> \in Nat \X Nat /\ <<y, x>>[1] = y /\ <<y, x>>[2] = x
    OBVIOUS
  <2>2. ~ (y < x)
    BY <1>1, <2>1 DEF OpToRel
  <2> QED BY <2>2
<1> QED BY <1>2 DEF FirstOf

(* So is the last of some, if they are in an array.                        *)
LEMMA LastIsMember ==
  ASSUME NEW n \in Nat, NEW S \in SUBSET (1 .. n), S # {}
  PROVE  LastOf(S) \in S /\ \A q \in S : q <= LastOf(S)
<1> DEFINE Bounds == {m \in Nat : \A q \in S : q <= m}
           m == FirstOf(Bounds)
<1>1. n \in Bounds /\ Bounds \in SUBSET Nat
  OBVIOUS
<1>2. m \in Bounds /\ \A k \in Bounds : m <= k
  BY <1>1, FirstIsMember
<1> HIDE DEF m
<1>3. m \in Nat /\ \A q \in S : q <= m
  BY <1>2
<1>4. m \in S
  <2>1. SUFFICES ASSUME m \notin S PROVE FALSE
    OBVIOUS
  <2>2. \A q \in S : q <= m - 1
    BY <1>3, <2>1
  <2>3. m - 1 \in Nat
    <3>1. PICK q \in S : q \in 1 .. n
      OBVIOUS
    <3> QED BY <1>3, <2>2, <3>1
  <2>4. m - 1 \in Bounds
    BY <2>2, <2>3
  <2> QED BY <1>2, <1>3, <2>4
<1> QED BY <1>3, <1>4 DEF LastOf

LEMMA PositionsFinite ==
  ASSUME NEW n \in Nat, NEW S \in SUBSET (1 .. n)
  PROVE  IsFiniteSet(S) /\ Cardinality(S) \in 0 .. n
<1>1. IsFiniteSet(1 .. n) /\ Cardinality(1 .. n) = n
  BY FS_Interval
<1>2. IsFiniteSet(S) /\ Cardinality(S) <= n
  BY <1>1, FS_Subset
<1>3. Cardinality(S) \in Nat
  BY <1>2, FS_CardinalityType
<1> QED BY <1>2, <1>3

(* Ranks count from 1, and grow with the positions.                        *)
LEMMA RankIsPlace ==
  ASSUME NEW n \in Nat, NEW S \in SUBSET (1 .. n), NEW p \in S
  PROVE  /\ Rank(S, p) \in 1 .. Cardinality(S)
         /\ Rank(S, p) <= p
<1> DEFINE B == {q \in S : q <= p}
<1>0. \A q \in S : q \in Nat /\ 1 <= q /\ q <= n
  OBVIOUS
<1>1. B \in SUBSET S /\ B \in SUBSET (1 .. n) /\ B \in SUBSET (1 .. p) /\ p \in B
  <2>1. \A q \in B : q \in S /\ q \in 1 .. n /\ q \in 1 .. p
    BY <1>0
  <2>2. p \in B
    BY <1>0
  <2> QED BY <2>1, <2>2, Zenon
<1> HIDE DEF B
<1>2. IsFiniteSet(B) /\ IsFiniteSet(S) /\ Cardinality(B) \in Nat /\ Cardinality(S) \in Nat
  BY <1>1, PositionsFinite
<1>3. Cardinality(B) # 0
  BY <1>1, <1>2, FS_EmptySet
<1>4. Cardinality(B) <= Cardinality(S)
  BY <1>1, <1>2, FS_Subset
<1>5. Cardinality(B) <= p
  BY <1>0, <1>1, PositionsFinite
<1> USE DEF B
<1> QED BY <1>0, <1>2, <1>3, <1>4, <1>5 DEF Rank

LEMMA RankGrows ==
  ASSUME NEW n \in Nat, NEW S \in SUBSET (1 .. n), NEW p \in S, NEW q \in S, p < q
  PROVE  Rank(S, p) < Rank(S, q)
<1> DEFINE B == {r \in S : r <= p}
           C == {r \in S : r <= q}
<1>0. \A r \in S : r \in Nat /\ 1 <= r /\ r <= n
  OBVIOUS
<1>1. B \in SUBSET C /\ C \in SUBSET (1 .. n) /\ q \in C /\ q \notin B
  <2>1. (\A r \in B : r \in C) /\ (\A r \in C : r \in 1 .. n)
    BY <1>0
  <2>2. q \in C /\ q \notin B
    BY <1>0
  <2> QED BY <2>1, <2>2, Zenon
<1> HIDE DEF B, C
<1>2. IsFiniteSet(C)
  BY <1>1, PositionsFinite
<1>3. Cardinality(B) <= Cardinality(C) /\ Cardinality(B) # Cardinality(C)
  BY <1>1, <1>2, FS_Subset
<1>4. Cardinality(B) \in Nat /\ Cardinality(C) \in Nat
  <2>1. B \in SUBSET (1 .. n)
    BY <1>1
  <2> QED BY <1>1, <2>1, PositionsFinite
<1> USE DEF B, C
<1> QED BY <1>3, <1>4 DEF Rank

(* Every place of the order is taken: InOrder lists each position once, in *)
(* ascending order.                                                        *)
LEMMA InOrderLists ==
  ASSUME NEW n \in Nat, NEW S \in SUBSET (1 .. n)
  PROVE  /\ InOrder(S) \in [1 .. Cardinality(S) -> S]
         /\ \A k \in 1 .. Cardinality(S) : Rank(S, InOrder(S)[k]) = k
         /\ \A p \in S : InOrder(S)[Rank(S, p)] = p
<1> DEFINE c == Cardinality(S)
           rank == [p \in S |-> Rank(S, p)]
<1>1. c \in Nat /\ IsFiniteSet(S)
  BY PositionsFinite
<1>2. \A p, q \in S : Rank(S, p) = Rank(S, q) => p = q
  <2> SUFFICES ASSUME NEW p \in S, NEW q \in S, Rank(S, p) = Rank(S, q), p # q
               PROVE  FALSE
    OBVIOUS
  <2>1. p < q \/ q < p
    <3>1. \A r \in S : r \in Nat
      OBVIOUS
    <3> QED BY <3>1
  <2>2. Rank(S, p) \in 1 .. c /\ Rank(S, q) \in 1 .. c
    BY RankIsPlace
  <2>3. Rank(S, p) < Rank(S, q) \/ Rank(S, q) < Rank(S, p)
    BY <2>1, RankGrows
  <2> QED BY <1>1, <2>2, <2>3
<1>3. \A k \in 1 .. c : \E p \in S : Rank(S, p) = k
  <2>1. rank \in Injection(S, 1 .. c)
    BY <1>2, RankIsPlace DEF Injection, IsInjective
  <2>2. IsFiniteSet(1 .. c) /\ Cardinality(1 .. c) = c
    BY <1>1, FS_Interval
  <2>3. rank \in Surjection(S, 1 .. c)
    BY <1>1, <2>1, <2>2, FS_Injection
  <2> QED BY <2>3 DEF Surjection
<1>4. ASSUME NEW k \in 1 .. c
      PROVE  InOrder(S)[k] \in S /\ Rank(S, InOrder(S)[k]) = k
  BY <1>3 DEF InOrder
<1>5. ASSUME NEW p \in S
      PROVE  InOrder(S)[Rank(S, p)] = p
  <2>1. Rank(S, p) \in 1 .. c
    BY RankIsPlace
  <2> QED BY <1>2, <1>4, <2>1
<1>6. InOrder(S) = [k \in 1 .. c |-> InOrder(S)[k]]
  BY DEF InOrder
<1> QED BY <1>4, <1>5, <1>6

(* The places of the order ascend, and nothing else lists the positions in *)
(* ascending order.                                                        *)
LEMMA InOrderAscends ==
  ASSUME NEW n \in Nat, NEW S \in SUBSET (1 .. n),
         NEW j \in 1 .. Cardinality(S), NEW k \in 1 .. Cardinality(S), j < k
  PROVE  InOrder(S)[j] < InOrder(S)[k]
<1> DEFINE p == InOrder(S)[j]
           q == InOrder(S)[k]
<1>1. p \in S /\ q \in S /\ Rank(S, p) = j /\ Rank(S, q) = k
  BY InOrderLists
<1> HIDE DEF p, q
<1>2. p \in Nat /\ q \in Nat /\ j \in Nat /\ k \in Nat
  BY <1>1, PositionsFinite
<1>3. p # q
  BY <1>1, <1>2
<1>4. ~(q < p)
  BY <1>1, <1>2, RankGrows
<1>5. p < q
  BY <1>2, <1>3, <1>4
<1> QED BY <1>5 DEF p, q

LEMMA Ascending ==
  ASSUME NEW n \in Nat, NEW S \in SUBSET (1 .. n), NEW c \in Nat, NEW f \in [1 .. c -> S],
         \A j, k \in 1 .. c : j < k => f[j] < f[k],
         \A p \in S : \E k \in 1 .. c : f[k] = p
  PROVE  Cardinality(S) = c /\ InOrder(S) = f
<1>0. \A p \in S : p \in Nat
  OBVIOUS
<1>1. ASSUME NEW k \in 1 .. c PROVE k \in Nat /\ f[k] \in S /\ f[k] \in Nat
  <2>1. f[k] \in S
    OBVIOUS
  <2>2. k \in Nat
    OBVIOUS
  <2> QED BY <1>0, <2>1, <2>2, Zenon
<1>2. \A j, k \in 1 .. c : f[j] = f[k] => j = k
  <2> SUFFICES ASSUME NEW j \in 1 .. c, NEW k \in 1 .. c, f[j] = f[k], j # k PROVE FALSE
    OBVIOUS
  <2>1. j < k \/ k < j
    BY <1>1
  <2>2. f[j] < f[k] \/ f[k] < f[j]
    BY <2>1
  <2> QED BY <1>1, <2>2
<1>3. Cardinality(S) = c
  <2>1. f \in Injection(1 .. c, S) /\ f \in Surjection(1 .. c, S)
    BY <1>2 DEF Injection, Surjection, IsInjective
  <2>2. IsFiniteSet(1 .. c) /\ Cardinality(1 .. c) = c
    BY FS_Interval
  <2> QED BY <2>1, <2>2, FS_Surjection
<1>4. ASSUME NEW k \in 1 .. c PROVE Rank(S, f[k]) = k
  <2> DEFINE B == {q \in S : q <= f[k]}
             g == [j \in 1 .. k |-> f[j]]
  <2>1. \A j \in 1 .. k : j \in 1 .. c /\ f[j] \in S /\ f[j] <= f[k]
    <3> SUFFICES ASSUME NEW j \in 1 .. k PROVE j \in 1 .. c /\ f[j] \in S /\ f[j] <= f[k]
      OBVIOUS
    <3>1. j \in 1 .. c /\ (j < k \/ j = k)
      BY <1>1
    <3>2. f[j] < f[k] \/ f[j] = f[k]
      BY <3>1
    <3> QED BY <1>1, <3>1, <3>2
  <2>2. \A q \in B : \E j \in 1 .. k : f[j] = q
    <3> SUFFICES ASSUME NEW q \in S, q <= f[k] PROVE \E j \in 1 .. k : f[j] = q
      OBVIOUS
    <3>1. PICK j \in 1 .. c : f[j] = q
      OBVIOUS
    <3>2. ~(f[k] < f[j])
      BY <1>0, <1>1, <3>1
    <3>3. ~(k < j)
      BY <3>2
    <3>4. j \in 1 .. k
      BY <1>1, <3>3
    <3> QED BY <3>1, <3>4
  <2>3. g \in Injection(1 .. k, B) /\ g \in Surjection(1 .. k, B)
    <3>1. g \in [1 .. k -> B]
      BY <2>1
    <3>2. \A i, j \in 1 .. k : g[i] = g[j] => i = j
      BY <1>2, <2>1
    <3>3. \A q \in B : \E j \in 1 .. k : g[j] = q
      BY <2>2
    <3> HIDE DEF g, B
    <3> QED BY <3>1, <3>2, <3>3 DEF Injection, Surjection, IsInjective
  <2>4. k \in Nat /\ IsFiniteSet(1 .. k) /\ Cardinality(1 .. k) = k
    BY <1>1, FS_Interval
  <2>5. Cardinality(B) = k
    BY <2>3, <2>4, FS_Surjection
  <2> QED BY <2>5 DEF Rank
<1>5. InOrder(S) \in [1 .. c -> S] /\ \A k \in 1 .. c : InOrder(S)[k] = f[k]
  BY <1>1, <1>3, <1>4, InOrderLists
<1> QED BY <1>3, <1>5

-----------------------------------------------------------------------------
(* The array *)

(* Compaction only moves records.                                          *)
LEMMA CompactType ==
  ASSUME NEW n \in Nat, NEW ids, NEW a \in [1 .. n -> RecordValues(ids)]
  PROVE  Compact(a) \in [1 .. n -> RecordValues(ids)]
<1> DEFINE kept == InOrder(Used(a))
<1>1. Used(a) \in SUBSET (1 .. n)
  BY DEF Used
<1>2. kept \in [1 .. Cardinality(Used(a)) -> Used(a)]
  BY <1>1, InOrderLists
<1>3. NoRecord \in RecordValues(ids)
  BY DEF RecordValues
<1> HIDE DEF kept
<1>4. Compact(a) = [p \in 1 .. n |-> IF p \in DOMAIN kept THEN a[kept[p]] ELSE NoRecord]
  BY DEF Compact, kept
<1> QED BY <1>1, <1>2, <1>3, <1>4

(* compactRecords moves the records in use to the front, in their order.   *)
LEMMA CompactMoves ==
  ASSUME NEW n \in Nat, NEW a, DOMAIN a = 1 .. n
  PROVE  LET kept == InOrder(Used(a))
             c == Cardinality(Used(a))
             b == Compact(a)
         IN  /\ Used(a) \in SUBSET (1 .. n) /\ c \in 0 .. n
             /\ kept \in [1 .. c -> Used(a)]
             /\ DOMAIN b = 1 .. n
             /\ \A p \in 1 .. c : b[p] = a[kept[p]]
             /\ \A p \in 1 .. n : c < p => b[p] = NoRecord
             /\ Used(b) = 1 .. c
<1> DEFINE kept == InOrder(Used(a))
           c == Cardinality(Used(a))
           b == Compact(a)
<1>1. Used(a) \in SUBSET (1 .. n)
  BY DEF Used
<1>2. kept \in [1 .. c -> Used(a)] /\ c \in 0 .. n
  BY <1>1, InOrderLists, PositionsFinite
<1>3. b = [p \in 1 .. n |-> IF p \in DOMAIN kept THEN a[kept[p]] ELSE NoRecord]
  BY DEF Compact
<1> HIDE DEF kept, b, c
<1>4. DOMAIN b = 1 .. n /\ (\A p \in 1 .. c : b[p] = a[kept[p]])
      /\ \A p \in 1 .. n : c < p => b[p] = NoRecord
  BY <1>2, <1>3
<1>5. Used(b) = 1 .. c
  <2>1. \A p \in 1 .. c : b[p].id # NoId
    BY <1>2, <1>4 DEF Used
  <2>2. \A p \in 1 .. n : c < p => b[p].id = NoId
    BY <1>4 DEF NoRecord
  <2>3. \A p \in 1 .. n : b[p].id # NoId <=> p \in 1 .. c
    BY <1>2, <2>1, <2>2
  <2> QED BY <1>2, <1>4, <2>3 DEF Used
<1> QED BY <1>1, <1>2, <1>4, <1>5 DEF kept, b, c

(* addRecord stores behind every other record, and refuses a new packet    *)
(* for want of room only when there is none.                               *)
LEMMA AddRecordStores ==
  ASSUME NEW n \in Nat \ {0}, NEW a, DOMAIN a = 1 .. n, NEW r
  PROVE  \E b \in {a, Compact(a)} :
           LET result == AddRecord(a, r)
           IN  \/ /\ result = [status |-> "StateCollision", records |-> b]
                  /\ PositionsOf(b, r.id) # {}
               \/ /\ result = [status |-> "NoMemory", records |-> b]
                  /\ PositionsOf(b, r.id) = {} /\ Used(a) = 1 .. n
               \/ /\ PositionsOf(b, r.id) = {}
                  /\ \E place \in 1 .. n :
                       /\ result = [status |-> "Success", records |-> [b EXCEPT ![place] = r]]
                       /\ \A q \in Used(b) : q < place
<1> DEFINE c == Cardinality(Used(a))
           b == IF LastOf(DOMAIN a) \in Used(a) THEN Compact(a) ELSE a
           place == IF Used(b) = {} THEN 1 ELSE LastOf(Used(b)) + 1
<1>1. LastOf(DOMAIN a) = n
  <2>1. LastOf(1 .. n) \in 1 .. n /\ \A q \in 1 .. n : q <= LastOf(1 .. n)
    <3>1. 1 .. n \in SUBSET (1 .. n) /\ n \in 1 .. n
      OBVIOUS
    <3> QED BY <3>1, LastIsMember
  <2> QED BY <2>1
<1>2. Used(a) \in SUBSET (1 .. n) /\ c \in 0 .. n /\ Used(Compact(a)) = 1 .. c
      /\ DOMAIN Compact(a) = 1 .. n
  BY CompactMoves
<1>3. b \in {a, Compact(a)} /\ DOMAIN b = 1 .. n /\ Used(b) \in SUBSET (1 .. n)
  BY <1>2 DEF Used
<1>4. place \in Nat \ {0} /\ \A q \in Used(b) : q < place
  <2>1. CASE Used(b) = {}
    BY <2>1
  <2>2. CASE Used(b) # {}
    <3>1. LastOf(Used(b)) \in Used(b) /\ \A q \in Used(b) : q <= LastOf(Used(b))
      BY <1>3, <2>2, LastIsMember
    <3>2. \A q \in Used(b) : q \in 1 .. n
      BY <1>3
    <3> HIDE DEF b
    <3> QED BY <2>2, <3>1, <3>2
  <2> QED BY <2>1, <2>2
<1>5. place \notin 1 .. n => Used(a) = 1 .. n
  <2> SUFFICES ASSUME place \notin 1 .. n PROVE Used(a) = 1 .. n
    OBVIOUS
  <2>1. Used(b) # {} /\ place = LastOf(Used(b)) + 1
    OBVIOUS
  <2>2. LastOf(Used(b)) \in Used(b)
    BY <1>3, <2>1, LastIsMember
  <2>3. LastOf(Used(b)) = n
    <3>1. LastOf(Used(b)) \in 1 .. n
      BY <1>3, <2>2
    <3> QED BY <2>1, <3>1
  <2>4. n \in Used(b)
    BY <2>2, <2>3
  <2>5. b = Compact(a)
    BY <1>1, <2>4
  <2>6. c = n
    <3>1. n \in 1 .. c
      BY <1>2, <2>4, <2>5
    <3> QED BY <1>2, <3>1
  <2>7. IsFiniteSet(1 .. n) /\ Cardinality(1 .. n) = n
    BY FS_Interval
  <2> QED BY <1>2, <2>6, <2>7, FS_Subset
<1>6. AddRecord(a, r) =
        IF PositionsOf(b, r.id) # {} THEN [status |-> "StateCollision", records |-> b]
        ELSE IF place \notin DOMAIN b THEN [status |-> "NoMemory", records |-> b]
        ELSE [status |-> "Success", records |-> [b EXCEPT ![place] = r]]
  BY DEF AddRecord
<1> HIDE DEF b, place
<1> QED BY <1>3, <1>4, <1>5, <1>6

(* addRecord keeps the array, whether it stores the record or not.         *)
LEMMA AddRecordType ==
  ASSUME NEW n \in Nat, NEW ids, NEW a \in [1 .. n -> RecordValues(ids)], NEW r \in RecordValues(ids)
  PROVE  AddRecord(a, r).records \in [1 .. n -> RecordValues(ids)]
<1> DEFINE b == IF LastOf(DOMAIN a) \in Used(a) THEN Compact(a) ELSE a
           place == IF Used(b) = {} THEN 1 ELSE LastOf(Used(b)) + 1
<1>1. b \in [1 .. n -> RecordValues(ids)]
  BY CompactType
<1>2. AddRecord(a, r).records \in {b, [b EXCEPT ![place] = r]}
  BY DEF AddRecord
<1> HIDE DEF b, place
<1>3. [b EXCEPT ![place] = r] \in [1 .. n -> RecordValues(ids)]
  BY <1>1
<1> QED BY <1>1, <1>2, <1>3

(* A record in use keeps its identifier and QoS when its state changes.    *)
LEMMA NewStateType ==
  ASSUME NEW n \in Nat, NEW ids, NEW a \in [1 .. n -> RecordValues(ids)], NEW p,
         NEW new \in SendStates \cup RelStates \cup ReceiveStates,
         p \in 1 .. n => a[p].state # "Null"
  PROVE  [a EXCEPT ![p].state = new] \in [1 .. n -> RecordValues(ids)]
<1>1. CASE p \in 1 .. n
  <2>1. a[p] \in [id : ids, qos : {1, 2}, state : SendStates \cup RelStates \cup ReceiveStates]
    BY <1>1 DEF RecordValues, NoRecord
  <2>2. [a[p] EXCEPT !.state = new] \in RecordValues(ids)
    BY <2>1 DEF RecordValues
  <2> QED BY <1>1, <2>2
<1>2. CASE p \notin 1 .. n
  <2>1. [a EXCEPT ![p].state = new] = a
    BY <1>2
  <2> QED BY <2>1
<1> QED BY <1>1, <1>2

(* MQTT_UpdateStatePublish.                                                *)
LEMMA UpdateSentType ==
  ASSUME NEW n \in Nat, NEW ids, NEW a \in [1 .. n -> RecordValues(ids)], NEW i, NEW qos \in {1, 2}
  PROVE  UpdateStateSent(a, i, qos).records \in [1 .. n -> RecordValues(ids)]
<1> DEFINE p == FirstOf(PositionsOf(a, i))
           new == CalculateStatePublish("SEND", qos)
<1>1. CASE <<a[p].state, new>> \in PublishTransitions(qos)
  <2>1. new \in SendStates /\ a[p].state # "Null"
    BY <1>1 DEF CalculateStatePublish, PublishTransitions, SendStates
  <2>2. [a EXCEPT ![p].state = new] \in [1 .. n -> RecordValues(ids)]
    BY <2>1, NewStateType
  <2>3. UpdateStateSent(a, i, qos).records \in {a, [a EXCEPT ![p].state = new]}
    BY DEF UpdateStateSent
  <2> QED BY <2>2, <2>3
<1>2. CASE <<a[p].state, new>> \notin PublishTransitions(qos)
  <2>1. UpdateStateSent(a, i, qos).records = a
    BY <1>2 DEF UpdateStateSent
  <2> QED BY <2>1
<1> QED BY <1>1, <1>2

(* MQTT_UpdateStateAck.                                                    *)
LEMMA UpdateAckType ==
  ASSUME NEW n \in Nat, NEW ids, NEW a \in [1 .. n -> RecordValues(ids)], NEW i \in ids,
         NEW ack, NEW op
  PROVE  UpdateStateAck(a, i, ack, op).records \in [1 .. n -> RecordValues(ids)]
<1> DEFINE p == FirstOf(PositionsOf(a, i))
           new == CalculateStateAck(ack, op, a[p].qos)
           deleted == [a EXCEPT ![p] = NoRecord]
           moved == AddRecord(deleted, Record(i, 2, "PubRelSend")).records
           changed == [a EXCEPT ![p].state = new]
<1>1. CASE <<a[p].state, new>> \notin AckTransitions
  <2>1. UpdateStateAck(a, i, ack, op).records = a
    BY <1>1 DEF UpdateStateAck
  <2> QED BY <2>1
<1>2. CASE <<a[p].state, new>> \in AckTransitions /\ new = "PublishDone"
  <2>1. UpdateStateAck(a, i, ack, op).records \in {a, deleted}
    BY <1>2 DEF UpdateStateAck
  <2>2. deleted \in [1 .. n -> RecordValues(ids)]
    BY DEF RecordValues
  <2> QED BY <2>1, <2>2
<1>3. CASE <<a[p].state, new>> \in AckTransitions /\ new # "PublishDone"
  <2>1. UpdateStateAck(a, i, ack, op).records \in {a, moved, changed}
    BY <1>3 DEF UpdateStateAck
  <2>2. moved \in [1 .. n -> RecordValues(ids)]
    <3>1. Record(i, 2, "PubRelSend") \in RecordValues(ids)
      BY DEF Record, RecordValues, RelStates
    <3>2. deleted \in [1 .. n -> RecordValues(ids)]
      BY DEF RecordValues
    <3> QED BY <3>1, <3>2, AddRecordType
  <2>3. changed \in [1 .. n -> RecordValues(ids)]
    <3>1. a[p].state # "Null" /\ new \in SendStates \cup RelStates \cup ReceiveStates
      BY <1>3 DEF AckTransitions, RelStates, ReceiveStates
    <3> HIDE DEF new, p
    <3> QED BY <3>1, NewStateType
  <2> QED BY <2>1, <2>2, <2>3
<1> QED BY <1>1, <1>2, <1>3

-----------------------------------------------------------------------------
(* The records of an array, whatever their places                          *)

RecordsIn(a) == {a[p] : p \in Used(a)}

(* Each packet has one record.                                             *)
SoundArray(a, n, ids) ==
  /\ a \in [1 .. n -> RecordValues(ids)]
  /\ \A p, q \in Used(a) : a[p].id = a[q].id => p = q

LEMMA SoundRecords ==
  ASSUME NEW n \in Nat, NEW ids, NoId \notin ids, NEW a, SoundArray(a, n, ids)
  PROVE  /\ a \in [1 .. n -> RecordValues(ids)]
         /\ DOMAIN a = 1 .. n /\ Used(a) \in SUBSET (1 .. n)
         /\ \A p \in 1 .. n : p \notin Used(a) => a[p] = NoRecord
         /\ \A p \in Used(a) : /\ a[p].id \in ids /\ a[p].qos \in {1, 2} /\ a[p].state # "Null"
                               /\ a[p] = Record(a[p].id, a[p].qos, a[p].state)
                               /\ a[p].state \in SendStates \cup RelStates \cup ReceiveStates
         /\ \A r, s \in RecordsIn(a) : r.id = s.id => r = s
<1>1. a \in [1 .. n -> RecordValues(ids)] /\ DOMAIN a = 1 .. n
  BY DEF SoundArray
<1>2. Used(a) \in SUBSET (1 .. n)
  BY <1>1 DEF Used
<1>3. \A p \in 1 .. n : p \notin Used(a) => a[p] = NoRecord
  BY <1>1 DEF Used, RecordValues
<1>4. ASSUME NEW p \in Used(a)
      PROVE  a[p] \in [id : ids, qos : {1, 2}, state : SendStates \cup RelStates \cup ReceiveStates]
  BY <1>1, <1>2 DEF Used, RecordValues, NoRecord
<1>5. ASSUME NEW p \in Used(a)
      PROVE  /\ a[p].id \in ids /\ a[p].qos \in {1, 2} /\ a[p].state # "Null"
             /\ a[p] = Record(a[p].id, a[p].qos, a[p].state)
             /\ a[p].state \in SendStates \cup RelStates \cup ReceiveStates
  <2>1. a[p].state \in SendStates \cup RelStates \cup ReceiveStates => a[p].state # "Null"
    BY DEF SendStates, RelStates, ReceiveStates
  <2> QED BY <1>4, <2>1 DEF Record
<1>6. \A r, s \in RecordsIn(a) : r.id = s.id => r = s
  BY DEF SoundArray, RecordsIn
<1> QED BY <1>1, <1>2, <1>3, <1>5, <1>6

(* The one place of a packet that has a record.                            *)
LEMMA OnePlace ==
  ASSUME NEW n \in Nat, NEW ids, NoId \notin ids, NEW a, SoundArray(a, n, ids),
         NEW p \in Used(a), NEW i, a[p].id = i
  PROVE  PositionsOf(a, i) = {p} /\ FirstOf(PositionsOf(a, i)) = p
<1>1. DOMAIN a = 1 .. n /\ p \in 1 .. n /\ i # NoId
  BY SoundRecords DEF Used
<1>2. \A q \in DOMAIN a : a[q].id = i => q = p
  BY <1>1 DEF SoundArray, Used
<1>3. PositionsOf(a, i) = {p}
  BY <1>1, <1>2 DEF PositionsOf
<1>4. FirstOf({p}) = p
  BY <1>1 DEF FirstOf
<1> QED BY <1>3, <1>4

LEMMA NoPlace ==
  ASSUME NEW n \in Nat, NEW ids, NoId \notin ids, NEW a, SoundArray(a, n, ids),
         NEW i \in ids
  PROVE  PositionsOf(a, i) = {} <=> \A r \in RecordsIn(a) : r.id # i
<1>1. i # NoId
  OBVIOUS
<1> QED BY <1>1 DEF PositionsOf, RecordsIn, Used

Put(a, p, r) == [a EXCEPT ![p] = r]

(* A record is written over another of the same packet, or erased, or put  *)
(* where there was none.                                                   *)
LEMMA ReplaceRecord ==
  ASSUME NEW n \in Nat, NEW ids, NoId \notin ids, NEW a, SoundArray(a, n, ids),
         NEW p \in Used(a), NEW r \in RecordValues(ids), r.id = a[p].id
  PROVE  /\ SoundArray(Put(a, p, r), n, ids)
         /\ RecordsIn(Put(a, p, r)) = (RecordsIn(a) \ {a[p]}) \cup {r}
         /\ \A q \in 1 .. n : Put(a, p, r)[q].id = a[q].id
<1> DEFINE b == Put(a, p, r)
<1>1. /\ a \in [1 .. n -> RecordValues(ids)] /\ p \in 1 .. n
      /\ \A q, s \in Used(a) : a[q].id = a[s].id => q = s
  BY SoundRecords DEF SoundArray
<1>2. /\ b \in [1 .. n -> RecordValues(ids)] /\ b[p] = r
      /\ \A q \in 1 .. n \ {p} : b[q] = a[q]
  BY <1>1 DEF Put
<1> HIDE DEF b
<1>3. \A q \in 1 .. n : b[q].id = a[q].id
  BY <1>2
<1>4. Used(b) = Used(a)
  BY <1>1, <1>2, <1>3 DEF Used
<1>5. \A q \in Used(a) : q \in 1 .. n
  BY <1>1 DEF Used
<1>6. SoundArray(b, n, ids)
  <2>1. \A q, s \in Used(b) : b[q].id = b[s].id => q = s
    BY <1>1, <1>3, <1>4, <1>5
  <2> QED BY <1>2, <2>1 DEF SoundArray
<1>7. \A q \in Used(a) : a[q] = a[p] => q = p
  BY <1>1
<1>8. RecordsIn(b) = (RecordsIn(a) \ {a[p]}) \cup {r}
  BY <1>2, <1>4, <1>5, <1>7 DEF RecordsIn
<1> QED BY <1>3, <1>6, <1>8 DEF b

LEMMA EraseRecord ==
  ASSUME NEW n \in Nat, NEW ids, NoId \notin ids, NEW a, SoundArray(a, n, ids),
         NEW p \in Used(a)
  PROVE  /\ SoundArray(Put(a, p, NoRecord), n, ids)
         /\ RecordsIn(Put(a, p, NoRecord)) = RecordsIn(a) \ {a[p]}
         /\ p \in 1 .. n /\ p \notin Used(Put(a, p, NoRecord))
         /\ PositionsOf(Put(a, p, NoRecord), a[p].id) = {}
<1> DEFINE b == Put(a, p, NoRecord)
<1>1. /\ a \in [1 .. n -> RecordValues(ids)] /\ p \in 1 .. n /\ a[p].id # NoId
      /\ \A q, s \in Used(a) : a[q].id = a[s].id => q = s
  BY SoundRecords DEF SoundArray, Used
<1>2. NoRecord \in RecordValues(ids) /\ NoRecord.id = NoId
  BY DEF RecordValues, NoRecord
<1>3. /\ b \in [1 .. n -> RecordValues(ids)] /\ b[p] = NoRecord
      /\ \A q \in 1 .. n \ {p} : b[q] = a[q]
  BY <1>1, <1>2 DEF Put
<1> HIDE DEF b
<1>4. Used(b) = Used(a) \ {p}
  BY <1>1, <1>2, <1>3 DEF Used
<1>5. \A q \in Used(a) : q \in 1 .. n
  BY <1>1 DEF Used
<1>6. SoundArray(b, n, ids)
  BY <1>1, <1>3, <1>4, <1>5 DEF SoundArray
<1>7. \A q \in Used(a) : a[q] = a[p] => q = p
  BY <1>1
<1>8. RecordsIn(b) = RecordsIn(a) \ {a[p]}
  <2>1. \A q \in Used(b) : b[q] \in RecordsIn(a) \ {a[p]}
    BY <1>3, <1>4, <1>5, <1>7 DEF RecordsIn
  <2>2. \A r \in RecordsIn(a) \ {a[p]} : r \in RecordsIn(b)
    BY <1>3, <1>4, <1>5, <1>7 DEF RecordsIn
  <2> QED BY <2>1, <2>2 DEF RecordsIn
<1>9. \A q \in 1 .. n : b[q].id # a[p].id
  <2> SUFFICES ASSUME NEW q \in 1 .. n, b[q].id = a[p].id PROVE FALSE
    OBVIOUS
  <2>1. q # p
    BY <1>1, <1>2, <1>3
  <2>2. a[q].id = a[p].id /\ q \in Used(a)
    BY <1>1, <1>3, <2>1 DEF Used
  <2> QED BY <1>1, <2>1, <2>2
<1>10. PositionsOf(b, a[p].id) = {}
  BY <1>3, <1>9 DEF PositionsOf
<1> QED BY <1>1, <1>4, <1>6, <1>8, <1>10 DEF b

LEMMA StoreRecord ==
  ASSUME NEW n \in Nat, NEW ids, NoId \notin ids, NEW a, SoundArray(a, n, ids),
         NEW p \in 1 .. n, p \notin Used(a), NEW r \in RecordValues(ids), r.id \in ids,
         PositionsOf(a, r.id) = {}
  PROVE  SoundArray(Put(a, p, r), n, ids) /\ RecordsIn(Put(a, p, r)) = RecordsIn(a) \cup {r}
<1> DEFINE b == Put(a, p, r)
<1>1. /\ a \in [1 .. n -> RecordValues(ids)] /\ r.id # NoId
      /\ \A q, s \in Used(a) : a[q].id = a[s].id => q = s
  BY SoundRecords DEF SoundArray
<1>2. /\ b \in [1 .. n -> RecordValues(ids)] /\ b[p] = r
      /\ \A q \in 1 .. n \ {p} : b[q] = a[q]
  BY <1>1 DEF Put
<1> HIDE DEF b
<1>3. Used(b) = Used(a) \cup {p}
  BY <1>1, <1>2 DEF Used
<1>4. \A q \in Used(a) : q \in 1 .. n /\ q # p /\ a[q].id # r.id
  BY <1>1 DEF Used, PositionsOf
<1>5. SoundArray(b, n, ids)
  BY <1>1, <1>2, <1>3, <1>4 DEF SoundArray
<1>6. RecordsIn(b) = RecordsIn(a) \cup {r}
  <2>1. \A q \in Used(b) : b[q] \in RecordsIn(a) \cup {r}
    BY <1>2, <1>3, <1>4 DEF RecordsIn
  <2>2. \A q \in Used(a) : a[q] \in RecordsIn(b)
    BY <1>2, <1>3, <1>4 DEF RecordsIn
  <2>3. r \in RecordsIn(b)
    BY <1>2, <1>3 DEF RecordsIn
  <2> QED BY <2>1, <2>2, <2>3 DEF RecordsIn
<1> QED BY <1>5, <1>6 DEF b

(* Compaction keeps the records.                                           *)
LEMMA CompactRecords ==
  ASSUME NEW n \in Nat, NEW ids, NoId \notin ids, NEW a, SoundArray(a, n, ids)
  PROVE  SoundArray(Compact(a), n, ids) /\ RecordsIn(Compact(a)) = RecordsIn(a)
<1> DEFINE b == Compact(a)
           kept == InOrder(Used(a))
           c == Cardinality(Used(a))
<1>1. a \in [1 .. n -> RecordValues(ids)] /\ DOMAIN a = 1 .. n
  BY DEF SoundArray
<1>2. /\ Used(a) \in SUBSET (1 .. n) /\ c \in 0 .. n
      /\ kept \in [1 .. c -> Used(a)]
      /\ \A p \in 1 .. c : b[p] = a[kept[p]]
      /\ Used(b) = 1 .. c
  BY <1>1, CompactMoves
<1>3. b \in [1 .. n -> RecordValues(ids)]
  BY <1>1, CompactType
<1>4. ASSUME NEW p \in 1 .. c, NEW q \in 1 .. c, b[p].id = b[q].id
      PROVE  p = q
  <2>1. kept[p] = kept[q]
    BY <1>2, <1>4 DEF SoundArray
  <2>2. Rank(Used(a), kept[p]) = p /\ Rank(Used(a), kept[q]) = q
    BY <1>2, InOrderLists
  <2> QED BY <2>1, <2>2
<1>5. \A p \in Used(a) : \E k \in 1 .. c : kept[k] = p
  BY <1>2, RankIsPlace, InOrderLists
<1> HIDE DEF b, kept, c
<1>6. RecordsIn(b) = RecordsIn(a)
  <2>1. \A p \in Used(b) : b[p] \in RecordsIn(a)
    BY <1>2 DEF RecordsIn
  <2>2. ASSUME NEW p \in Used(a) PROVE a[p] \in RecordsIn(b)
    <3>1. PICK k \in 1 .. c : kept[k] = p
      BY <1>5
    <3>2. b[k] = a[p] /\ k \in Used(b)
      BY <1>2, <3>1
    <3> QED BY <3>2 DEF RecordsIn
  <2> QED BY <2>1, <2>2 DEF RecordsIn
<1> QED BY <1>2, <1>3, <1>4, <1>6 DEF SoundArray, b

(* addRecord adds a record, or only compacts, and says which.              *)
LEMMA AddRecords ==
  ASSUME NEW n \in Nat \ {0}, NEW ids, NoId \notin ids, NEW a, SoundArray(a, n, ids),
         NEW r \in RecordValues(ids), r.id \in ids,
         NEW result, result = AddRecord(a, r)
  PROVE  /\ SoundArray(result.records, n, ids)
         /\ \/ /\ result.status = "Success"
               /\ \A s \in RecordsIn(a) : s.id # r.id
               /\ RecordsIn(result.records) = RecordsIn(a) \cup {r}
            \/ /\ result.status # "Success"
               /\ (\E s \in RecordsIn(a) : s.id = r.id) \/ Used(a) = 1 .. n
               /\ RecordsIn(result.records) = RecordsIn(a)
         /\ (\E s \in RecordsIn(a) : s.id = r.id) => result.records \in {a, Compact(a)}
         /\ (\E s \in RecordsIn(a) : s.id = r.id) <=> result.status = "StateCollision"
         /\ result.status \in {"Success", "StateCollision", "NoMemory"}
<1>1. a \in [1 .. n -> RecordValues(ids)] /\ DOMAIN a = 1 .. n
  BY DEF SoundArray
<1>2. PICK b \in {a, Compact(a)} :
        \/ /\ result = [status |-> "StateCollision", records |-> b]
           /\ PositionsOf(b, r.id) # {}
        \/ /\ result = [status |-> "NoMemory", records |-> b]
           /\ PositionsOf(b, r.id) = {} /\ Used(a) = 1 .. n
        \/ /\ PositionsOf(b, r.id) = {}
           /\ \E place \in 1 .. n :
                /\ result = [status |-> "Success", records |-> [b EXCEPT ![place] = r]]
                /\ \A q \in Used(b) : q < place
  BY <1>1, AddRecordStores
<1>3. SoundArray(b, n, ids) /\ RecordsIn(b) = RecordsIn(a)
  BY CompactRecords
<1>4. PositionsOf(b, r.id) = {} <=> \A s \in RecordsIn(a) : s.id # r.id
  BY <1>3, NoPlace
<1>5. CASE /\ result.records = b
           /\ \/ result.status = "StateCollision" /\ PositionsOf(b, r.id) # {}
              \/ result.status = "NoMemory" /\ PositionsOf(b, r.id) = {} /\ Used(a) = 1 .. n
  BY <1>3, <1>4, <1>5
<1>6. ASSUME PositionsOf(b, r.id) = {}, NEW place \in 1 .. n,
             result = [status |-> "Success", records |-> [b EXCEPT ![place] = r]],
             \A q \in Used(b) : q < place
      PROVE  /\ SoundArray(result.records, n, ids) /\ result.status = "Success"
             /\ RecordsIn(result.records) = RecordsIn(a) \cup {r}
  <2>1. place \notin Used(b)
    <3>1. ~ place < place
      OBVIOUS
    <3> QED BY <1>6, <3>1
  <2>2. result.records = Put(b, place, r) /\ result.status = "Success"
    BY <1>6 DEF Put
  <2>3. SoundArray(Put(b, place, r), n, ids) /\ RecordsIn(Put(b, place, r)) = RecordsIn(b) \cup {r}
    BY <1>3, <1>6, <2>1, StoreRecord
  <2> QED BY <1>3, <2>2, <2>3
<1> QED BY <1>2, <1>4, <1>5, <1>6

(* MQTT_UpdateStatePublish of a packet that has a record of that QoS and   *)
(* was not acknowledged.                                                   *)
LEMMA SentRecords ==
  ASSUME NEW n \in Nat, NEW ids, NoId \notin ids, NEW a, SoundArray(a, n, ids),
         NEW r \in RecordsIn(a), NEW new, new = CalculateStatePublish("SEND", r.qos),
         r.state \in {"PublishSend", new},
         NEW b, b = UpdateStateSent(a, r.id, r.qos).records
  PROVE  /\ SoundArray(b, n, ids)
         /\ RecordsIn(b) = (RecordsIn(a) \ {r}) \cup {Record(r.id, r.qos, new)}
         /\ \A q \in 1 .. n : b[q].id = a[q].id
<1>1. PICK p \in Used(a) : a[p] = r
  BY DEF RecordsIn
<1>2. /\ a \in [1 .. n -> RecordValues(ids)] /\ p \in 1 .. n
      /\ r.id \in ids /\ r.qos \in {1, 2} /\ r = Record(r.id, r.qos, r.state)
  BY <1>1, SoundRecords
<1>3. FirstOf(PositionsOf(a, r.id)) = p /\ PositionsOf(a, r.id) # {}
  BY <1>1, OnePlace
<1>4. <<a[p].state, new>> \in PublishTransitions(r.qos)
  BY <1>1, <1>2 DEF PublishTransitions, CalculateStatePublish
<1>5. b = [a EXCEPT ![p].state = new]
  BY <1>1, <1>3, <1>4 DEF UpdateStateSent
<1>6. [r EXCEPT !.state = new] = Record(r.id, r.qos, new)
  BY <1>2 DEF Record
<1>7. b = Put(a, p, Record(r.id, r.qos, new))
  <2>1. b = [a EXCEPT ![p] = [r EXCEPT !.state = new]]
    BY <1>1, <1>2, <1>5
  <2> QED BY <1>6, <2>1 DEF Put
<1>8. Record(r.id, r.qos, new) \in RecordValues(ids) /\ Record(r.id, r.qos, new).id = r.id
  BY <1>2 DEF Record, RecordValues, CalculateStatePublish, SendStates
<1> QED BY <1>1, <1>7, <1>8, ReplaceRecord

Follows(r, new) == <<r.state, new>> \in AckTransitions
AfterAck(a, r, new) ==
  (RecordsIn(a) \ {r}) \cup (IF new = "PublishDone" THEN {} ELSE {Record(r.id, r.qos, new)})

(* MQTT_UpdateStateAck: a packet that may not follow changes nothing; the  *)
(* last one erases the record, a PUBREC stores it again, and a PUBREL      *)
(* changes its state.                                                      *)
LEMMA AckRecords ==
  ASSUME NEW n \in Nat \ {0}, NEW ids, NoId \notin ids, NEW a, SoundArray(a, n, ids),
         NEW r \in RecordsIn(a), NEW ack, NEW op,
         NEW new, new = CalculateStateAck(ack, op, r.qos),
         NEW result, result = UpdateStateAck(a, r.id, ack, op)
  PROVE  /\ SoundArray(result.records, n, ids)
         /\ \/ /\ ~Follows(r, new)
               /\ result.status # "Success" /\ result.records = a
            \/ /\ Follows(r, new)
               /\ result.status = "Success" /\ RecordsIn(result.records) = AfterAck(a, r, new)
<1>1. PICK p \in Used(a) : a[p] = r
  BY DEF RecordsIn
<1>2. /\ a \in [1 .. n -> RecordValues(ids)] /\ p \in 1 .. n /\ n \in Nat
      /\ r.id \in ids /\ r.qos \in {1, 2} /\ r = Record(r.id, r.qos, r.state)
  BY <1>1, SoundRecords
<1>3. FirstOf(PositionsOf(a, r.id)) = p /\ PositionsOf(a, r.id) # {}
  BY <1>1, <1>2, OnePlace
<1>4. UpdateStateAck(a, r.id, ack, op) =
        IF <<r.state, new>> \notin AckTransitions
          THEN [status |-> "IllegalState", records |-> a]
        ELSE IF new = "PublishDone"
          THEN [status |-> "Success", records |-> Put(a, p, NoRecord)]
        ELSE IF new = "PubRelSend"
          THEN AddRecord(Put(a, p, NoRecord), Record(r.id, 2, "PubRelSend"))
        ELSE [status |-> "Success", records |-> [a EXCEPT ![p].state = new]]
  BY <1>1, <1>3 DEF UpdateStateAck, Put
<1> DEFINE b == Put(a, p, NoRecord)
<1>5. /\ SoundArray(b, n, ids) /\ RecordsIn(b) = RecordsIn(a) \ {r}
      /\ PositionsOf(b, r.id) = {} /\ p \notin Used(b)
  BY <1>1, <1>2, EraseRecord
<1> HIDE DEF b
<1>6. CASE <<r.state, new>> \notin AckTransitions
  BY <1>4, <1>6 DEF Follows
<1>7. CASE <<r.state, new>> \in AckTransitions /\ new = "PublishDone"
  BY <1>4, <1>5, <1>7 DEF b, Follows, AfterAck
<1>8. CASE <<r.state, new>> \in AckTransitions /\ new = "PubRelSend"
  <2> DEFINE s == Record(r.id, 2, "PubRelSend")
  <2>1. s \in RecordValues(ids) /\ s.id = r.id
    BY <1>2 DEF Record, RecordValues, RelStates
  <2>2. result = AddRecord(b, s)
    BY <1>4, <1>8 DEF b
  <2>3. r.qos = 2
    BY <1>2, <1>8 DEF CalculateStateAck
  <2> HIDE DEF s
  <2>4. \A t \in RecordsIn(b) : t.id # r.id
    BY <1>2, <1>5, NoPlace
  <2>5. Used(b) # 1 .. n
    BY <1>2, <1>5
  <2>6. /\ SoundArray(result.records, n, ids)
        /\ \/ result.status = "Success" /\ RecordsIn(result.records) = RecordsIn(b) \cup {s}
           \/ (\E t \in RecordsIn(b) : t.id = s.id) \/ Used(b) = 1 .. n
    BY <1>2, <1>5, <2>1, <2>2, AddRecords
  <2> QED BY <1>5, <1>8, <2>1, <2>3, <2>4, <2>5, <2>6 DEF s, Follows, AfterAck
<1>9. CASE <<r.state, new>> \in AckTransitions /\ new \notin {"PublishDone", "PubRelSend"}
  <2>1. [r EXCEPT !.state = new] = Record(r.id, r.qos, new)
    BY <1>2 DEF Record
  <2>2. result.records = Put(a, p, Record(r.id, r.qos, new)) /\ result.status = "Success"
    <3>1. [a EXCEPT ![p].state = new] = [a EXCEPT ![p] = [r EXCEPT !.state = new]]
      BY <1>1, <1>2
    <3>2. [a EXCEPT ![p].state = new] = Put(a, p, Record(r.id, r.qos, new))
      BY <2>1, <3>1 DEF Put
    <3>3. UpdateStateAck(a, r.id, ack, op)
            = [status |-> "Success", records |-> [a EXCEPT ![p].state = new]]
      BY <1>4, <1>9
    <3> QED BY <3>2, <3>3
  <2>3. Record(r.id, r.qos, new) \in RecordValues(ids) /\ Record(r.id, r.qos, new).id = r.id
    BY <1>2, <1>9 DEF Record, RecordValues, AckTransitions, RelStates, ReceiveStates
  <2>4. /\ SoundArray(Put(a, p, Record(r.id, r.qos, new)), n, ids)
        /\ RecordsIn(Put(a, p, Record(r.id, r.qos, new))) = (RecordsIn(a) \ {r}) \cup {Record(r.id, r.qos, new)}
    BY <1>1, <1>2, <2>3, ReplaceRecord
  <2> QED BY <1>9, <2>2, <2>4 DEF Follows, AfterAck
<1> QED BY <1>6, <1>7, <1>8, <1>9

LEMMA AckOfNoRecord ==
  ASSUME NEW n \in Nat, NEW ids, NoId \notin ids, NEW a, SoundArray(a, n, ids),
         NEW i \in ids, \A r \in RecordsIn(a) : r.id # i, NEW ack, NEW op
  PROVE  UpdateStateAck(a, i, ack, op) = [status |-> "BadResponse", records |-> a]
<1>1. PositionsOf(a, i) = {}
  BY NoPlace
<1> QED BY <1>1 DEF UpdateStateAck
=============================================================================
