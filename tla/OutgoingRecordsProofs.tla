------------------------ MODULE OutgoingRecordsProofs ------------------------
(***************************************************************************)
(* What is proved of OutgoingRecords, for any number of places: the array  *)
(* holds each packet once and in a state of its QoS, and what it gives to  *)
(* a resumed session are the packets in the order of ResendOrder.          *)
(***************************************************************************)
EXTENDS OutgoingRecords, PublishRecordsProofs, SequenceTheorems

Values == RecordValues(PacketIds)
Arrays == [Places -> Values]

StatesOf(qos) == IF qos = 1 THEN {"PublishSend", "PubAckPending"}
                 ELSE {"PublishSend", "PubRecPending", "PubRelSend", "PubCompPending"}

(* Each packet has one record, in a state of its QoS.                      *)
ArrayOK(a) ==
  /\ a \in Arrays
  /\ \A p, q \in Used(a) : a[p].id = a[q].id => p = q
  /\ \A p \in Used(a) : a[p].state \in StatesOf(a[p].qos)

IInv == ArrayOK(outgoing)

Deleted(a, p) == [a EXCEPT ![p] = NoRecord]
Changed(a, p, new) == [a EXCEPT ![p].state = new]

(* stateSelect on an array.                                                *)
Found(a, states) == {p \in Places : a[p].state \in states}
Selected(a, states) ==
  [k \in 1 .. Cardinality(Found(a, states)) |-> a[InOrder(Found(a, states))[k]].id]

LEMMA Constants ==
  /\ MaxCount \in Nat \ {0} /\ Places = 1 .. MaxCount
  /\ PacketIds \subseteq Nat \ {NoId}
  /\ NoRecord \in Values /\ NoRecord.id = NoId /\ NoRecord.state = "Null"
BY OutgoingAssumption DEF Places, Values, RecordValues, NoRecord

(* A place is in use if and only if its record is not the empty one.       *)
LEMMA RecordInUse ==
  ASSUME NEW a \in Arrays, NEW p \in Places
  PROVE  /\ p \in Used(a) <=> a[p] # NoRecord
         /\ p \in Used(a) => /\ a[p].id \in PacketIds /\ a[p].qos \in {1, 2}
                             /\ a[p].state # "Null"
                             /\ a[p] = Record(a[p].id, a[p].qos, a[p].state)
<1>1. a[p] = NoRecord \/ a[p] \in [id : PacketIds, qos : {1, 2}, state : SendStates \cup RelStates \cup ReceiveStates]
  BY DEF Arrays, Values, RecordValues
<1>2. CASE a[p] = NoRecord
  BY <1>2, Constants DEF Used, Arrays
<1>3. CASE a[p] \in [id : PacketIds, qos : {1, 2}, state : SendStates \cup RelStates \cup ReceiveStates]
  <2>1. a[p].id \in PacketIds /\ a[p].qos \in {1, 2} /\ a[p].state \in SendStates \cup RelStates \cup ReceiveStates
    BY <1>3
  <2>2. a[p].state # "Null"
    BY <2>1 DEF SendStates, RelStates, ReceiveStates
  <2>3. a[p] = Record(a[p].id, a[p].qos, a[p].state)
    BY <1>3 DEF Record
  <2>4. p \in Used(a) /\ a[p] # NoRecord
    BY <2>1, Constants DEF Used, Arrays
  <2> QED BY <2>1, <2>2, <2>3, <2>4
<1> QED BY <1>1, <1>2, <1>3

-----------------------------------------------------------------------------
(* What is selected *)

LEMMA FoundOK ==
  ASSUME NEW a \in Arrays, NEW states, "Null" \notin states
  PROVE  /\ Found(a, states) \in SUBSET (1 .. MaxCount)
         /\ Found(a, states) \subseteq Used(a)
         /\ Cardinality(Found(a, states)) \in Nat
         /\ Selected(a, states) \in [1 .. Cardinality(Found(a, states)) -> PacketIds]
<1> DEFINE F == Found(a, states)
<1>1. F \in SUBSET (1 .. MaxCount) /\ F \subseteq Used(a)
  <2>1. \A p \in F : p \in Places /\ a[p] # NoRecord
    BY Constants DEF Found
  <2> QED BY <2>1, Constants, RecordInUse DEF Found
<1>2. Cardinality(F) \in Nat /\ InOrder(F) \in [1 .. Cardinality(F) -> F]
  <2>1. MaxCount \in Nat
    BY Constants
  <2> HIDE DEF F
  <2>2. Cardinality(F) \in 0 .. MaxCount
    BY <1>1, <2>1, PositionsFinite
  <2>3. InOrder(F) \in [1 .. Cardinality(F) -> F]
    BY <1>1, <2>1, InOrderLists
  <2> QED BY <2>1, <2>2, <2>3
<1>3. \A p \in F : a[p].id \in PacketIds
  BY <1>1, Constants, RecordInUse
<1> QED BY <1>1, <1>2, <1>3 DEF Selected

LEMMA SelectIsSelected ==
  ASSUME NEW states
  PROVE  /\ Select(states) = Selected(outgoing, states)
         /\ Select(states)' = Selected(outgoing', states)
<1>1. \A a : DOMAIN InOrder(Found(a, states)) = 1 .. Cardinality(Found(a, states))
  BY DEF InOrder
<1>2. Select(states) = Selected(outgoing, states)
  BY <1>1 DEF Select, Selected, Found
<1>3. Select(states)' = Selected(outgoing', states)
  BY <1>1 DEF Select, Selected, Found
<1> QED BY <1>2, <1>3

(* Records that stay where they are, in states selected as before.         *)
LEMMA SelectsTheSame ==
  ASSUME NEW a \in Arrays, NEW b \in Arrays, NEW states, "Null" \notin states,
         Found(b, states) = Found(a, states),
         \A p \in Found(a, states) : b[p].id = a[p].id
  PROVE  Selected(b, states) = Selected(a, states)
<1> DEFINE F == Found(a, states)
<1>1. InOrder(F) \in [1 .. Cardinality(F) -> F]
  BY FoundOK, Constants, InOrderLists
<1> QED BY <1>1 DEF Selected

(* Compaction changes nothing of what is selected.                         *)
LEMMA CompactSelectsTheSame ==
  ASSUME NEW a \in Arrays, Compact(a) \in Arrays, NEW states, "Null" \notin states
  PROVE  Selected(Compact(a), states) = Selected(a, states)
<1> DEFINE b == Compact(a)
           kept == InOrder(Used(a))
           c == Cardinality(Used(a))
           F == Found(a, states)
           G == Found(b, states)
           f == [k \in 1 .. Cardinality(G) |-> kept[InOrder(G)[k]]]
<1>1. /\ DOMAIN a = 1 .. MaxCount
      /\ Used(a) \in SUBSET (1 .. MaxCount) /\ c \in 0 .. MaxCount
      /\ kept \in [1 .. c -> Used(a)]
      /\ \A p \in 1 .. c : b[p] = a[kept[p]]
      /\ Used(b) = 1 .. c
  BY Constants, CompactMoves DEF Arrays
<1>2. /\ F \in SUBSET (1 .. MaxCount) /\ F \subseteq Used(a)
      /\ G \in SUBSET (1 .. MaxCount) /\ G \subseteq 1 .. c
      /\ Cardinality(G) \in Nat
  BY <1>1, FoundOK
<1>3. \A p \in 1 .. c : kept[p] \in F <=> p \in G
  <2>1. \A p \in 1 .. c : kept[p] \in Places /\ p \in Places
    BY <1>1, Constants
  <2> QED BY <1>1, <2>1 DEF Found
<1>4. InOrder(G) \in [1 .. Cardinality(G) -> G]
  BY <1>2, Constants, InOrderLists
<1>5. \A p \in F : \E q \in G : kept[q] = p
  <2> SUFFICES ASSUME NEW p \in F PROVE \E q \in G : kept[q] = p
    OBVIOUS
  <2>1. Rank(Used(a), p) \in 1 .. c /\ kept[Rank(Used(a), p)] = p
    BY <1>1, <1>2, Constants, RankIsPlace, InOrderLists
  <2> QED BY <1>3, <2>1
<1>6. f \in [1 .. Cardinality(G) -> F]
  BY <1>2, <1>3, <1>4
<1>7. ASSUME NEW j \in 1 .. Cardinality(G), NEW k \in 1 .. Cardinality(G), j < k
      PROVE  f[j] < f[k]
  <2>1. InOrder(G)[j] < InOrder(G)[k]
    BY <1>2, <1>7, Constants, InOrderAscends
  <2>2. InOrder(G)[j] \in 1 .. c /\ InOrder(G)[k] \in 1 .. c
    BY <1>2, <1>4
  <2>3. kept[InOrder(G)[j]] < kept[InOrder(G)[k]]
    BY <1>1, <2>1, <2>2, Constants, InOrderAscends
  <2> QED BY <2>3
<1>8. ASSUME NEW p \in F PROVE \E k \in 1 .. Cardinality(G) : f[k] = p
  <2>1. PICK q \in G : kept[q] = p
    BY <1>5
  <2>2. Rank(G, q) \in 1 .. Cardinality(G) /\ InOrder(G)[Rank(G, q)] = q
    BY <1>2, Constants, RankIsPlace, InOrderLists
  <2> QED BY <2>1, <2>2
<1>9. Cardinality(F) = Cardinality(G) /\ InOrder(F) = f
  <2>1. MaxCount \in Nat /\ Cardinality(G) \in Nat
    BY <1>2, Constants
  <2> HIDE DEF f, F, G
  <2>2. \A j, k \in 1 .. Cardinality(G) : j < k => f[j] < f[k]
    BY <1>7
  <2>3. \A p \in F : \E k \in 1 .. Cardinality(G) : f[k] = p
    BY <1>8
  <2> QED BY <1>2, <1>6, <2>1, <2>2, <2>3, Ascending
<1>10. \A k \in 1 .. Cardinality(G) : b[InOrder(G)[k]].id = a[f[k]].id
  BY <1>1, <1>2, <1>4
<1> QED BY <1>9, <1>10 DEF Selected

LEMMA RemoveAtLeaves ==
  ASSUME NEW S, NEW s \in Seq(S), NEW k \in 1 .. Len(s)
  PROVE  LET t == Resending!RemoveAt(s, k)
         IN  /\ t \in Seq(S) /\ Len(t) = Len(s) - 1
             /\ \A j \in 1 .. Len(s) - 1 : t[j] = IF j < k THEN s[j] ELSE s[j + 1]
<1> DEFINE front == SubSeq(s, 1, k - 1)
           back == SubSeq(s, k + 1, Len(s))
<1>1. Len(s) \in Nat /\ k \in Nat /\ \A i \in 1 .. Len(s) : s[i] \in S
  BY LenProperties, ElementOfSeq
<1>2. /\ front \in Seq(S) /\ Len(front) = k - 1
      /\ \A i \in 1 .. k - 1 : front[i] = s[i]
  <2>1. \A i \in 1 .. k - 1 : s[i] \in S
    BY <1>1
  <2>2. /\ SubSeq(s, 1, k - 1) \in Seq(S)
        /\ Len(SubSeq(s, 1, k - 1)) = IF 1 <= k - 1 THEN (k - 1) - 1 + 1 ELSE 0
        /\ \A i \in 1 .. (k - 1) - 1 + 1 : SubSeq(s, 1, k - 1)[i] = s[1 + i - 1]
    BY <1>1, <2>1, SubSeqProperties
  <2> QED BY <1>1, <2>2
<1>3. /\ back \in Seq(S) /\ Len(back) = Len(s) - k
      /\ \A i \in 1 .. Len(s) - k : back[i] = s[i + k]
  <2>1. \A i \in k + 1 .. Len(s) : s[i] \in S
    BY <1>1
  <2>2. /\ SubSeq(s, k + 1, Len(s)) \in Seq(S)
        /\ Len(SubSeq(s, k + 1, Len(s))) = IF k + 1 <= Len(s) THEN Len(s) - (k + 1) + 1 ELSE 0
        /\ \A i \in 1 .. Len(s) - (k + 1) + 1 : SubSeq(s, k + 1, Len(s))[i] = s[k + 1 + i - 1]
    BY <1>1, <2>1, SubSeqProperties
  <2> QED BY <1>1, <2>2
<1> HIDE DEF front, back
<1>4. /\ front \o back \in Seq(S) /\ Len(front \o back) = Len(front) + Len(back)
      /\ \A i \in 1 .. Len(front) + Len(back) :
           (front \o back)[i] = IF i <= Len(front) THEN front[i] ELSE back[i - Len(front)]
  BY <1>2, <1>3, ConcatProperties
<1>5. Resending!RemoveAt(s, k) = front \o back
  BY DEF Resending!RemoveAt, front, back
<1>6. ASSUME NEW j \in 1 .. Len(s) - 1
      PROVE  (front \o back)[j] = IF j < k THEN s[j] ELSE s[j + 1]
  <2>1. CASE j < k
    BY <1>1, <1>2, <1>3, <1>4, <2>1
  <2>2. CASE ~(j < k)
    <3>1. j \in Nat /\ j - (k - 1) \in 1 .. Len(s) - k /\ (j - (k - 1)) + k = j + 1
      BY <1>1, <2>2
    <3>2. (front \o back)[j] = back[j - (k - 1)]
      BY <1>1, <1>2, <1>3, <1>4, <2>2, <3>1
    <3>3. back[j - (k - 1)] = s[j + 1]
      BY <1>3, <3>1
    <3> QED BY <2>2, <3>2, <3>3
  <2> QED BY <2>1, <2>2
<1>7. front \o back \in Seq(S) /\ Len(front \o back) = Len(s) - 1
  BY <1>1, <1>2, <1>3, <1>4
<1> QED BY <1>5, <1>6, <1>7, Zenon

(* A record that is no longer selected takes its packet with it.           *)
LEMMA SelectsOneLess ==
  ASSUME NEW a \in Arrays, NEW b \in Arrays, NEW states, "Null" \notin states,
         NEW p \in Found(a, states), Found(b, states) = Found(a, states) \ {p},
         \A q \in Found(b, states) : b[q].id = a[q].id
  PROVE  LET s == Selected(a, states)
         IN  /\ s \in Seq(PacketIds)
             /\ \E k \in 1 .. Len(s) :
                  s[k] = a[p].id /\ Selected(b, states) = Resending!RemoveAt(s, k)
<1> DEFINE F == Found(a, states)
           G == Found(b, states)
           c == Cardinality(F)
           s == Selected(a, states)
           d == c - 1
           k == Rank(F, p)
           f == [j \in 1 .. d |-> IF j < k THEN InOrder(F)[j] ELSE InOrder(F)[j + 1]]
<1>1. /\ F \in SUBSET (1 .. MaxCount) /\ G \in SUBSET (1 .. MaxCount)
      /\ c \in Nat /\ s \in [1 .. c -> PacketIds]
      /\ MaxCount \in Nat
  BY FoundOK, Constants
<1>2. k \in 1 .. c /\ InOrder(F)[k] = p /\ InOrder(F) \in [1 .. c -> F]
      /\ \A j \in 1 .. c : Rank(F, InOrder(F)[j]) = j
  BY <1>1, RankIsPlace, InOrderLists
<1>3. s \in Seq(PacketIds) /\ Len(s) = c
  BY <1>1
<1>4. \A j \in 1 .. c : j # k => InOrder(F)[j] \in G
  BY <1>2
<1>5. f \in [1 .. d -> G] /\ d \in Nat
  BY <1>1, <1>2, <1>4
<1>6. ASSUME NEW i \in 1 .. d, NEW j \in 1 .. d, i < j PROVE f[i] < f[j]
  <2>1. PICK m \in 1 .. c : f[i] = InOrder(F)[m] /\ m = (IF i < k THEN i ELSE i + 1)
    BY <1>1, <1>2
  <2>2. PICK n \in 1 .. c : f[j] = InOrder(F)[n] /\ n = (IF j < k THEN j ELSE j + 1)
    BY <1>1, <1>2
  <2>3. m < n
    BY <1>1, <1>2, <1>6, <2>1, <2>2
  <2> HIDE DEF f, F
  <2> QED BY <1>1, <2>1, <2>2, <2>3, InOrderAscends
<1>7. ASSUME NEW q \in G PROVE \E j \in 1 .. d : f[j] = q
  <2>1. q \in F /\ q # p
    OBVIOUS
  <2>2. PICK m \in 1 .. c : InOrder(F)[m] = q
    BY <1>1, <2>1, RankIsPlace, InOrderLists
  <2>3. m # k
    BY <1>2, <2>1, <2>2
  <2>4. CASE m < k
    <3>1. m \in 1 .. d
      BY <1>1, <1>2, <2>4
    <3> QED BY <2>2, <2>4, <3>1
  <2>5. CASE k < m
    <3>1. m - 1 \in 1 .. d /\ ~(m - 1 < k) /\ (m - 1) + 1 = m
      BY <1>1, <1>2, <2>5
    <3> QED BY <2>2, <3>1
  <2> QED BY <1>1, <1>2, <2>3, <2>4, <2>5
<1>8. Cardinality(G) = d /\ InOrder(G) = f
  <2> HIDE DEF f, F, G, c, d, k
  <2>1. \A i, j \in 1 .. d : i < j => f[i] < f[j]
    BY <1>6
  <2>2. \A q \in G : \E j \in 1 .. d : f[j] = q
    BY <1>7
  <2>3. MaxCount \in Nat /\ d \in Nat /\ f \in [1 .. d -> G] /\ G \in SUBSET (1 .. MaxCount)
    BY <1>1, <1>5
  <2> QED BY ONLY <2>1, <2>2, <2>3, Ascending
<1>9. Selected(b, states) = [j \in 1 .. d |-> b[f[j]].id]
  BY <1>8 DEF Selected
<1>10. \A j \in 1 .. d : b[f[j]].id = IF j < k THEN s[j] ELSE s[j + 1]
  <2> SUFFICES ASSUME NEW j \in 1 .. d
               PROVE  b[f[j]].id = IF j < k THEN s[j] ELSE s[j + 1]
    OBVIOUS
  <2>1. f[j] \in G /\ b[f[j]].id = a[f[j]].id
    BY <1>5
  <2>2. \A i \in 1 .. c : s[i] = a[InOrder(F)[i]].id
    BY DEF Selected
  <2>3. j \in 1 .. c /\ j + 1 \in 1 .. c
    BY <1>1
  <2> QED BY <2>1, <2>2, <2>3
<1>11. Selected(b, states) = Resending!RemoveAt(s, k)
  <2> DEFINE t == Resending!RemoveAt(s, k)
             u == Selected(b, states)
  <2>1. /\ t \in Seq(PacketIds) /\ Len(t) = d
        /\ \A j \in 1 .. d : t[j] = IF j < k THEN s[j] ELSE s[j + 1]
    BY <1>2, <1>3, RemoveAtLeaves
  <2>2. u \in [1 .. d -> PacketIds]
    BY <1>8, FoundOK
  <2>3. \A j \in 1 .. d : u[j] = t[j]
    BY <1>9, <1>10, <2>1
  <2>4. t \in [1 .. d -> PacketIds]
    BY <2>1, LenProperties
  <2> HIDE DEF t, u, d
  <2>5. d \in Nat
    BY <1>5
  <2>6. u = t
    BY ONLY <2>2, <2>3, <2>4, <2>5
  <2> QED BY <2>6 DEF t, u
<1>12. s[k] = a[p].id
  BY <1>2 DEF Selected
<1> QED BY <1>2, <1>3, <1>11, <1>12

(* A record stored behind all others adds its packet at the end.           *)
LEMMA SelectsOneMore ==
  ASSUME NEW a \in Arrays, NEW b \in Arrays, NEW states, "Null" \notin states,
         NEW p \in Places, \A q \in Found(a, states) : q < p,
         Found(b, states) = Found(a, states) \cup {p},
         \A q \in Found(a, states) : b[q].id = a[q].id
  PROVE  Selected(b, states) = Append(Selected(a, states), b[p].id)
<1> DEFINE F == Found(a, states)
           G == Found(b, states)
           c == Cardinality(F)
           d == c + 1
           s == Selected(a, states)
           f == [j \in 1 .. d |-> IF j = c + 1 THEN p ELSE InOrder(F)[j]]
<1>1. /\ F \in SUBSET (1 .. MaxCount) /\ G \in SUBSET (1 .. MaxCount)
      /\ c \in Nat /\ s \in [1 .. c -> PacketIds]
      /\ MaxCount \in Nat
  BY FoundOK, Constants
<1>2. InOrder(F) \in [1 .. c -> F]
  BY <1>1, InOrderLists
<1>3. f \in [1 .. d -> G] /\ d \in Nat
  BY <1>1, <1>2
<1>4. ASSUME NEW i \in 1 .. d, NEW j \in 1 .. d, i < j PROVE f[i] < f[j]
  <2>1. i \in 1 .. c /\ f[i] = InOrder(F)[i] /\ f[i] \in F
    BY <1>1, <1>2, <1>4
  <2>2. CASE j = c + 1
    BY <2>1, <2>2
  <2>3. CASE j # c + 1
    <3>1. j \in 1 .. c /\ f[j] = InOrder(F)[j]
      BY <1>1, <2>3
    <3>2. InOrder(F)[i] < InOrder(F)[j]
      BY <1>1, <1>4, <2>1, <3>1, InOrderAscends
    <3> HIDE DEF f
    <3> QED BY <2>1, <3>1, <3>2
  <2> QED BY <2>2, <2>3
<1>5. ASSUME NEW q \in G PROVE \E j \in 1 .. d : f[j] = q
  <2>1. CASE q = p
    <3>1. c + 1 \in 1 .. d
      BY <1>1
    <3> QED BY <2>1, <3>1
  <2>2. CASE q \in F
    <3>1. PICK m \in 1 .. c : InOrder(F)[m] = q
      BY <1>1, <2>2, RankIsPlace, InOrderLists
    <3>2. m \in 1 .. d /\ m # c + 1
      BY <1>1
    <3> QED BY <3>1, <3>2
  <2> QED BY <2>1, <2>2
<1>6. Cardinality(G) = d /\ InOrder(G) = f
  <2> HIDE DEF f, F, G, c, d
  <2>1. \A i, j \in 1 .. d : i < j => f[i] < f[j]
    BY <1>4
  <2>2. \A q \in G : \E j \in 1 .. d : f[j] = q
    BY <1>5
  <2>3. MaxCount \in Nat /\ d \in Nat /\ f \in [1 .. d -> G] /\ G \in SUBSET (1 .. MaxCount)
    BY <1>1, <1>3
  <2> QED BY ONLY <2>1, <2>2, <2>3, Ascending
<1>7. Selected(b, states) = [j \in 1 .. d |-> b[f[j]].id]
  BY <1>6 DEF Selected
<1>8. \A j \in 1 .. c : s[j] = a[InOrder(F)[j]].id
  BY DEF Selected
<1>9. \A j \in 1 .. d : b[f[j]].id = IF j = c + 1 THEN b[p].id ELSE s[j]
  <2> SUFFICES ASSUME NEW j \in 1 .. d
               PROVE  b[f[j]].id = IF j = c + 1 THEN b[p].id ELSE s[j]
    OBVIOUS
  <2>1. CASE j = c + 1
    BY <2>1
  <2>2. CASE j # c + 1
    <3>1. j \in 1 .. c /\ f[j] = InOrder(F)[j] /\ InOrder(F)[j] \in F
      BY <1>1, <1>2, <2>2
    <3> QED BY <1>8, <2>2, <3>1
  <2> QED BY <2>1, <2>2
<1>10. s \in Seq(PacketIds) /\ Len(s) = c
  BY <1>1
<1>11. b[p].id \in PacketIds
  <2>1. p \in Found(b, states) /\ p \in Used(b)
    BY FoundOK
  <2> QED BY <2>1, RecordInUse
<1>12. /\ Append(s, b[p].id) \in [1 .. d -> PacketIds]
       /\ \A j \in 1 .. d : Append(s, b[p].id)[j] = IF j = d THEN b[p].id ELSE s[j]
  <2>1. /\ Append(s, b[p].id) \in Seq(PacketIds) /\ Len(Append(s, b[p].id)) = d
        /\ \A i \in 1 .. c : Append(s, b[p].id)[i] = s[i]
        /\ Append(s, b[p].id)[d] = b[p].id
    BY <1>10, <1>11, AppendProperties
  <2>2. Append(s, b[p].id) \in [1 .. d -> PacketIds]
    BY <2>1, LenProperties
  <2> QED BY <1>1, <2>1, <2>2
<1>13. Selected(b, states) \in [1 .. d -> PacketIds]
  BY <1>6, FoundOK
<1>14. \A j \in 1 .. d : Selected(b, states)[j] = Append(s, b[p].id)[j]
  BY <1>7, <1>9, <1>12
<1> HIDE DEF s, d
<1>15. Selected(b, states) = Append(s, b[p].id)
  BY ONLY <1>3, <1>12, <1>13, <1>14
<1> QED BY <1>15 DEF s

-----------------------------------------------------------------------------
(* What the functions of the library do to the array *)

LEMMA FirstPosition ==
  ASSUME NEW a, ArrayOK(a), NEW i \in PacketIds, PositionsOf(a, i) # {}
  PROVE  LET p == FirstOf(PositionsOf(a, i)) IN p \in Used(a) /\ p \in Places /\ a[p].id = i
<1>1. DOMAIN a = Places /\ \A p \in PositionsOf(a, i) : p \in Places
  BY DEF ArrayOK, Arrays, PositionsOf
<1>2. PositionsOf(a, i) \in SUBSET Nat
  <2>1. \A p \in PositionsOf(a, i) : p \in Nat
    BY <1>1, Constants
  <2> QED BY <2>1, Zenon
<1>3. FirstOf(PositionsOf(a, i)) \in PositionsOf(a, i)
  BY <1>2, FirstIsMember
<1> QED BY <1>1, <1>3, Constants DEF PositionsOf, Used

(* Compaction keeps every record, and its place among the others.          *)
LEMMA CompactOK ==
  ASSUME NEW a, ArrayOK(a)
  PROVE  /\ ArrayOK(Compact(a))
         /\ \A i \in PacketIds : PositionsOf(Compact(a), i) = {} <=> PositionsOf(a, i) = {}
         /\ \A states : "Null" \notin states => Selected(Compact(a), states) = Selected(a, states)
<1> DEFINE b == Compact(a)
           kept == InOrder(Used(a))
           c == Cardinality(Used(a))
<1>0. a \in Arrays /\ a \in [1 .. MaxCount -> RecordValues(PacketIds)] /\ MaxCount \in Nat
  BY Constants DEF ArrayOK, Arrays, Values
<1>1. /\ DOMAIN a = 1 .. MaxCount /\ DOMAIN b = 1 .. MaxCount
      /\ Used(a) \in SUBSET (1 .. MaxCount) /\ c \in 0 .. MaxCount
      /\ kept \in [1 .. c -> Used(a)]
      /\ \A p \in 1 .. c : b[p] = a[kept[p]]
      /\ Used(b) = 1 .. c
  BY <1>0, CompactMoves
<1>2. b \in Arrays
  BY <1>0, Constants, CompactType DEF Arrays, Values
<1>3. \A p, q \in Used(b) : b[p].id = b[q].id => p = q
  <2> SUFFICES ASSUME NEW p \in 1 .. c, NEW q \in 1 .. c, b[p].id = b[q].id PROVE p = q
    BY <1>1
  <2>1. kept[p] = kept[q]
    BY <1>1 DEF ArrayOK
  <2>2. Rank(Used(a), kept[p]) = p /\ Rank(Used(a), kept[q]) = q
    BY <1>0, <1>1, InOrderLists
  <2> QED BY <2>1, <2>2
<1>4. \A p \in Used(b) : b[p].state \in StatesOf(b[p].qos)
  BY <1>1 DEF ArrayOK
<1>5. ASSUME NEW i \in PacketIds
      PROVE  PositionsOf(b, i) = {} <=> PositionsOf(a, i) = {}
  <2>1. ASSUME NEW p \in PositionsOf(b, i) PROVE PositionsOf(a, i) # {}
    <3>1. p \in Used(b) /\ b[p].id = i
      BY Constants DEF PositionsOf, Used
    <3>2. kept[p] \in PositionsOf(a, i)
      BY <1>1, <3>1 DEF PositionsOf
    <3> QED BY <3>2
  <2>2. ASSUME NEW p \in PositionsOf(a, i) PROVE PositionsOf(b, i) # {}
    <3>1. p \in Used(a) /\ a[p].id = i
      BY Constants DEF PositionsOf, Used
    <3>2. PICK k \in 1 .. c : kept[k] = p
      BY <1>0, <1>1, <3>1, RankIsPlace, InOrderLists
    <3>3. k \in DOMAIN b /\ b[k].id = i
      BY <1>0, <1>1, <3>1, <3>2
    <3>4. k \in PositionsOf(b, i)
      BY <3>3 DEF PositionsOf
    <3> QED BY <3>4
  <2> QED BY <2>1, <2>2
<1>6. \A states : "Null" \notin states => Selected(b, states) = Selected(a, states)
  BY <1>0, <1>2, CompactSelectsTheSame
<1> QED BY <1>2, <1>3, <1>4, <1>5, <1>6 DEF ArrayOK

(* A record changes to a state of its QoS.                                 *)
LEMMA ChangeOK ==
  ASSUME NEW a, ArrayOK(a), NEW p \in Used(a), NEW new \in StatesOf(a[p].qos)
  PROVE  LET b == Changed(a, p, new)
         IN  /\ ArrayOK(b)
             /\ \A states : "Null" \notin states /\ (a[p].state \in states <=> new \in states) =>
                  Selected(b, states) = Selected(a, states)
<1> DEFINE b == Changed(a, p, new)
<1>1. a \in Arrays /\ a \in [1 .. MaxCount -> RecordValues(PacketIds)] /\ p \in Places
  BY Constants DEF ArrayOK, Arrays, Values, Used
<1>2. a[p].id \in PacketIds /\ a[p].qos \in {1, 2} /\ a[p].state # "Null"
      /\ a[p] = Record(a[p].id, a[p].qos, a[p].state)
  BY <1>1, RecordInUse
<1>3. new \in SendStates \cup RelStates \cup ReceiveStates /\ new # "Null"
  BY DEF StatesOf, SendStates, RelStates
<1>4. b \in Arrays
  BY <1>1, <1>2, <1>3, Constants, NewStateType DEF Arrays, Values, Changed
<1>5. /\ \A q \in Places : q # p => b[q] = a[q]
      /\ b[p] = Record(a[p].id, a[p].qos, new)
  <2>1. b[p] = [a[p] EXCEPT !.state = new] /\ \A q \in Places : q # p => b[q] = a[q]
    BY <1>1, Constants DEF Changed
  <2>2. [Record(a[p].id, a[p].qos, a[p].state) EXCEPT !.state = new] = Record(a[p].id, a[p].qos, new)
    BY DEF Record
  <2> QED BY <1>2, <2>1, <2>2
<1> HIDE DEF b
<1>6. \A q \in Places : b[q].id = a[q].id /\ b[q].qos = a[q].qos
  BY <1>5 DEF Record
<1>7. Used(b) = Used(a)
  BY <1>1, <1>4, <1>6 DEF Used, Arrays
<1>8. ArrayOK(b)
  <2>1. \A q \in Used(b) : q \in Places
    BY <1>4 DEF Used, Arrays
  <2>2. \A q, r \in Used(b) : b[q].id = b[r].id => q = r
    BY <1>6, <1>7, <2>1 DEF ArrayOK
  <2>3. \A q \in Used(b) : b[q].state \in StatesOf(b[q].qos)
    BY <1>5, <1>6, <1>7, <2>1 DEF ArrayOK, Record
  <2> QED BY <1>4, <2>2, <2>3 DEF ArrayOK
<1>9. ASSUME NEW states, "Null" \notin states, a[p].state \in states <=> new \in states
      PROVE  Selected(b, states) = Selected(a, states)
  <2>1. Found(b, states) = Found(a, states)
    BY <1>1, <1>5, <1>9 DEF Found, Record
  <2>2. \A q \in Found(a, states) : b[q].id = a[q].id
    BY <1>6 DEF Found
  <2> QED BY <1>1, <1>4, <1>9, <2>1, <2>2, SelectsTheSame
<1> QED BY <1>8, <1>9 DEF b

(* A record is deleted.                                                    *)
LEMMA DeleteOK ==
  ASSUME NEW a, ArrayOK(a), NEW p \in Used(a)
  PROVE  LET b == Deleted(a, p)
         IN  /\ ArrayOK(b) /\ PositionsOf(b, a[p].id) = {} /\ p \in Places /\ p \notin Used(b)
             /\ \A states : "Null" \notin states =>
                  IF a[p].state \in states
                    THEN \E k \in 1 .. Len(Selected(a, states)) :
                           /\ Selected(a, states)[k] = a[p].id
                           /\ Selected(b, states) = Resending!RemoveAt(Selected(a, states), k)
                    ELSE Selected(b, states) = Selected(a, states)
<1> DEFINE b == Deleted(a, p)
<1>1. a \in Arrays /\ p \in Places
  BY DEF ArrayOK, Arrays, Used
<1>2. b \in Arrays /\ b[p] = NoRecord /\ \A q \in Places : q # p => b[q] = a[q]
  BY <1>1, Constants DEF Arrays, Deleted
<1> HIDE DEF b
<1>3. Used(b) = Used(a) \ {p}
  BY <1>1, <1>2, Constants DEF Used, Arrays
<1>4. ArrayOK(b)
  <2>1. \A q \in Used(b) : q \in Places /\ q \in Used(a) /\ b[q] = a[q]
    BY <1>1, <1>2, <1>3 DEF Used, Arrays
  <2> QED BY <1>2, <2>1 DEF ArrayOK
<1>5. PositionsOf(b, a[p].id) = {}
  <2> SUFFICES ASSUME NEW q \in Places, b[q].id = a[p].id PROVE FALSE
    BY <1>2 DEF PositionsOf, Arrays
  <2>1. a[p].id # NoId
    BY DEF Used
  <2>2. q # p
    BY <1>2, <2>1, Constants
  <2>3. q \in Used(a) /\ a[q].id = a[p].id
    BY <1>1, <1>2, <2>1, <2>2 DEF Used, Arrays
  <2> QED BY <2>2, <2>3 DEF ArrayOK
<1>6. ASSUME NEW states, "Null" \notin states
      PROVE  IF a[p].state \in states
                    THEN \E k \in 1 .. Len(Selected(a, states)) :
                           /\ Selected(a, states)[k] = a[p].id
                           /\ Selected(b, states) = Resending!RemoveAt(Selected(a, states), k)
                    ELSE Selected(b, states) = Selected(a, states)
  <2>1. Found(b, states) = Found(a, states) \ {p}
    BY <1>1, <1>2, <1>6, Constants DEF Found
  <2>2. \A q \in Found(b, states) : b[q].id = a[q].id
    BY <1>2, <2>1 DEF Found
  <2>3. CASE a[p].state \in states
    <3>1. p \in Found(a, states)
      BY <1>1, <2>3 DEF Found
    <3> QED BY <1>1, <1>2, <1>6, <2>1, <2>2, <2>3, <3>1, SelectsOneLess
  <2>4. CASE a[p].state \notin states
    <3>1. Found(b, states) = Found(a, states)
      BY <2>1, <2>4 DEF Found
    <3> QED BY <1>1, <1>2, <1>6, <2>2, <2>4, <3>1, SelectsTheSame
  <2> QED BY <2>3, <2>4
<1> QED BY <1>1, <1>3, <1>4, <1>5, <1>6 DEF b

(* A record is stored behind all others, unless its packet has one already *)
(* or every place is taken.                                                *)
LEMMA StoreOK ==
  ASSUME NEW a, ArrayOK(a), NEW i \in PacketIds, NEW qos \in {1, 2}, NEW state \in StatesOf(qos)
  PROVE  LET b == AddRecord(a, Record(i, qos, state)).records
         IN  /\ ArrayOK(b)
             /\ \/ /\ PositionsOf(a, i) # {} \/ Used(a) = Places
                   /\ \A states : "Null" \notin states => Selected(b, states) = Selected(a, states)
                \/ /\ PositionsOf(a, i) = {} /\ Cardinality(Used(a)) < MaxCount
                   /\ \A states : "Null" \notin states =>
                        Selected(b, states) = IF state \in states
                          THEN Append(Selected(a, states), i) ELSE Selected(a, states)
<1> DEFINE r == Record(i, qos, state)
           result == AddRecord(a, r)
           b == result.records
<1>1. r.id = i /\ r.qos = qos /\ r.state = state /\ r \in Values /\ r # NoRecord /\ state # "Null"
  BY Constants DEF Record, Values, RecordValues, StatesOf, SendStates, RelStates
<1>2. a \in Arrays /\ DOMAIN a = 1 .. MaxCount /\ MaxCount \in Nat \ {0}
  BY Constants DEF ArrayOK, Arrays
<1>3. PICK m \in {a, Compact(a)} :
        \/ /\ result = [status |-> "StateCollision", records |-> m]
           /\ PositionsOf(m, r.id) # {}
        \/ /\ result = [status |-> "NoMemory", records |-> m]
           /\ PositionsOf(m, r.id) = {} /\ Used(a) = 1 .. MaxCount
        \/ /\ PositionsOf(m, r.id) = {}
           /\ \E place \in 1 .. MaxCount :
                /\ result = [status |-> "Success", records |-> [m EXCEPT ![place] = r]]
                /\ \A q \in Used(m) : q < place
  BY <1>2, AddRecordStores
<1>4. /\ ArrayOK(m) /\ m \in Arrays
      /\ PositionsOf(m, i) = {} <=> PositionsOf(a, i) = {}
      /\ \A states : "Null" \notin states => Selected(m, states) = Selected(a, states)
  BY CompactOK DEF ArrayOK
<1>5. Cardinality(Used(m)) = Cardinality(Used(a)) /\ Used(m) \in SUBSET (1 .. MaxCount)
  <2>1. Used(m) \in SUBSET (1 .. MaxCount)
    BY <1>4, Constants DEF Used, Arrays
  <2>2. CASE m = Compact(a)
    <3>1. Used(m) = 1 .. Cardinality(Used(a)) /\ Cardinality(Used(a)) \in 0 .. MaxCount
      BY <1>2, <2>2, CompactMoves
    <3>2. Cardinality(1 .. Cardinality(Used(a))) = Cardinality(Used(a))
      BY <1>2, <3>1, FS_Interval
    <3> QED BY <2>1, <3>1, <3>2
  <2> QED BY <2>1, <2>2
<1> HIDE DEF r, result
<1>6. CASE result.records = m /\ (PositionsOf(m, r.id) # {} \/ Used(a) = 1 .. MaxCount)
  BY <1>1, <1>4, <1>6, Constants DEF r, result
<1>7. CASE /\ PositionsOf(m, r.id) = {}
           /\ \E place \in 1 .. MaxCount :
                /\ result = [status |-> "Success", records |-> [m EXCEPT ![place] = r]]
                /\ \A q \in Used(m) : q < place
  <2> PICK place \in 1 .. MaxCount :
        /\ result = [status |-> "Success", records |-> [m EXCEPT ![place] = r]]
        /\ \A q \in Used(m) : q < place
    BY <1>7
  <2>1. b = [m EXCEPT ![place] = r] /\ \A q \in Used(m) : q < place
    OBVIOUS
  <2>2. b \in Arrays /\ b[place] = r /\ (\A q \in Places : q # place => b[q] = m[q])
        /\ place \in Places
    BY <1>1, <1>4, <2>1, Constants DEF Arrays
  <2> HIDE DEF b
  <2>3. m[place] = NoRecord
    <3>1. place \notin Used(m)
      BY <2>1
    <3> QED BY <1>4, <2>2, <3>1, RecordInUse
  <2>4. Used(b) = Used(m) \cup {place}
    BY <1>1, <1>4, <2>2, Constants DEF Used, Arrays
  <2>5. ArrayOK(b)
    <3>1. \A q \in Used(m) : q \in Places /\ q # place /\ b[q] = m[q] /\ b[q].id # i
      <4> SUFFICES ASSUME NEW q \in Used(m)
                   PROVE  q \in Places /\ q # place /\ b[q] = m[q] /\ b[q].id # i
        OBVIOUS
      <4>1. q \in Places /\ q # place /\ q \in DOMAIN m
        BY <1>4, <1>5, <2>1, <2>2, Constants DEF Used, Arrays
      <4>2. m[q].id # i
        BY <1>1, <1>7, <4>1 DEF PositionsOf
      <4> QED BY <2>2, <4>1, <4>2
    <3>2. \A p, q \in Used(b) : b[p].id = b[q].id => p = q
      BY <1>1, <1>4, <2>2, <2>4, <3>1 DEF ArrayOK
    <3>3. \A p \in Used(b) : b[p].state \in StatesOf(b[p].qos)
      BY <1>1, <1>4, <2>2, <2>4, <3>1 DEF ArrayOK
    <3> QED BY <2>2, <3>2, <3>3 DEF ArrayOK
  <2>6. Cardinality(Used(a)) < MaxCount
    <3>1. Used(m) \in SUBSET (1 .. place - 1) /\ place - 1 \in Nat
      <4>1. \A q \in Used(m) : q \in 1 .. place - 1
        BY <1>5, <2>1
      <4>2. place - 1 \in Nat
        BY <2>1
      <4> QED BY <4>1, <4>2, Zenon
    <3>2. Cardinality(Used(m)) \in 0 .. place - 1
      BY <3>1, PositionsFinite
    <3> QED BY <1>2, <1>5, <3>2
  <2>7. ASSUME NEW states, "Null" \notin states
        PROVE  Selected(b, states) = IF state \in states
                 THEN Append(Selected(m, states), i) ELSE Selected(m, states)
    <3>1. \A q \in Found(m, states) : q \in Used(m) /\ q \in Places /\ q < place /\ q # place
      BY <1>4, <1>5, <2>1, <2>7, Constants, FoundOK
    <3>2. place \notin Found(m, states)
      BY <3>1
    <3>3. \A q \in Found(m, states) : b[q] = m[q]
      BY <2>2, <3>1
    <3>4. CASE state \in states
      <4>1. Found(b, states) = Found(m, states) \cup {place}
        BY <1>1, <2>2, <3>4 DEF Found
      <4>2. Selected(b, states) = Append(Selected(m, states), b[place].id)
        BY <1>4, <2>2, <2>7, <3>1, <3>3, <4>1, SelectsOneMore
      <4> QED BY <1>1, <2>2, <3>4, <4>2
    <3>5. CASE state \notin states
      <4>1. Found(b, states) = Found(m, states)
        BY <1>1, <2>2, <3>2, <3>5 DEF Found
      <4> QED BY <1>4, <2>2, <2>7, <3>3, <3>5, <4>1, SelectsTheSame
    <3> QED BY <3>4, <3>5
  <2>8. \A states : "Null" \notin states =>
          Selected(b, states) = IF state \in states
            THEN Append(Selected(a, states), i) ELSE Selected(a, states)
    BY <1>4, <2>7
  <2> QED BY <1>1, <1>4, <1>7, <2>5, <2>6, <2>8 DEF r, result, b
<1> QED BY <1>3, <1>6, <1>7

(* The packets to send again are no more than the places in use.           *)
LEMMA SelectedFit ==
  ASSUME NEW a, ArrayOK(a)
  PROVE  LET s == Selected(a, SendStates)
             t == Selected(a, RelStates)
         IN  /\ s \in Seq(PacketIds) /\ t \in Seq(PacketIds)
             /\ Len(s) + Len(t) <= Cardinality(Used(a))
<1> DEFINE F == Found(a, SendStates)
           G == Found(a, RelStates)
<1>1. a \in Arrays /\ "Null" \notin SendStates /\ "Null" \notin RelStates
  BY DEF ArrayOK, SendStates, RelStates
<1>2. /\ F \subseteq Used(a) /\ Cardinality(F) \in Nat
      /\ Selected(a, SendStates) \in [1 .. Cardinality(F) -> PacketIds]
  BY <1>1, FoundOK
<1>3. /\ G \subseteq Used(a) /\ Cardinality(G) \in Nat
      /\ Selected(a, RelStates) \in [1 .. Cardinality(G) -> PacketIds]
  BY <1>1, FoundOK
<1>4. IsFiniteSet(Used(a)) /\ Cardinality(Used(a)) \in Nat
  <2>1. Used(a) \in SUBSET (1 .. MaxCount) /\ MaxCount \in Nat
    BY <1>1, Constants DEF Used, Arrays
  <2> QED BY <2>1, PositionsFinite
<1>5. F \cap G = {}
  BY DEF Found, SendStates, RelStates
<1> HIDE DEF F, G
<1>6. IsFiniteSet(F) /\ IsFiniteSet(G) /\ F \cup G \in SUBSET Used(a)
  BY <1>2, <1>3, <1>4, FS_Subset
<1>7. Cardinality(F \cup G) = Cardinality(F) + Cardinality(G)
  <2>1. Cardinality(F \cap G) = 0
    BY <1>5, FS_EmptySet
  <2>2. Cardinality(F \cup G) = Cardinality(F) + Cardinality(G) - Cardinality(F \cap G)
    BY <1>6, FS_Union
  <2> QED BY <1>2, <1>3, <2>1, <2>2
<1>8. Cardinality(F \cup G) <= Cardinality(Used(a))
  BY <1>4, <1>6, FS_Subset
<1>9. /\ Selected(a, SendStates) \in Seq(PacketIds) /\ Len(Selected(a, SendStates)) = Cardinality(F)
      /\ Selected(a, RelStates) \in Seq(PacketIds) /\ Len(Selected(a, RelStates)) = Cardinality(G)
  BY <1>2, <1>3
<1> QED BY <1>7, <1>8, <1>9

(* A packet that is to be sent again has a record.                         *)
LEMMA SelectedHasRecord ==
  ASSUME NEW a, ArrayOK(a), NEW i \in PacketIds, PositionsOf(a, i) = {},
         NEW states, "Null" \notin states
  PROVE  \A k \in 1 .. Len(Selected(a, states)) : Selected(a, states)[k] # i
<1> DEFINE F == Found(a, states)
<1>1. /\ a \in Arrays /\ MaxCount \in Nat /\ F \in SUBSET (1 .. MaxCount)
      /\ Cardinality(F) \in Nat
      /\ Selected(a, states) \in [1 .. Cardinality(F) -> PacketIds]
  BY FoundOK, Constants DEF ArrayOK
<1>2. InOrder(F) \in [1 .. Cardinality(F) -> F]
  BY <1>1, InOrderLists
<1>3. \A p \in F : a[p].id # i
  BY <1>1 DEF Found, PositionsOf, Arrays
<1>4. Len(Selected(a, states)) = Cardinality(F)
  BY <1>1
<1>5. \A k \in 1 .. Cardinality(F) : Selected(a, states)[k] = a[InOrder(F)[k]].id
  BY DEF Selected
<1> QED BY <1>2, <1>3, <1>4, <1>5

(* MQTT_UpdateStatePublish: a record of the packet changes from one state  *)
(* of its publish to another, or none does.                                *)
LEMMA SentChanges ==
  ASSUME NEW a, ArrayOK(a), NEW i \in PacketIds, NEW qos \in {1, 2},
         NEW b, b = UpdateStateSent(a, i, qos).records
  PROVE  \/ b = a
         \/ \E p \in Used(a), new \in SendStates :
              /\ a[p].id = i /\ a[p].state \in SendStates /\ new \in StatesOf(a[p].qos)
              /\ b = Changed(a, p, new)
<1> DEFINE P == PositionsOf(a, i)
           p == FirstOf(P)
           new == CalculateStatePublish("SEND", qos)
<1>1. CASE P = {} \/ a[p].qos # qos \/ <<a[p].state, new>> \notin PublishTransitions(qos)
  BY <1>1 DEF UpdateStateSent
<1>2. CASE P # {} /\ a[p].qos = qos /\ <<a[p].state, new>> \in PublishTransitions(qos)
  <2>1. p \in Used(a) /\ a[p].id = i
    BY <1>2, FirstPosition
  <2>2. new \in SendStates /\ new \in StatesOf(qos) /\ a[p].state \in SendStates
    BY <1>2 DEF CalculateStatePublish, PublishTransitions, SendStates, StatesOf
  <2>3. b = Changed(a, p, new)
    BY <1>2 DEF UpdateStateSent, Changed
  <2> HIDE DEF P, p, new
  <2> QED BY <1>2, <2>1, <2>2, <2>3
<1> QED BY <1>1, <1>2

(* MQTT_UpdateStateAck: the record of the packet is deleted, moves on      *)
(* among the states of its PUBREL, or is stored again behind the others.   *)
LEMMA AckChanges ==
  ASSUME NEW a, ArrayOK(a), NEW i \in PacketIds, NEW ack \in Acks, NEW op \in Operations,
         IsPublishOutgoing(ack, op), NEW b, b = UpdateStateAck(a, i, ack, op).records
  PROVE  \/ b = a
         \/ \E p \in Used(a) :
              /\ a[p].id = i
              /\ \/ b = Deleted(a, p)
                 \/ /\ a[p].state \in RelStates
                    /\ \E new \in RelStates \cap StatesOf(a[p].qos) :
                         b = Changed(a, p, new)
                 \/ /\ a[p].state = "PubRecPending"
                    /\ b = AddRecord(Deleted(a, p), Record(i, 2, "PubRelSend")).records
<1> DEFINE P == PositionsOf(a, i)
           p == FirstOf(P)
           new == CalculateStateAck(ack, op, a[p].qos)
<1>1. CASE P = {} \/ <<a[p].state, new>> \notin AckTransitions
  BY <1>1 DEF UpdateStateAck
<1>2. CASE P # {} /\ <<a[p].state, new>> \in AckTransitions
  <2>1. p \in Used(a) /\ p \in Places /\ a[p].id = i
    BY <1>2, FirstPosition
  <2>2. a[p].qos \in {1, 2} /\ a[p].state \in StatesOf(a[p].qos)
    BY <2>1, RecordInUse DEF ArrayOK
  <2>3. CASE new = "PublishDone"
    <3>1. b = Deleted(a, p)
      BY <1>2, <2>3 DEF UpdateStateAck, Deleted
    <3> HIDE DEF P, p, new
    <3> QED BY <2>1, <3>1
  <2>4. CASE new = "PubRelSend"
    <3>1. b = AddRecord(Deleted(a, p), Record(i, 2, "PubRelSend")).records
      BY <1>2, <2>4 DEF UpdateStateAck, Deleted
    <3>2. a[p].state = "PubRecPending"
      BY <1>2, <2>4 DEF AckTransitions
    <3> HIDE DEF P, p, new
    <3> QED BY <2>1, <3>1, <3>2
  <2>5. CASE new \notin {"PublishDone", "PubRelSend"}
    <3>1. b = Changed(a, p, new)
      BY <1>2, <2>5 DEF UpdateStateAck, Changed
    <3>2. a[p].state \in RelStates /\ new = "PubCompPending" /\ a[p].qos = 2
      BY <1>2, <2>2, <2>5 DEF AckTransitions, StatesOf, RelStates
    <3>3. new \in RelStates \cap StatesOf(a[p].qos)
      BY <3>2 DEF RelStates, StatesOf
    <3> HIDE DEF P, p, new
    <3> QED BY <2>1, <3>1, <3>2, <3>3
  <2> QED BY <2>3, <2>4, <2>5
<1> QED BY <1>1, <1>2

-----------------------------------------------------------------------------
(* The invariant, and what follows from it *)

LEMMA InitIInv == Init => IInv
<1> SUFFICES ASSUME Init PROVE ArrayOK(outgoing)
  BY DEF IInv
<1>1. outgoing \in Arrays /\ Used(outgoing) = {}
  BY Constants DEF Init, Arrays, Used
<1> QED BY <1>1 DEF ArrayOK

LEMMA Deletes ==
  ASSUME NEW a, ArrayOK(a), NEW p \in Used(a) PROVE ArrayOK(Deleted(a, p))
BY DeleteOK

LEMMA NextKeepsIInv == IInv /\ [Next]_outgoing => IInv'
<1> SUFFICES ASSUME ArrayOK(outgoing), [Next]_outgoing PROVE ArrayOK(outgoing')
  BY DEF IInv
<1>1. ASSUME NEW i \in PacketIds, NEW qos \in {1, 2}, ReserveState(i, qos) PROVE ArrayOK(outgoing')
  <2>1. "PublishSend" \in StatesOf(qos)
    BY DEF StatesOf
  <2> QED BY <1>1, <2>1, StoreOK DEF ReserveState
<1>2. ASSUME NEW i \in PacketIds, NEW qos \in {1, 2}, UpdateStatePublish(i, qos)
      PROVE  ArrayOK(outgoing')
  <2>1. \/ outgoing' = outgoing
        \/ \E p \in Used(outgoing) : \E new \in StatesOf(outgoing[p].qos) :
             outgoing' = Changed(outgoing, p, new)
    <3>1. outgoing' = UpdateStateSent(outgoing, i, qos).records
      BY <1>2 DEF UpdateStatePublish
    <3>2. \/ outgoing' = outgoing
          \/ \E p \in Used(outgoing), new \in SendStates :
               /\ outgoing[p].id = i /\ outgoing[p].state \in SendStates
               /\ new \in StatesOf(outgoing[p].qos)
               /\ outgoing' = Changed(outgoing, p, new)
      BY <3>1, SentChanges
    <3> QED BY <3>2
  <2> QED BY <2>1, ChangeOK
<1>3. ASSUME NEW i \in PacketIds, NEW ack \in Acks, NEW op \in Operations, UpdateAck(i, ack, op)
      PROVE  ArrayOK(outgoing')
  <2>1. outgoing' = UpdateStateAck(outgoing, i, ack, op).records /\ IsPublishOutgoing(ack, op)
    BY <1>3 DEF UpdateAck
  <2>2. CASE outgoing' = outgoing
    BY <2>2
  <2>3. ASSUME NEW p \in Used(outgoing), outgoing' = Deleted(outgoing, p)
        PROVE  ArrayOK(outgoing')
    BY <2>3, Deletes
  <2>4. ASSUME NEW p \in Used(outgoing), NEW new \in StatesOf(outgoing[p].qos),
               outgoing' = Changed(outgoing, p, new)
        PROVE  ArrayOK(outgoing')
    BY <2>4, ChangeOK
  <2>5. ASSUME NEW p \in Used(outgoing),
               outgoing' = AddRecord(Deleted(outgoing, p), Record(i, 2, "PubRelSend")).records
        PROVE  ArrayOK(outgoing')
    <3>1. "PubRelSend" \in StatesOf(2)
      BY DEF StatesOf
    <3>2. ArrayOK(Deleted(outgoing, p))
      BY Deletes
    <3> QED BY <2>5, <3>1, <3>2, StoreOK
  <2>6. \/ outgoing' = outgoing
        \/ \E p \in Used(outgoing) :
             \/ outgoing' = Deleted(outgoing, p)
             \/ \E new \in StatesOf(outgoing[p].qos) : outgoing' = Changed(outgoing, p, new)
             \/ outgoing' = AddRecord(Deleted(outgoing, p), Record(i, 2, "PubRelSend")).records
    BY <2>1, AckChanges
  <2> QED BY <2>2, <2>3, <2>4, <2>5, <2>6
<1>4. ASSUME NEW i \in PacketIds, Remove(i) PROVE ArrayOK(outgoing')
  <2>1. CASE PositionsOf(outgoing, i) = {}
    BY <1>4, <2>1 DEF Remove, RemoveStateRecord
  <2>2. CASE PositionsOf(outgoing, i) # {}
    BY <1>4, <2>2, FirstPosition, Deletes DEF Remove, RemoveStateRecord, Deleted
  <2> QED BY <2>1, <2>2
<1>5. CASE ClearRecords
  BY <1>5, InitIInv, Constants DEF ClearRecords, Init, IInv, ArrayOK, Arrays, Used
<1>6. CASE UNCHANGED outgoing
  BY <1>6
<1> QED BY <1>1, <1>2, <1>3, <1>4, <1>5, <1>6 DEF Next

THEOREM Invariance == Spec => []IInv
BY InitIInv, NextKeepsIInv, PTL DEF Spec

(* Every place holds a record of a packet, or none.                        *)
THEOREM TypeCorrect == Spec => []TypeOK
<1>1. IInv => TypeOK
  BY DEF IInv, ArrayOK, TypeOK, Arrays, Values
<1> QED BY <1>1, Invariance, PTL

(* A record is in a state of its own QoS, whatever acknowledgments come;   *)
(* and the array has its type.                                             *)
THEOREM QosHolds == Spec => []QosAndStateAgree
<1>1. IInv /\ TypeOK => QosAndStateAgree
  BY DEF IInv, ArrayOK, QosAndStateAgree, StatesOf
<1> QED BY <1>1, Invariance, TypeCorrect, PTL

(* Gaps never cost room.                                                   *)
THEOREM RoomHolds == Spec => []RoomIsFound
<1>1. IInv => RoomIsFound
  <2> SUFFICES ASSUME ArrayOK(outgoing), NEW i \in PacketIds,
                      AddRecord(outgoing, Record(i, 1, "PublishSend")).status = "NoMemory"
               PROVE  Used(outgoing) = Places
    BY DEF IInv, RoomIsFound
  <2>1. DOMAIN outgoing = 1 .. MaxCount
    BY Constants DEF ArrayOK, Arrays
  <2> QED BY <2>1, Constants, AddRecordStores
<1> QED BY <1>1, Invariance, PTL

-----------------------------------------------------------------------------
(* The refinement *)

resent == <<PublishesToResend, PubrelsToResend>>

(* What is to be resent is what is selected, before and after a step.      *)
LEMMA ResentAre ==
  /\ PublishesToResend = Selected(outgoing, SendStates)
  /\ PubrelsToResend = Selected(outgoing, RelStates)
  /\ PublishesToResend' = Selected(outgoing', SendStates)
  /\ PubrelsToResend' = Selected(outgoing', RelStates)
  /\ "Null" \notin SendStates /\ "Null" \notin RelStates
<1>1. "Null" \notin SendStates /\ "Null" \notin RelStates
  BY DEF SendStates, RelStates
<1>2. PublishesToResend = Select(SendStates) /\ PubrelsToResend = Select(RelStates)
  BY DEF PublishesToResend, PubrelsToResend
<1>3. PublishesToResend' = Select(SendStates)' /\ PubrelsToResend' = Select(RelStates)'
  BY DEF PublishesToResend, PubrelsToResend
<1> QED BY <1>1, <1>2, <1>3, SelectIsSelected

(* Nothing is to be resent of an empty array.                              *)
LEMMA EmptySelects ==
  ASSUME NEW a, a = [p \in Places |-> NoRecord], NEW states, "Null" \notin states
  PROVE  Selected(a, states) = <<>>
<1>1. Found(a, states) = {}
  BY Constants DEF Found
<1>2. Cardinality({}) = 0
  BY FS_EmptySet
<1>3. Selected(a, states) \in [1 .. 0 -> PacketIds]
  BY <1>1, <1>2, FoundOK, Constants DEF Arrays
<1>4. Selected(a, states) \in Seq(PacketIds) /\ Len(Selected(a, states)) = 0
  BY <1>3
<1> QED BY <1>4, EmptySeq

LEMMA InitRefines == Init => Resending!Init
BY ResentAre, EmptySelects DEF Init, Resending!Init

LEMMA SameResent ==
  ASSUME Selected(outgoing', SendStates) = Selected(outgoing, SendStates),
         Selected(outgoing', RelStates) = Selected(outgoing, RelStates)
  PROVE  UNCHANGED resent
BY ResentAre DEF resent

(* A reservation adds its publish at the end, or is refused.               *)
LEMMA ReserveRefines ==
  ASSUME ArrayOK(outgoing), NEW i \in PacketIds, NEW qos \in {1, 2}, ReserveState(i, qos)
  PROVE  Resending!Reserve(i) \/ UNCHANGED resent
<1>1. "PublishSend" \in StatesOf(qos) /\ "PublishSend" \in SendStates /\ "PublishSend" \notin RelStates
  BY DEF StatesOf, SendStates, RelStates
<1>2. outgoing' = AddRecord(outgoing, Record(i, qos, "PublishSend")).records
  BY DEF ReserveState
<1>3. CASE \A states : "Null" \notin states => Selected(outgoing', states) = Selected(outgoing, states)
  BY <1>3, ResentAre, SameResent
<1>4. CASE /\ PositionsOf(outgoing, i) = {} /\ Cardinality(Used(outgoing)) < MaxCount
           /\ \A states : "Null" \notin states =>
                Selected(outgoing', states) = IF "PublishSend" \in states
                  THEN Append(Selected(outgoing, states), i) ELSE Selected(outgoing, states)
  <2> DEFINE s == Selected(outgoing, SendStates)
             t == Selected(outgoing, RelStates)
  <2>1. Selected(outgoing', SendStates) = Append(s, i) /\ Selected(outgoing', RelStates) = t
    BY <1>1, <1>4, ResentAre
  <2>2. Len(s) + Len(t) < MaxCount
    <3>1. /\ Len(s) \in Nat /\ Len(t) \in Nat /\ Len(s) + Len(t) <= Cardinality(Used(outgoing))
      BY SelectedFit, LenProperties
    <3>2. Cardinality(Used(outgoing)) \in Nat
      <4>1. Used(outgoing) \in SUBSET (1 .. MaxCount) /\ MaxCount \in Nat
        BY Constants DEF ArrayOK, Arrays, Used
      <4> QED BY <4>1, PositionsFinite
    <3> QED BY <1>4, <3>1, <3>2, Constants
  <2>3. (\A k \in 1 .. Len(s) : s[k] # i) /\ \A k \in 1 .. Len(t) : t[k] # i
    BY <1>4, ResentAre, SelectedHasRecord
  <2> HIDE DEF s, t
  <2>4. PublishesToResend = s /\ PubrelsToResend = t /\ PublishesToResend' = Append(s, i)
        /\ PubrelsToResend' = t
    BY <2>1, ResentAre DEF s, t
  <2> QED BY <2>2, <2>3, <2>4 DEF Resending!Reserve, Resending!Members
<1> QED BY <1>1, <1>2, <1>3, <1>4, StoreOK

(* A record that is deleted takes its PUBLISH or its PUBREL with it.       *)
LEMMA DeleteRefines ==
  ASSUME ArrayOK(outgoing), NEW p \in Used(outgoing), NEW i, outgoing[p].id = i,
         outgoing' = Deleted(outgoing, p)
  PROVE  Resending!EndPublish(i) \/ Resending!EndPubrel(i)
<1> DEFINE s == Selected(outgoing, SendStates)
           t == Selected(outgoing, RelStates)
<1>1. outgoing[p].state \in SendStates \/ outgoing[p].state \in RelStates
  <2>1. outgoing[p].state \in StatesOf(outgoing[p].qos)
    BY DEF ArrayOK
  <2> QED BY <2>1 DEF StatesOf, SendStates, RelStates
<1>2. outgoing[p].state \in SendStates => outgoing[p].state \notin RelStates
  BY DEF SendStates, RelStates
<1>3. CASE outgoing[p].state \in SendStates
  <2>1. \E k \in 1 .. Len(s) : s[k] = i /\ Selected(outgoing', SendStates) = Resending!RemoveAt(s, k)
    BY <1>3, DeleteOK, ResentAre
  <2>2. Selected(outgoing', RelStates) = t
    BY <1>2, <1>3, DeleteOK, ResentAre
  <2> HIDE DEF s, t
  <2>3. PublishesToResend = s /\ PubrelsToResend = t /\ PubrelsToResend' = t
        /\ PublishesToResend' = Selected(outgoing', SendStates)
    BY <2>2, ResentAre DEF s, t
  <2> QED BY <2>1, <2>3 DEF Resending!EndPublish, Resending!Places
<1>4. CASE outgoing[p].state \in RelStates
  <2>1. \E k \in 1 .. Len(t) : t[k] = i /\ Selected(outgoing', RelStates) = Resending!RemoveAt(t, k)
    BY <1>4, DeleteOK, ResentAre
  <2>2. Selected(outgoing', SendStates) = s
    BY <1>2, <1>4, DeleteOK, ResentAre
  <2> HIDE DEF s, t
  <2>3. PublishesToResend = s /\ PubrelsToResend = t /\ PublishesToResend' = s
        /\ PubrelsToResend' = Selected(outgoing', RelStates)
    BY <2>2, ResentAre DEF s, t
  <2> QED BY <2>1, <2>3 DEF Resending!EndPubrel, Resending!Places
<1> QED BY <1>1, <1>3, <1>4

(* At its PUBREC a packet leaves the publishes and is the last PUBREL: the *)
(* record deleted has left room for the one that is stored.                *)
LEMMA PubRecRefines ==
  ASSUME ArrayOK(outgoing), NEW i \in PacketIds, NEW p \in Used(outgoing), outgoing[p].id = i,
         outgoing[p].state = "PubRecPending",
         outgoing' = AddRecord(Deleted(outgoing, p), Record(i, 2, "PubRelSend")).records
  PROVE  Resending!Release(i)
<1> DEFINE s == Selected(outgoing, SendStates)
           t == Selected(outgoing, RelStates)
           a == Deleted(outgoing, p)
<1>1. /\ ArrayOK(a) /\ PositionsOf(a, i) = {} /\ p \in Places /\ p \notin Used(a)
      /\ \E k \in 1 .. Len(s) : s[k] = i /\ Selected(a, SendStates) = Resending!RemoveAt(s, k)
      /\ Selected(a, RelStates) = t
  <2>1. outgoing[p].state \in SendStates /\ outgoing[p].state \notin RelStates
    BY DEF SendStates, RelStates
  <2> QED BY <2>1, DeleteOK, ResentAre
<1> HIDE DEF a
<1>2. "PubRelSend" \in StatesOf(2) /\ "PubRelSend" \in RelStates /\ "PubRelSend" \notin SendStates
  BY DEF StatesOf, RelStates, SendStates
<1>3. Used(a) # Places
  BY <1>1
<1>4. \A states : "Null" \notin states =>
        Selected(outgoing', states) = IF "PubRelSend" \in states
          THEN Append(Selected(a, states), i) ELSE Selected(a, states)
  <2>1. outgoing' = AddRecord(a, Record(i, 2, "PubRelSend")).records
    BY DEF a
  <2> QED BY <1>1, <1>2, <1>3, <2>1, StoreOK
<1>5. /\ \E k \in 1 .. Len(s) : s[k] = i /\ Selected(outgoing', SendStates) = Resending!RemoveAt(s, k)
      /\ Selected(outgoing', RelStates) = Append(t, i)
  BY <1>1, <1>2, <1>4, ResentAre
<1> HIDE DEF s, t
<1>6. /\ PublishesToResend = s /\ PubrelsToResend = t
      /\ PublishesToResend' = Selected(outgoing', SendStates) /\ PubrelsToResend' = Append(t, i)
  BY <1>5, ResentAre DEF s, t
<1> QED BY <1>5, <1>6 DEF Resending!Release, Resending!Places

LEMMA NextRefines == IInv /\ [Next]_outgoing => [Resending!Next]_resent
<1> SUFFICES ASSUME ArrayOK(outgoing), [Next]_outgoing
             PROVE  Resending!Next \/ UNCHANGED resent
  BY DEF IInv
<1>1. ASSUME NEW i \in PacketIds, NEW qos \in {1, 2}, ReserveState(i, qos)
      PROVE  Resending!Next \/ UNCHANGED resent
  BY <1>1, ReserveRefines DEF Resending!Next
<1>2. ASSUME NEW i \in PacketIds, NEW qos \in {1, 2}, UpdateStatePublish(i, qos)
      PROVE  UNCHANGED resent
  <2>1. outgoing' = UpdateStateSent(outgoing, i, qos).records
    BY <1>2 DEF UpdateStatePublish
  <2>2. CASE outgoing' = outgoing
    BY <2>2, SameResent
  <2>3. ASSUME NEW p \in Used(outgoing), NEW new \in SendStates, outgoing[p].state \in SendStates,
               new \in StatesOf(outgoing[p].qos), outgoing' = Changed(outgoing, p, new)
        PROVE  UNCHANGED resent
    <3>1. outgoing[p].state \notin RelStates /\ new \notin RelStates
      BY <2>3 DEF SendStates, RelStates
    <3> QED BY <2>3, <3>1, ChangeOK, ResentAre, SameResent
  <2> QED BY <2>1, <2>2, <2>3, SentChanges
<1>3. ASSUME NEW i \in PacketIds, NEW ack \in Acks, NEW op \in Operations, UpdateAck(i, ack, op)
      PROVE  Resending!Next \/ UNCHANGED resent
  <2>1. outgoing' = UpdateStateAck(outgoing, i, ack, op).records /\ IsPublishOutgoing(ack, op)
    BY <1>3 DEF UpdateAck
  <2>2. CASE outgoing' = outgoing
    BY <2>2, SameResent
  <2>3. ASSUME NEW p \in Used(outgoing), outgoing[p].id = i, outgoing' = Deleted(outgoing, p)
        PROVE  Resending!Next
    BY <2>3, DeleteRefines DEF Resending!Next
  <2>4. ASSUME NEW p \in Used(outgoing), NEW new \in RelStates \cap StatesOf(outgoing[p].qos),
               outgoing[p].state \in RelStates, outgoing' = Changed(outgoing, p, new)
        PROVE  UNCHANGED resent
    <3>1. outgoing[p].state \notin SendStates /\ new \notin SendStates
      BY <2>4 DEF SendStates, RelStates
    <3> QED BY <2>4, <3>1, ChangeOK, ResentAre, SameResent
  <2>5. ASSUME NEW p \in Used(outgoing), outgoing[p].id = i, outgoing[p].state = "PubRecPending",
               outgoing' = AddRecord(Deleted(outgoing, p), Record(i, 2, "PubRelSend")).records
        PROVE  Resending!Next
    BY <2>5, PubRecRefines DEF Resending!Next
  <2> QED BY <2>1, <2>2, <2>3, <2>4, <2>5, AckChanges
<1>4. ASSUME NEW i \in PacketIds, Remove(i) PROVE Resending!Next \/ UNCHANGED resent
  <2>1. CASE PositionsOf(outgoing, i) = {}
    <3>1. outgoing' = outgoing
      BY <1>4, <2>1 DEF Remove, RemoveStateRecord
    <3> QED BY <3>1, SameResent
  <2>2. CASE PositionsOf(outgoing, i) # {}
    <3>1. outgoing' = Deleted(outgoing, FirstOf(PositionsOf(outgoing, i)))
      BY <1>4, <2>2 DEF Remove, RemoveStateRecord, Deleted
    <3>2. FirstOf(PositionsOf(outgoing, i)) \in Used(outgoing)
          /\ outgoing[FirstOf(PositionsOf(outgoing, i))].id = i
      BY <2>2, FirstPosition
    <3> QED BY <3>1, <3>2, DeleteRefines DEF Resending!Next
  <2> QED BY <2>1, <2>2
<1>5. CASE ClearRecords
  <2>1. Resending!Forget
    BY <1>5, ResentAre, EmptySelects DEF ClearRecords, Resending!Forget
  <2> QED BY <2>1 DEF Resending!Next
<1>6. CASE UNCHANGED outgoing
  BY <1>6, SameResent
<1> QED BY <1>1, <1>2, <1>3, <1>4, <1>5, <1>6 DEF Next

(* The array, with its gaps and its compactions, gives a resumed session   *)
(* the publishes in the order in which they were reserved and the PUBRELs  *)
(* in the order of their PUBRECs, and loses none.                          *)
THEOREM ImplementsResendOrder == Spec => ResendsInOrder
BY InitRefines, NextRefines, Invariance, PTL DEF Spec, ResendsInOrder, Resending!Spec, resent

-----------------------------------------------------------------------------
(* The loop of compactRecords                                              *)

UpToPlace(a, k) == {q \in Used(a) : q <= k}
Count(a, k) == Cardinality(UpToPlace(a, k))

LEMMA CountIs ==
  ASSUME NEW a \in Arrays, NEW k \in Places
  PROVE  /\ k \in Nat /\ k >= 1 /\ k <= MaxCount /\ Count(a, k - 1) \in 0 .. k - 1
         /\ k \in Used(a) => /\ Count(a, k) = Count(a, k - 1) + 1
                             /\ InOrder(Used(a))[Count(a, k)] = k
         /\ k \notin Used(a) => Count(a, k) = Count(a, k - 1)
<1> DEFINE S == Used(a)
           B == UpToPlace(a, k - 1)
<1>1. MaxCount \in Nat /\ k \in 1 .. MaxCount /\ S \in SUBSET (1 .. MaxCount)
  BY Constants DEF Used, Arrays
<1>2. k \in Nat /\ k >= 1 /\ k <= MaxCount /\ k - 1 \in Nat
  BY <1>1
<1>3. \A q \in S : q \in Nat /\ q >= 1
  BY <1>1
<1>4. B \in SUBSET (1 .. k - 1)
  BY <1>2, <1>3 DEF UpToPlace
<1>5. IsFiniteSet(B) /\ Cardinality(B) \in 0 .. k - 1
  BY <1>2, <1>4, PositionsFinite
<1>6. ASSUME k \in S
      PROVE  Count(a, k) = Count(a, k - 1) + 1 /\ InOrder(S)[Count(a, k)] = k
  <2>1. UpToPlace(a, k) = B \cup {k} /\ k \notin B
    <3>1. \A q \in S : q <= k <=> q <= k - 1 \/ q = k
      BY <1>2, <1>3
    <3>2. ~(k <= k - 1)
      BY <1>2
    <3> QED BY <1>6, <3>1, <3>2 DEF UpToPlace
  <2>2. Count(a, k) = Count(a, k - 1) + 1
    <3> HIDE DEF B
    <3>1. Cardinality(B \cup {k}) = Cardinality(B) + 1
      BY <1>5, <2>1, FS_AddElement
    <3> QED BY <2>1, <3>1 DEF Count, B
  <2>3. Rank(S, k) = Count(a, k)
    BY DEF Rank, Count, UpToPlace
  <2> HIDE DEF S
  <2>4. InOrder(S)[Rank(S, k)] = k
    BY <1>1, <1>6, InOrderLists
  <2> QED BY <2>2, <2>3, <2>4
<1>7. ASSUME k \notin S
      PROVE  Count(a, k) = Count(a, k - 1)
  <2>1. \A q \in S : q <= k <=> q <= k - 1
    BY <1>2, <1>3, <1>7
  <2>2. UpToPlace(a, k) = B
    BY <2>1 DEF UpToPlace
  <2> QED BY <2>2 DEF Count
<1> QED BY <1>2, <1>5, <1>6, <1>7 DEF Count

LEMMA CountAll ==
  ASSUME NEW a \in Arrays
  PROVE  Count(a, 0) = 0 /\ Count(a, MaxCount) = Cardinality(Used(a))
<1>1. \A q \in Used(a) : ~(q <= 0) /\ q <= MaxCount
  BY Constants DEF Used, Arrays
<1>2. UpToPlace(a, 0) = {} /\ UpToPlace(a, MaxCount) = Used(a)
  BY <1>1 DEF UpToPlace
<1> QED BY <1>2, FS_EmptySet DEF Count

(* The array after k turns: the records found in use are in the first      *)
(* places, the others of the k have been cleared, the rest is as it was.   *)
Moved(a, k) ==
  [p \in Places |-> IF p <= Count(a, k) THEN a[InOrder(Used(a))[p]]
                    ELSE IF p <= k THEN NoRecord ELSE a[p]]
AfterTurns(a, k) ==
  [records |-> Moved(a, k), gap |-> IF Count(a, k) = k THEN 0 ELSE Count(a, k) + 1]

LEMMA TurnOfLoop ==
  ASSUME NEW a \in Arrays, NEW k \in Places
  PROVE  CompactTurn(k, AfterTurns(a, k - 1)) = AfterTurns(a, k)
<1> DEFINE c == Count(a, k - 1)
           b == Moved(a, k - 1)
           o == InOrder(Used(a))
<1>1. /\ k \in Nat /\ k >= 1 /\ k <= MaxCount /\ c \in Nat /\ c <= k - 1
      /\ k \in Used(a) => Count(a, k) = c + 1 /\ o[c + 1] = k
      /\ k \notin Used(a) => Count(a, k) = c
  <2>1. /\ k \in Nat /\ k >= 1 /\ k <= MaxCount /\ c \in 0 .. k - 1
        /\ k \in Used(a) => Count(a, k) = c + 1 /\ o[Count(a, k)] = k
        /\ k \notin Used(a) => Count(a, k) = c
    BY CountIs
  <2> HIDE DEF c, o
  <2> QED BY <2>1
<1>2. \A p \in Places : p \in Nat /\ p <= MaxCount
  BY Constants
<1>3. b = [p \in Places |-> IF p <= c THEN a[o[p]] ELSE IF p <= k - 1 THEN NoRecord ELSE a[p]]
  BY DEF Moved
<1>4. AfterTurns(a, k - 1) = [records |-> b, gap |-> IF c = k - 1 THEN 0 ELSE c + 1]
  BY DEF AfterTurns
<1>5. CompactTurn(k, AfterTurns(a, k - 1)) =
        IF b[k].id = NoId
          THEN [records |-> b, gap |-> IF c = k - 1 THEN k ELSE c + 1]
        ELSE IF c = k - 1 THEN AfterTurns(a, k - 1)
        ELSE [records |-> [b EXCEPT ![c + 1] = b[k], ![k] = NoRecord], gap |-> (c + 1) + 1]
  <2> HIDE DEF b, c
  <2>1. c + 1 # 0
    BY <1>1
  <2>2. (IF c = k - 1 THEN 0 ELSE c + 1) = 0 <=> c = k - 1
    BY <2>1
  <2>3. AfterTurns(a, k - 1).records = b /\ AfterTurns(a, k - 1).gap = IF c = k - 1 THEN 0 ELSE c + 1
    BY <1>4
  <2> QED BY <2>2, <2>3 DEF CompactTurn
<1>6. Moved(a, k) = [p \in Places |-> IF p <= Count(a, k) THEN a[o[p]] ELSE IF p <= k THEN NoRecord ELSE a[p]]
  BY DEF Moved
<1> HIDE DEF b, c, o
<1>7. b[k] = a[k]
  BY <1>1, <1>3
<1>8. b[k].id = NoId <=> k \notin Used(a)
  BY <1>7 DEF Used, Arrays
<1>9. CASE k \notin Used(a)
  <2>1. a[k] = NoRecord
    BY <1>9, RecordInUse
  <2>2. Count(a, k) = c /\ c # k
    BY <1>1, <1>9
  <2>3. Moved(a, k) = b
    <3>1. \A p \in Places : p <= k <=> p <= k - 1 \/ p = k
      BY <1>1, <1>2
    <3>2. \A p \in Places : (IF p <= c THEN a[o[p]] ELSE IF p <= k THEN NoRecord ELSE a[p])
                            = (IF p <= c THEN a[o[p]] ELSE IF p <= k - 1 THEN NoRecord ELSE a[p])
      BY <2>1, <3>1
    <3> QED BY <1>3, <1>6, <2>2, <3>2
  <2>4. (IF c = k - 1 THEN k ELSE c + 1) = c + 1
    BY <1>1
  <2> QED BY <1>5, <1>8, <1>9, <2>2, <2>3, <2>4 DEF AfterTurns
<1>10. CASE k \in Used(a) /\ c = k - 1
  <2>1. Count(a, k) = k /\ c + 1 = k /\ o[k] = k
    BY <1>1, <1>10
  <2>2. Moved(a, k) = b
    <3>1. \A p \in Places : p <= k <=> p <= k - 1 \/ p = k
      BY <1>1, <1>2
    <3>2. ~(k <= k - 1)
      BY <1>1
    <3>3. \A p \in Places : (IF p <= k THEN a[o[p]] ELSE IF p <= k THEN NoRecord ELSE a[p])
                            = (IF p <= k - 1 THEN a[o[p]] ELSE IF p <= k - 1 THEN NoRecord ELSE a[p])
      BY <2>1, <3>1, <3>2
    <3> QED BY <1>3, <1>6, <1>10, <2>1, <3>3
  <2>3. AfterTurns(a, k) = [records |-> Moved(a, k), gap |-> 0]
    BY <2>1 DEF AfterTurns
  <2>4. AfterTurns(a, k - 1) = [records |-> b, gap |-> 0]
    BY <1>4, <1>10
  <2> QED BY <1>5, <1>8, <1>10, <2>2, <2>3, <2>4
<1>11. CASE k \in Used(a) /\ c # k - 1
  <2>1. Count(a, k) = c + 1 /\ o[c + 1] = k /\ c + 1 # k /\ c + 1 < k /\ c + 1 \in Places
    BY <1>1, <1>11, Constants
  <2> DEFINE d == [b EXCEPT ![c + 1] = b[k], ![k] = NoRecord]
             e == [p \in Places |-> IF p = k THEN NoRecord ELSE IF p = c + 1 THEN a[k] ELSE b[p]]
  <2>2. d = e
    BY <1>3, <1>7, <2>1
  <2>3. Moved(a, k) = e
    <3> SUFFICES ASSUME NEW p \in Places
                 PROVE  (IF p <= c + 1 THEN a[o[p]] ELSE IF p <= k THEN NoRecord ELSE a[p])
                        = IF p = k THEN NoRecord ELSE IF p = c + 1 THEN a[k] ELSE b[p]
      BY <1>6, <2>1
    <3>1. CASE p = k
      BY <1>1, <2>1, <3>1
    <3>2. CASE p = c + 1
      BY <1>1, <2>1, <3>2
    <3>3. CASE p # k /\ p # c + 1
      <4>1. (p <= k <=> p <= k - 1) /\ (p <= c + 1 <=> p <= c)
        BY <1>1, <1>2, <3>3
      <4>2. b[p] = IF p <= c THEN a[o[p]] ELSE IF p <= k - 1 THEN NoRecord ELSE a[p]
        BY <1>3
      <4> QED BY <3>3, <4>1, <4>2
    <3> QED BY <3>1, <3>2, <3>3
  <2>4. CompactTurn(k, AfterTurns(a, k - 1)) = [records |-> d, gap |-> (c + 1) + 1]
    BY <1>5, <1>8, <1>11
  <2> HIDE DEF d, e
  <2> QED BY <2>1, <2>2, <2>3, <2>4 DEF AfterTurns
<1> QED BY <1>9, <1>10, <1>11

LEMMA StartOfLoop ==
  ASSUME NEW a \in Arrays
  PROVE  AfterTurns(a, 0) = [records |-> a, gap |-> 0] /\ AfterTurns(a, MaxCount).records = Compact(a)
<1>1. Count(a, 0) = 0 /\ Count(a, MaxCount) = Cardinality(Used(a))
  BY CountAll
<1>2. \A p \in Places : p \in Nat /\ ~(p <= 0) /\ p <= MaxCount /\ p >= 1
  BY Constants
<1>3. a = [p \in Places |-> a[p]] /\ DOMAIN a = Places
  BY DEF Arrays
<1>4. Moved(a, 0) = a
  BY <1>1, <1>2, <1>3 DEF Moved
<1>5. Moved(a, MaxCount) = Compact(a)
  <2>1. Cardinality(Used(a)) \in Nat
    <3>1. Used(a) \in SUBSET (1 .. MaxCount) /\ MaxCount \in Nat
      BY Constants DEF Used, Arrays
    <3> QED BY <3>1, PositionsFinite
  <2>2. DOMAIN InOrder(Used(a)) = 1 .. Cardinality(Used(a))
    BY DEF InOrder
  <2>3. \A p \in Places : p \in DOMAIN InOrder(Used(a)) <=> p <= Cardinality(Used(a))
    BY <1>2, <2>1, <2>2
  <2> QED BY <1>1, <1>2, <1>3, <2>3 DEF Moved, Compact
<1> QED BY <1>1, <1>4, <1>5 DEF AfterTurns

(* The loop ends with the compacted array.                                 *)
LEMMA LoopCompacts ==
  ASSUME NEW a \in Arrays
  PROVE  CompactLoop(a) = Compact(a)
<1> DEFINE N == 0 .. MaxCount
           f == [k \in N |-> AfterTurns(a, k)]
<1>0. MaxCount \in Nat /\ 0 \in N /\ MaxCount \in N
      /\ \A k \in N : k # 0 => k \in Places /\ k - 1 \in N /\ k \in Nat /\ k - 1 < k
  BY Constants
<1>1. f = [k \in N |-> IF k = 0 THEN [records |-> a, gap |-> 0] ELSE CompactTurn(k, f[k - 1])]
  <2>1. ASSUME NEW k \in N
        PROVE  AfterTurns(a, k) = IF k = 0 THEN [records |-> a, gap |-> 0] ELSE CompactTurn(k, f[k - 1])
    <3>1. CASE k = 0
      BY <3>1, StartOfLoop
    <3>2. CASE k # 0
      <4>1. k \in Places /\ k - 1 \in N
        BY <1>0, <3>2
      <4>2. f[k - 1] = AfterTurns(a, k - 1)
        BY <4>1
      <4> QED BY <3>2, <4>1, <4>2, TurnOfLoop
    <3> QED BY <3>1, <3>2
  <2> DEFINE g == [k \in N |-> IF k = 0 THEN [records |-> a, gap |-> 0] ELSE CompactTurn(k, f[k - 1])]
  <2>2. \A k \in N : AfterTurns(a, k) = g[k]
    <3> HIDE DEF f
    <3> QED BY <2>1, Zenon
  <2> HIDE DEF g
  <2>3. f = [k \in N |-> g[k]]
    BY <2>2, Zenon
  <2> HIDE DEF f
  <2> QED BY <2>3, Zenon DEF g
<1> HIDE DEF f
<1>2. PICK g : /\ g = [k \in N |-> IF k = 0 THEN [records |-> a, gap |-> 0] ELSE CompactTurn(k, g[k - 1])]
               /\ CompactLoop(a) = g[MaxCount].records
  BY <1>1, Zenon DEF CompactLoop
<1> DEFINE Wrong == {k \in N : g[k] # AfterTurns(a, k)}
<1>3. Wrong = {}
  <2> SUFFICES ASSUME Wrong # {} PROVE FALSE
    OBVIOUS
  <2> DEFINE k == FirstOf(Wrong)
  <2>1. Wrong \in SUBSET Nat
    OBVIOUS
  <2>2. k \in Wrong /\ \A j \in Wrong : k <= j
    BY <2>1, FirstIsMember
  <2> HIDE DEF k
  <2>3. k \in N /\ g[k] # AfterTurns(a, k)
    BY <2>2
  <2>4. k # 0
    BY <1>0, <1>2, <2>3, StartOfLoop
  <2>5. k \in Places /\ k - 1 \in N /\ k \in Nat /\ k - 1 < k
    BY <1>0, <2>3, <2>4
  <2>6. k - 1 \notin Wrong
    <3>1. ~(k <= k - 1)
      BY <2>5
    <3> QED BY <2>2, <3>1
  <2>7. g[k - 1] = AfterTurns(a, k - 1)
    BY <2>5, <2>6
  <2>8. g[k] = CompactTurn(k, g[k - 1])
    BY <1>2, <2>3, <2>4, Zenon
  <2> QED BY <2>3, <2>5, <2>7, <2>8, TurnOfLoop
<1>4. g[MaxCount] = AfterTurns(a, MaxCount)
  BY <1>0, <1>3
<1> QED BY <1>2, <1>4, StartOfLoop

(* compactRecords *)
THEOREM CompactionHolds == Spec => []CompactIsTheLoop
<1>1. IInv => CompactIsTheLoop
  BY LoopCompacts DEF IInv, ArrayOK, CompactIsTheLoop
<1> QED BY <1>1, Invariance, PTL
=============================================================================
