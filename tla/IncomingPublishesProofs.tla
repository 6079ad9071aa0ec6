----------------------- MODULE IncomingPublishesProofs -----------------------
(***************************************************************************)
(* What is proved of IncomingPublishes, for any number of messages,        *)
(* identifiers, places and faults: the records of the device and the       *)
(* exchanges of the broker stay together over lost connections, so that a  *)
(* QoS 2 message is delivered once at most, and an exchange ends after its *)
(* message has been delivered, unless an acknowledgment of its identifier  *)
(* has strayed; and so, step by step, what Delivery promises.              *)
(***************************************************************************)
EXTENDS IncomingPublishes, PublishRecordsProofs, SequenceTheorems

-----------------------------------------------------------------------------
(* Sequences of things with an identifier of their own                     *)

Apart(s) == \A k, l \in DOMAIN s : s[k].id = s[l].id => k = l

(* Members with the same identifier are the same.                          *)
LEMMA ApartIsOne ==
  ASSUME NEW s, Apart(s)
  PROVE  \A x, y \in Range(s) : x.id = y.id => x = y
BY DEF Apart, Range

LEMMA AppendApart ==
  ASSUME NEW S, NEW s \in Seq(S), Apart(s), NEW x \in S, \A y \in Range(s) : y.id # x.id
  PROVE  /\ Append(s, x) \in Seq(S) /\ Apart(Append(s, x))
         /\ Range(Append(s, x)) = Range(s) \cup {x}
<1> DEFINE t == Append(s, x)
<1>1. /\ t \in Seq(S) /\ DOMAIN t = 1 .. Len(s) + 1 /\ DOMAIN s = 1 .. Len(s) /\ Len(s) \in Nat
      /\ t[Len(s) + 1] = x /\ \A k \in 1 .. Len(s) : t[k] = s[k]
  OBVIOUS
<1> HIDE DEF t
<1>2. \A k \in 1 .. Len(s) : s[k] \in Range(s)
  BY <1>1 DEF Range
<1>3. Apart(t)
  BY <1>1, <1>2 DEF Apart
<1>4. Range(t) \subseteq Range(s) \cup {x}
  BY <1>1, <1>2 DEF Range
<1>5. Range(s) \cup {x} \subseteq Range(t)
  <2>1. \A k \in 1 .. Len(s) : s[k] \in Range(t)
    <3> SUFFICES ASSUME NEW k \in 1 .. Len(s) PROVE s[k] \in Range(t)
      OBVIOUS
    <3>1. k \in DOMAIN t /\ t[k] = s[k]
      BY <1>1
    <3> QED BY <3>1 DEF Range
  <2>2. x \in Range(t)
    <3>1. Len(s) + 1 \in DOMAIN t
      BY <1>1
    <3> QED BY <1>1, <3>1 DEF Range
  <2> QED BY <1>1, <2>1, <2>2 DEF Range
<1> QED BY <1>1, <1>3, <1>4, <1>5 DEF t

LEMMA TailApart ==
  ASSUME NEW S, NEW s \in Seq(S), Apart(s), s # << >>
  PROVE  /\ Head(s) \in Range(s) /\ Head(s) \in S
         /\ Tail(s) \in Seq(S) /\ Apart(Tail(s)) /\ Range(Tail(s)) = Range(s) \ {Head(s)}
<1> DEFINE t == Tail(s)
<1>1. /\ t \in Seq(S) /\ DOMAIN t = 1 .. Len(s) - 1 /\ DOMAIN s = 1 .. Len(s) /\ Len(s) \in Nat \ {0}
      /\ \A k \in 1 .. Len(s) - 1 : t[k] = s[k + 1]
      /\ Head(s) = s[1] /\ Head(s) \in S
  OBVIOUS
<1> HIDE DEF t
<1>2. Head(s) \in Range(s)
  <2>1. 1 \in DOMAIN s
    BY <1>1
  <2> QED BY <1>1, <2>1 DEF Range
<1>3. Apart(t)
  <2> SUFFICES ASSUME NEW k \in 1 .. Len(s) - 1, NEW l \in 1 .. Len(s) - 1, t[k].id = t[l].id
               PROVE  k = l
    BY <1>1 DEF Apart
  <2>1. k + 1 \in DOMAIN s /\ l + 1 \in DOMAIN s /\ s[k + 1].id = s[l + 1].id
    BY <1>1
  <2>2. k + 1 = l + 1
    BY <2>1 DEF Apart
  <2> QED BY <1>1, <2>2
<1>4. Range(t) \subseteq Range(s) \ {Head(s)}
  <2> SUFFICES ASSUME NEW k \in 1 .. Len(s) - 1 PROVE t[k] \in Range(s) \ {Head(s)}
    BY <1>1 DEF Range
  <2>1. k + 1 \in DOMAIN s /\ t[k] = s[k + 1] /\ k + 1 # 1 /\ 1 \in DOMAIN s
    BY <1>1
  <2> QED BY <1>1, <2>1 DEF Range, Apart
<1>5. Range(s) \ {Head(s)} \subseteq Range(t)
  <2> SUFFICES ASSUME NEW k \in 1 .. Len(s), k # 1 PROVE s[k] \in Range(t)
    BY <1>1 DEF Range
  <2>1. k - 1 \in DOMAIN t /\ t[k - 1] = s[k]
    BY <1>1
  <2> QED BY <2>1 DEF Range
<1> QED BY <1>1, <1>2, <1>3, <1>4, <1>5 DEF t

LEMMA RemoveApart ==
  ASSUME NEW S, NEW s \in Seq(S), Apart(s), NEW n \in DOMAIN s
  PROVE  /\ RemoveAt(s, n) \in Seq(S) /\ Apart(RemoveAt(s, n))
         /\ Range(RemoveAt(s, n)) = Range(s) \ {s[n]}
<1> DEFINE t == RemoveAt(s, n)
<1> DEFINE at(k) == IF k < n THEN k ELSE k + 1
<1>1. /\ t \in Seq(S) /\ DOMAIN t = 1 .. Len(s) - 1 /\ DOMAIN s = 1 .. Len(s) /\ Len(s) \in Nat
      /\ \A k \in 1 .. Len(s) - 1 : t[k] = s[at(k)]
  <2> DEFINE u == SubSeq(s, 1, n - 1)
             v == SubSeq(s, n + 1, Len(s))
  <2>1. n \in 1 .. Len(s) /\ Len(s) \in Nat /\ DOMAIN s = 1 .. Len(s)
    OBVIOUS
  <2>2. u \in Seq(S) /\ Len(u) = n - 1 /\ \A k \in 1 .. n - 1 : u[k] = s[k]
    BY <2>1
  <2>3. v \in Seq(S) /\ Len(v) = Len(s) - n /\ \A k \in 1 .. Len(s) - n : v[k] = s[k + n]
    BY <2>1
  <2> HIDE DEF u, v
  <2>4. u \o v \in Seq(S) /\ Len(u \o v) = Len(s) - 1 /\ DOMAIN (u \o v) = 1 .. Len(s) - 1
    <3>1. u \o v \in Seq(S) /\ Len(u \o v) = Len(u) + Len(v)
      BY <2>2, <2>3, ConcatProperties
    <3>2. Len(u \o v) = Len(s) - 1
      BY <2>1, <2>2, <2>3, <3>1
    <3> QED BY <3>1, <3>2
  <2>5. ASSUME NEW k \in 1 .. Len(s) - 1 PROVE (u \o v)[k] = s[at(k)]
    <3>1. CASE k < n
      <4>1. k \in 1 .. Len(u) /\ k \in 1 .. n - 1
        BY <2>1, <2>2, <3>1
      <4>2. (u \o v)[k] = u[k]
        BY <2>2, <2>3, <4>1
      <4> QED BY <2>2, <3>1, <4>1, <4>2
    <3>2. CASE ~(k < n)
      <4> DEFINE l == k - (n - 1)
      <4>1. l \in 1 .. Len(s) - n /\ l + n = k + 1 /\ k = Len(u) + l
        BY <2>1, <2>2, <3>2
      <4>2. (u \o v)[k] = v[l]
        BY <2>1, <2>2, <2>3, <3>2
      <4>3. v[l] = s[l + n]
        BY <2>3, <4>1
      <4> QED BY <3>2, <4>1, <4>2, <4>3
    <3> QED BY <3>1, <3>2
  <2>6. t = u \o v
    BY DEF RemoveAt, u, v
  <2> QED BY <2>1, <2>4, <2>5, <2>6
<1> HIDE DEF t
<1>2. /\ n \in 1 .. Len(s)
      /\ \A k \in 1 .. Len(s) - 1 : at(k) \in DOMAIN s /\ at(k) # n
      /\ \A k, l \in 1 .. Len(s) - 1 : at(k) = at(l) => k = l
  BY <1>1
<1>3. Apart(t)
  <2> SUFFICES ASSUME NEW k \in 1 .. Len(s) - 1, NEW l \in 1 .. Len(s) - 1, t[k].id = t[l].id
               PROVE  k = l
    BY <1>1 DEF Apart
  <2> HIDE DEF at
  <2>1. s[at(k)].id = s[at(l)].id
    BY <1>1
  <2> QED BY <1>2, <2>1 DEF Apart
<1>4. Range(t) \subseteq Range(s) \ {s[n]}
  <2> SUFFICES ASSUME NEW k \in 1 .. Len(s) - 1 PROVE t[k] \in Range(s) \ {s[n]}
    BY <1>1 DEF Range
  <2> HIDE DEF at
  <2>1. PICK l \in DOMAIN s : t[k] = s[l] /\ l # n
    BY <1>1, <1>2
  <2> QED BY <2>1 DEF Range, Apart
<1>5. Range(s) \ {s[n]} \subseteq Range(t)
  <2> SUFFICES ASSUME NEW k \in 1 .. Len(s), k # n PROVE s[k] \in Range(t)
    BY <1>1 DEF Range
  <2>1. PICK l \in DOMAIN t : t[l] = s[k]
    <3>1. CASE k < n
      <4>1. k \in DOMAIN t /\ t[k] = s[k]
        BY <1>1, <1>2, <3>1
      <4> QED BY <4>1
    <3>2. CASE ~(k < n)
      <4>1. k - 1 \in DOMAIN t /\ t[k - 1] = s[k]
        BY <1>1, <1>2, <3>2
      <4> QED BY <4>1
    <3> QED BY <3>1, <3>2
  <2> QED BY <2>1 DEF Range
<1> QED BY <1>1, <1>3, <1>4, <1>5 DEF t

(* A member is replaced by one with the same identifier.                   *)
LEMMA ReplaceApart ==
  ASSUME NEW S, NEW s \in Seq(S), Apart(s), NEW n \in DOMAIN s, NEW x \in S, x.id = s[n].id,
         NEW t, t = Put(s, n, x)
  PROVE  t \in Seq(S) /\ Apart(t) /\ Range(t) = (Range(s) \ {s[n]}) \cup {x}
<1>1. /\ t \in Seq(S) /\ DOMAIN t = DOMAIN s /\ t[n] = x
      /\ \A k \in DOMAIN s : k # n => t[k] = s[k]
  BY DEF Put
<1>2. \A k \in DOMAIN s : t[k].id = s[k].id
  BY <1>1
<1>3. Apart(t)
  BY <1>1, <1>2 DEF Apart
<1>4. Range(t) \subseteq (Range(s) \ {s[n]}) \cup {x}
  <2> SUFFICES ASSUME NEW k \in DOMAIN s PROVE t[k] \in (Range(s) \ {s[n]}) \cup {x}
    BY <1>1 DEF Range
  <2>1. k # n => s[k] # s[n]
    BY DEF Apart
  <2> QED BY <1>1, <2>1 DEF Range
<1>5. (Range(s) \ {s[n]}) \cup {x} \subseteq Range(t)
  BY <1>1 DEF Range
<1> QED BY <1>1, <1>3, <1>4, <1>5

-----------------------------------------------------------------------------
(* The inductive invariant                                                 *)

DownPackets == [type : {"PUBLISH", "PUBREL"}, id : PacketIds, msg : Messages]
UpPackets == [type : {"PUBACK", "PUBREC", "PUBCOMP"}, id : PacketIds]
Exchanges == [msg : Messages, id : PacketIds, phase : {"publish", "release"}]

\* What is on its way, what is open, and what is recorded, places aside.
Down == Range(toDevice)
Up == Range(toBroker)
Open == Range(exchanges)
Held == RecordsIn(incoming)

TypesOK ==
  /\ SoundArray(incoming, MaxCount, PacketIds)
  /\ link \in {"up", "failed"}
  /\ toDevice \in Seq(DownPackets)
  /\ toBroker \in Seq(UpPackets)
  /\ exchanges \in Seq(Exchanges)
  /\ fate \in [Messages -> Fates]
  /\ deliveries \in [Messages -> 0 .. Often]
  /\ strayed \subseteq PacketIds
  /\ faults \in 0 .. MaxFaults

(* Each exchange has one packet on its way at most, to the device what it  *)
(* resends, to the broker an acknowledgment it waits for.                  *)
PacketFor(e) == Packet(IF e.phase = "publish" THEN "PUBLISH" ELSE "PUBREL", e)

Awaits(e, ack) ==
  /\ e.id = ack.id
  /\ \/ ack.type = "PUBACK"  /\ e.phase = "publish" /\ Qos[e.msg] = 1
     \/ ack.type = "PUBREC"  /\ e.phase = "publish" /\ Qos[e.msg] = 2
     \/ ack.type = "PUBCOMP" /\ e.phase = "release"

PacketsFit ==
  /\ Apart(toDevice) /\ Apart(toBroker)
  /\ \A p \in Down : \A a \in Up : p.id # a.id
  /\ \A p \in Down : \E e \in Open : p = PacketFor(e)
  /\ \A a \in Up : \E e \in Open : Awaits(e, a)

(* The broker has one exchange for an identifier, and one for a message.   *)
ExchangesFit ==
  /\ Apart(exchanges)
  /\ \A e, f \in Open : e.msg = f.msg => e = f
  /\ \A e \in Open : fate[e.msg] = "inFlight"
  /\ \A m \in Messages : deliveries[m] # 0 => fate[m] # "unsent"

(* While the broker may still send a QoS 2 message again, a device that    *)
(* has delivered it has a record of it.                                    *)
KnownAgain ==
  \A e \in Open : Qos[e.msg] = 2 /\ e.phase = "publish" /\ deliveries[e.msg] # 0 =>
    \E r \in Held : r.id = e.id

(* Of an identifier no acknowledgment of which has strayed: a record is of *)
(* the exchange that is open, and delivered; what the broker is about to   *)
(* end, or has been told of, is delivered, and its record is gone.         *)
StatesOf(qos) == IF qos = 1 THEN {"PubAckSend"} ELSE {"PubRecSend", "PubRelPending", "PubCompSend"}
HeldFor(e, r) == e.id = r.id /\ Qos[e.msg] = r.qos /\ deliveries[e.msg] # 0
LastAcks == {"PUBACK", "PUBCOMP"}

HeldFit ==
  /\ \A r \in Held : r.state \in StatesOf(r.qos)
  /\ \A r \in Held : r.id \notin strayed => \E e \in Open : HeldFor(e, r)
  /\ \A a \in Up : a.id \notin strayed =>
       /\ \A e \in Open : e.id = a.id => deliveries[e.msg] # 0
       /\ a.type \in LastAcks => \A r \in Held : r.id # a.id
  /\ \A e \in Open : e.phase = "release" /\ e.id \notin strayed => deliveries[e.msg] # 0

IInv == /\ TypesOK
        /\ PacketsFit
        /\ ExchangesFit
        /\ KnownAgain
        /\ HeldFit
        /\ QoS2NotTwice

-----------------------------------------------------------------------------
(* The parts of a step                                                     *)

LEMMA Constants ==
  /\ NoId \notin PacketIds /\ PacketIds \subseteq Nat /\ MaxCount \in Nat \ {0}
  /\ Qos \in [Messages -> {1, 2}] /\ Places = 1 .. MaxCount /\ MaxFaults \in Nat
BY IncomingAssumption DEF Places

LEMMA PacketForHas ==
  ASSUME NEW e \in Exchanges
  PROVE  /\ PacketFor(e) \in DownPackets /\ PacketFor(e).id = e.id /\ PacketFor(e).msg = e.msg
         /\ PacketFor(e).type = IF e.phase = "publish" THEN "PUBLISH" ELSE "PUBREL"
BY DEF PacketFor, Packet, Exchanges, DownPackets

(* The members of the sequences and of the array have their types.         *)
LEMMA Members ==
  ASSUME IInv
  PROVE  /\ Down \subseteq DownPackets /\ Up \subseteq UpPackets /\ Open \subseteq Exchanges
         /\ \A r \in Held : r.id \in PacketIds /\ r.qos \in {1, 2} /\ r.id # NoId
         /\ \A p, q \in Down : p.id = q.id => p = q
         /\ \A a, b \in Up : a.id = b.id => a = b
         /\ \A e, f \in Open : e.id = f.id => e = f
         /\ \A r, s \in Held : r.id = s.id => r = s
<1>1. Down \subseteq DownPackets /\ Up \subseteq UpPackets /\ Open \subseteq Exchanges
  BY DEF IInv, TypesOK, Down, Up, Open, Range
<1>2. /\ \A r \in Held : r.id \in PacketIds /\ r.qos \in {1, 2}
      /\ \A r, s \in Held : r.id = s.id => r = s
  <2>1. SoundArray(incoming, MaxCount, PacketIds)
    BY DEF IInv, TypesOK
  <2>2. /\ \A p \in Used(incoming) : incoming[p].id \in PacketIds /\ incoming[p].qos \in {1, 2}
        /\ \A r, s \in RecordsIn(incoming) : r.id = s.id => r = s
    BY <2>1, Constants, SoundRecords
  <2> QED BY <2>2 DEF Held, RecordsIn
<1>3. /\ \A p, q \in Down : p.id = q.id => p = q
      /\ \A a, b \in Up : a.id = b.id => a = b
      /\ \A e, f \in Open : e.id = f.id => e = f
  BY ApartIsOne DEF IInv, PacketsFit, ExchangesFit, Down, Up, Open
<1> QED BY <1>1, <1>2, <1>3, Constants

(* The broker's own definitions, place by place, in terms of exchanges.    *)
LEMMA FitsIsAwaits ==
  ASSUME NEW n \in DOMAIN exchanges, NEW a
  PROVE  Fits(a, n) <=> Awaits(exchanges[n], a)
BY DEF Fits, Awaits

(* The record handleIncomingPublish asks for, and what becomes of it.      *)
NewRecord(i, m) == Record(i, Qos[m], CalculateStatePublish("RECEIVE", Qos[m]))
AckOf(m) == IF Qos[m] = 1 THEN "PUBACK" ELSE "PUBREC"

LEMMA NewRecordOK ==
  ASSUME NEW i \in PacketIds, NEW m \in Messages
  PROVE  /\ NewRecord(i, m) \in RecordValues(PacketIds)
         /\ NewRecord(i, m).id = i /\ NewRecord(i, m).qos = Qos[m]
         /\ NewRecord(i, m).state \in StatesOf(Qos[m])
         /\ AckTypeToSend(CalculateStatePublish("RECEIVE", Qos[m])) = AckOf(m)
         /\ CalculateStatePublish("RECEIVE", Qos[m]) = IF Qos[m] = 1 THEN "PubAckSend" ELSE "PubRecSend"
<1>1. Qos[m] \in {1, 2}
  BY Constants
<1> QED BY <1>1 DEF NewRecord, Record, RecordValues, ReceiveStates, CalculateStatePublish, StatesOf,
                    AckTypeToSend, AckOf

(* sendPublishAcks, as what it does to the sets.                           *)
LEMMA AckIsSent ==
  ASSUME IInv, NEW a, SoundArray(a, MaxCount, PacketIds), NEW i \in PacketIds,
         NEW state, NEW outcome, SendPublishAck(a, i, state, outcome),
         NEW type \in {"PUBACK", "PUBREC", "PUBCOMP"}, type = AckTypeToSend(state),
         NEW r \in RecordsIn(a), r.id = i,
         NEW new, new = CalculateStateAck(type, "SEND", r.qos),
         \A b \in Up : b.id # i
  PROVE  /\ SoundArray(incoming', MaxCount, PacketIds)
         /\ toBroker' \in Seq(UpPackets) /\ Apart(toBroker')
         /\ link' \in {"up", "failed"} /\ faults' \in 0 .. MaxFaults
         /\ \/ /\ RecordsIn(incoming') = RecordsIn(a) /\ Up' = Up /\ strayed' = strayed
            \/ /\ RecordsIn(incoming') = RecordsIn(a) /\ Up' = Up \cup {Ack(type, i)}
               /\ strayed' = strayed \cup {i}
            \/ /\ ~Follows(r, new) /\ RecordsIn(incoming') = RecordsIn(a)
               /\ Up' = Up \cup {Ack(type, i)} /\ strayed' = strayed
            \/ /\ Follows(r, new) /\ RecordsIn(incoming') = AfterAck(a, r, new)
               /\ Up' = Up \cup {Ack(type, i)} /\ strayed' = strayed
<1> DEFINE updated == UpdateStateAck(a, i, type, "SEND")
<1>1. /\ SoundArray(updated.records, MaxCount, PacketIds)
      /\ \/ ~Follows(r, new) /\ updated.records = a
         \/ Follows(r, new) /\ RecordsIn(updated.records) = AfterAck(a, r, new)
  BY Constants, AckRecords
<1>2. /\ outcome \in {"sent", "failed", "late"} /\ faults \in 0 .. MaxFaults /\ MaxFaults \in Nat
      /\ outcome # "sent" => faults # MaxFaults
  BY Constants DEF SendPublishAck, Outcomes, IInv, TypesOK
<1>3. /\ toBroker' = IF outcome = "failed" THEN toBroker ELSE Append(toBroker, Ack(type, i))
      /\ incoming' = IF outcome = "sent" THEN updated.records ELSE a
      /\ link' \in {link, "failed"}
      /\ strayed' = IF outcome = "late" THEN strayed \cup {i} ELSE strayed
      /\ faults' = IF outcome = "sent" THEN faults ELSE faults + 1
  BY DEF SendPublishAck
<1> HIDE DEF updated
<1>4. /\ Append(toBroker, Ack(type, i)) \in Seq(UpPackets) /\ Apart(Append(toBroker, Ack(type, i)))
      /\ Range(Append(toBroker, Ack(type, i))) = Up \cup {Ack(type, i)}
  <2>1. Ack(type, i) \in UpPackets /\ Ack(type, i).id = i
    BY DEF Ack, UpPackets
  <2>2. toBroker \in Seq(UpPackets) /\ Apart(toBroker) /\ \A b \in Range(toBroker) : b.id # Ack(type, i).id
    BY <2>1 DEF IInv, TypesOK, PacketsFit, Up
  <2> QED BY <2>1, <2>2, AppendApart DEF Up
<1>5. SoundArray(incoming', MaxCount, PacketIds) /\ link' \in {"up", "failed"} /\ faults' \in 0 .. MaxFaults
  BY <1>1, <1>2, <1>3 DEF IInv, TypesOK
<1>6. toBroker' \in Seq(UpPackets) /\ Apart(toBroker')
  BY <1>3, <1>4 DEF IInv, TypesOK, PacketsFit
<1>7. Up' = IF outcome = "failed" THEN Up ELSE Up \cup {Ack(type, i)}
  BY <1>3, <1>4 DEF Up
<1> QED BY <1>1, <1>2, <1>3, <1>5, <1>6, <1>7

-----------------------------------------------------------------------------
(* The steps of the broker                                                 *)

LEMMA InitIInv == Init => IInv
<1> SUFFICES ASSUME Init PROVE IInv
  OBVIOUS
<1>1. SoundArray(incoming, MaxCount, PacketIds) /\ Held = {}
  <2>1. incoming = [p \in 1 .. MaxCount |-> NoRecord]
    BY Constants DEF Init, NoRecords
  <2>2. NoRecord \in RecordValues(PacketIds) /\ NoRecord.id = NoId
    BY DEF RecordValues, NoRecord
  <2>3. Used(incoming) = {}
    BY <2>1, <2>2 DEF Used
  <2> QED BY <2>1, <2>2, <2>3 DEF SoundArray, Held, RecordsIn
<1>2. Down = {} /\ Up = {} /\ Open = {}
  BY DEF Init, Down, Up, Open, Range
<1>3. TypesOK
  BY <1>1, Constants DEF Init, TypesOK, Often, Fates
<1>4. Apart(toDevice) /\ Apart(toBroker) /\ Apart(exchanges)
  BY DEF Init, Apart
<1>5. \A m \in Messages : fate[m] = "unsent" /\ deliveries[m] = 0
  BY DEF Init
<1> QED BY <1>1, <1>2, <1>3, <1>4, <1>5
      DEF IInv, PacketsFit, ExchangesFit, KnownAgain, HeldFit, QoS2NotTwice

LEMMA PublishKeepsIInv ==
  ASSUME IInv, NEW m \in Messages, NEW i \in PacketIds, Publish(m, i)
  PROVE  IInv'
<1>1. PICK e : e = Exchange(m, i, "publish")
  OBVIOUS
<1>2. /\ fate[m] = "unsent" /\ fate' = [fate EXCEPT ![m] = "inFlight"]
      /\ exchanges' = Append(exchanges, e) /\ toDevice' = Append(toDevice, Packet("PUBLISH", e))
      /\ UNCHANGED <<incoming, deliveries, link, toBroker, strayed, faults>>
      /\ ExchangeOf(i) = {}
  BY <1>1 DEF Publish, deviceVars
<1>3. e \in Exchanges /\ e.id = i /\ e.msg = m /\ e.phase = "publish"
      /\ Packet("PUBLISH", e) = PacketFor(e)
  BY <1>1 DEF Exchange, Exchanges, PacketFor
<1>4. PICK p : p = PacketFor(e)
  OBVIOUS
<1>5. p \in DownPackets /\ p.id = i
  BY <1>3, <1>4, PacketForHas
<1>6. \A f \in Open : f.id # i /\ f.msg # m
  <2>1. \A f \in Open : f.id # i
    BY <1>2 DEF ExchangeOf, Open, Range
  <2>2. \A f \in Open : f.msg # m
    BY <1>2 DEF IInv, ExchangesFit
  <2> QED BY <2>1, <2>2
<1>7. (\A q \in Down : q.id # i) /\ \A a \in Up : a.id # i
  <2>1. \A q \in Down : q.id # i
    BY <1>6, Members, PacketForHas DEF IInv, PacketsFit
  <2>2. \A a \in Up : a.id # i
    BY <1>6 DEF IInv, PacketsFit, Awaits
  <2> QED BY <2>1, <2>2
<1>8. /\ exchanges' \in Seq(Exchanges) /\ Apart(exchanges') /\ Open' = Open \cup {e}
  <2>1. \A f \in Range(exchanges) : f.id # e.id
    BY <1>3, <1>6 DEF Open
  <2>2. exchanges \in Seq(Exchanges) /\ Apart(exchanges)
    BY DEF IInv, TypesOK, ExchangesFit
  <2> QED BY <1>2, <1>3, <2>1, <2>2, AppendApart DEF Open
<1>9. /\ toDevice' \in Seq(DownPackets) /\ Apart(toDevice') /\ Down' = Down \cup {p}
  <2>1. \A q \in Range(toDevice) : q.id # p.id
    BY <1>5, <1>7 DEF Down
  <2>2. toDevice' = Append(toDevice, p)
    BY <1>2, <1>3, <1>4
  <2> QED BY <1>5, <2>1, <2>2, AppendApart DEF Down, IInv, TypesOK, PacketsFit
<1>10. Up' = Up /\ Held' = Held
  BY <1>2 DEF Up, Held
<1>11. deliveries[m] = 0
  BY <1>2 DEF IInv, ExchangesFit
<1>12. /\ fate' \in [Messages -> Fates] /\ fate'[m] = "inFlight"
       /\ \A l \in Messages : l # m => fate'[l] = fate[l]
  BY <1>2 DEF IInv, TypesOK, Fates
<1>13. TypesOK'
  BY <1>2, <1>8, <1>9, <1>12 DEF IInv, TypesOK
<1>14. PacketsFit'
  <2>1. /\ \A q \in Down' : \A a \in Up' : q.id # a.id
    BY <1>5, <1>7, <1>9, <1>10 DEF IInv, PacketsFit
  <2>2. \A q \in Down' : \E f \in Open' : q = PacketFor(f)
    BY <1>4, <1>8, <1>9 DEF IInv, PacketsFit
  <2>3. \A a \in Up' : \E f \in Open' : Awaits(f, a)
    BY <1>8, <1>10 DEF IInv, PacketsFit
  <2> QED BY <1>2, <1>9, <2>1, <2>2, <2>3 DEF IInv, PacketsFit
<1>15. ExchangesFit'
  <2>1. \A f, g \in Open' : f.msg = g.msg => f = g
    BY <1>3, <1>6, <1>8 DEF IInv, ExchangesFit
  <2>2. \A f \in Open' : fate'[f.msg] = "inFlight"
    <3>1. \A f \in Open : f.msg \in Messages
      BY Members DEF Exchanges
    <3> QED BY <1>3, <1>6, <1>8, <1>12, <3>1 DEF IInv, ExchangesFit
  <2>3. \A l \in Messages : deliveries'[l] # 0 => fate'[l] # "unsent"
    BY <1>2, <1>12 DEF IInv, ExchangesFit
  <2> QED BY <1>8, <2>1, <2>2, <2>3 DEF ExchangesFit
<1>16. KnownAgain'
  BY <1>2, <1>3, <1>8, <1>10, <1>11 DEF IInv, KnownAgain
<1>17. HeldFit'
  <2>1. \A r \in Held' : r.state \in StatesOf(r.qos)
    BY <1>10 DEF IInv, HeldFit
  <2>2. \A r \in Held' : r.id \notin strayed' => \E f \in Open' : HeldFor(f, r)'
    BY <1>2, <1>8, <1>10 DEF IInv, HeldFit, HeldFor
  <2>3. \A a \in Up' : a.id \notin strayed' =>
          /\ \A f \in Open' : f.id = a.id => deliveries'[f.msg] # 0
          /\ a.type \in LastAcks => \A r \in Held' : r.id # a.id
    BY <1>2, <1>3, <1>7, <1>8, <1>10 DEF IInv, HeldFit
  <2>4. \A f \in Open' : f.phase = "release" /\ f.id \notin strayed' => deliveries'[f.msg] # 0
    BY <1>2, <1>3, <1>8 DEF IInv, HeldFit
  <2> QED BY <2>1, <2>2, <2>3, <2>4 DEF HeldFit, HeldFor
<1>18. QoS2NotTwice'
  BY <1>2 DEF IInv, QoS2NotTwice
<1> QED BY <1>13, <1>14, <1>15, <1>16, <1>17, <1>18 DEF IInv

(* An acknowledgment always finds the exchange that awaits it; a PUBREC is *)
(* answered with a PUBREL, the others end the exchange.                    *)
LEMMA BrokerReceivesKeepsIInv ==
  ASSUME IInv, BrokerReceives
  PROVE  IInv'
<1>1. PICK a : a = Head(toBroker)
  OBVIOUS
<1>2. /\ toBroker # << >> /\ toBroker' = Tail(toBroker)
      /\ UNCHANGED <<incoming, deliveries, link, strayed, faults>>
  BY DEF BrokerReceives, deviceVars
<1>3. /\ a \in Up /\ a \in UpPackets /\ toBroker' \in Seq(UpPackets) /\ Apart(toBroker')
      /\ Up' = Up \ {a}
  <2>1. toBroker \in Seq(UpPackets) /\ Apart(toBroker)
    BY DEF IInv, TypesOK, PacketsFit
  <2> QED BY <1>1, <1>2, <2>1, TailApart DEF Up
<1>4. PICK n \in DOMAIN exchanges :
        /\ Awaits(exchanges[n], a)
        /\ IF a.type = "PUBREC"
             THEN /\ exchanges' = [exchanges EXCEPT ![n].phase = "release"]
                  /\ toDevice' = IF link = "up" THEN Append(toDevice, Packet("PUBREL", exchanges[n]))
                                                ELSE toDevice
                  /\ UNCHANGED fate
             ELSE /\ exchanges' = RemoveAt(exchanges, n)
                  /\ fate' = [fate EXCEPT ![exchanges[n].msg] = "done"]
                  /\ UNCHANGED toDevice
  <2>1. \E k \in DOMAIN exchanges : Fits(a, k)
    <3>1. PICK e \in Open : Awaits(e, a)
      BY <1>3 DEF IInv, PacketsFit
    <3>2. PICK k \in DOMAIN exchanges : exchanges[k] = e
      BY DEF Open, Range
    <3> QED BY <3>1, <3>2, FitsIsAwaits
  <2> QED BY <1>1, <2>1, FitsIsAwaits DEF BrokerReceives, brokerVars
<1>5. PICK e : e = exchanges[n]
  OBVIOUS
<1>6. /\ exchanges \in Seq(Exchanges) /\ Apart(exchanges) /\ e \in Open /\ e \in Exchanges
      /\ Awaits(e, a) /\ e.id = a.id /\ e.msg \in Messages /\ e.id \in PacketIds
  <2>1. exchanges \in Seq(Exchanges) /\ Apart(exchanges) /\ e \in Open
    BY <1>5 DEF IInv, TypesOK, ExchangesFit, Open, Range
  <2> QED BY <1>4, <1>5, <2>1, Members DEF Awaits, Exchanges
<1>7. /\ \A b \in Up' : b \in Up /\ b.id # e.id
      /\ \A q \in Down : q.id # e.id
      /\ \A f \in Open : f # e => f.id # e.id /\ f.msg # e.msg
      /\ \A q \in Down : \E f \in Open \ {e} : q = PacketFor(f)
      /\ \A b \in Up' : \E f \in Open \ {e} : Awaits(f, b)
  <2>1. \A b \in Up' : b \in Up /\ b.id # e.id
    BY <1>3, <1>6, Members
  <2>2. \A q \in Down : q.id # e.id
    BY <1>3, <1>6 DEF IInv, PacketsFit
  <2>3. \A f \in Open : f # e => f.id # e.id /\ f.msg # e.msg
    BY <1>6, Members DEF IInv, ExchangesFit
  <2>4. \A q \in Down : \E f \in Open \ {e} : q = PacketFor(f)
    BY <1>6, <2>2, Members, PacketForHas DEF IInv, PacketsFit
  <2>5. \A b \in Up' : \E f \in Open \ {e} : Awaits(f, b)
    BY <2>1 DEF IInv, PacketsFit, Awaits
  <2> QED BY <2>1, <2>2, <2>3, <2>4, <2>5
<1>8. Held' = Held
  BY <1>2 DEF Held
<1>9. e.id \notin strayed => deliveries[e.msg] # 0
  BY <1>3, <1>6 DEF IInv, HeldFit
<1>10. QoS2NotTwice'
  BY <1>2 DEF IInv, QoS2NotTwice
<1>11. CASE a.type = "PUBREC"
  <2>1. PICK f : f = Exchange(e.msg, e.id, "release")
    OBVIOUS
  <2>2. PICK p : p = PacketFor(f)
    OBVIOUS
  <2>3. /\ f \in Exchanges /\ f.id = e.id /\ f.msg = e.msg /\ f.phase = "release"
        /\ p \in DownPackets /\ p.id = e.id /\ p = Packet("PUBREL", e)
        /\ [e EXCEPT !.phase = "release"] = f
    BY <1>6, <2>1, <2>2 DEF Exchange, Exchanges, PacketFor, Packet, DownPackets
  <2>4. exchanges' \in Seq(Exchanges) /\ Apart(exchanges') /\ Open' = (Open \ {e}) \cup {f}
    <3>1. exchanges' = Put(exchanges, n, f)
      BY <1>4, <1>5, <1>11, <2>3 DEF Put
    <3>2. f.id = exchanges[n].id
      BY <1>5, <2>3
    <3>3. PICK t : t = exchanges'
      OBVIOUS
    <3>4. t \in Seq(Exchanges) /\ Apart(t) /\ Range(t) = (Range(exchanges) \ {exchanges[n]}) \cup {f}
      BY <1>6, <2>3, <3>1, <3>2, <3>3, ReplaceApart
    <3>5. Open' = Range(t) /\ Apart(t) = Apart(exchanges')
      BY <3>3 DEF Open
    <3> QED BY <1>5, <3>3, <3>4, <3>5 DEF Open
  <2>5. UNCHANGED fate /\ toDevice' = IF link = "up" THEN Append(toDevice, p) ELSE toDevice
    BY <1>4, <1>5, <1>11, <2>3
  <2>6. toDevice' \in Seq(DownPackets) /\ Apart(toDevice') /\ Down' \subseteq Down \cup {p}
    <3>1. toDevice \in Seq(DownPackets) /\ Apart(toDevice) /\ \A q \in Range(toDevice) : q.id # p.id
      BY <1>7, <2>3 DEF IInv, TypesOK, PacketsFit, Down
    <3>2. /\ Append(toDevice, p) \in Seq(DownPackets) /\ Apart(Append(toDevice, p))
          /\ Range(Append(toDevice, p)) = Down \cup {p}
      BY <2>3, <3>1, AppendApart DEF Down
    <3> QED BY <2>5, <3>1, <3>2 DEF Down
  <2>7. TypesOK'
    BY <1>2, <1>3, <2>4, <2>5, <2>6 DEF IInv, TypesOK
  <2>8. PacketsFit'
    <3>1. \A q \in Down' : \A b \in Up' : q.id # b.id
      BY <1>7, <2>3, <2>6 DEF IInv, PacketsFit
    <3>2. \A q \in Down' : \E g \in Open' : q = PacketFor(g)
      BY <1>7, <2>2, <2>4, <2>6
    <3>3. \A b \in Up' : \E g \in Open' : Awaits(g, b)
      BY <1>7, <2>4
    <3> QED BY <1>3, <2>6, <3>1, <3>2, <3>3 DEF PacketsFit
  <2>9. ExchangesFit'
    BY <1>2, <1>6, <1>7, <2>3, <2>4, <2>5 DEF IInv, ExchangesFit
  <2>10. KnownAgain'
    BY <1>2, <1>8, <2>3, <2>4 DEF IInv, KnownAgain
  <2>11. HeldFit'
    <3>1. \A r \in Held' : r.id \notin strayed' => \E g \in Open' : HeldFor(g, r)'
      <4> SUFFICES ASSUME NEW r \in Held, r.id \notin strayed
                   PROVE  \E g \in Open' : HeldFor(g, r)'
        BY <1>2, <1>8
      <4>1. PICK g \in Open : HeldFor(g, r)
        BY DEF IInv, HeldFit
      <4>2. CASE g = e
        BY <1>2, <2>3, <2>4, <4>1, <4>2 DEF HeldFor
      <4>3. CASE g # e
        BY <1>2, <2>4, <4>1, <4>3 DEF HeldFor
      <4> QED BY <4>2, <4>3
    <3>2. \A b \in Up' : b.id \notin strayed' =>
            /\ \A g \in Open' : g.id = b.id => deliveries'[g.msg] # 0
            /\ b.type \in LastAcks => \A r \in Held' : r.id # b.id
      BY <1>2, <1>7, <1>8, <2>3, <2>4 DEF IInv, HeldFit
    <3>3. \A g \in Open' : g.phase = "release" /\ g.id \notin strayed' => deliveries'[g.msg] # 0
      BY <1>2, <1>9, <2>3, <2>4 DEF IInv, HeldFit
    <3> QED BY <1>8, <3>1, <3>2, <3>3 DEF IInv, HeldFit, HeldFor
  <2> QED BY <1>10, <2>7, <2>8, <2>9, <2>10, <2>11 DEF IInv
<1>12. CASE a.type # "PUBREC"
  <2>1. a.type \in LastAcks
    BY <1>3, <1>12 DEF UpPackets, LastAcks
  <2>2. exchanges' \in Seq(Exchanges) /\ Apart(exchanges') /\ Open' = Open \ {e}
    BY <1>4, <1>5, <1>6, <1>12, RemoveApart DEF Open
  <2>3. UNCHANGED toDevice /\ Down' = Down
    BY <1>4, <1>12 DEF Down
  <2>4. /\ fate' \in [Messages -> Fates] /\ fate'[e.msg] = "done"
        /\ \A l \in Messages : l # e.msg => fate'[l] = fate[l]
    BY <1>4, <1>5, <1>6, <1>12 DEF IInv, TypesOK, Fates
  <2>5. TypesOK'
    BY <1>2, <1>3, <2>2, <2>3, <2>4 DEF IInv, TypesOK
  <2>6. PacketsFit'
    BY <1>3, <1>7, <2>2, <2>3 DEF IInv, PacketsFit
  <2>7. ExchangesFit'
    <3>1. \A f, g \in Open' : f.msg = g.msg => f = g
      BY <2>2 DEF IInv, ExchangesFit
    <3>2. \A f \in Open' : fate'[f.msg] = "inFlight"
      <4>1. \A f \in Open : f.msg \in Messages
        BY Members DEF Exchanges
      <4> QED BY <1>7, <2>2, <2>4, <4>1 DEF IInv, ExchangesFit
    <3>3. \A l \in Messages : deliveries'[l] # 0 => fate'[l] # "unsent"
      BY <1>2, <2>4 DEF IInv, ExchangesFit
    <3> QED BY <2>2, <3>1, <3>2, <3>3 DEF ExchangesFit
  <2>8. KnownAgain'
    BY <1>2, <1>8, <2>2 DEF IInv, KnownAgain
  <2>9. HeldFit'
    <3>1. \A r \in Held' : r.id \notin strayed' => \E g \in Open' : HeldFor(g, r)'
      <4> SUFFICES ASSUME NEW r \in Held, r.id \notin strayed
                   PROVE  \E g \in Open' : HeldFor(g, r)'
        BY <1>2, <1>8
      <4>1. PICK g \in Open : HeldFor(g, r)
        BY DEF IInv, HeldFit
      <4>2. g # e
        BY <1>3, <1>6, <2>1, <4>1 DEF HeldFor, IInv, HeldFit
      <4> QED BY <1>2, <2>2, <4>1, <4>2 DEF HeldFor
    <3>2. \A b \in Up' : b.id \notin strayed' =>
            /\ \A g \in Open' : g.id = b.id => deliveries'[g.msg] # 0
            /\ b.type \in LastAcks => \A r \in Held' : r.id # b.id
      BY <1>2, <1>7, <1>8, <2>2 DEF IInv, HeldFit
    <3>3. \A g \in Open' : g.phase = "release" /\ g.id \notin strayed' => deliveries'[g.msg] # 0
      BY <1>2, <2>2 DEF IInv, HeldFit
    <3> QED BY <1>8, <3>1, <3>2, <3>3 DEF IInv, HeldFit, HeldFor
  <2> QED BY <1>10, <2>5, <2>6, <2>7, <2>8, <2>9 DEF IInv
<1> QED BY <1>11, <1>12

-----------------------------------------------------------------------------
(* The steps of the device                                                 *)

(* What a packet of the exchange e may do to the device and still keep the *)
(* invariant: it touches nothing but the record, the message and the       *)
(* acknowledgment of that exchange.                                        *)
Acknowledged(e, type) ==
  /\ Up' = Up \cup {Ack(type, e.id)}
  /\ Awaits(e, Ack(type, e.id))
  /\ strayed' \in {strayed, strayed \cup {e.id}}
  /\ e.id \notin strayed' => /\ deliveries'[e.msg] # 0
                             /\ type \in LastAcks => \A s \in Held' : s.id # e.id

LEMMA DeviceKeepsIInv ==
  ASSUME IInv, toDevice # << >>, toDevice' = Tail(toDevice), UNCHANGED brokerVars,
         NEW e \in Open, Head(toDevice) = PacketFor(e),
         SoundArray(incoming', MaxCount, PacketIds), link' \in {"up", "failed"},
         faults' \in 0 .. MaxFaults, toBroker' \in Seq(UpPackets), Apart(toBroker'),
         deliveries' \in [Messages -> 0 .. Often],
         \A s \in Held' : s.id # e.id => s \in Held,
         \A s \in Held : s.id # e.id => s \in Held',
         \A l \in Messages : l # e.msg => deliveries'[l] = deliveries[l],
         deliveries[e.msg] # 0 => deliveries'[e.msg] # 0,
         Qos[e.msg] = 2 => deliveries'[e.msg] <= 1,
         \A s \in Held' : s.id = e.id => s.state \in StatesOf(s.qos),
         e.id \notin strayed' =>
           \A s \in Held' : s.id = e.id => s.qos = Qos[e.msg] /\ deliveries'[e.msg] # 0,
         Qos[e.msg] = 2 /\ e.phase = "publish" /\ deliveries'[e.msg] # 0 =>
           \E s \in Held' : s.id = e.id,
         \/ Up' = Up /\ strayed' = strayed
         \/ \E type \in {"PUBACK", "PUBREC", "PUBCOMP"} : Acknowledged(e, type)
  PROVE  IInv'
<1>1. PICK p : p = Head(toDevice)
  OBVIOUS
<1>2. /\ e \in Exchanges /\ e.id \in PacketIds /\ e.msg \in Messages
      /\ p \in Down /\ p = PacketFor(e) /\ p.id = e.id
      /\ \A f \in Open : f \in Exchanges /\ f.msg \in Messages
  BY <1>1, Members, PacketForHas, TailApart DEF Exchanges, Down, IInv, TypesOK, PacketsFit
<1>3. toDevice' \in Seq(DownPackets) /\ Apart(toDevice') /\ Down' = Down \ {p}
  <2>1. toDevice \in Seq(DownPackets) /\ Apart(toDevice)
    BY DEF IInv, TypesOK, PacketsFit
  <2> QED BY <1>1, <2>1, TailApart DEF Down
<1>4. UNCHANGED <<exchanges, fate>> /\ Open' = Open
  BY DEF brokerVars, Open
<1>5. /\ \A q \in Down' : q \in Down /\ q.id # e.id
      /\ \A f \in Open : f # e => f.id # e.id /\ f.msg # e.msg
      /\ \A a \in Up : a.id # e.id
  <2>1. \A q \in Down' : q \in Down /\ q.id # e.id
    BY <1>2, <1>3, Members
  <2>2. \A f \in Open : f # e => f.id # e.id /\ f.msg # e.msg
    BY Members DEF IInv, ExchangesFit
  <2>3. \A a \in Up : a.id # e.id
    BY <1>2 DEF IInv, PacketsFit
  <2> QED BY <2>1, <2>2, <2>3
<1>6. /\ strayed' \subseteq PacketIds /\ strayed \subseteq strayed'
      /\ \A i \in PacketIds : i # e.id => (i \in strayed' <=> i \in strayed)
  BY <1>2 DEF Acknowledged, IInv, TypesOK
<1>7. \A a \in Up' : a \in Up \/ (a.id = e.id /\ Awaits(e, a))
  BY DEF Acknowledged, Ack
<1>8. \A l \in Messages : deliveries[l] # 0 => deliveries'[l] # 0
  OBVIOUS
<1>9. \A a \in Up : a.id \in PacketIds
  BY Members DEF UpPackets
<1>10. TypesOK'
  BY <1>3, <1>4, <1>6 DEF IInv, TypesOK
<1>11. PacketsFit'
  <2>1. \A q \in Down' : \A a \in Up' : q.id # a.id
    BY <1>5, <1>7 DEF IInv, PacketsFit
  <2>2. \A q \in Down' : \E f \in Open' : q = PacketFor(f)
    BY <1>4, <1>5 DEF IInv, PacketsFit
  <2>3. \A a \in Up' : \E f \in Open' : Awaits(f, a)
    BY <1>4, <1>7 DEF IInv, PacketsFit
  <2> QED BY <1>3, <2>1, <2>2, <2>3 DEF PacketsFit
<1>12. ExchangesFit'
  <2>1. \A l \in Messages : deliveries'[l] # 0 => fate'[l] # "unsent"
    <3>1. fate[e.msg] = "inFlight"
      BY DEF IInv, ExchangesFit
    <3> QED BY <1>4, <3>1 DEF IInv, ExchangesFit
  <2> QED BY <1>4, <2>1 DEF IInv, ExchangesFit
<1>13. KnownAgain'
  <2> SUFFICES ASSUME NEW f \in Open, Qos[f.msg] = 2, f.phase = "publish", deliveries'[f.msg] # 0
               PROVE  \E r \in Held' : r.id = f.id
    BY <1>4 DEF KnownAgain
  <2>1. CASE f = e
    BY <2>1
  <2>2. CASE f # e
    <3>1. deliveries[f.msg] # 0 /\ f.id # e.id
      BY <1>2, <1>5, <2>2
    <3>2. PICK r \in Held : r.id = f.id
      BY <3>1 DEF IInv, KnownAgain
    <3> QED BY <3>1, <3>2
  <2> QED BY <2>1, <2>2
<1>14. HeldFit'
  <2>1. \A r \in Held' : r.state \in StatesOf(r.qos)
    BY DEF IInv, HeldFit
  <2>2. ASSUME NEW r \in Held', r.id \notin strayed'
        PROVE  \E f \in Open' : HeldFor(f, r)'
    <3>1. CASE r.id = e.id
      BY <1>4, <2>2, <3>1 DEF HeldFor
    <3>2. CASE r.id # e.id
      <4>1. r \in Held /\ r.id \notin strayed
        BY <1>6, <2>2, <3>2
      <4>2. PICK f \in Open : HeldFor(f, r)
        BY <4>1 DEF IInv, HeldFit
      <4> QED BY <1>2, <1>4, <1>8, <4>2 DEF HeldFor
    <3> QED BY <3>1, <3>2
  <2>3. ASSUME NEW a \in Up', a.id \notin strayed'
        PROVE  /\ \A f \in Open : f.id = a.id => deliveries'[f.msg] # 0
               /\ a.type \in LastAcks => \A r \in Held' : r.id # a.id
    <3>1. CASE a \in Up
      <4>1. a.id # e.id /\ a.id \notin strayed
        BY <1>5, <1>6, <2>3, <3>1
      <4>2. /\ \A f \in Open : f.id = a.id => deliveries[f.msg] # 0
            /\ a.type \in LastAcks => \A r \in Held : r.id # a.id
        BY <3>1, <4>1 DEF IInv, HeldFit
      <4> QED BY <1>2, <1>8, <4>1, <4>2
    <3>2. CASE a \notin Up
      <4>1. PICK type \in {"PUBACK", "PUBREC", "PUBCOMP"} :
              Acknowledged(e, type) /\ a = Ack(type, e.id)
        BY <2>3, <3>2 DEF Acknowledged
      <4>2. a.id = e.id /\ a.type = type
        BY <4>1 DEF Ack
      <4> QED BY <1>5, <2>3, <4>1, <4>2 DEF Acknowledged
    <3> QED BY <3>1, <3>2
  <2>4. \A f \in Open : f.phase = "release" /\ f.id \notin strayed' => deliveries'[f.msg] # 0
    BY <1>2, <1>6, <1>8 DEF IInv, HeldFit
  <2> QED BY <1>4, <2>1, <2>2, <2>3, <2>4 DEF HeldFit, HeldFor
<1>15. QoS2NotTwice'
  BY DEF IInv, QoS2NotTwice
<1> QED BY <1>10, <1>11, <1>12, <1>13, <1>14, <1>15 DEF IInv

(* handleIncomingPublish.                                                  *)
LEMMA HandleIncomingPublishKeepsIInv ==
  ASSUME IInv, NEW outcome, HandleIncomingPublish(outcome)
  PROVE  IInv'
<1>1. PICK p : p = Head(toDevice)
  OBVIOUS
<1>2. PICK m, i : m = p.msg /\ i = p.id
  OBVIOUS
<1>3. toDevice # << >> /\ p.type = "PUBLISH" /\ toDevice' = Tail(toDevice) /\ UNCHANGED brokerVars
  BY <1>1 DEF HandleIncomingPublish, NextPacket
<1>4. PICK e \in Open : p = PacketFor(e)
  <2>1. p \in Down
    BY <1>1, <1>3, TailApart DEF IInv, TypesOK, PacketsFit, Down
  <2> QED BY <2>1 DEF IInv, PacketsFit
<1>5. e.id = i /\ e.msg = m /\ e.phase = "publish" /\ i \in PacketIds /\ m \in Messages
      /\ Qos[m] \in {1, 2}
  BY <1>2, <1>3, <1>4, Members, PacketForHas, Constants DEF Exchanges
<1>6. PICK state : state = CalculateStatePublish("RECEIVE", Qos[m])
  OBVIOUS
<1>7. PICK new : new = NewRecord(i, m)
  OBVIOUS
<1>8. PICK added : added = AddRecord(incoming, new)
  OBVIOUS
<1>9. /\ new \in RecordValues(PacketIds) /\ new.id = i /\ new.qos = Qos[m]
      /\ new.state \in StatesOf(Qos[m]) /\ AckTypeToSend(state) = AckOf(m)
      /\ AckOf(m) \in {"PUBACK", "PUBREC"}
  BY <1>5, <1>6, <1>7, NewRecordOK DEF AckOf
<1>10. /\ SoundArray(added.records, MaxCount, PacketIds)
       /\ \/ /\ added.status = "Success" /\ \A s \in Held : s.id # i
             /\ RecordsIn(added.records) = Held \cup {new}
          \/ /\ added.status = "StateCollision" /\ \E s \in Held : s.id = i
             /\ RecordsIn(added.records) = Held
          \/ /\ added.status = "NoMemory" /\ RecordsIn(added.records) = Held
  <2>1. SoundArray(incoming, MaxCount, PacketIds)
    BY DEF IInv, TypesOK
  <2> QED BY <1>5, <1>8, <1>9, <2>1, Constants, AddRecords DEF Held
<1>11. \/ added.status = "NoMemory" /\ Refuse(added.records) /\ UNCHANGED deliveries
       \/ /\ added.status # "NoMemory" /\ SendPublishAck(added.records, i, state, outcome)
          /\ IF added.status = "Success" THEN Deliver(m) ELSE UNCHANGED deliveries
  BY <1>1, <1>2, <1>6, <1>7, <1>8 DEF HandleIncomingPublish, NewRecord
<1>12. /\ deliveries \in [Messages -> 0 .. Often] /\ toBroker \in Seq(UpPackets) /\ Apart(toBroker)
       /\ faults \in 0 .. MaxFaults /\ \A a \in Up : a.id # i
       /\ Qos[m] = 2 => deliveries[m] <= 1
       /\ \A s \in Held : s.state \in StatesOf(s.qos) /\ s.qos \in {1, 2}
  <2>1. \A a \in Up : a.id # i
    <3>1. p \in Down /\ p.id = i
      BY <1>1, <1>2, <1>3, TailApart DEF IInv, TypesOK, PacketsFit, Down
    <3> QED BY <3>1 DEF IInv, PacketsFit
  <2> QED BY <1>5, <2>1, Members DEF IInv, TypesOK, PacketsFit, HeldFit, QoS2NotTwice
<1>13. e.id \notin strayed => \A s \in Held : s.id = e.id => s.qos = Qos[m] /\ deliveries[m] # 0
  <2> SUFFICES ASSUME i \notin strayed, NEW s \in Held, s.id = i
               PROVE  s.qos = Qos[m] /\ deliveries[m] # 0
    BY <1>5
  <2>1. PICK f \in Open : HeldFor(f, s)
    BY DEF IInv, HeldFit
  <2>2. f = e
    BY <1>5, <2>1, Members DEF HeldFor
  <2> QED BY <1>5, <2>1, <2>2 DEF HeldFor
<1>14. Qos[m] = 2 /\ deliveries[m] # 0 => \E s \in Held : s.id = i
  BY <1>5 DEF IInv, KnownAgain
<1>15. CASE added.status = "NoMemory"
  <2>1. incoming' = added.records /\ Held' = Held /\ link' = "failed" /\ Up' = Up
        /\ UNCHANGED <<toBroker, strayed, faults, deliveries>>
    BY <1>10, <1>11, <1>15 DEF Refuse, Held, Up
  <2>2. /\ \A s \in Held' : s.id # e.id => s \in Held
        /\ \A s \in Held : s.id # e.id => s \in Held'
        /\ \A s \in Held' : s.id = e.id => s.state \in StatesOf(s.qos)
        /\ e.id \notin strayed' =>
             \A s \in Held' : s.id = e.id => s.qos = Qos[e.msg] /\ deliveries'[e.msg] # 0
        /\ Qos[e.msg] = 2 /\ e.phase = "publish" /\ deliveries'[e.msg] # 0 =>
             \E s \in Held' : s.id = e.id
    BY <1>5, <1>12, <1>13, <1>14, <2>1
  <2>3. /\ deliveries' \in [Messages -> 0 .. Often]
        /\ \A l \in Messages : l # e.msg => deliveries'[l] = deliveries[l]
        /\ deliveries[e.msg] # 0 => deliveries'[e.msg] # 0
        /\ Qos[e.msg] = 2 => deliveries'[e.msg] <= 1
        /\ toBroker' \in Seq(UpPackets) /\ Apart(toBroker') /\ faults' \in 0 .. MaxFaults
        /\ SoundArray(incoming', MaxCount, PacketIds) /\ link' \in {"up", "failed"}
    BY <1>5, <1>10, <1>12, <2>1
  <2> QED BY <1>1, <1>3, <1>4, <2>1, <2>2, <2>3, DeviceKeepsIInv
<1>16. CASE added.status # "NoMemory"
  <2>1. PICK a : a = added.records
    OBVIOUS
  <2>2. PICK r \in RecordsIn(a) : r.id = i
    BY <1>9, <1>10, <1>16, <2>1
  <2>3. /\ \A s \in RecordsIn(a) : s.id = i => s = r
        /\ \A s \in RecordsIn(a) : s.id # i => s \in Held
        /\ \A s \in Held : s.id # i => s \in RecordsIn(a)
        /\ r.qos \in {1, 2} /\ r.state \in StatesOf(r.qos)
    <3>1. \A s \in RecordsIn(a) : s.id = i => s = r
      BY <1>10, <2>1, <2>2, Constants, SoundRecords
    <3>2. \A s \in RecordsIn(a) : s \in Held \/ s = new
      BY <1>10, <1>16, <2>1
    <3>3. \A s \in Held : s \in RecordsIn(a)
      BY <1>10, <1>16, <2>1
    <3>4. r.qos \in {1, 2} /\ r.state \in StatesOf(r.qos)
      BY <1>5, <1>9, <1>12, <2>2, <3>2
    <3> QED BY <1>9, <3>1, <3>2, <3>3, <3>4
  <2>4. PICK next : next = CalculateStateAck(AckOf(m), "SEND", r.qos)
    OBVIOUS
  <2>5. /\ SoundArray(incoming', MaxCount, PacketIds)
        /\ toBroker' \in Seq(UpPackets) /\ Apart(toBroker')
        /\ link' \in {"up", "failed"} /\ faults' \in 0 .. MaxFaults
        /\ \/ /\ Held' = RecordsIn(a) /\ Up' = Up /\ strayed' = strayed
           \/ /\ Held' = RecordsIn(a) /\ Up' = Up \cup {Ack(AckOf(m), i)}
              /\ strayed' = strayed \cup {i}
           \/ /\ ~Follows(r, next) /\ Held' = RecordsIn(a)
              /\ Up' = Up \cup {Ack(AckOf(m), i)} /\ strayed' = strayed
           \/ /\ Follows(r, next) /\ Held' = AfterAck(a, r, next)
              /\ Up' = Up \cup {Ack(AckOf(m), i)} /\ strayed' = strayed
    <3>1. SendPublishAck(a, i, state, outcome) /\ SoundArray(a, MaxCount, PacketIds)
      BY <1>10, <1>11, <1>16, <2>1
    <3>2. AckOf(m) \in {"PUBACK", "PUBREC", "PUBCOMP"}
      BY <1>9
    <3>3. RecordsIn(incoming') = Held'
      BY DEF Held
    <3> QED BY <1>5, <1>9, <1>12, <2>2, <2>4, <3>1, <3>2, <3>3, AckIsSent
  \* What the acknowledgment does to the record.
  <2>6. /\ \A s \in Held' : s.id # i => s \in Held
        /\ \A s \in Held : s.id # i => s \in Held'
        /\ \A s \in Held' : s.id = i => s.state \in StatesOf(s.qos) /\ s.qos = r.qos
        /\ Qos[m] = 2 => \E s \in Held' : s.id = i
        /\ Follows(r, next) /\ Held' = AfterAck(a, r, next) /\ Qos[m] = 1 =>
             \A s \in Held' : s.id # i
    <3>1. CASE Held' = RecordsIn(a) /\ ~(Follows(r, next) /\ Held' = AfterAck(a, r, next))
      BY <2>2, <2>3, <3>1
    <3>2. CASE Follows(r, next) /\ Held' = AfterAck(a, r, next)
      <4>1. CASE Qos[m] = 1
        <5>1. next = "PublishDone"
          BY <2>3, <2>4, <3>2, <4>1 DEF AckOf, CalculateStateAck, Follows, AckTransitions
        <5>2. Held' = RecordsIn(a) \ {r}
          BY <3>2, <5>1 DEF AfterAck
        <5> QED BY <2>2, <2>3, <4>1, <5>2
      <4>2. CASE Qos[m] = 2
        <5>1. next = "PubRelPending" /\ r.qos = 2
          BY <2>3, <2>4, <3>2, <4>2 DEF AckOf, CalculateStateAck, Follows, AckTransitions
        <5>2. PICK s : s = Record(r.id, r.qos, next)
          OBVIOUS
        <5>3. Held' = (RecordsIn(a) \ {r}) \cup {s}
          BY <3>2, <5>1, <5>2 DEF AfterAck
        <5>4. s.id = i /\ s.qos = r.qos /\ s.state \in StatesOf(s.qos)
          BY <2>2, <5>1, <5>2 DEF Record, StatesOf
        <5> QED BY <2>2, <2>3, <4>2, <5>3, <5>4
      <4> QED BY <1>5, <4>1, <4>2
    <3> QED BY <2>5, <3>1, <3>2
  <2>7. /\ deliveries' \in [Messages -> 0 .. Often]
        /\ \A l \in Messages : l # m => deliveries'[l] = deliveries[l]
        /\ deliveries[m] # 0 => deliveries'[m] # 0
        /\ Qos[m] = 2 => deliveries'[m] <= 1
        /\ added.status = "Success" => deliveries'[m] # 0
        /\ added.status # "Success" => deliveries' = deliveries
    <3>1. CASE added.status = "Success"
      <4>1. Deliver(m)
        BY <1>11, <1>16, <3>1
      <4>2. Qos[m] = 2 => deliveries[m] = 0
        BY <1>10, <1>14, <3>1
      <4>3. deliveries[m] \in 0 .. 2
        BY <1>5, <1>12 DEF Often
      <4>4. deliveries' = [deliveries EXCEPT ![m] = IF @ = 2 THEN @ ELSE @ + 1]
        BY <4>1 DEF Deliver, Often
      <4>5. deliveries'[m] = IF deliveries[m] = 2 THEN 2 ELSE deliveries[m] + 1
        BY <1>5, <1>12, <4>4
      <4>6. \A l \in Messages : l # m => deliveries'[l] = deliveries[l]
        BY <1>5, <1>12, <4>4
      <4>7. deliveries' \in [Messages -> 0 .. Often]
        BY <1>5, <1>12, <4>3, <4>4 DEF Often
      <4> QED BY <3>1, <4>2, <4>3, <4>5, <4>6, <4>7
    <3>2. CASE added.status # "Success"
      BY <1>11, <1>12, <1>16, <3>2
    <3> QED BY <3>1, <3>2
  <2>8. i \notin strayed => r.qos = Qos[m] /\ deliveries'[m] # 0
    <3>1. CASE added.status = "Success"
      BY <1>9, <1>10, <2>1, <2>2, <2>3, <2>7, <3>1
    <3>2. CASE added.status # "Success"
      BY <1>5, <1>10, <1>13, <1>16, <2>1, <2>2, <2>7, <3>2
    <3> QED BY <3>1, <3>2
  <2>9. strayed \subseteq strayed'
    BY <2>5
  <2>10. \/ Up' = Up /\ strayed' = strayed
         \/ \E type \in {"PUBACK", "PUBREC", "PUBCOMP"} : Acknowledged(e, type)
    <3> SUFFICES ASSUME ~(Up' = Up /\ strayed' = strayed) PROVE Acknowledged(e, AckOf(m))
      BY <1>9
    <3>1. Awaits(e, Ack(AckOf(m), e.id))
      BY <1>5 DEF Awaits, Ack, AckOf
    <3>2. Up' = Up \cup {Ack(AckOf(m), e.id)} /\ strayed' \in {strayed, strayed \cup {e.id}}
      BY <1>5, <2>5
    <3>3. ASSUME i \notin strayed', AckOf(m) \in LastAcks
          PROVE  \A s \in Held' : s.id # i
      <4>1. Qos[m] = 1 /\ r.qos = 1
        BY <1>5, <2>8, <2>9, <3>3 DEF AckOf, LastAcks
      <4>2. Follows(r, next)
        BY <2>3, <2>4, <4>1 DEF AckOf, StatesOf, CalculateStateAck, Follows, AckTransitions
      <4>3. Held' = AfterAck(a, r, next)
        BY <2>5, <3>3, <4>2
      <4> QED BY <2>6, <4>1, <4>2, <4>3
    <3> QED BY <1>5, <2>8, <2>9, <3>1, <3>2, <3>3 DEF Acknowledged
  <2>11. /\ \A s \in Held' : s.id # e.id => s \in Held
         /\ \A s \in Held : s.id # e.id => s \in Held'
         /\ \A s \in Held' : s.id = e.id => s.state \in StatesOf(s.qos)
         /\ e.id \notin strayed' =>
              \A s \in Held' : s.id = e.id => s.qos = Qos[e.msg] /\ deliveries'[e.msg] # 0
         /\ Qos[e.msg] = 2 /\ e.phase = "publish" /\ deliveries'[e.msg] # 0 =>
              \E s \in Held' : s.id = e.id
    BY <1>5, <2>6, <2>8, <2>9
  <2>12. /\ \A l \in Messages : l # e.msg => deliveries'[l] = deliveries[l]
         /\ deliveries[e.msg] # 0 => deliveries'[e.msg] # 0
         /\ Qos[e.msg] = 2 => deliveries'[e.msg] <= 1
    BY <1>5, <2>7
  <2> QED BY <1>1, <1>3, <1>4, <2>5, <2>7, <2>10, <2>11, <2>12, DeviceKeepsIInv
<1> QED BY <1>15, <1>16

(* handlePublishAcks for a PUBREL.                                         *)
LEMMA HandlePubRelKeepsIInv ==
  ASSUME IInv, NEW outcome, HandlePubRel(outcome)
  PROVE  IInv'
<1>1. PICK p : p = Head(toDevice)
  OBVIOUS
<1>2. PICK i : i = p.id
  OBVIOUS
<1>3. /\ toDevice # << >> /\ p.type = "PUBREL" /\ toDevice' = Tail(toDevice)
      /\ UNCHANGED brokerVars /\ UNCHANGED deliveries
  BY <1>1 DEF HandlePubRel, NextPacket
<1>4. PICK e \in Open : p = PacketFor(e)
  <2>1. p \in Down
    BY <1>1, <1>3, TailApart DEF IInv, TypesOK, PacketsFit, Down
  <2> QED BY <2>1 DEF IInv, PacketsFit
<1>5. e.id = i /\ e.phase = "release" /\ i \in PacketIds /\ e.msg \in Messages
  BY <1>2, <1>3, <1>4, Members, PacketForHas DEF Exchanges
<1>6. PICK updated : updated = UpdateStateAck(incoming, i, "PUBREL", "RECEIVE")
  OBVIOUS
<1>7. \/ updated.status # "Success" /\ Refuse(updated.records)
      \/ updated.status = "Success" /\ SendPublishAck(updated.records, i, "PubCompSend", outcome)
  BY <1>1, <1>2, <1>6 DEF HandlePubRel
<1>8. /\ SoundArray(incoming, MaxCount, PacketIds)
      /\ deliveries \in [Messages -> 0 .. Often] /\ toBroker \in Seq(UpPackets) /\ Apart(toBroker)
      /\ faults \in 0 .. MaxFaults /\ \A a \in Up : a.id # i
      /\ Qos[e.msg] = 2 => deliveries[e.msg] <= 1
      /\ \A s \in Held : s.state \in StatesOf(s.qos) /\ s.qos \in {1, 2}
  <2>1. \A a \in Up : a.id # i
    <3>1. p \in Down /\ p.id = i
      BY <1>1, <1>2, <1>3, TailApart DEF IInv, TypesOK, PacketsFit, Down
    <3> QED BY <3>1 DEF IInv, PacketsFit
  <2> QED BY <1>5, <2>1, Members DEF IInv, TypesOK, PacketsFit, HeldFit, QoS2NotTwice
<1>9. e.id \notin strayed =>
        deliveries[e.msg] # 0 /\ \A s \in Held : s.id = e.id => s.qos = Qos[e.msg]
  <2> SUFFICES ASSUME i \notin strayed
               PROVE  deliveries[e.msg] # 0 /\ \A s \in Held : s.id = i => s.qos = Qos[e.msg]
    BY <1>5
  <2>1. ASSUME NEW s \in Held, s.id = i PROVE s.qos = Qos[e.msg]
    <3>1. PICK f \in Open : HeldFor(f, s)
      BY <2>1 DEF IInv, HeldFit
    <3>2. f = e
      BY <1>5, <2>1, <3>1, Members DEF HeldFor
    <3> QED BY <3>1, <3>2 DEF HeldFor
  <2>2. deliveries[e.msg] # 0
    BY <1>5 DEF IInv, HeldFit
  <2> QED BY <2>1, <2>2
<1>10. /\ deliveries' \in [Messages -> 0 .. Often]
       /\ \A l \in Messages : l # e.msg => deliveries'[l] = deliveries[l]
       /\ deliveries[e.msg] # 0 => deliveries'[e.msg] # 0
       /\ Qos[e.msg] = 2 => deliveries'[e.msg] <= 1
  BY <1>3, <1>8
\* No record, or one in a state in which no PUBREL may come.
<1>11. ASSUME updated.records = incoming, updated.status # "Success"
       PROVE  IInv'
  <2>1. incoming' = incoming /\ Held' = Held /\ link' = "failed" /\ Up' = Up
        /\ UNCHANGED <<toBroker, strayed, faults>>
    BY <1>7, <1>11 DEF Refuse, Held, Up
  <2>2. /\ \A s \in Held' : s.id # e.id => s \in Held
        /\ \A s \in Held : s.id # e.id => s \in Held'
        /\ \A s \in Held' : s.id = e.id => s.state \in StatesOf(s.qos)
        /\ e.id \notin strayed' =>
             \A s \in Held' : s.id = e.id => s.qos = Qos[e.msg] /\ deliveries'[e.msg] # 0
        /\ Qos[e.msg] = 2 /\ e.phase = "publish" /\ deliveries'[e.msg] # 0 =>
             \E s \in Held' : s.id = e.id
    BY <1>3, <1>5, <1>8, <1>9, <2>1
  <2>3. /\ toBroker' \in Seq(UpPackets) /\ Apart(toBroker') /\ faults' \in 0 .. MaxFaults
        /\ SoundArray(incoming', MaxCount, PacketIds) /\ link' \in {"up", "failed"}
    BY <1>8, <2>1
  <2> QED BY <1>1, <1>3, <1>4, <1>10, <2>1, <2>2, <2>3, DeviceKeepsIInv
<1>12. CASE \A s \in Held : s.id # i
  <2>1. updated = [status |-> "BadResponse", records |-> incoming]
    BY <1>5, <1>6, <1>8, <1>12, Constants, AckOfNoRecord DEF Held
  <2> QED BY <1>11, <2>1
<1>13. ASSUME NEW r \in Held, r.id = i
       PROVE  IInv'
  <2>1. PICK new : new = CalculateStateAck("PUBREL", "RECEIVE", r.qos)
    OBVIOUS
  <2>2. /\ SoundArray(updated.records, MaxCount, PacketIds)
        /\ \/ ~Follows(r, new) /\ updated.status # "Success" /\ updated.records = incoming
           \/ /\ Follows(r, new) /\ updated.status = "Success"
              /\ RecordsIn(updated.records) = AfterAck(incoming, r, new)
    BY <1>6, <1>8, <1>13, <2>1, Constants, AckRecords DEF Held
  <2>3. CASE Follows(r, new)
    <3>1. r.qos = 2 /\ new = "PubCompSend"
      BY <1>8, <1>13, <2>1, <2>3 DEF CalculateStateAck, Follows, AckTransitions
    <3>2. PICK t : t = Record(r.id, r.qos, new)
      OBVIOUS
    <3>3. t.id = i /\ t.qos = 2 /\ t.state = "PubCompSend"
      BY <1>13, <3>1, <3>2 DEF Record
    <3>4. PICK a : a = updated.records
      OBVIOUS
    <3>5. /\ SoundArray(a, MaxCount, PacketIds) /\ RecordsIn(a) = (Held \ {r}) \cup {t}
          /\ SendPublishAck(a, i, "PubCompSend", outcome)
      BY <1>7, <2>2, <2>3, <3>1, <3>2, <3>4 DEF AfterAck, Held
    <3>6. \A s \in Held : s.id = i => s = r
      BY <1>13, Members
    <3>7. PICK done : done = CalculateStateAck("PUBCOMP", "SEND", t.qos)
      OBVIOUS
    <3>8. done = "PublishDone" /\ Follows(t, done) /\ t \in RecordsIn(a)
      BY <3>3, <3>5, <3>7 DEF CalculateStateAck, Follows, AckTransitions
    <3>9. AfterAck(a, t, done) = RecordsIn(a) \ {t}
      BY <3>8 DEF AfterAck
    <3>10. /\ SoundArray(incoming', MaxCount, PacketIds)
           /\ toBroker' \in Seq(UpPackets) /\ Apart(toBroker')
           /\ link' \in {"up", "failed"} /\ faults' \in 0 .. MaxFaults
           /\ \/ /\ Held' = RecordsIn(a) /\ Up' = Up /\ strayed' = strayed
              \/ /\ Held' = RecordsIn(a) /\ Up' = Up \cup {Ack("PUBCOMP", i)}
                 /\ strayed' = strayed \cup {i}
              \/ /\ Held' = RecordsIn(a) \ {t}
                 /\ Up' = Up \cup {Ack("PUBCOMP", i)} /\ strayed' = strayed
      <4>1. "PUBCOMP" = AckTypeToSend("PubCompSend")
        BY DEF AckTypeToSend
      <4>2. RecordsIn(incoming') = Held'
        BY DEF Held
      <4> QED BY <1>5, <1>8, <3>3, <3>5, <3>7, <3>8, <3>9, <4>1, <4>2, AckIsSent
    <3>11. /\ \A s \in Held' : s.id # e.id => s \in Held
           /\ \A s \in Held : s.id # e.id => s \in Held'
           /\ \A s \in Held' : s.id = e.id => s = t
           /\ Held' = RecordsIn(a) \ {t} => \A s \in Held' : s.id # e.id
      BY <1>5, <1>13, <3>3, <3>5, <3>6, <3>10
    <3>12. strayed \subseteq strayed'
      BY <3>10
    <3>13. /\ \A s \in Held' : s.id = e.id => s.state \in StatesOf(s.qos)
           /\ e.id \notin strayed' =>
                \A s \in Held' : s.id = e.id => s.qos = Qos[e.msg] /\ deliveries'[e.msg] # 0
           /\ Qos[e.msg] = 2 /\ e.phase = "publish" /\ deliveries'[e.msg] # 0 =>
                \E s \in Held' : s.id = e.id
      BY <1>3, <1>5, <1>9, <1>13, <3>1, <3>3, <3>11, <3>12 DEF StatesOf
    <3>14. \/ Up' = Up /\ strayed' = strayed
           \/ \E type \in {"PUBACK", "PUBREC", "PUBCOMP"} : Acknowledged(e, type)
      <4> SUFFICES ASSUME ~(Up' = Up /\ strayed' = strayed) PROVE Acknowledged(e, "PUBCOMP")
        OBVIOUS
      <4>1. Awaits(e, Ack("PUBCOMP", e.id))
        BY <1>5 DEF Awaits, Ack
      <4>2. Up' = Up \cup {Ack("PUBCOMP", e.id)} /\ strayed' \in {strayed, strayed \cup {e.id}}
        BY <1>5, <3>10
      <4>3. e.id \notin strayed' => deliveries'[e.msg] # 0 /\ \A s \in Held' : s.id # e.id
        BY <1>3, <1>5, <1>9, <3>10, <3>11, <3>12
      <4> QED BY <4>1, <4>2, <4>3 DEF Acknowledged
    <3> QED BY <1>1, <1>3, <1>4, <1>10, <3>10, <3>11, <3>13, <3>14, DeviceKeepsIInv
  <2>4. CASE ~Follows(r, new)
    BY <1>11, <2>2, <2>4
  <2> QED BY <2>3, <2>4
<1> QED BY <1>12, <1>13

-----------------------------------------------------------------------------
(* The connection                                                          *)

LEMMA LinkFailsKeepsIInv == IInv /\ LinkFails => IInv'
<1> SUFFICES ASSUME IInv, LinkFails PROVE IInv'
  OBVIOUS
<1>1. /\ UNCHANGED <<incoming, deliveries, exchanges, fate, toDevice, toBroker, strayed>>
      /\ link' = "failed" /\ faults' = faults + 1 /\ faults < MaxFaults
  BY DEF LinkFails, deviceVars, brokerVars
<1>2. Down' = Down /\ Up' = Up /\ Open' = Open /\ Held' = Held
  BY <1>1 DEF Down, Up, Open, Held
<1>3. faults' \in 0 .. MaxFaults
  BY <1>1, Constants DEF IInv, TypesOK
<1>4. TypesOK'
  BY <1>1, <1>3 DEF IInv, TypesOK
<1>5. PacketsFit' /\ ExchangesFit'
  BY <1>1, <1>2 DEF IInv, PacketsFit, ExchangesFit
<1>6. KnownAgain' /\ HeldFit'
  BY <1>1, <1>2 DEF IInv, KnownAgain, HeldFit, HeldFor
<1>7. QoS2NotTwice'
  BY <1>1 DEF IInv, QoS2NotTwice
<1> QED BY <1>4, <1>5, <1>6, <1>7 DEF IInv

(* What a broker sends again is one packet for each exchange.              *)
LEMMA ResentFits ==
  ASSUME IInv
  PROVE  /\ Resent \in Seq(DownPackets) /\ Apart(Resent)
         /\ Range(Resent) = {PacketFor(e) : e \in Open}
<1>1. /\ exchanges \in Seq(Exchanges) /\ Apart(exchanges)
      /\ Resent = [n \in DOMAIN exchanges |-> PacketFor(exchanges[n])]
  BY DEF IInv, TypesOK, ExchangesFit, Resent, PacketFor
<1>2. \A n \in DOMAIN exchanges :
        /\ exchanges[n] \in Exchanges
        /\ PacketFor(exchanges[n]) \in DownPackets
        /\ PacketFor(exchanges[n]).id = exchanges[n].id
  BY <1>1, PacketForHas
<1>3. Resent \in Seq(DownPackets)
  <2>1. DOMAIN exchanges = 1 .. Len(exchanges) /\ Len(exchanges) \in Nat
    BY <1>1
  <2> QED BY <1>1, <1>2, <2>1
<1>4. Apart(Resent)
  BY <1>1, <1>2 DEF Apart
<1>5. Range(Resent) = {PacketFor(e) : e \in Open}
  BY <1>1, Zenon DEF Range, Open
<1> QED BY <1>3, <1>4, <1>5

LEMMA ReconnectKeepsIInv ==
  ASSUME IInv, NEW present \in BOOLEAN, Reconnect(present)
  PROVE  IInv'
<1>1. /\ link' = "up" /\ toBroker' = << >> /\ UNCHANGED <<deliveries, faults>>
      /\ strayed' = IF present THEN strayed ELSE {}
      /\ incoming' = IF present THEN incoming ELSE NoRecords
      /\ IF present
           THEN toDevice' = Resent /\ UNCHANGED <<exchanges, fate>>
           ELSE /\ toDevice' = << >> /\ exchanges' = << >>
                /\ fate' = [m \in Messages |-> IF fate[m] = "inFlight" THEN "forgotten" ELSE fate[m]]
  BY DEF Reconnect, SessionResumed, brokerVars
<1>2. toBroker' \in Seq(UpPackets) /\ Apart(toBroker') /\ Up' = {}
  BY <1>1 DEF Apart, Up, Range
<1>3. QoS2NotTwice'
  BY <1>1 DEF IInv, QoS2NotTwice
<1>4. CASE present
  <2>1. UNCHANGED <<exchanges, fate, incoming, strayed>> /\ Open' = Open /\ Held' = Held
    BY <1>1, <1>4 DEF Open, Held
  <2>2. /\ toDevice' \in Seq(DownPackets) /\ Apart(toDevice')
        /\ Down' = {PacketFor(e) : e \in Open}
    BY <1>1, <1>4, ResentFits DEF Down
  <2>3. TypesOK'
    BY <1>1, <1>2, <2>1, <2>2 DEF IInv, TypesOK
  <2>4. PacketsFit'
    BY <1>2, <2>1, <2>2 DEF PacketsFit
  <2>5. ExchangesFit' /\ KnownAgain'
    BY <1>1, <2>1 DEF IInv, ExchangesFit, KnownAgain
  <2>6. HeldFit'
    BY <1>1, <1>2, <2>1 DEF IInv, HeldFit, HeldFor
  <2> QED BY <1>3, <2>3, <2>4, <2>5, <2>6 DEF IInv
<1>5. CASE ~present
  <2>1. toDevice' = << >> /\ exchanges' = << >> /\ incoming' = NoRecords /\ strayed' = {}
    BY <1>1, <1>5
  <2>2. /\ toDevice' \in Seq(DownPackets) /\ Apart(toDevice') /\ Down' = {}
        /\ exchanges' \in Seq(Exchanges) /\ Apart(exchanges') /\ Open' = {}
    BY <2>1 DEF Apart, Down, Open, Range
  <2>3. SoundArray(incoming', MaxCount, PacketIds) /\ Held' = {}
    <3>1. incoming' = [p \in 1 .. MaxCount |-> NoRecord]
      BY <2>1, Constants DEF NoRecords
    <3>2. NoRecord \in RecordValues(PacketIds) /\ NoRecord.id = NoId
      BY DEF RecordValues, NoRecord
    <3>3. Used(incoming') = {}
      BY <3>1, <3>2 DEF Used
    <3> QED BY <3>1, <3>2, <3>3 DEF SoundArray, Held, RecordsIn
  <2>4. /\ fate' \in [Messages -> Fates]
        /\ \A m \in Messages : fate'[m] = IF fate[m] = "inFlight" THEN "forgotten" ELSE fate[m]
    BY <1>1, <1>5 DEF IInv, TypesOK, Fates
  <2>5. TypesOK'
    BY <1>1, <1>2, <2>1, <2>2, <2>3, <2>4 DEF IInv, TypesOK
  <2>6. PacketsFit'
    BY <1>2, <2>2 DEF PacketsFit
  <2>7. ExchangesFit'
    BY <1>1, <2>2, <2>4 DEF IInv, ExchangesFit
  <2>8. KnownAgain' /\ HeldFit'
    BY <1>2, <2>2, <2>3 DEF KnownAgain, HeldFit
  <2> QED BY <1>3, <2>5, <2>6, <2>7, <2>8 DEF IInv
<1> QED BY <1>4, <1>5

-----------------------------------------------------------------------------
(* What is promised of each message                                        *)

(* A step that leaves the messages alone, but for an acknowledgment that   *)
(* may have strayed.                                                       *)
LEMMA SameMessages ==
  ASSUME UNCHANGED <<fate, deliveries>>, strayed # {} => strayed' # {}
  PROVE  [Promise!Next]_(Promise!vars)
<1>1. CASE strayed' # {}
  BY <1>1 DEF Promise!Next, Promise!Doubt
<1>2. CASE strayed' = {}
  BY <1>2 DEF Promise!vars
<1> QED BY <1>1, <1>2

(* sendPublishAcks, whatever becomes of the packet.                        *)
LEMMA AckStrays ==
  ASSUME NEW a, NEW i, NEW state, NEW outcome, SendPublishAck(a, i, state, outcome)
  PROVE  strayed # {} => strayed' # {}
BY DEF SendPublishAck

(* The broker ends an exchange that the device has delivered, unless an    *)
(* acknowledgment of its identifier has strayed.                           *)
Ends(e) ==
  /\ e.msg \in Messages
  /\ fate[e.msg] = "inFlight"
  /\ fate' = [fate EXCEPT ![e.msg] = "done"]
  /\ deliveries[e.msg] >= 1 \/ e.id \in strayed

LEMMA BrokerEndsDelivered ==
  ASSUME IInv, BrokerReceives
  PROVE  UNCHANGED fate \/ \E e \in Open : Ends(e)
<1>1. PICK a : a = Head(toBroker)
  OBVIOUS
<1>2. a \in Up
  <2>1. toBroker # << >>
    BY DEF BrokerReceives
  <2> QED BY <1>1, <2>1, TailApart DEF IInv, TypesOK, PacketsFit, Up
<1>3. \/ UNCHANGED fate
      \/ \E n \in DOMAIN exchanges :
           Fits(a, n) /\ fate' = [fate EXCEPT ![exchanges[n].msg] = "done"]
  BY <1>1 DEF BrokerReceives, brokerVars
<1>4. ASSUME NEW n \in DOMAIN exchanges, Fits(a, n), fate' = [fate EXCEPT ![exchanges[n].msg] = "done"]
      PROVE  \E e \in Open : Ends(e)
  <2>1. PICK e : e = exchanges[n]
    OBVIOUS
  <2>2. e \in Open /\ e.id = a.id /\ e.msg \in Messages
    BY <1>4, <2>1, Members DEF Open, Range, Fits, Exchanges
  <2>3. fate[e.msg] = "inFlight" /\ (deliveries[e.msg] # 0 \/ e.id \in strayed)
    BY <1>2, <2>2 DEF IInv, ExchangesFit, HeldFit
  <2>4. deliveries[e.msg] # 0 => deliveries[e.msg] >= 1
    BY <2>2 DEF IInv, TypesOK, Often
  <2> QED BY <1>4, <2>1, <2>2, <2>3, <2>4 DEF Ends
<1> QED BY <1>3, <1>4

LEMMA BrokerReceivesAsPromised ==
  ASSUME IInv, BrokerReceives
  PROVE  [Promise!Next]_(Promise!vars)
<1>1. UNCHANGED <<deliveries, strayed>>
  BY DEF BrokerReceives, deviceVars
<1>2. CASE UNCHANGED fate
  BY <1>1, <1>2, SameMessages
<1>3. ASSUME NEW e \in Open, Ends(e)
      PROVE  [Promise!Next]_(Promise!vars)
  <2>1. deliveries[e.msg] \in Nat
    BY <1>3 DEF Ends, IInv, TypesOK, Often
  <2>2. deliveries[e.msg] > 0 \/ strayed # {}
    BY <1>3, <2>1 DEF Ends
  <2>3. Promise!Finish(e.msg)
    BY <1>1, <1>3, <2>2 DEF Ends, Promise!Finish
  <2> QED BY <1>3, <2>3 DEF Ends, Promise!Next
<1> QED BY <1>2, <1>3, BrokerEndsDelivered

(* handleIncomingPublish delivers only what is still in flight, for what   *)
(* it finds is a packet of an open exchange, and of QoS 2 only what it has *)
(* no record of.                                                           *)
LEMMA HandleIncomingPublishAsPromised ==
  ASSUME IInv, NEW outcome, HandleIncomingPublish(outcome)
  PROVE  [Promise!Next]_(Promise!vars)
<1>1. PICK p : p = Head(toDevice)
  OBVIOUS
<1>2. toDevice # << >> /\ p.type = "PUBLISH" /\ UNCHANGED fate
  BY <1>1 DEF HandleIncomingPublish, NextPacket, brokerVars
<1>3. PICK e \in Open : p = PacketFor(e)
  <2>1. p \in Down
    BY <1>1, <1>2, TailApart DEF IInv, TypesOK, PacketsFit, Down
  <2> QED BY <2>1 DEF IInv, PacketsFit
<1>4. /\ e.id = p.id /\ e.msg = p.msg /\ e.phase = "publish" /\ p.id \in PacketIds
      /\ p.msg \in Messages /\ fate[p.msg] = "inFlight"
  BY <1>2, <1>3, Members, PacketForHas DEF Exchanges, IInv, ExchangesFit
<1>5. PICK added : added = AddRecord(incoming, NewRecord(p.id, p.msg))
  OBVIOUS
<1>6. \/ Refuse(added.records) /\ UNCHANGED deliveries
      \/ /\ SendPublishAck(added.records, p.id, CalculateStatePublish("RECEIVE", Qos[p.msg]), outcome)
         /\ IF added.status = "Success" THEN Deliver(p.msg) ELSE UNCHANGED deliveries
  BY <1>1, <1>5 DEF HandleIncomingPublish, NewRecord
<1>7. strayed # {} => strayed' # {}
  BY <1>6, AckStrays DEF Refuse
<1>8. CASE UNCHANGED deliveries
  BY <1>2, <1>7, <1>8, SameMessages
<1>9. CASE added.status = "Success" /\ Deliver(p.msg)
  <2>1. \A s \in Held : s.id # p.id
    <3>1. SoundArray(incoming, MaxCount, PacketIds)
      BY DEF IInv, TypesOK
    <3>2. PICK i, m, new : i = p.id /\ m = p.msg /\ new = NewRecord(i, m)
      OBVIOUS
    <3>3. i \in PacketIds /\ m \in Messages
      BY <1>4, <3>2
    <3>4. new \in RecordValues(PacketIds) /\ new.id = i
      BY <3>2, <3>3, NewRecordOK
    <3>5. added = AddRecord(incoming, new) /\ added.status = "Success"
      BY <1>5, <1>9, <3>2
    <3>6. \A s \in RecordsIn(incoming) : s.id # new.id
      BY <3>1, <3>3, <3>4, <3>5, Constants, AddRecords
    <3> QED BY <3>2, <3>4, <3>6 DEF Held
  <2>2. Qos[p.msg] = 2 => deliveries[p.msg] = 0
    BY <1>4, <2>1 DEF IInv, KnownAgain
  <2>3. Promise!Deliver(p.msg)
    BY <1>2, <1>4, <1>7, <1>9, <2>2 DEF Deliver, Promise!Deliver
  <2> QED BY <1>4, <2>3 DEF Promise!Next
<1> QED BY <1>6, <1>8, <1>9

LEMMA NextAsPromised ==
  ASSUME IInv, [Next]_vars
  PROVE  [Promise!Next]_(Promise!vars)
<1>1. ASSUME NEW m \in Messages, NEW i \in PacketIds, Publish(m, i) PROVE Promise!Next
  BY <1>1 DEF Publish, deviceVars, Promise!Next, Promise!Send
<1>2. CASE BrokerReceives
  BY <1>2, BrokerReceivesAsPromised
<1>3. ASSUME NEW outcome, HandleIncomingPublish(outcome) PROVE [Promise!Next]_(Promise!vars)
  BY <1>3, HandleIncomingPublishAsPromised
<1>4. ASSUME NEW outcome, HandlePubRel(outcome) PROVE [Promise!Next]_(Promise!vars)
  <2>1. UNCHANGED <<fate, deliveries>>
    BY <1>4 DEF HandlePubRel, brokerVars
  <2>2. strayed # {} => strayed' # {}
    BY <1>4, AckStrays DEF HandlePubRel, Refuse
  <2> QED BY <2>1, <2>2, SameMessages
<1>5. CASE LinkFails
  <2>1. UNCHANGED <<fate, deliveries, strayed>>
    BY <1>5 DEF LinkFails, deviceVars, brokerVars
  <2> QED BY <2>1, SameMessages
<1>6. ASSUME NEW present \in BOOLEAN, Reconnect(present) PROVE [Promise!Next]_(Promise!vars)
  <2>1. UNCHANGED deliveries /\ strayed' = IF present THEN strayed ELSE {}
    BY <1>6 DEF Reconnect
  <2>2. CASE present
    BY <1>6, <2>1, <2>2, SameMessages DEF Reconnect, brokerVars
  <2>3. CASE ~present
    BY <1>6, <2>1, <2>3 DEF Reconnect, Promise!Next, Promise!Forget
  <2> QED BY <2>2, <2>3
<1>7. CASE UNCHANGED vars
  BY <1>7 DEF vars, deviceVars, brokerVars, Promise!vars
<1> QED BY <1>1, <1>2, <1>3, <1>4, <1>5, <1>6, <1>7 DEF Next, DeviceReceives

-----------------------------------------------------------------------------
(* Theorems                                                                *)

LEMMA NextKeepsIInv == IInv /\ [Next]_vars => IInv'
<1> SUFFICES ASSUME IInv, [Next]_vars PROVE IInv'
  OBVIOUS
<1>1. ASSUME NEW m \in Messages, NEW i \in PacketIds, Publish(m, i) PROVE IInv'
  BY <1>1, PublishKeepsIInv
<1>2. CASE BrokerReceives
  BY <1>2, BrokerReceivesKeepsIInv
<1>3. ASSUME NEW outcome, DeviceReceives(outcome) PROVE IInv'
  BY <1>3, HandleIncomingPublishKeepsIInv, HandlePubRelKeepsIInv DEF DeviceReceives
<1>4. CASE LinkFails
  BY <1>4, LinkFailsKeepsIInv
<1>5. ASSUME NEW present \in BOOLEAN, Reconnect(present) PROVE IInv'
  BY <1>5, ReconnectKeepsIInv
<1>6. CASE UNCHANGED vars
  <2>1. UNCHANGED <<incoming, deliveries, exchanges, fate, link, toDevice, toBroker, strayed, faults>>
    BY <1>6 DEF vars, deviceVars, brokerVars
  <2>2. Down' = Down /\ Up' = Up /\ Open' = Open /\ Held' = Held
    BY <2>1 DEF Down, Up, Open, Held
  <2>3. TypesOK' /\ PacketsFit' /\ ExchangesFit'
    BY <2>1, <2>2 DEF IInv, TypesOK, PacketsFit, ExchangesFit
  <2>4. KnownAgain' /\ HeldFit' /\ QoS2NotTwice'
    BY <2>1, <2>2 DEF IInv, KnownAgain, HeldFit, HeldFor, QoS2NotTwice
  <2> QED BY <2>3, <2>4 DEF IInv
<1> QED BY <1>1, <1>2, <1>3, <1>4, <1>5, <1>6 DEF Next

(* The device's records, the packets on their way and the broker's         *)
(* exchanges fit together after every loss and every reconnection.         *)
THEOREM Invariance == Spec => []IInv
<1>1. IInv /\ [Next]_vars => IInv'
  BY NextKeepsIInv
<1> QED BY <1>1, InitIInv, PTL DEF Spec

(* handleIncomingPublish never gives the application a QoS 2 message       *)
(* twice, however often connections are lost and identifiers used again.   *)
THEOREM OnceHolds == Spec => []QoS2NotTwice
<1>1. IInv => QoS2NotTwice
  BY DEF IInv
<1> QED BY <1>1, Invariance, PTL

(* A step that ends the exchange of a message has the broker as its actor. *)
LEMMA NextEndsDelivered ==
  ASSUME IInv, [Next]_vars, NEW m \in Messages
  PROVE  EndsDelivered(m)
<1> SUFFICES ASSUME fate[m] # "done", fate'[m] = "done"
             PROVE  \/ deliveries[m] >= 1
                    \/ \E n \in DOMAIN exchanges : exchanges[n].msg = m /\ exchanges[n].id \in strayed
  BY DEF EndsDelivered
<1>1. fate \in [Messages -> Fates]
  BY DEF IInv, TypesOK
<1>2. CASE BrokerReceives
  <2>1. PICK e \in Open : Ends(e)
    BY <1>2, BrokerEndsDelivered
  <2>2. e.msg = m
    BY <1>1, <2>1 DEF Ends
  <2>3. PICK n \in DOMAIN exchanges : exchanges[n] = e
    BY DEF Open, Range
  <2> QED BY <2>1, <2>2, <2>3 DEF Ends
<1>3. ASSUME NEW l \in Messages, NEW i \in PacketIds, Publish(l, i) PROVE FALSE
  BY <1>1, <1>3 DEF Publish
<1>4. ASSUME NEW outcome, DeviceReceives(outcome) PROVE FALSE
  BY <1>4 DEF DeviceReceives, HandleIncomingPublish, HandlePubRel, brokerVars
<1>5. ASSUME NEW present \in BOOLEAN, Reconnect(present) PROVE FALSE
  BY <1>1, <1>5 DEF Reconnect, brokerVars
<1>6. CASE LinkFails \/ UNCHANGED vars
  BY <1>6 DEF LinkFails, vars, brokerVars
<1> QED BY <1>2, <1>3, <1>4, <1>5, <1>6 DEF Next

(* The broker ends no exchange before the application has got its message, *)
(* unless an acknowledgment of this very identifier, in this session, has  *)
(* arrived although the device saw its send fail.                          *)
THEOREM DeliveredHolds == Spec => DoneIsDeliveredUnlessStrayed
<1>1. IInv /\ [Next]_vars => [\A m \in Messages : EndsDelivered(m)]_vars
  BY NextEndsDelivered
<1> QED BY <1>1, Invariance, PTL DEF Spec, DoneIsDeliveredUnlessStrayed

(* A record of the device is of a publish in flight, with its QoS, so that *)
(* no new publish is taken for a duplicate; and every variable has its     *)
(* type.                                                                   *)
THEOREM RecordsHold == Spec => []RecordsAreInFlight
<1>1. IInv => RecordsAreInFlight
  <2> SUFFICES ASSUME IInv PROVE RecordsAreInFlight
    OBVIOUS
  <2>1. TypeOK
    <3>1. incoming \in [Places -> RecordValues(PacketIds)]
      BY Constants DEF IInv, TypesOK, SoundArray
    <3>2. /\ \A n \in DOMAIN toDevice : toDevice[n] \in DownPackets
          /\ \A n \in DOMAIN toBroker : toBroker[n] \in UpPackets
          /\ \A n \in DOMAIN exchanges : exchanges[n] \in Exchanges
      BY DEF IInv, TypesOK
    <3> QED BY <3>1, <3>2 DEF IInv, TypesOK, TypeOK, DownPackets, UpPackets, Exchanges
  <2>2. ASSUME NEW p \in Used(incoming), incoming[p].id \notin strayed
        PROVE  \E n \in ExchangeOf(incoming[p].id) : Qos[exchanges[n].msg] = incoming[p].qos
    <3>1. PICK e \in Open : HeldFor(e, incoming[p])
      BY <2>2 DEF IInv, HeldFit, Held, RecordsIn
    <3>2. PICK n \in DOMAIN exchanges : exchanges[n] = e
      BY DEF Open, Range
    <3> QED BY <3>1, <3>2 DEF HeldFor, ExchangeOf
  <2> QED BY <2>1, <2>2 DEF RecordsAreInFlight
<1> QED BY <1>1, Invariance, PTL

(* MQTT 3.1.1 leaves open what a broker does with an acknowledgment it     *)
(* does not expect; this device never sends one.                           *)
THEOREM AcksAreExpected == Spec => [](\A n \in DOMAIN toBroker : \E e \in Open : Awaits(e, toBroker[n]))
<1>1. IInv => \A n \in DOMAIN toBroker : \E e \in Open : Awaits(e, toBroker[n])
  BY DEF IInv, PacketsFit, Up, Range
<1> QED BY <1>1, Invariance, PTL

(* handleIncomingPublish, handlePublishAcks and handleSessionResumption    *)
(* keep the promise of QoS 1 and QoS 2: a message is delivered only while  *)
(* the broker has it in flight, one of QoS 2 once, and the broker is done  *)
(* with it after that, unless an acknowledgment has strayed.               *)
THEOREM ImplementsDelivery == Spec => DeliversAsPromised
<1>1. Init => Promise!Init
  BY DEF Init, Promise!Init
<1>2. IInv /\ [Next]_vars => [Promise!Next]_(Promise!vars)
  BY NextAsPromised
<1> QED BY <1>1, <1>2, Invariance, PTL DEF Spec, DeliversAsPromised, Promise!Spec
=============================================================================
