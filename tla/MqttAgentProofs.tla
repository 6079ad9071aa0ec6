--------------------------- MODULE MqttAgentProofs ---------------------------
(***************************************************************************)
(* What is proved of MqttAgent: its types, that every command structure is *)
(* in exactly one place, that a release never finds the pool full, that it *)
(* implements CommandLifecycle, that the awaited operations, their records *)
(* and their requests agree, and why a renewal can be refused.             *)
(***************************************************************************)
EXTENDS MqttAgent, PublishRecordsProofs, FiniteSetTheorems, SequenceTheorems, TLAPS

LEMMA SlotsArePlaces == MaxAcks \in Nat /\ Slots = 1 .. MaxAcks
BY ConstantsAssumption DEF Slots

(* The first of some slots is one of them.                                 *)
LEMMA FirstSlot ==
  ASSUME NEW S \in SUBSET Slots, S # {}
  PROVE  FirstOf(S) \in S
BY SlotsArePlaces, FirstIsMember

(* Taking the head off a sequence without repetitions.                     *)
LEMMA PopKeeps ==
  ASSUME NEW T, NEW s \in Seq(T), s # << >>, IsInjective(s)
  PROVE  /\ Head(s) \in T
         /\ Head(s) \in Range(s)
         /\ Tail(s) \in Seq(T)
         /\ IsInjective(Tail(s))
         /\ Range(Tail(s)) = Range(s) \ {Head(s)}
<1>1. /\ Len(s) \in Nat \ {0} /\ DOMAIN s = 1 .. Len(s)
      /\ Head(s) = s[1] /\ Head(s) \in T /\ Tail(s) \in Seq(T)
      /\ Len(Tail(s)) = Len(s) - 1
      /\ \A i \in 1 .. Len(Tail(s)) : Tail(s)[i] = s[i + 1]
  BY HeadTailProperties, LenProperties, EmptySeq
<1>2. DOMAIN Tail(s) = 1 .. Len(s) - 1
  BY <1>1, LenProperties
<1>3. IsInjective(Tail(s))
  BY <1>1, <1>2 DEF IsInjective
<1>4. Range(Tail(s)) \subseteq Range(s) \ {Head(s)}
  BY <1>1, <1>2 DEF IsInjective, Range
<1>5. ASSUME NEW x \in Range(s), x # Head(s)
      PROVE  x \in Range(Tail(s))
  <2>1. PICK i \in 1 .. Len(s) : x = s[i] /\ i # 1
    BY <1>1, <1>5 DEF Range
  <2>2. i - 1 \in 1 .. Len(s) - 1 /\ Tail(s)[i - 1] = s[(i - 1) + 1]
    BY <2>1, <1>1
  <2>3. i - 1 \in DOMAIN Tail(s) /\ Tail(s)[i - 1] = x
    BY <2>1, <2>2, <1>2
  <2> QED BY <2>3 DEF Range
<1> QED BY <1>1, <1>3, <1>4, <1>5 DEF Range

(* Putting something new at the end of one.                                *)
LEMMA PushKeeps ==
  ASSUME NEW T, NEW s \in Seq(T), NEW c \in T, IsInjective(s), c \notin Range(s)
  PROVE  /\ Append(s, c) \in Seq(T)
         /\ IsInjective(Append(s, c))
         /\ Range(Append(s, c)) = Range(s) \cup {c}
<1>1. /\ Append(s, c) \in Seq(T)
      /\ Len(Append(s, c)) = Len(s) + 1
      /\ \A i \in 1 .. Len(s) : Append(s, c)[i] = s[i]
      /\ Append(s, c)[Len(s) + 1] = c
  BY AppendProperties
<1>2. Len(s) \in Nat /\ DOMAIN s = 1 .. Len(s) /\ DOMAIN Append(s, c) = 1 .. Len(s) + 1
  BY <1>1, LenProperties
<1>3. IsInjective(Append(s, c))
  BY <1>1, <1>2 DEF IsInjective, Range
<1>4. Range(Append(s, c)) \subseteq Range(s) \cup {c}
  BY <1>1, <1>2 DEF Range
<1>5. ASSUME NEW x \in Range(s) PROVE x \in Range(Append(s, c))
  <2>1. PICK i \in 1 .. Len(s) : x = s[i]
    BY <1>2, <1>5 DEF Range
  <2> QED BY <2>1, <1>1, <1>2 DEF Range
<1>6. c \in Range(Append(s, c))
  BY <1>1, <1>2 DEF Range
<1> QED BY <1>1, <1>3, <1>4, <1>5, <1>6

(* A sequence of different command structures, not all of them, is shorter *)
(* than the pool is large: it fits on a queue created for all of them.     *)
LEMMA RoomForAnother ==
  ASSUME NEW s \in Seq(Cmds), IsInjective(s), NEW c \in Cmds, c \notin Range(s)
  PROVE  Len(s) < PoolSize
<1> DEFINE longer == Append(s, c)
<1>1. longer \in Seq(Cmds) /\ IsInjective(longer)
  BY PushKeeps
<1>2. Len(s) \in Nat /\ Len(longer) = Len(s) + 1 /\ longer \in [1 .. Len(longer) -> Cmds]
  BY AppendProperties, LenProperties, <1>1
<1>3. longer \in Injection(1 .. Len(longer), Cmds)
  BY <1>1, <1>2 DEF Injection, IsInjective
<1>4. IsFiniteSet(Cmds) /\ Cardinality(Cmds) = PoolSize
  BY FS_Interval, ConstantsAssumption DEF Cmds
<1>5. Cardinality(1 .. Len(longer)) = Len(s) + 1
  BY FS_Interval, <1>2
<1>6. Cardinality(1 .. Len(longer)) <= Cardinality(Cmds)
  BY FS_Injection, <1>3, <1>4
<1> QED BY <1>2, <1>4, <1>5, <1>6, ConstantsAssumption

-----------------------------------------------------------------------------
(* The inductive invariant *)

HoldingPcs == {"held", "filled", "refused"}
CarryingPcs == {"cancelQueue", "cancelAcks", "repost"}

(* What the steps rely on beside the types and the places: a task that is  *)
(* about to use a command has one, and one that is not has none.           *)
HandsOK ==
  /\ task \in CarryingPcs => current # NoCmd
  /\ current # NoCmd => task \in CarryingPcs \cup {"execute"}
  /\ \A k \in Clients : client[k].pc \in HoldingPcs => client[k].cmd # NoCmd
  /\ \A s \in Slots : pending[s].id = NoId <=> pending[s].cmd = NoCmd

(* Only an operation with an acknowledgment awaits one.                    *)
AwaitedOK == \A c \in Awaited : command[c].type \in AckedTypes

IInv == TypeOK /\ OwnershipOK /\ HandsOK /\ AwaitedOK /\ ReleaseNeverFails

(* Agent_ReleaseCommand of a structure that is not free.                   *)
LEMMA ReleaseReturns ==
  ASSUME IInv, NEW c \in Cmds, c \notin Range(pool), Release(c)
  PROVE  /\ pool' = Append(pool, c)
         /\ pool' \in Seq(Cmds)
         /\ IsInjective(pool')
         /\ Range(pool') = Range(pool) \cup {c}
         /\ command' \in [Cmds -> CommandValues]
         /\ \A d \in Cmds \ {c} : command'[d] = command[d]
         /\ fault' = fault
<1>1. pool \in Seq(Cmds) /\ IsInjective(pool) /\ command \in [Cmds -> CommandValues]
  BY DEF IInv, TypeOK, OwnershipOK, InOnePlace
<1>2. Len(pool) < PoolSize
  BY <1>1, RoomForAnother
<1>3. pool' = Append(pool, c) /\ fault' = fault /\ command' = [command EXCEPT ![c] = Blank]
  BY <1>2 DEF Release
<1>4. Blank \in CommandValues
  BY DEF Blank, CommandValues
<1> QED BY <1>1, <1>3, <1>4, PushKeeps

(* No operation is added to those awaited and none changes its type.       *)
LEMMA AwaitedKept ==
  ASSUME IInv, Awaited' \subseteq Awaited,
         \A c \in Awaited' : command'[c].type = command[c].type
  PROVE  AwaitedOK'
BY DEF IInv, AwaitedOK

(* The agent starts with every structure in the pool.                      *)
LEMMA InitOwnership == Init => IInv
<1> SUFFICES ASSUME Init PROVE IInv
  OBVIOUS
<1> USE ConstantsAssumption DEF Init
<1>1. TypeOK
  <2>1. /\ pool \in Seq(Cmds) /\ queue \in Seq(Cmds)
        /\ records \in [Slots -> RecordValues(PacketIds)] /\ skipped \subseteq PacketIds \cup {NoId}
    BY DEF Cmds, RecordValues
  <2>2. command \in [Cmds -> CommandValues]
    BY DEF Blank, CommandValues
  <2>3. client \in [Clients -> [pc : ClientPcs, cmd : Cmds \cup {NoCmd}, type : Types \cup {"NONE"}]]
    BY DEF Idle, ClientPcs
  <2>4. pending \in [Slots -> [id : PacketIds \cup {NoId}, cmd : Cmds \cup {NoCmd}]]
    BY DEF NoEntry
  <2>5. failed \in BOOLEAN /\ connected \in BOOLEAN /\ persistent \in BOOLEAN /\ session \in BOOLEAN
    OBVIOUS
  <2>6. /\ task \in TaskPcs /\ current \in Cmds \cup {NoCmd} /\ cursor \in Nat \ {0}
        /\ stale \in Slots \cup {NoSlot} /\ nextPacketId \in PacketIds
        /\ unanswered \subseteq Requests /\ fault \in Faults
    BY DEF TaskPcs, PacketIds, Faults
  <2> QED BY <2>1, <2>2, <2>3, <2>4, <2>5, <2>6 DEF TypeOK
<1>2. OwnershipOK
  <2>1. IsInjective(pool) /\ Range(pool) = Cmds
    BY DEF IsInjective, Range, Cmds
  <2>2. IsInjective(queue) /\ Range(queue) = {}
    BY DEF IsInjective, Range
  <2>3. HeldByClients = {} /\ HeldApart
    BY DEF HeldByClients, HeldApart, HeldBy, Idle
  <2>4. Awaited = {} /\ SlotsApart
    BY DEF Awaited, SlotsApart, NoEntry, Cmds, NoCmd
  <2>5. InHand = {}
    BY DEF InHand
  <2> QED BY <2>1, <2>2, <2>3, <2>4, <2>5 DEF OwnershipOK, InOnePlace, NothingLost
<1>3. HandsOK
  BY DEF HandsOK, CarryingPcs, HoldingPcs, Idle, NoEntry, NoId, NoCmd
<1>4. AwaitedOK
  BY DEF AwaitedOK, Awaited, NoEntry, Cmds, NoCmd
<1> QED BY <1>1, <1>2, <1>3, <1>4 DEF IInv, ReleaseNeverFails

-----------------------------------------------------------------------------
(* The calling tasks *)

ClientValues == [pc : ClientPcs, cmd : Cmds \cup {NoCmd}, type : Types \cup {"NONE"}]

(* What a caller holds after its state changed to value.                   *)
LEMMA HeldAfter ==
  ASSUME TypeOK, NEW k \in Clients, NEW value \in ClientValues,
         client' = [client EXCEPT ![k] = value]
  PROVE  /\ client' \in [Clients -> ClientValues]
         /\ \A l \in Clients \ {k} : HeldBy(l)' = HeldBy(l)
         /\ HeldBy(k)' = IF value.pc \in HoldingPcs THEN {value.cmd} ELSE {}
BY DEF TypeOK, ClientValues, HeldBy, HoldingPcs

(* A caller gets a structure, keeps it, or lets it go.                     *)
LEMMA ClientTakes ==
  ASSUME TypeOK, OwnershipOK, NEW k \in Clients, NEW value \in ClientValues,
         client' = [client EXCEPT ![k] = value],
         HeldBy(k) = {}, value.pc \in HoldingPcs, value.cmd \in Cmds,
         value.cmd \notin HeldByClients
  PROVE  HeldByClients' = HeldByClients \cup {value.cmd} /\ HeldApart'
<1>1. HeldApart
  BY DEF OwnershipOK, InOnePlace, NothingLost
<1>2. HeldBy(k)' = {value.cmd} /\ \A l \in Clients \ {k} : HeldBy(l)' = HeldBy(l)
  BY HeldAfter
<1>3. HeldApart'
  BY <1>1, <1>2 DEF HeldApart, HeldByClients
<1>4. HeldByClients' = HeldByClients \cup {value.cmd}
  BY <1>2 DEF HeldByClients
<1> QED BY <1>3, <1>4

LEMMA ClientKeeps ==
  ASSUME TypeOK, OwnershipOK, NEW k \in Clients, NEW value \in ClientValues,
         client' = [client EXCEPT ![k] = value],
         HeldBy(k) = IF value.pc \in HoldingPcs THEN {value.cmd} ELSE {}
  PROVE  HeldByClients' = HeldByClients /\ HeldApart'
<1>1. HeldApart
  BY DEF OwnershipOK, InOnePlace, NothingLost
<1>2. \A l \in Clients : HeldBy(l)' = HeldBy(l)
  BY HeldAfter
<1> QED BY <1>1, <1>2 DEF HeldApart, HeldByClients

LEMMA ClientDrops ==
  ASSUME TypeOK, OwnershipOK, NEW k \in Clients, NEW value \in ClientValues,
         client' = [client EXCEPT ![k] = value], value.pc \notin HoldingPcs,
         client[k].pc \in HoldingPcs
  PROVE  HeldByClients' = HeldByClients \ {client[k].cmd} /\ HeldApart'
<1>1. HeldApart
  BY DEF OwnershipOK, InOnePlace, NothingLost
<1>2. HeldBy(k)' = {} /\ \A l \in Clients \ {k} : HeldBy(l)' = HeldBy(l)
  BY HeldAfter
<1>3. HeldBy(k) = {client[k].cmd}
  BY DEF HeldBy, HoldingPcs
<1>4. HeldApart'
  BY <1>1, <1>2 DEF HeldApart
<1>5. \A l \in Clients \ {k} : client[k].cmd \notin HeldBy(l)
  BY <1>1, <1>3 DEF HeldApart
<1>6. HeldByClients' = HeldByClients \ {client[k].cmd}
  BY <1>2, <1>3, <1>5 DEF HeldByClients
<1> QED BY <1>4, <1>6

(* A step that leaves pPendingAcks alone leaves the awaited alone.         *)
LEMMA SlotsKept ==
  ASSUME UNCHANGED <<pending, stale>>
  PROVE  Awaited' = Awaited /\ (SlotsApart => SlotsApart')
BY DEF Awaited, SlotsApart

(* createAndAddCommand.                                                    *)
LEMMA ClientStepKeepsIInv ==
  ASSUME IInv, NEW k \in Clients, ClientStep(k)
  PROVE  IInv'
<1> USE DEF IInv
<1>1. /\ client \in [Clients -> ClientValues]
      /\ client[k] \in ClientValues
      /\ pool \in Seq(Cmds) /\ queue \in Seq(Cmds)
      /\ command \in [Cmds -> CommandValues]
      /\ client[k].pc \in HoldingPcs =>
           client[k].cmd \in Cmds /\ client[k].cmd \in HeldByClients
  BY DEF TypeOK, ClientValues, HandsOK, HeldByClients, HeldBy, HoldingPcs
<1>2. \A v \in ClientValues, pc \in ClientPcs : [v EXCEPT !.pc = pc] \in ClientValues
  BY DEF ClientValues
<1>3. [Idle EXCEPT !.pc = "returning"] \in ClientValues /\ Idle \in ClientValues
  BY DEF Idle, ClientValues, ClientPcs
<1>4. ASSUME NEW type \in Ops, GetCommand(k, type)
      PROVE  IInv'
  <2> DEFINE value == [pc |-> "held", cmd |-> Head(pool), type |-> type]
  <2>1. /\ pool # << >> /\ pool' = Tail(pool) /\ client[k].pc = "idle"
        /\ client' = [client EXCEPT ![k] = value]
        /\ UNCHANGED <<queue, command, taskVars, mqttVars, linkVars, fault>>
    BY <1>4 DEF GetCommand
  <2>2. /\ Head(pool) \in Cmds /\ Head(pool) \in Range(pool) /\ pool' \in Seq(Cmds)
        /\ IsInjective(pool') /\ Range(pool') = Range(pool) \ {Head(pool)}
    BY <1>1, <2>1, PopKeeps DEF OwnershipOK, InOnePlace, NothingLost
  <2>3. value \in ClientValues
    BY <2>2, ConstantsAssumption DEF ClientValues, ClientPcs
  <2>4. HeldByClients' = HeldByClients \cup {Head(pool)} /\ HeldApart'
    <3>1. HeldBy(k) = {} /\ value.pc \in HoldingPcs
      BY <2>1 DEF HeldBy, HoldingPcs
    <3> QED BY <2>1, <2>2, <2>3, <3>1, ClientTakes DEF OwnershipOK, InOnePlace, NothingLost
  <2>5. OwnershipOK'
    <3>1. Awaited' = Awaited /\ SlotsApart' /\ InHand' = InHand
      BY <2>1, SlotsKept DEF mqttVars, recordVars, ackVars, taskVars, InHand, OwnershipOK, InOnePlace, NothingLost
    <3>2. queue' = queue
      BY <2>1
    <3> QED BY <2>2, <2>4, <3>1, <3>2 DEF OwnershipOK, InOnePlace, NothingLost
  <2>6. TypeOK'
    BY <2>1, <2>2, <2>3, HeldAfter DEF TypeOK, ClientValues, taskVars, mqttVars, recordVars, ackVars, linkVars
  <2>7. HandsOK'
    BY <2>1, <2>2, <1>1 DEF HandsOK, HoldingPcs, taskVars, mqttVars, recordVars, ackVars, Cmds, NoCmd
  <2>8. AwaitedOK'
    BY <2>1, <2>5, AwaitedKept, SlotsKept DEF mqttVars, recordVars, ackVars
  <2> QED BY <2>1, <2>5, <2>6, <2>7, <2>8 DEF ReleaseNeverFails
<1>5. CASE CreateCommand(k)
  <2> DEFINE value == [client[k] EXCEPT !.pc = client'[k].pc]
  <2>1. /\ client[k].pc = "held" /\ client'[k].pc \in {"filled", "refused"}
        /\ client' = [client EXCEPT ![k] = value]
        /\ command' \in [Cmds -> CommandValues]
        /\ UNCHANGED <<pool, queue, taskVars, mqttVars, linkVars, fault>>
    <3>1. client[k].cmd \in Cmds /\ client[k].type \in Types \cup {"NONE"} /\ client[k].pc = "held"
      BY <1>1, <1>5 DEF ClientValues, CreateCommand, HoldingPcs
    <3>2. /\ Blank \in CommandValues
          /\ [type |-> client[k].type, owner |-> k, inScope |-> TRUE] \in CommandValues
      BY <3>1 DEF Blank, CommandValues
    <3> QED BY <1>1, <1>5, <3>1, <3>2 DEF CreateCommand
  <2>2. value \in ClientValues /\ value.pc \in HoldingPcs /\ value.cmd = client[k].cmd
    BY <1>1, <2>1 DEF ClientValues, ClientPcs, HoldingPcs
  <2>3. HeldByClients' = HeldByClients /\ HeldApart'
    <3>1. HeldBy(k) = {value.cmd}
      BY <2>1, <2>2 DEF HeldBy
    <3> QED BY <2>1, <2>2, <3>1, ClientKeeps
  <2>4. Awaited' = Awaited /\ SlotsApart' /\ InHand' = InHand
    BY <2>1, SlotsKept DEF mqttVars, recordVars, ackVars, taskVars, InHand, OwnershipOK, InOnePlace
  <2>5. OwnershipOK'
    BY <2>1, <2>3, <2>4 DEF OwnershipOK, InOnePlace, NothingLost
  <2>6. TypeOK'
    BY <2>1, <2>2, HeldAfter DEF TypeOK, ClientValues, taskVars, mqttVars, recordVars, ackVars, linkVars
  <2>7. HandsOK'
    BY <2>1, <2>2, <1>1 DEF HandsOK, HoldingPcs, taskVars, mqttVars, recordVars, ackVars
  <2>8. AwaitedOK'
    <3>1. \A d \in Cmds \ {client[k].cmd} : command'[d] = command[d]
      BY <1>1, <1>5 DEF CreateCommand
    <3>2. client[k].cmd \notin Awaited /\ Awaited \subseteq Cmds
      BY <1>1, <2>1 DEF HoldingPcs, OwnershipOK, InOnePlace, Awaited
    <3> QED BY <2>4, <3>1, <3>2, AwaitedKept
  <2> QED BY <2>1, <2>5, <2>6, <2>7, <2>8 DEF ReleaseNeverFails
<1>6. CASE PostCommand(k)
  <2> DEFINE value == [Idle EXCEPT !.pc = "returning"]
  <2>1. /\ client[k].pc = "filled" /\ client' = [client EXCEPT ![k] = value]
        /\ queue' = Append(queue, client[k].cmd)
        /\ UNCHANGED <<pool, command, taskVars, mqttVars, linkVars, fault>>
    BY <1>6 DEF PostCommand
  <2>2. client[k].cmd \in Cmds /\ client[k].cmd \in HeldByClients
    BY <1>1, <2>1 DEF HoldingPcs
  <2>3. /\ queue' \in Seq(Cmds) /\ IsInjective(queue')
        /\ Range(queue') = Range(queue) \cup {client[k].cmd}
    BY <1>1, <2>1, <2>2, PushKeeps DEF OwnershipOK, InOnePlace
  <2>4. HeldByClients' = HeldByClients \ {client[k].cmd} /\ HeldApart'
    <3>1. value.pc \notin HoldingPcs /\ client[k].pc \in HoldingPcs
      BY <2>1 DEF Idle, HoldingPcs
    <3> QED BY <1>3, <2>1, <3>1, ClientDrops
  <2>5. Awaited' = Awaited /\ SlotsApart' /\ InHand' = InHand
    BY <2>1, SlotsKept DEF mqttVars, recordVars, ackVars, taskVars, InHand, OwnershipOK, InOnePlace
  <2>6. OwnershipOK'
    BY <2>1, <2>2, <2>3, <2>4, <2>5 DEF OwnershipOK, InOnePlace, NothingLost
  <2>7. TypeOK'
    BY <1>3, <2>1, <2>3, HeldAfter DEF TypeOK, ClientValues, taskVars, mqttVars, recordVars, ackVars, linkVars
  <2>8. HandsOK'
    BY <1>1, <2>1 DEF HandsOK, HoldingPcs, Idle, taskVars, mqttVars, recordVars, ackVars
  <2>9. AwaitedOK'
    BY <2>1, <2>5, AwaitedKept
  <2> QED BY <2>1, <2>6, <2>7, <2>8, <2>9 DEF ReleaseNeverFails
<1>7. CASE PostTimesOut(k)
  <2> DEFINE value == [client[k] EXCEPT !.pc = "refused"]
  <2>1. /\ client[k].pc = "filled" /\ client' = [client EXCEPT ![k] = value]
        /\ UNCHANGED <<pool, queue, command, taskVars, mqttVars, linkVars, fault>>
    BY <1>7, <1>1 DEF PostTimesOut
  <2>2. value \in ClientValues /\ value.pc \in HoldingPcs /\ value.cmd = client[k].cmd
    BY <1>1 DEF ClientValues, ClientPcs, HoldingPcs
  <2>3. HeldByClients' = HeldByClients /\ HeldApart'
    <3>1. HeldBy(k) = {value.cmd}
      BY <2>1, <2>2 DEF HeldBy
    <3> QED BY <2>1, <2>2, <3>1, ClientKeeps
  <2>4. Awaited' = Awaited /\ SlotsApart' /\ InHand' = InHand
    BY <2>1, SlotsKept DEF mqttVars, recordVars, ackVars, taskVars, InHand, OwnershipOK, InOnePlace
  <2>5. OwnershipOK'
    BY <2>1, <2>3, <2>4 DEF OwnershipOK, InOnePlace, NothingLost
  <2>6. TypeOK'
    BY <2>1, <2>2, HeldAfter DEF TypeOK, ClientValues, taskVars, mqttVars, recordVars, ackVars, linkVars
  <2>7. HandsOK'
    BY <2>1, <2>2, <1>1 DEF HandsOK, HoldingPcs, taskVars, mqttVars, recordVars, ackVars
  <2>8. AwaitedOK'
    BY <2>1, <2>4, AwaitedKept
  <2> QED BY <2>1, <2>5, <2>6, <2>7, <2>8 DEF ReleaseNeverFails
<1>8. CASE ReleaseUnposted(k)
  <2> DEFINE value == [Idle EXCEPT !.pc = "returning"]
  <2>1. /\ client[k].pc = "refused" /\ client' = [client EXCEPT ![k] = value]
        /\ Release(client[k].cmd)
        /\ UNCHANGED <<queue, taskVars, mqttVars, linkVars>>
    BY <1>8 DEF ReleaseUnposted
  <2>2. /\ client[k].cmd \in Cmds /\ client[k].cmd \in HeldByClients
        /\ client[k].cmd \notin Range(pool)
    BY <1>1, <2>1 DEF HoldingPcs, OwnershipOK, InOnePlace
  <2>3. /\ pool' \in Seq(Cmds) /\ IsInjective(pool') /\ fault' = fault
        /\ Range(pool') = Range(pool) \cup {client[k].cmd}
        /\ command' \in [Cmds -> CommandValues]
    BY <2>1, <2>2, ReleaseReturns
  <2>4. HeldByClients' = HeldByClients \ {client[k].cmd} /\ HeldApart'
    <3>1. value.pc \notin HoldingPcs /\ client[k].pc \in HoldingPcs
      BY <2>1 DEF Idle, HoldingPcs
    <3> QED BY <1>3, <2>1, <3>1, ClientDrops
  <2>5. Awaited' = Awaited /\ SlotsApart' /\ InHand' = InHand
    BY <2>1, SlotsKept DEF mqttVars, recordVars, ackVars, taskVars, InHand, OwnershipOK, InOnePlace
  <2>6. OwnershipOK'
    BY <2>1, <2>2, <2>3, <2>4, <2>5 DEF OwnershipOK, InOnePlace, NothingLost
  <2>7. TypeOK'
    BY <1>3, <2>1, <2>3, HeldAfter DEF TypeOK, ClientValues, taskVars, mqttVars, recordVars, ackVars, linkVars
  <2>8. HandsOK'
    BY <1>1, <2>1 DEF HandsOK, HoldingPcs, Idle, taskVars, mqttVars, recordVars, ackVars
  <2>9. AwaitedOK'
    <3>1. \A d \in Cmds \ {client[k].cmd} : command'[d] = command[d]
      BY <2>1, <2>2, ReleaseReturns
    <3>2. client[k].cmd \notin Awaited /\ Awaited \subseteq Cmds
      BY <2>2 DEF OwnershipOK, InOnePlace, Awaited
    <3> QED BY <2>5, <3>1, <3>2, AwaitedKept
  <2> QED BY <2>3, <2>6, <2>7, <2>8, <2>9 DEF ReleaseNeverFails
<1>9. CASE ReturnToCaller(k)
  <2>1. /\ client[k].pc = "returning" /\ client' = [client EXCEPT ![k] = Idle]
        /\ command' \in [Cmds -> CommandValues]
        /\ UNCHANGED <<pool, queue, taskVars, mqttVars, linkVars, fault>>
    <3>1. \A v \in CommandValues : [v EXCEPT !.inScope = FALSE] \in CommandValues
      BY DEF CommandValues
    <3> QED BY <1>1, <1>9, <3>1 DEF ReturnToCaller
  <2>2. HeldByClients' = HeldByClients /\ HeldApart'
    <3>1. HeldBy(k) = {} /\ Idle.pc \notin HoldingPcs
      BY <2>1 DEF HeldBy, Idle, HoldingPcs
    <3> QED BY <1>3, <2>1, <3>1, ClientKeeps
  <2>3. Awaited' = Awaited /\ SlotsApart' /\ InHand' = InHand
    BY <2>1, SlotsKept DEF mqttVars, recordVars, ackVars, taskVars, InHand, OwnershipOK, InOnePlace
  <2>4. OwnershipOK'
    BY <2>1, <2>2, <2>3 DEF OwnershipOK, InOnePlace, NothingLost
  <2>5. TypeOK'
    BY <1>3, <2>1, HeldAfter DEF TypeOK, ClientValues, taskVars, mqttVars, recordVars, ackVars, linkVars
  <2>6. HandsOK'
    BY <1>1, <2>1 DEF HandsOK, HoldingPcs, Idle, taskVars, mqttVars, recordVars, ackVars
  <2>7. AwaitedOK'
    <3>1. \A c \in Cmds : command'[c].type = command[c].type
      BY <1>1, <1>9 DEF ReturnToCaller, CommandValues
    <3> QED BY <2>3, <3>1, AwaitedKept DEF Awaited
  <2> QED BY <2>1, <2>4, <2>5, <2>6, <2>7 DEF ReleaseNeverFails
<1> QED BY <1>4, <1>5, <1>6, <1>7, <1>8, <1>9 DEF ClientStep

-----------------------------------------------------------------------------
(* The agent task: one lemma for each way a structure can move *)

(* What the agent task does while the callers stand still.                 *)
LEMMA CallersKept ==
  ASSUME client' = client
  PROVE  HeldByClients' = HeldByClients /\ (HeldApart => HeldApart')
BY DEF HeldByClients, HeldApart, HeldBy

(* No structure moves.                                                     *)
LEMMA NothingMoves ==
  ASSUME IInv, UNCHANGED <<pool, queue, client, current, ackVars>>
  PROVE  OwnershipOK'
<1>1. Awaited' = Awaited /\ SlotsApart' /\ HeldByClients' = HeldByClients /\ HeldApart'
  BY SlotsKept, CallersKept DEF IInv, OwnershipOK, InOnePlace, ackVars
<1> QED BY <1>1 DEF IInv, OwnershipOK, InOnePlace, NothingLost, InHand

(* The command in hand goes back into the pool.                            *)
LEMMA CurrentReturns ==
  ASSUME IInv, UNCHANGED <<queue, client, ackVars>>,
         current # NoCmd, current' = NoCmd, Release(current)
  PROVE  /\ OwnershipOK'
         /\ AwaitedOK'
         /\ pool' \in Seq(Cmds)
         /\ command' \in [Cmds -> CommandValues]
         /\ fault' = fault
<1>1. Awaited' = Awaited /\ SlotsApart' /\ HeldByClients' = HeldByClients /\ HeldApart'
  BY SlotsKept, CallersKept DEF IInv, OwnershipOK, InOnePlace, ackVars
<1>2. current \in Cmds /\ InHand = {current} /\ InHand' = {}
  BY DEF IInv, TypeOK, InHand
<1>3. /\ pool' \in Seq(Cmds) /\ IsInjective(pool') /\ Range(pool') = Range(pool) \cup {current}
      /\ command' \in [Cmds -> CommandValues] /\ fault' = fault
      /\ \A d \in Cmds \ {current} : command'[d] = command[d]
  BY <1>2, ReleaseReturns DEF IInv, OwnershipOK, InOnePlace
<1>4. OwnershipOK'
  BY <1>1, <1>2, <1>3 DEF IInv, OwnershipOK, InOnePlace, NothingLost
<1>5. AwaitedOK'
  <2>1. current \notin Awaited /\ Awaited \subseteq Cmds
    BY <1>2 DEF IInv, OwnershipOK, InOnePlace, Awaited
  <2> QED BY <1>1, <1>3, <2>1, AwaitedKept
<1> QED BY <1>3, <1>4, <1>5

(* The command in hand is put on the list of awaited operations.           *)
LEMMA CurrentParks ==
  ASSUME IInv, UNCHANGED <<pool, queue, command, client, stale>>, stale = NoSlot,
         current # NoCmd, current' = NoCmd, command[current].type \in AckedTypes,
         NEW s \in FreeSlots, NEW id \in PacketIds,
         pending' = [pending EXCEPT ![s] = [id |-> id, cmd |-> current]]
  PROVE  /\ OwnershipOK'
         /\ AwaitedOK'
         /\ pending' \in [Slots -> [id : PacketIds \cup {NoId}, cmd : Cmds \cup {NoCmd}]]
         /\ \A t \in Slots : pending'[t].id = NoId <=> pending'[t].cmd = NoCmd
<1>1. HeldByClients' = HeldByClients /\ HeldApart'
  BY CallersKept DEF IInv, OwnershipOK, InOnePlace
<1>2. /\ s \in Slots /\ pending[s].id = NoId /\ pending[s].cmd = NoCmd /\ current \in Cmds
      /\ pending \in [Slots -> [id : PacketIds \cup {NoId}, cmd : Cmds \cup {NoCmd}]]
      /\ id # NoId /\ NoSlot \notin Slots /\ NoCmd \notin Cmds
  BY DEF FreeSlots, WithId, IInv, HandsOK, TypeOK, PacketIds, NoId, Slots, NoSlot, Cmds, NoCmd
<1>3. /\ pending' \in [Slots -> [id : PacketIds \cup {NoId}, cmd : Cmds \cup {NoCmd}]]
      /\ pending'[s].cmd = current /\ pending'[s].id = id
      /\ \A t \in Slots \ {s} : pending'[t] = pending[t]
  BY <1>2
<1>4. InHand = {current} /\ InHand' = {}
  BY DEF InHand
<1>5. Awaited' = Awaited \cup {current}
  BY <1>2, <1>3 DEF Awaited
<1>6. SlotsApart'
  <2>1. \A t \in Slots : pending[t].cmd # current
    BY <1>2, <1>4 DEF IInv, OwnershipOK, InOnePlace, Awaited
  <2> QED BY <1>2, <1>3, <2>1 DEF SlotsApart, IInv, OwnershipOK, InOnePlace
<1>7. OwnershipOK'
  BY <1>1, <1>4, <1>5, <1>6 DEF IInv, OwnershipOK, InOnePlace, NothingLost
<1>8. \A t \in Slots : pending'[t].id = NoId <=> pending'[t].cmd = NoCmd
  BY <1>2, <1>3 DEF IInv, HandsOK
<1>9. AwaitedOK'
  BY <1>5 DEF IInv, AwaitedOK
<1> QED BY <1>3, <1>7, <1>8, <1>9

(* An awaited command goes back into the pool, its slot not yet cleared.   *)
LEMMA EntryReturns ==
  ASSUME IInv, UNCHANGED <<queue, client, current, pending>>, stale = NoSlot,
         NEW s \in Slots, pending[s].id # NoId, ConcludeEntry(s)
  PROVE  /\ OwnershipOK'
         /\ AwaitedOK'
         /\ pool' \in Seq(Cmds)
         /\ command' \in [Cmds -> CommandValues]
         /\ fault' = fault
         /\ stale' \in Slots
<1>1. HeldByClients' = HeldByClients /\ HeldApart' /\ InHand' = InHand
  BY CallersKept DEF IInv, OwnershipOK, InOnePlace, InHand
<1> DEFINE c == pending[s].cmd
<1>2. c \in Cmds /\ c \in Awaited /\ NoSlot \notin Slots /\ stale' = s /\ Release(c)
  BY DEF IInv, HandsOK, TypeOK, Awaited, Slots, NoSlot, ConcludeEntry, Conclude
<1>3. /\ pool' \in Seq(Cmds) /\ IsInjective(pool') /\ Range(pool') = Range(pool) \cup {c}
      /\ command' \in [Cmds -> CommandValues] /\ fault' = fault
      /\ \A d \in Cmds \ {c} : command'[d] = command[d]
  BY <1>2, ReleaseReturns DEF IInv, OwnershipOK, InOnePlace
<1>4. SlotsApart'
  BY <1>2 DEF SlotsApart, IInv, OwnershipOK, InOnePlace
<1>5. Awaited' = Awaited \ {c}
  <2>1. \A t \in Slots : pending[t].cmd = c => t = s
    BY <1>2 DEF SlotsApart, IInv, OwnershipOK, InOnePlace, Cmds, NoCmd
  <2> QED BY <1>2, <2>1 DEF Awaited
<1>6. OwnershipOK'
  BY <1>1, <1>2, <1>3, <1>4, <1>5 DEF IInv, OwnershipOK, InOnePlace, NothingLost
<1>7. AwaitedOK'
  BY <1>3, <1>5, AwaitedKept DEF Awaited
<1> QED BY <1>2, <1>3, <1>6, <1>7

(* The slot is cleared.                                                    *)
LEMMA ClearEntryKeepsIInv ==
  ASSUME IInv, ClearEntry
  PROVE  IInv'
<1>1. /\ stale \in Slots /\ stale' = NoSlot /\ NoSlot \notin Slots
      /\ pending \in [Slots -> [id : PacketIds \cup {NoId}, cmd : Cmds \cup {NoCmd}]]
      /\ pending' = [pending EXCEPT ![stale] = NoEntry]
      /\ UNCHANGED <<pool, queue, command, client, taskVars, recordVars, nextPacketId, linkVars, fault>>
  BY DEF ClearEntry, IInv, TypeOK, Slots, NoSlot
<1>2. /\ pending' \in [Slots -> [id : PacketIds \cup {NoId}, cmd : Cmds \cup {NoCmd}]]
      /\ pending'[stale] = NoEntry
      /\ \A t \in Slots \ {stale} : pending'[t] = pending[t]
  BY <1>1 DEF NoEntry
<1>3. Awaited' = Awaited
  BY <1>1, <1>2 DEF Awaited, NoEntry, Cmds, NoCmd
<1>4. SlotsApart'
  BY <1>1, <1>2 DEF SlotsApart, NoEntry, IInv, OwnershipOK, InOnePlace
<1>5. HeldByClients' = HeldByClients /\ HeldApart' /\ InHand' = InHand
  BY <1>1, CallersKept DEF IInv, OwnershipOK, InOnePlace, InHand, taskVars
<1>6. OwnershipOK'
  BY <1>1, <1>3, <1>4, <1>5 DEF IInv, OwnershipOK, InOnePlace, NothingLost
<1>7. TypeOK'
  BY <1>1, <1>2 DEF IInv, TypeOK, taskVars, linkVars, recordVars
<1>8. HandsOK'
  BY <1>1, <1>2 DEF IInv, HandsOK, NoEntry, taskVars
<1>9. AwaitedOK'
  BY <1>1, <1>3, AwaitedKept
<1> QED BY <1>1, <1>6, <1>7, <1>8, <1>9 DEF IInv, ReleaseNeverFails

-----------------------------------------------------------------------------
(* The agent task, action by action *)

(* MQTT_GetPacketId stays within its range.                                *)
LEMMA NextIdType ==
  ASSUME TypeOK
  PROVE  PacketIdAfter(nextPacketId) \in PacketIds
BY ConstantsAssumption DEF TypeOK, PacketIdAfter, PacketIds

(* The steps that move no structure and end in a place where the task has  *)
(* the same command in hand, or none, as before.                           *)
LEMMA StillStep ==
  ASSUME IInv,
         UNCHANGED <<pool, queue, command, client, current, ackVars>>,
         task' \in TaskPcs, failed' \in BOOLEAN, cursor' \in Nat \ {0},
         records' \in [Slots -> RecordValues(PacketIds)], skipped' \subseteq PacketIds \cup {NoId},
         nextPacketId' \in PacketIds,
         connected' \in BOOLEAN, persistent' \in BOOLEAN, session' \in BOOLEAN,
         unanswered' \subseteq Requests, fault' \in Faults \ {"releaseFailed"},
         task' \in CarryingPcs => current # NoCmd,
         current # NoCmd => task' \in CarryingPcs \cup {"execute"}
  PROVE  IInv'
<1>1. OwnershipOK'
  BY NothingMoves
<1>2. TypeOK'
  BY DEF IInv, TypeOK, ackVars
<1>3. HandsOK'
  BY DEF IInv, HandsOK, ackVars
<1>4. AwaitedOK'
  BY AwaitedKept, SlotsKept DEF ackVars
<1> QED BY <1>1, <1>2, <1>3, <1>4 DEF IInv, ReleaseNeverFails

(* The steps that conclude the command in hand.                            *)
LEMMA ConcludeStep ==
  ASSUME IInv, UNCHANGED <<queue, client, cursor, ackVars, session, persistent>>,
         current # NoCmd, current' = NoCmd, Release(current),
         task' \in {"loop", "ended", "failing", "receive"}, failed' \in BOOLEAN,
         records' \in [Slots -> RecordValues(PacketIds)], skipped' \subseteq PacketIds \cup {NoId},
         nextPacketId' \in PacketIds,
         connected' \in BOOLEAN, unanswered' \subseteq Requests
  PROVE  IInv'
<1>1. /\ OwnershipOK' /\ AwaitedOK' /\ pool' \in Seq(Cmds) /\ command' \in [Cmds -> CommandValues]
      /\ fault' = fault
  BY CurrentReturns
<1>2. TypeOK'
  BY <1>1 DEF IInv, TypeOK, TaskPcs, ackVars
<1>3. HandsOK'
  BY DEF IInv, HandsOK, CarryingPcs, ackVars
<1> QED BY <1>1, <1>2, <1>3 DEF IInv, ReleaseNeverFails

(* The steps that conclude an awaited command.                             *)
LEMMA EntryStep ==
  ASSUME IInv, stale = NoSlot,
         UNCHANGED <<queue, client, current, pending, nextPacketId, failed>>,
         UNCHANGED <<connected, persistent, session>>, unanswered' \subseteq Requests,
         NEW s \in Slots, pending[s].id # NoId, ConcludeEntry(s),
         task' \in TaskPcs, cursor' \in Nat \ {0}, records' \in [Slots -> RecordValues(PacketIds)],
         skipped' \subseteq PacketIds \cup {NoId},
         task' \in CarryingPcs <=> task \in CarryingPcs,
         task' = "execute" <=> task = "execute"
  PROVE  IInv'
<1>1. /\ OwnershipOK' /\ AwaitedOK' /\ pool' \in Seq(Cmds) /\ command' \in [Cmds -> CommandValues]
      /\ fault' = fault /\ stale' \in Slots
  BY EntryReturns
<1>2. TypeOK'
  BY <1>1 DEF IInv, TypeOK
<1>3. HandsOK'
  BY DEF IInv, HandsOK
<1> QED BY <1>1, <1>2, <1>3 DEF IInv, ReleaseNeverFails

(* The steps that take a structure off a queue or put one on it.           *)
LEMMA QueueStepsKeepIInv ==
  ASSUME IInv, stale = NoSlot,
         ReceiveCommand \/ CancelQueued \/ Resubscribe \/ RepostSubscribe
  PROVE  IInv'
<1> USE DEF IInv
<1>1. /\ pool \in Seq(Cmds) /\ IsInjective(pool) /\ queue \in Seq(Cmds) /\ IsInjective(queue)
      /\ command \in [Cmds -> CommandValues] /\ NoCmd \notin Cmds
  BY DEF TypeOK, OwnershipOK, InOnePlace, Cmds, NoCmd
<1>2. CASE ReceiveCommand
  <2>1. /\ task = "receive" /\ current = NoCmd /\ task' = "execute"
        /\ UNCHANGED <<pool, command, client, failed, cursor, mqttVars, linkVars, fault>>
    BY <1>2 DEF ReceiveCommand, Goto, HandsOK, CarryingPcs
  <2>2. Awaited' = Awaited /\ SlotsApart' /\ HeldByClients' = HeldByClients /\ HeldApart'
    BY <2>1, SlotsKept, CallersKept DEF OwnershipOK, InOnePlace, mqttVars, recordVars, ackVars
  <2>3. /\ queue' \in Seq(Cmds) /\ IsInjective(queue')
        /\ current' \in Cmds \cup {NoCmd}
        /\ Range(queue') = Range(queue) \ InHand' /\ InHand' \subseteq Range(queue)
    <3>1. CASE queue = << >>
      BY <1>1, <1>2, <3>1 DEF ReceiveCommand, InHand
    <3>2. CASE queue # << >>
      <4>1. current' = Head(queue) /\ queue' = Tail(queue) /\ Head(queue) \in Cmds
        BY <1>1, <1>2, <3>2, PopKeeps DEF ReceiveCommand
      <4> QED BY <1>1, <3>2, <4>1, PopKeeps DEF InHand
    <3> QED BY <3>1, <3>2
  <2>4. OwnershipOK'
    <3>1. InHand = {}
      BY <2>1 DEF InHand
    <3> QED BY <2>1, <2>2, <2>3, <3>1 DEF OwnershipOK, InOnePlace, NothingLost
  <2>5. TypeOK'
    BY <2>1, <2>3 DEF TypeOK, TaskPcs, mqttVars, recordVars, ackVars, linkVars
  <2>6. HandsOK'
    BY <2>1 DEF HandsOK, CarryingPcs, mqttVars, recordVars, ackVars
  <2>7. AwaitedOK'
    BY <2>1, <2>2, AwaitedKept
  <2> QED BY <2>1, <2>4, <2>5, <2>6, <2>7 DEF ReleaseNeverFails
<1>3. CASE CancelQueued
  <2>1. /\ queue # << >> /\ queue' = Tail(queue) /\ Release(Head(queue))
        /\ UNCHANGED <<client, taskVars, mqttVars, linkVars>>
    BY <1>3 DEF CancelQueued, Conclude
  <2>2. /\ Head(queue) \in Cmds /\ Head(queue) \in Range(queue) /\ queue' \in Seq(Cmds)
        /\ IsInjective(queue') /\ Range(queue') = Range(queue) \ {Head(queue)}
    BY <1>1, <2>1, PopKeeps
  <2>3. /\ pool' \in Seq(Cmds) /\ IsInjective(pool') /\ fault' = fault
        /\ Range(pool') = Range(pool) \cup {Head(queue)}
        /\ command' \in [Cmds -> CommandValues]
    <3>1. Head(queue) \notin Range(pool)
      BY <2>2 DEF OwnershipOK, InOnePlace
    <3> QED BY <2>1, <2>2, <3>1, ReleaseReturns
  <2>4. Awaited' = Awaited /\ SlotsApart' /\ HeldByClients' = HeldByClients /\ HeldApart'
        /\ InHand' = InHand
    BY <2>1, SlotsKept, CallersKept DEF OwnershipOK, InOnePlace, mqttVars, recordVars, ackVars, taskVars, InHand
  <2>5. OwnershipOK'
    BY <2>2, <2>3, <2>4 DEF OwnershipOK, InOnePlace, NothingLost
  <2>6. TypeOK'
    BY <2>1, <2>2, <2>3 DEF TypeOK, taskVars, mqttVars, recordVars, ackVars, linkVars
  <2>7. HandsOK'
    BY <2>1 DEF HandsOK, taskVars, mqttVars, recordVars, ackVars
  <2>8. AwaitedOK'
    <3>1. \A d \in Cmds \ {Head(queue)} : command'[d] = command[d]
      BY <1>1, <2>1, <2>2 DEF Release
    <3>2. Head(queue) \notin Awaited /\ Awaited \subseteq Cmds
      BY <2>2 DEF OwnershipOK, InOnePlace, Awaited
    <3> QED BY <2>4, <3>1, <3>2, AwaitedKept
  <2> QED BY <2>3, <2>5, <2>6, <2>7, <2>8 DEF ReleaseNeverFails
<1>4. CASE Resubscribe
  <2>1. CASE pool = << >>
    <3>1. task' = "failing" /\ UNCHANGED <<pool, queue, command, client, current, failed, cursor, mqttVars, linkVars, fault>>
      BY <1>4, <2>1 DEF Resubscribe, Goto
    <3>2. current = NoCmd
      BY <1>4 DEF Resubscribe, HandsOK, CarryingPcs
    <3> QED BY <3>1, <3>2, StillStep DEF TypeOK, TaskPcs, CarryingPcs, mqttVars, recordVars, ackVars, linkVars, ReleaseNeverFails
  <2>2. CASE pool # << >>
    <3>1. /\ task = "resubscribe" /\ current = NoCmd /\ task' = "repost"
          /\ current' = Head(pool) /\ pool' = Tail(pool)
          /\ UNCHANGED <<queue, client, failed, cursor, mqttVars, linkVars, fault>>
      BY <1>4, <2>2 DEF Resubscribe, Goto, HandsOK, CarryingPcs
    <3>2. /\ Head(pool) \in Cmds /\ Head(pool) \in Range(pool) /\ pool' \in Seq(Cmds)
          /\ IsInjective(pool') /\ Range(pool') = Range(pool) \ {Head(pool)}
      BY <1>1, <2>2, <3>1, PopKeeps
    <3>3. command' \in [Cmds -> CommandValues]
      <4>1. [type |-> "SUBSCRIBE", owner |-> Agent, inScope |-> TRUE] \in CommandValues
        BY DEF CommandValues, Types, AckedTypes, Subscriptions
      <4> QED BY <1>1, <1>4, <2>2, <4>1 DEF Resubscribe
    <3>4. Awaited' = Awaited /\ SlotsApart' /\ HeldByClients' = HeldByClients /\ HeldApart'
      BY <3>1, SlotsKept, CallersKept DEF OwnershipOK, InOnePlace, mqttVars, recordVars, ackVars
    <3>5. OwnershipOK'
      <4>1. InHand = {} /\ InHand' = {Head(pool)}
        BY <1>1, <3>1, <3>2 DEF InHand
      <4> QED BY <3>1, <3>2, <3>4, <4>1 DEF OwnershipOK, InOnePlace, NothingLost
    <3>6. TypeOK'
      BY <3>1, <3>2, <3>3 DEF TypeOK, TaskPcs, mqttVars, recordVars, ackVars, linkVars
    <3>7. HandsOK'
      BY <1>1, <3>1, <3>2 DEF HandsOK, CarryingPcs, mqttVars, recordVars, ackVars
    <3>8. AwaitedOK'
      <4>1. \A d \in Cmds \ {Head(pool)} : command'[d] = command[d]
        BY <1>1, <1>4, <2>2 DEF Resubscribe
      <4>2. Head(pool) \notin Awaited /\ Awaited \subseteq Cmds
        BY <3>2 DEF OwnershipOK, InOnePlace, Awaited
      <4> QED BY <3>4, <4>1, <4>2, AwaitedKept
    <3> QED BY <3>1, <3>5, <3>6, <3>7, <3>8 DEF ReleaseNeverFails
  <2> QED BY <2>1, <2>2
<1>5. CASE RepostSubscribe
  <2>1. /\ task = "repost" /\ current \in Cmds /\ current # NoCmd /\ current' = NoCmd
        /\ UNCHANGED <<client, failed, cursor, mqttVars, linkVars>>
    BY <1>5 DEF RepostSubscribe, HandsOK, CarryingPcs, TypeOK
  <2>2. CASE Len(queue) < QueueLength
    <3>1. /\ queue' = Append(queue, current) /\ task' = "receive"
          /\ UNCHANGED <<pool, command, fault>>
      BY <1>5, <2>2 DEF RepostSubscribe, Goto
    <3>2. InHand = {current} /\ InHand' = {}
      BY <2>1 DEF InHand
    <3>3. /\ queue' \in Seq(Cmds) /\ IsInjective(queue') /\ Range(queue') = Range(queue) \cup {current}
      BY <1>1, <2>1, <3>1, <3>2, PushKeeps DEF OwnershipOK, InOnePlace
    <3>4. Awaited' = Awaited /\ SlotsApart' /\ HeldByClients' = HeldByClients /\ HeldApart'
      BY <2>1, SlotsKept, CallersKept DEF OwnershipOK, InOnePlace, mqttVars, recordVars, ackVars
    <3>5. OwnershipOK'
      BY <3>1, <3>2, <3>3, <3>4 DEF OwnershipOK, InOnePlace, NothingLost
    <3>6. TypeOK'
      BY <2>1, <3>1, <3>3 DEF TypeOK, TaskPcs, mqttVars, recordVars, ackVars, linkVars
    <3>7. HandsOK'
      BY <2>1, <3>1 DEF HandsOK, CarryingPcs, mqttVars, recordVars, ackVars
    <3>8. AwaitedOK'
      BY <3>1, <3>4, AwaitedKept
    <3> QED BY <3>1, <3>5, <3>6, <3>7, <3>8 DEF ReleaseNeverFails
  <2>3. CASE ~ (Len(queue) < QueueLength)
    <3>1. Release(current) /\ task' = "failing" /\ UNCHANGED queue
      BY <1>5, <2>3 DEF RepostSubscribe, Goto
    <3> QED BY <2>1, <3>1, ConcludeStep DEF TypeOK, mqttVars, recordVars, ackVars, linkVars
  <2> QED BY <2>2, <2>3
<1> QED BY <1>2, <1>3, <1>4, <1>5

(* A request the agent has just put on the connection.                     *)
LEMMA NewRequest ==
  ASSUME unanswered \subseteq Requests, NEW kind \in AckedTypes \cup {"PUBREL"},
         NEW id \in PacketIds
  PROVE  unanswered \cup {Request(kind, id)} \subseteq Requests
BY DEF Requests, Request

(* addAwaitingOperation parks the command in hand or concludes it.         *)
LEMMA AwaitAckStep ==
  ASSUME IInv, stale = NoSlot, current # NoCmd, command[current].type \in AckedTypes,
         NEW id \in PacketIds, AwaitAck(id),
         UNCHANGED <<queue, client, stale, connected, persistent, session>>,
         records' \in [Slots -> RecordValues(PacketIds)], skipped' \subseteq PacketIds \cup {NoId},
         nextPacketId' \in PacketIds,
         unanswered' \subseteq Requests
  PROVE  IInv'
<1>1. CASE WithId(id) = {} /\ FreeSlots # {}
  <2> DEFINE s == FirstOf(FreeSlots)
  <2>1. s \in FreeSlots
    BY <1>1, FirstSlot DEF FreeSlots, WithId
  <2>2. /\ pending' = [pending EXCEPT ![s] = [id |-> id, cmd |-> current]]
        /\ task' = "loop" /\ current' = NoCmd
        /\ UNCHANGED <<pool, command, failed, cursor, fault>>
    BY <1>1 DEF AwaitAck, Goto
  <2> HIDE DEF s
  <2>3. /\ OwnershipOK'
        /\ AwaitedOK'
        /\ pending' \in [Slots -> [id : PacketIds \cup {NoId}, cmd : Cmds \cup {NoCmd}]]
        /\ \A t \in Slots : pending'[t].id = NoId <=> pending'[t].cmd = NoCmd
    BY <2>1, <2>2, CurrentParks
  <2>4. TypeOK'
    BY <2>2, <2>3 DEF IInv, TypeOK, TaskPcs
  <2>5. HandsOK'
    BY <2>2, <2>3 DEF IInv, HandsOK, CarryingPcs
  <2> QED BY <2>2, <2>3, <2>4, <2>5 DEF IInv, ReleaseNeverFails
<1>2. CASE ~ (WithId(id) = {} /\ FreeSlots # {})
  <2>1. /\ Release(current) /\ current' = NoCmd /\ task' = "ended" /\ failed' = TRUE
        /\ UNCHANGED <<cursor, pending>>
    BY <1>2 DEF AwaitAck, ConcludeCurrent, Conclude, EndLoop, Goto
  <2> QED BY <2>1, ConcludeStep DEF IInv, TypeOK, ackVars
<1> QED BY <1>1, <1>2

(* concludeCommand for the command in hand.                                *)
LEMMA ConcludeCurrentStep ==
  ASSUME IInv, NEW withError \in BOOLEAN, ConcludeCurrent(withError), current # NoCmd,
         UNCHANGED <<queue, client, ackVars, connected, persistent, session>>,
         records' \in [Slots -> RecordValues(PacketIds)], skipped' \subseteq PacketIds \cup {NoId},
         nextPacketId' \in PacketIds,
         unanswered' \subseteq Requests
  PROVE  IInv'
<1>1. /\ Release(current) /\ current' = NoCmd /\ task' \in {"loop", "ended"}
      /\ failed' \in BOOLEAN /\ UNCHANGED cursor
  BY DEF ConcludeCurrent, Conclude, EndLoop, Goto, IInv, TypeOK
<1> QED BY <1>1, ConcludeStep DEF IInv, TypeOK

(* The command functions that send a packet.                               *)
LEMMA ExecuteStepsKeepIInv ==
  ASSUME IInv, stale = NoSlot, NEW sendFails \in BOOLEAN,
         \/ ExecuteProcessLoop \/ ExecuteUnacked(sendFails)
         \/ ExecutePublish(sendFails) \/ ExecuteSubscription(sendFails)
         \/ ExecuteDisconnect(sendFails)
  PROVE  IInv'
<1>1. /\ records \in [Slots -> RecordValues(PacketIds)] /\ nextPacketId \in PacketIds
      /\ skipped \subseteq PacketIds \cup {NoId}
      /\ unanswered \subseteq Requests /\ PacketIdAfter(nextPacketId) \in PacketIds
  BY NextIdType DEF IInv, TypeOK
<1>2. CASE ExecuteProcessLoop
  BY <1>1, <1>2, ConcludeCurrentStep DEF ExecuteProcessLoop, Executing, mqttVars, recordVars, linkVars
<1>3. CASE ExecuteUnacked(sendFails)
  BY <1>1, <1>3, ConcludeCurrentStep DEF ExecuteUnacked, Executing, mqttVars, recordVars, linkVars
<1>4. CASE ExecutePublish(sendFails)
  <2> DEFINE type == command[current].type
             qos == QosOf(type)
             reserved == AddRecord(records, Record(nextPacketId, qos, "PublishSend"))
             sent == UpdateStateSent(reserved.records, nextPacketId, qos)
  <2>1. /\ current # NoCmd /\ type \in Publishes /\ nextPacketId' \in PacketIds
        /\ UNCHANGED <<queue, client, stale, skipped, connected, persistent, session>>
    BY <1>1, <1>4 DEF ExecutePublish, Executing
  <2>2. reserved.records \in [Slots -> RecordValues(PacketIds)]
    <3>1. Record(nextPacketId, qos, "PublishSend") \in RecordValues(PacketIds)
      BY <1>1 DEF Record, RecordValues, SendStates, QosOf
    <3> QED BY <1>1, <3>1, AddRecordType, SlotsArePlaces
  <2>3. sent.records \in [Slots -> RecordValues(PacketIds)]
    <3>1. qos \in {1, 2}
      BY DEF QosOf
    <3> HIDE DEF qos, reserved
    <3> QED BY <2>2, <3>1, UpdateSentType, SlotsArePlaces
  <2>4. CASE reserved.status # "Success" \/ sendFails
    <3>1. ConcludeCurrent(TRUE) /\ UNCHANGED <<pending, unanswered>> /\ records' = reserved.records
      BY <1>4, <2>4 DEF ExecutePublish
    <3> HIDE DEF reserved
    <3> QED BY <1>1, <2>1, <2>2, <3>1, ConcludeCurrentStep DEF ackVars, recordVars
  <2>5. CASE ~ (reserved.status # "Success" \/ sendFails)
    <3>1. /\ AwaitAck(nextPacketId)
          /\ records' = sent.records
          /\ unanswered' = unanswered \cup {Request(type, nextPacketId)}
      BY <1>4, <2>5 DEF ExecutePublish
    <3> HIDE DEF sent
    <3>2. unanswered' \subseteq Requests
      BY <1>1, <2>1, <3>1, NewRequest DEF AckedTypes
    <3> QED BY <1>1, <2>1, <2>3, <3>1, <3>2, AwaitAckStep DEF AckedTypes, recordVars
  <2> QED BY <2>4, <2>5
<1>5. CASE ExecuteSubscription(sendFails)
  <2>1. /\ current # NoCmd /\ command[current].type \in Subscriptions /\ nextPacketId' \in PacketIds
        /\ UNCHANGED <<queue, client, stale, recordVars, connected, persistent, session>>
    BY <1>1, <1>5 DEF ExecuteSubscription, Executing
  <2>2. CASE sendFails
    <3>1. ConcludeCurrent(TRUE) /\ UNCHANGED <<pending, unanswered>>
      BY <1>5, <2>2 DEF ExecuteSubscription
    <3> QED BY <1>1, <2>1, <3>1, ConcludeCurrentStep DEF ackVars, recordVars
  <2>3. CASE ~sendFails
    <3>1. /\ AwaitAck(nextPacketId)
          /\ unanswered' = unanswered \cup {Request(command[current].type, nextPacketId)}
      BY <1>5, <2>3 DEF ExecuteSubscription
    <3>2. unanswered' \subseteq Requests
      BY <1>1, <2>1, <3>1, NewRequest DEF AckedTypes
    <3> QED BY <1>1, <2>1, <3>1, <3>2, AwaitAckStep DEF AckedTypes, recordVars
  <2> QED BY <2>2, <2>3
<1>6. CASE ExecuteDisconnect(sendFails)
  <2>1. /\ current # NoCmd /\ Release(current) /\ current' = NoCmd /\ task' = "ended"
        /\ failed' = sendFails /\ connected' = (connected /\ sendFails)
        /\ UNCHANGED <<cursor, queue, client, mqttVars, persistent, session, unanswered>>
    BY <1>6 DEF ExecuteDisconnect, Executing, Conclude, EndLoop, Goto
  <2>2. failed' \in BOOLEAN /\ connected' \in BOOLEAN
    BY <2>1
  <2> QED BY <1>1, <2>1, <2>2, ConcludeStep DEF mqttVars, recordVars
<1> QED BY <1>2, <1>3, <1>4, <1>5, <1>6

(* Acknowledgments.                                                        *)
LEMMA AckStepsKeepIInv ==
  ASSUME IInv, stale = NoSlot, NEW m \in unanswered, NEW sendFails \in BOOLEAN,
         ReceiveSubAck(m) \/ ReceivePublishAck(m) \/ ReceivePubRec(m, sendFails)
  PROVE  IInv'
<1>1. /\ records \in [Slots -> RecordValues(PacketIds)] /\ nextPacketId \in PacketIds
      /\ skipped \subseteq PacketIds \cup {NoId}
      /\ unanswered \subseteq Requests /\ m.id \in PacketIds /\ task = "loop" /\ current = NoCmd
  BY DEF IInv, TypeOK, HandsOK, CarryingPcs, Requests, ReceiveSubAck, ReceivePublishAck, ReceivePubRec
<1>2. \A ack \in Acks, op \in Operations :
        UpdateStateAck(records, m.id, ack, op).records \in [Slots -> RecordValues(PacketIds)]
  BY <1>1, UpdateAckType, SlotsArePlaces
<1>3. ASSUME Acknowledge(m.id), records' \in [Slots -> RecordValues(PacketIds)], unanswered' \subseteq Requests,
             UNCHANGED <<queue, client, taskVars, pending, skipped, nextPacketId, connected,
                         persistent, session>>
      PROVE  IInv'
  <2>1. CASE WithId(m.id) # {}
    <3> DEFINE s == FirstOf(WithId(m.id))
    <3>1. s \in WithId(m.id)
      BY <2>1, FirstSlot DEF WithId
    <3>2. s \in Slots /\ pending[s].id # NoId /\ ConcludeEntry(s)
      BY <1>1, <1>3, <2>1, <3>1 DEF Acknowledge, WithId, PacketIds, NoId
    <3> HIDE DEF s
    <3> QED BY <1>1, <1>3, <3>2, EntryStep DEF IInv, TypeOK, taskVars
  <2>2. CASE WithId(m.id) = {}
    <3>1. UNCHANGED <<pool, command, stale, fault>>
      BY <1>3, <2>2 DEF Acknowledge
    <3> QED BY <1>1, <1>3, <3>1, StillStep DEF IInv, TypeOK, HandsOK, ReleaseNeverFails, taskVars, ackVars
  <2> QED BY <2>1, <2>2
<1>4. ASSUME EndLoop(TRUE), unanswered' \subseteq Requests, records' \in [Slots -> RecordValues(PacketIds)],
             UNCHANGED <<pool, queue, command, client, ackVars, skipped, nextPacketId,
                         connected, persistent, session, fault>>
      PROVE  IInv'
  <2>1. task' = "ended" /\ failed' = TRUE /\ current' = NoCmd /\ UNCHANGED cursor
    BY <1>4 DEF EndLoop, Goto
  <2> QED BY <1>1, <1>4, <2>1, StillStep DEF IInv, TypeOK, TaskPcs, CarryingPcs, ReleaseNeverFails
<1>5. CASE ReceiveSubAck(m)
  BY <1>1, <1>3, <1>5 DEF ReceiveSubAck, recordVars
<1>6. CASE ReceivePublishAck(m)
  <2>1. /\ unanswered' \subseteq Requests
        /\ UNCHANGED <<queue, client, pending, skipped, nextPacketId, connected, persistent, session>>
    BY <1>1, <1>6 DEF ReceivePublishAck
  <2>2. records' \in [Slots -> RecordValues(PacketIds)]
    <3>1. \E ack \in {"PUBCOMP", "PUBACK"} :
             records' = UpdateStateAck(records, m.id, ack, "RECEIVE").records
      BY <1>6 DEF ReceivePublishAck
    <3> QED BY <1>2, <3>1 DEF Acks, Operations
  <2>3. \/ Acknowledge(m.id) /\ UNCHANGED taskVars
        \/ EndLoop(TRUE) /\ UNCHANGED <<pool, command, stale, fault>>
    BY <1>6 DEF ReceivePublishAck
  <2> QED BY <1>3, <1>4, <2>1, <2>2, <2>3 DEF ackVars
<1>7. CASE ReceivePubRec(m, sendFails)
  <2>1. UNCHANGED <<pool, queue, command, client, ackVars, skipped, nextPacketId, connected,
                    persistent, session, fault>>
    BY <1>7 DEF ReceivePubRec
  <2> DEFINE received == UpdateStateAck(records, m.id, "PUBREC", "RECEIVE").records
             sent == UpdateStateAck(received, m.id, "PUBREL", "SEND").records
  <2>2. received \in [Slots -> RecordValues(PacketIds)]
    BY <1>2 DEF Acks, Operations
  <2>3. sent \in [Slots -> RecordValues(PacketIds)]
    <3> HIDE DEF received
    <3> QED BY <1>1, <2>2, UpdateAckType, SlotsArePlaces
  <2>4. \/ records' = received /\ unanswered' = unanswered \ {m} /\ EndLoop(TRUE)
        \/ /\ records' = sent /\ UNCHANGED taskVars
           /\ unanswered' = (unanswered \ {m}) \cup {Request("PUBREL", m.id)}
    BY <1>7 DEF ReceivePubRec
  <2> HIDE DEF received, sent
  <2>5. records' \in [Slots -> RecordValues(PacketIds)] /\ unanswered' \subseteq Requests
    <3>1. records' \in {received, sent}
      BY <2>4
    <3>2. unanswered' \in {unanswered \ {m}, (unanswered \ {m}) \cup {Request("PUBREL", m.id)}}
      BY <2>4
    <3>3. Request("PUBREL", m.id) \in Requests
      BY <1>1 DEF Requests, Request
    <3> QED BY <1>1, <2>2, <2>3, <3>1, <3>2, <3>3
  <2>6. CASE EndLoop(TRUE)
    BY <1>4, <2>1, <2>5, <2>6
  <2>7. CASE UNCHANGED taskVars
    BY <1>1, <2>1, <2>5, <2>7, StillStep DEF IInv, TypeOK, HandsOK, ReleaseNeverFails, taskVars
  <2> QED BY <2>4, <2>6, <2>7
<1> QED BY <1>5, <1>6, <1>7

(* The steps that only move the agent task on.                             *)
LEMMA QuietStepsKeepIInv ==
  ASSUME IInv, stale = NoSlot,
         \/ ExecuteNone \/ ExecuteTerminate \/ CancelQueueDone \/ LoopIdle \/ LoopFails
         \/ TaskReturns \/ ReconnectFails \/ ClearAcksDone \/ ResendDone
  PROVE  IInv'
<1>1. /\ task' \in TaskPcs /\ cursor' \in Nat \ {0} /\ fault' \in Faults \ {"releaseFailed"}
      /\ failed' \in {failed, TRUE} /\ session' \in {session, FALSE}
      /\ connected' \in {connected, FALSE}
  <2>1. /\ task \in TaskPcs /\ cursor \in Nat \ {0} /\ fault \in Faults \ {"releaseFailed"}
    BY DEF IInv, TypeOK, ReleaseNeverFails
  <2>2. CASE ExecuteNone \/ ExecuteTerminate \/ LoopIdle
    BY <2>1, <2>2 DEF TaskPcs, ExecuteNone, ExecuteTerminate, LoopIdle, Goto, linkVars
  <2>3. CASE CancelQueueDone \/ ResendDone
    <3>1. /\ task' \in {"cancelAcks", "receive"} /\ cursor' = 1
          /\ UNCHANGED <<failed, session, connected, fault>>
      BY <2>3 DEF CancelQueueDone, ResendDone, Goto, linkVars
    <3> QED BY <2>1, <3>1 DEF TaskPcs
  <2>4. CASE ClearAcksDone
    <3>1. /\ task' \in {"resend", "resubscribe", "receive"} /\ cursor' = 1
          /\ UNCHANGED <<failed, connected, fault>>
      BY <2>4 DEF ClearAcksDone, Goto
    <3>2. session' \in {session, FALSE}
      BY <2>4, Zenon DEF ClearAcksDone
    <3>3. failed' \in {failed, TRUE} /\ connected' \in {connected, FALSE}
      BY <3>1
    <3>4. task' \in TaskPcs
      BY <3>1 DEF TaskPcs
    <3>5. cursor' \in Nat \ {0} /\ fault' \in Faults \ {"releaseFailed"}
      BY <2>1, <3>1
    <3> QED BY <3>2, <3>3, <3>4, <3>5
  <2>5. CASE LoopFails
    BY <2>1, <2>5 DEF TaskPcs, LoopFails, EndLoop, Goto, linkVars
  <2>6. CASE TaskReturns \/ ReconnectFails
    BY <2>1, <2>6 DEF Faults, TaskReturns, ReconnectFails, taskVars, linkVars
  <2> QED BY <2>2, <2>3, <2>4, <2>5, <2>6
<1>2. UNCHANGED <<pool, queue, command, client, mqttVars, persistent, unanswered>>
  BY DEF ExecuteNone, ExecuteTerminate, CancelQueueDone, LoopIdle, LoopFails, TaskReturns,
         ReconnectFails, ClearAcksDone, ResendDone, EndLoop, linkVars
<1>3. /\ current' = current
      /\ task' \in CarryingPcs => current # NoCmd
      /\ current # NoCmd => task' \in CarryingPcs \cup {"execute"}
  BY DEF IInv, HandsOK, CarryingPcs, ExecuteNone, ExecuteTerminate, CancelQueueDone, LoopIdle,
         LoopFails, TaskReturns, ReconnectFails, ClearAcksDone, ResendDone, Goto, EndLoop,
         taskVars, Executing
<1>4. failed' \in BOOLEAN /\ session' \in BOOLEAN /\ connected' \in BOOLEAN
  BY <1>1 DEF IInv, TypeOK
<1> QED BY <1>1, <1>2, <1>3, <1>4, StillStep DEF IInv, TypeOK, mqttVars, recordVars

(* The scans of pPendingAcks.                                              *)
LEMMA ScanStepsKeepIInv ==
  ASSUME IInv, stale = NoSlot, ScanEntry \/ CancelAcksDone
  PROVE  IInv'
<1>1. CASE ScanEntry
  <2>1. /\ cursor \in Slots /\ cursor' = cursor + 1 /\ cursor' \in Nat \ {0}
        /\ UNCHANGED <<queue, client, task, current, failed, pending, recordVars, nextPacketId, linkVars>>
    BY <1>1, ConstantsAssumption DEF ScanEntry, Scanning, IInv, TypeOK, Slots
  <2>2. CASE pending[cursor].id # NoId /\ ~Spared(cursor)
    <3>1. ConcludeEntry(cursor)
      BY <1>1, <2>2 DEF ScanEntry
    <3> QED BY <2>1, <2>2, <3>1, EntryStep DEF IInv, TypeOK, linkVars, recordVars
  <2>3. CASE ~ (pending[cursor].id # NoId /\ ~Spared(cursor))
    <3>1. UNCHANGED <<pool, command, stale, fault>>
      BY <1>1, <2>3 DEF ScanEntry
    <3> QED BY <2>1, <3>1, StillStep DEF IInv, TypeOK, HandsOK, ReleaseNeverFails, linkVars, ackVars, recordVars
  <2> QED BY <2>2, <2>3
<1>2. CASE CancelAcksDone
  <2>1. /\ current # NoCmd /\ Release(current) /\ current' = NoCmd /\ task' = "ended"
        /\ failed' = FALSE /\ UNCHANGED <<cursor, queue, client, mqttVars, linkVars>>
    BY <1>2 DEF CancelAcksDone, Conclude, EndLoop, Goto, IInv, HandsOK, CarryingPcs
  <2> QED BY <2>1, ConcludeStep DEF IInv, TypeOK, mqttVars, recordVars, linkVars
<1> QED BY <1>1, <1>2

(* MQTT_Connect on a new connection.                                       *)
LEMMA ReconnectKeepsIInv ==
  ASSUME IInv, stale = NoSlot, NEW present \in BOOLEAN, Reconnect(present)
  PROVE  IInv'
<1>1. /\ task = "ended" /\ current = NoCmd /\ task' = "clearAcks" /\ cursor' = 1 /\ failed' = FALSE
      /\ session' = present /\ persistent' = TRUE /\ connected' = TRUE
      /\ UNCHANGED <<pool, queue, command, client, current, ackVars, nextPacketId, fault>>
  BY DEF Reconnect, Goto, IInv, HandsOK, CarryingPcs
<1>2. /\ records' \in [Slots -> RecordValues(PacketIds)] /\ unanswered' \subseteq Requests
      /\ skipped' \subseteq PacketIds \cup {NoId}
  <2>1. \A p \in Slots : records[p] \in RecordValues(PacketIds)
    BY DEF IInv, TypeOK
  <2> DEFINE kept(p) == IF ~present THEN NoRecord
                        ELSE IF records[p].state \in RelStates
                          THEN [records[p] EXCEPT !.state = "PubCompPending"]
                        ELSE records[p]
  <2>2. \A p \in Slots : kept(p) \in RecordValues(PacketIds)
    BY <2>1 DEF RecordValues, RelStates, NoRecord
  <2>3. records' = [p \in Slots |-> kept(p)]
    BY DEF Reconnect, SessionResumed
  <2> HIDE DEF kept
  <2>4. \A p \in Slots : records[p].state \in RelStates => records[p].id \in PacketIds
    BY <2>1 DEF RecordValues, RelStates, NoRecord
  <2>5. unanswered' \subseteq Requests
    BY <2>4 DEF Reconnect, SessionResumed, Request, Requests
  <2>6. skipped' = {}
    BY DEF Reconnect, SessionResumed
  <2> QED BY <2>2, <2>3, <2>5, <2>6
<1>3. /\ failed' \in BOOLEAN /\ session' \in BOOLEAN /\ persistent' \in BOOLEAN
      /\ connected' \in BOOLEAN
  BY <1>1
<1>4. /\ nextPacketId' \in PacketIds /\ fault' \in Faults \ {"releaseFailed"}
      /\ task' \in TaskPcs /\ task' \notin CarryingPcs /\ cursor' \in Nat \ {0}
  BY <1>1 DEF IInv, TypeOK, ReleaseNeverFails, TaskPcs, CarryingPcs
<1> QED BY <1>1, <1>2, <1>3, <1>4, StillStep

(* resendPublishes.                                                        *)
LEMMA ResendKeepsIInv ==
  ASSUME IInv, stale = NoSlot, NEW sendFails \in BOOLEAN, ResendPublish(sendFails)
  PROVE  IInv'
<1> DEFINE id == records[cursor].id
           toResend == {p \in Slots : /\ records[p].state \in SendStates
                                      /\ WithId(records[p].id) # {}}
           slot == FirstOf(WithId(id))
           type == command[pending[slot].cmd].type
           reserved == AddRecord(records, Record(id, QosOf(type), "PublishSend")).records
           sent == UpdateStateSent(reserved, id, QosOf(type)).records
           overtaken == {p \in toResend : /\ p > cursor
                                          /\ PositionsOf(reserved, records[p].id) \subseteq 1 .. cursor}
<1>1. /\ task = "resend" /\ current = NoCmd /\ cursor \in Slots
      /\ cursor' = cursor + 1 /\ cursor' \in Nat \ {0}
      /\ records \in [Slots -> RecordValues(PacketIds)] /\ unanswered \subseteq Requests
      /\ UNCHANGED <<queue, client, current, failed, pending, nextPacketId,
                     connected, persistent, session>>
  <2>1. /\ task = "resend" /\ cursor <= MaxAcks /\ cursor' = cursor + 1
        /\ UNCHANGED <<queue, client, current, failed, pending, nextPacketId,
                       connected, persistent, session>>
    BY DEF ResendPublish
  <2>2. /\ cursor \in Nat \ {0} /\ unanswered \subseteq Requests
        /\ records \in [Slots -> RecordValues(PacketIds)]
    BY DEF IInv, TypeOK
  <2>3. current = NoCmd
    BY <2>1 DEF IInv, HandsOK, CarryingPcs
  <2>4. cursor \in Slots /\ cursor' \in Nat \ {0}
    BY <2>1, <2>2, ConstantsAssumption DEF Slots
  <2> QED BY <2>1, <2>2, <2>3, <2>4
<1>2. CASE UNCHANGED <<pool, command, task, stale, recordVars, unanswered, fault>>
  <2>1. UNCHANGED <<pool, command, task, stale, records, skipped, unanswered, fault>>
    BY <1>2 DEF recordVars
  <2> QED BY <1>1, <2>1, StillStep DEF IInv, TypeOK, CarryingPcs, ReleaseNeverFails, ackVars
<1>3. ASSUME cursor \in toResend
      PROVE  /\ slot \in Slots /\ pending[slot].id # NoId /\ id \in PacketIds
             /\ type \in AckedTypes
             /\ reserved \in [Slots -> RecordValues(PacketIds)]
             /\ sent \in [Slots -> RecordValues(PacketIds)]
  <2>1. slot \in WithId(id)
    BY <1>3, FirstSlot DEF WithId
  <2>2. id \in PacketIds /\ id # NoId
    <3>1. records[cursor] \in RecordValues(PacketIds) /\ records[cursor].state \in SendStates
      BY <1>1, <1>3
    <3> QED BY <3>1 DEF RecordValues, NoRecord, SendStates, PacketIds, NoId
  <2>3. slot \in Slots /\ pending[slot].id # NoId
    BY <2>1, <2>2 DEF WithId
  <2>4. type \in AckedTypes
    <3>1. pending[slot].cmd \in Awaited
      BY <2>3 DEF IInv, TypeOK, HandsOK, Awaited, Slots, NoSlot
    <3> QED BY <3>1 DEF IInv, AwaitedOK
  <2> HIDE DEF slot, id, type
  <2>5. reserved \in [Slots -> RecordValues(PacketIds)]
    <3>1. Record(id, QosOf(type), "PublishSend") \in RecordValues(PacketIds)
      BY <2>2 DEF Record, RecordValues, SendStates, QosOf
    <3> QED BY <1>1, <3>1, AddRecordType, SlotsArePlaces
  <2>6. sent \in [Slots -> RecordValues(PacketIds)]
    <3>1. QosOf(type) \in {1, 2}
      BY DEF QosOf
    <3> HIDE DEF reserved
    <3> QED BY <2>5, <3>1, UpdateSentType, SlotsArePlaces
  <2> QED BY <2>2, <2>3, <2>4, <2>5, <2>6
<1>4. ASSUME cursor \in toResend, sendFails, records' = reserved, ConcludeEntry(slot),
             task' = "failing", UNCHANGED <<skipped, unanswered>>
      PROVE  IInv'
  <2> HIDE DEF slot, reserved
  <2> QED BY <1>1, <1>3, <1>4, EntryStep DEF IInv, TypeOK, TaskPcs, CarryingPcs
<1>5. ASSUME cursor \in toResend, records' = sent,
             skipped' \subseteq skipped \cup {records[p].id : p \in Slots},
             unanswered' = unanswered \cup {Request(type, id)},
             UNCHANGED <<pool, command, task, stale, fault>>
      PROVE  IInv'
  <2> HIDE DEF type, id, sent
  <2>1. unanswered' \subseteq Requests
    BY <1>1, <1>3, <1>5, NewRequest
  <2>2. skipped' \subseteq PacketIds \cup {NoId}
    <3>1. \A p \in Slots : records[p].id \in PacketIds \cup {NoId}
      BY <1>1 DEF RecordValues, NoRecord
    <3> QED BY <1>5, <3>1 DEF IInv, TypeOK
  <2> QED BY <1>1, <1>3, <1>5, <2>1, <2>2, StillStep
        DEF IInv, TypeOK, CarryingPcs, ReleaseNeverFails, ackVars
<1>6. \/ UNCHANGED <<pool, command, task, stale, recordVars, unanswered, fault>>
      \/ /\ cursor \in toResend /\ sendFails /\ records' = reserved /\ ConcludeEntry(slot)
         /\ task' = "failing" /\ UNCHANGED <<skipped, unanswered>>
      \/ /\ cursor \in toResend /\ records' = sent
         /\ skipped' = skipped \cup {records[p].id : p \in overtaken}
         /\ unanswered' = unanswered \cup {Request(type, id)}
         /\ UNCHANGED <<pool, command, task, stale, fault>>
  BY Zenon DEF ResendPublish, Goto
<1>7. overtaken \subseteq Slots
  OBVIOUS
<1> HIDE DEF overtaken, toResend, sent, reserved, slot, type, id
<1>8. {records[p].id : p \in overtaken} \subseteq {records[p].id : p \in Slots}
  BY <1>7
<1> QED BY <1>2, <1>4, <1>5, <1>6, <1>8

-----------------------------------------------------------------------------
(* Theorems *)

(* Every step of every task.                                               *)
LEMMA NextKeepsIInv ==
  ASSUME IInv, [Next]_vars
  PROVE  IInv'
<1>1. CASE Next
  <2>1. CASE \E k \in Clients : ClientStep(k)
    BY <2>1, ClientStepKeepsIInv
  <2>2. CASE ClearEntry
    BY <2>2, ClearEntryKeepsIInv
  <2>3. CASE stale = NoSlot /\ AgentAction
    BY <2>3, QueueStepsKeepIInv, ExecuteStepsKeepIInv, AckStepsKeepIInv, QuietStepsKeepIInv,
       ScanStepsKeepIInv, ReconnectKeepsIInv, ResendKeepsIInv
       DEF AgentAction
  <2> QED BY <1>1, <2>1, <2>2, <2>3 DEF Next, AgentStep
<1>2. CASE UNCHANGED vars
  <2>1. OwnershipOK'
    BY <1>2, NothingMoves DEF vars, taskVars, mqttVars, recordVars
  <2>2. AwaitedOK'
    BY <1>2, AwaitedKept, SlotsKept DEF vars, mqttVars, recordVars, ackVars
  <2>3. TypeOK' /\ HandsOK'
    BY <1>2 DEF IInv, TypeOK, HandsOK, vars, taskVars, mqttVars, recordVars, ackVars, linkVars
  <2> QED BY <1>2, <2>1, <2>2, <2>3 DEF IInv, ReleaseNeverFails, vars
<1> QED BY <1>1, <1>2

(* The inductive invariant holds in every reachable state.                 *)
THEOREM Invariance == Spec => []IInv
<1>1. Init => IInv
  BY InitOwnership
<1>2. IInv /\ [Next]_vars => IInv'
  BY NextKeepsIInv
<1> QED BY <1>1, <1>2, PTL DEF Spec

(* Every variable keeps its type, for every number of tasks, structures,   *)
(* queue places, slots and packet identifiers.                             *)
THEOREM TypeCorrect == Spec => []TypeOK
<1>1. IInv => TypeOK
  BY DEF IInv
<1> QED BY <1>1, Invariance, PTL

(* A command structure is always in one place, and none is ever lost:      *)
(* whatever the interleaving of callers, command loop, cancel, resume and  *)
(* reconnection, createAndAddCommand and concludeCommand between them      *)
(* release each structure exactly once.                                    *)
THEOREM OwnershipHolds == Spec => []OwnershipOK
<1>1. IInv => OwnershipOK
  BY DEF IInv
<1> QED BY <1>1, Invariance, PTL

(* The configASSERT( structReturned ) of Agent_ReleaseCommand cannot fire. *)
THEOREM ReleaseAssertHolds == Spec => []ReleaseNeverFails
<1>1. IInv => ReleaseNeverFails
  BY DEF IInv
<1> QED BY <1>1, Invariance, PTL

(* A caller that has a structure, and prvHandleResubscribe that has taken  *)
(* one, find a place on the command queue if there is one for each         *)
(* structure: the other structures are not enough to fill it.              *)
LEMMA QueuePlace ==
  ASSUME IInv, PoolSize <= QueueLength, HeldByClients # {} \/ task = "repost"
  PROVE  Len(queue) < QueueLength
<1>1. queue \in Seq(Cmds) /\ IsInjective(queue)
  BY DEF IInv, TypeOK, OwnershipOK, InOnePlace
<1>2. \E c \in Cmds : c \notin Range(queue)
  <2>1. CASE HeldByClients # {}
    BY <2>1 DEF IInv, OwnershipOK, InOnePlace, HeldByClients
  <2>2. CASE task = "repost"
    <3>1. current \in Cmds /\ current \in InHand
      BY <2>2 DEF IInv, TypeOK, HandsOK, CarryingPcs, InHand
    <3> QED BY <3>1 DEF IInv, OwnershipOK, InOnePlace
  <2> QED BY <2>1, <2>2
<1>3. Len(queue) < PoolSize
  BY <1>1, <1>2, RoomForAnother
<1>4. Len(queue) \in Nat
  BY <1>1, LenProperties
<1> QED BY <1>3, <1>4, ConstantsAssumption

(* createCommand's check of pPendingAcks and addAwaitingOperation's use of *)
(* it, in two tasks and at two times, both find a free slot, if there are  *)
(* fewer structures than slots: the awaited structures and the one in hand *)
(* are different ones.                                                     *)
THEOREM AckSlotHolds == Spec => []AckSlotAvailable
<1>1. IInv => AckSlotAvailable
  <2> SUFFICES ASSUME IInv, PoolSize < MaxAcks, HeldByClients # {} \/ InHand # {}, FreeSlots = {}
               PROVE  FALSE
    BY DEF AckSlotAvailable
  <2> DEFINE S == Slots \ {stale}
             cmdOf == [s \in S |-> pending[s].cmd]
  <2>1. PICK c \in Cmds : c \notin Awaited
    <3>1. HeldByClients \subseteq Cmds /\ InHand \subseteq Cmds
      BY DEF HeldByClients, InHand, IInv, TypeOK
    <3>2. HeldByClients \cap Awaited = {} /\ InHand \cap Awaited = {}
      BY DEF IInv, OwnershipOK, InOnePlace
    <3> QED BY <3>1, <3>2
  <2>2. \A s \in S : cmdOf[s] \in Cmds \ {c}
    <3>1. \A s \in S : pending[s].cmd \in Cmds
      BY DEF IInv, TypeOK, HandsOK, FreeSlots, WithId
    <3> QED BY <2>1, <3>1 DEF Awaited
  <2>3. \A s, t \in S : cmdOf[s] = cmdOf[t] => s = t
    BY <2>2 DEF IInv, OwnershipOK, InOnePlace, SlotsApart, Cmds, NoCmd
  <2>4. cmdOf \in Injection(S, Cmds \ {c})
    BY <2>2, <2>3 DEF Injection, IsInjective
  <2>5. /\ IsFiniteSet(Cmds) /\ Cardinality(Cmds) = PoolSize
        /\ IsFiniteSet(Slots) /\ Cardinality(Slots) = MaxAcks
    BY FS_Interval, ConstantsAssumption DEF Cmds, Slots
  <2>6. IsFiniteSet(Cmds \ {c}) /\ Cardinality(Cmds \ {c}) = PoolSize - 1
    BY <2>1, <2>5, FS_RemoveElement
  <2>7. Cardinality(S) \in {MaxAcks, MaxAcks - 1}
    BY <2>5, FS_RemoveElement
  <2> HIDE DEF S, cmdOf
  <2>8. Cardinality(S) <= Cardinality(Cmds \ {c})
    BY <2>4, <2>6, FS_Injection
  <2> QED BY <2>6, <2>7, <2>8, ConstantsAssumption
<1> QED BY <1>1, Invariance, PTL

-----------------------------------------------------------------------------
(* Refinement: every step moves at most one structure, along the life of a *)
(* command.                                                                *)

phases == [c \in Cmds |-> PhaseOf(c)]

(* Where a structure is decides its phase, for it is in one place.         *)
PlacesDecide ==
  \A c \in Cmds :
    /\ c \in Range(pool) => PhaseOf(c) = "free"
    /\ c \in Range(queue) => PhaseOf(c) = "queued"
    /\ c \in HeldByClients => PhaseOf(c) = "held"
    /\ c = current /\ task = "repost" => PhaseOf(c) = "held"
    /\ c = current /\ task # "repost" => PhaseOf(c) = "running"
    /\ c \in Awaited => PhaseOf(c) = "awaiting"

LEMMA PlaceDecides == IInv => PlacesDecide
<1> SUFFICES ASSUME IInv, NEW c \in Cmds
             PROVE  /\ c \in Range(pool) => PhaseOf(c) = "free"
                    /\ c \in Range(queue) => PhaseOf(c) = "queued"
                    /\ c \in HeldByClients => PhaseOf(c) = "held"
                    /\ c = current /\ task = "repost" => PhaseOf(c) = "held"
                    /\ c = current /\ task # "repost" => PhaseOf(c) = "running"
                    /\ c \in Awaited => PhaseOf(c) = "awaiting"
  BY DEF PlacesDecide
<1>1. /\ c \in Range(pool) => c \notin Range(queue) \cup HeldByClients \cup InHand \cup Awaited
      /\ c \in Range(queue) => c \notin HeldByClients \cup InHand \cup Awaited
      /\ c \in HeldByClients => c \notin InHand \cup Awaited
      /\ c \in InHand => c \notin Awaited
  BY DEF IInv, OwnershipOK, InOnePlace
<1>2. c \in InHand <=> c = current
  BY DEF InHand, Cmds, NoCmd
<1> HIDE DEF IInv
<1> QED BY <1>1, <1>2 DEF PhaseOf

(* No structure but c is moved by the step.                                *)
MovesOnly(c) ==
  \A d \in Cmds \ {c} :
    /\ d \in Range(pool)' <=> d \in Range(pool)
    /\ d \in Range(queue)' <=> d \in Range(queue)
    /\ d \in HeldByClients' <=> d \in HeldByClients
    /\ d = current' <=> d = current
    /\ d = current => (task' = "repost" <=> task = "repost")

LEMMA OthersStay ==
  ASSUME NEW c, MovesOnly(c), NEW d \in Cmds \ {c}
  PROVE  PhaseOf(d)' = PhaseOf(d)
BY DEF MovesOnly, PhaseOf

(* One structure moves from one phase to another.                          *)
LEMMA OneMoves ==
  ASSUME NEW c \in Cmds, MovesOnly(c),
         <<PhaseOf(c), PhaseOf(c)'>> \in
           {<<"free", "held">>, <<"held", "free">>, <<"held", "queued">>, <<"queued", "running">>,
            <<"queued", "free">>, <<"running", "awaiting">>, <<"running", "free">>,
            <<"awaiting", "free">>}
  PROVE  Lifecycle!Next
<1>1. \A d \in Cmds \ {c} : PhaseOf(d)' = PhaseOf(d)
  BY OthersStay
<1>2. phases' = [phases EXCEPT ![c] = PhaseOf(c)'] /\ phases[c] = PhaseOf(c)
  BY <1>1 DEF phases
<1>3. \A from, to : PhaseOf(c) = from /\ PhaseOf(c)' = to => Lifecycle!Move(c, from, to)
  BY <1>2 DEF Lifecycle!Move, phases
<1> QED BY <1>3 DEF Lifecycle!Next, Lifecycle!Get, Lifecycle!Discard, Lifecycle!Post,
          Lifecycle!Start, Lifecycle!Cancel, Lifecycle!Park, Lifecycle!Finish, Lifecycle!Complete

(* No structure moves.                                                     *)
LEMMA NoneMoves ==
  ASSUME UNCHANGED <<pool, queue, current>>, HeldByClients' = HeldByClients,
         current \in Cmds => (task' = "repost" <=> task = "repost")
  PROVE  phases' = phases
BY DEF phases, PhaseOf

LEMMA AgentKeepsPhases ==
  ASSUME UNCHANGED <<pool, queue, client, current>>,
         current \in Cmds => (task' = "repost" <=> task = "repost")
  PROVE  phases' = phases
BY CallersKept, NoneMoves

LEMMA PlaceDecidesNext == IInv' => PlacesDecide'
BY PlaceDecides, PTL

(* The command in hand goes back into the pool, or on the list.            *)
LEMMA CurrentReturnsMoves ==
  ASSUME IInv, IInv', UNCHANGED <<queue, client>>,
         current # NoCmd, current' = NoCmd, Release(current)
  PROVE  Lifecycle!Next
<1>1. current \in Cmds /\ current \notin Range(pool) /\ NoCmd \notin Cmds
  BY DEF IInv, TypeOK, OwnershipOK, InOnePlace, InHand, Cmds, NoCmd
<1>2. Range(pool') = Range(pool) \cup {current}
  BY <1>1, ReleaseReturns
<1>3. MovesOnly(current)
  BY <1>1, <1>2, CallersKept DEF MovesOnly
<1>4. PhaseOf(current) \in {"held", "running"}
  BY <1>1, PlaceDecides DEF PlacesDecide
<1>5. \A c \in Cmds : c \in Range(pool') => PhaseOf(c)' = "free"
  BY PlaceDecidesNext DEF PlacesDecide
<1> QED BY <1>1, <1>2, <1>3, <1>4, <1>5, OneMoves

LEMMA CurrentParksMoves ==
  ASSUME IInv, IInv', UNCHANGED <<pool, queue, client>>, task # "repost",
         current # NoCmd, current' = NoCmd, current \in Awaited'
  PROVE  Lifecycle!Next
<1>1. current \in Cmds /\ NoCmd \notin Cmds
  BY DEF IInv, TypeOK, Cmds, NoCmd
<1>2. MovesOnly(current)
  BY <1>1, CallersKept DEF MovesOnly
<1>3. PhaseOf(current) = "running"
  BY <1>1, PlaceDecides DEF PlacesDecide
<1>4. \A c \in Cmds : c \in Awaited' => PhaseOf(c)' = "awaiting"
  BY PlaceDecidesNext DEF PlacesDecide
<1> QED BY <1>1, <1>2, <1>3, <1>4, OneMoves

(* An awaited command goes back into the pool.                             *)
LEMMA EntryReturnsMoves ==
  ASSUME IInv, IInv', UNCHANGED <<queue, client, current>>, stale = NoSlot,
         task' = "repost" <=> task = "repost",
         NEW s \in Slots, pending[s].id # NoId, ConcludeEntry(s)
  PROVE  Lifecycle!Next
<1> DEFINE c == pending[s].cmd
<1>1. c \in Cmds /\ c \in Awaited /\ c \notin Range(pool) /\ Release(c)
  BY DEF IInv, HandsOK, TypeOK, Awaited, Slots, NoSlot, ConcludeEntry, Conclude,
         OwnershipOK, InOnePlace
<1>2. Range(pool') = Range(pool) \cup {c}
  BY <1>1, ReleaseReturns
<1>3. MovesOnly(c)
  BY <1>1, <1>2, CallersKept DEF MovesOnly
<1>4. PhaseOf(c) = "awaiting"
  BY <1>1, PlaceDecides DEF PlacesDecide
<1>5. \A d \in Cmds : d \in Range(pool') => PhaseOf(d)' = "free"
  BY PlaceDecidesNext DEF PlacesDecide
<1> QED BY <1>1, <1>2, <1>3, <1>4, <1>5, OneMoves

(* The steps of the callers.                                               *)
LEMMA ClientStepRefines ==
  ASSUME IInv, IInv', NEW k \in Clients, ClientStep(k)
  PROVE  Lifecycle!Next \/ phases' = phases
<1>1. /\ client \in [Clients -> ClientValues] /\ client[k] \in ClientValues
      /\ pool \in Seq(Cmds) /\ IsInjective(pool) /\ queue \in Seq(Cmds) /\ IsInjective(queue)
      /\ HeldApart
  BY DEF IInv, TypeOK, ClientValues, OwnershipOK, InOnePlace
<1>2. /\ PlacesDecide
      /\ \A c \in Cmds : /\ c \in Range(pool') => PhaseOf(c)' = "free"
                         /\ c \in Range(queue') => PhaseOf(c)' = "queued"
                         /\ c \in HeldByClients' => PhaseOf(c)' = "held"
  BY PlaceDecides, PlaceDecidesNext DEF PlacesDecide
<1>3. ASSUME NEW type \in Ops, GetCommand(k, type)
      PROVE  Lifecycle!Next
  <2> DEFINE c == Head(pool)
  <2>1. /\ client[k].pc = "idle" /\ pool # << >> /\ pool' = Tail(pool)
        /\ client' = [client EXCEPT ![k] = [pc |-> "held", cmd |-> c, type |-> type]]
        /\ UNCHANGED <<queue, current, task>>
    BY <1>3 DEF GetCommand, taskVars
  <2>2. c \in Cmds /\ c \in Range(pool) /\ Range(pool') = Range(pool) \ {c}
    BY <1>1, <2>1, PopKeeps
  <2>3. HeldByClients' = HeldByClients \cup {c}
    <3>1. HeldBy(k) = {} /\ HeldBy(k)' = {c} /\ \A l \in Clients \ {k} : HeldBy(l)' = HeldBy(l)
      BY <1>1, <2>1 DEF HeldBy
    <3> QED BY <2>2, <3>1 DEF HeldByClients
  <2> HIDE DEF c
  <2>4. MovesOnly(c)
    BY <2>1, <2>2, <2>3 DEF MovesOnly
  <2>5. PICK d \in Cmds : d = c
    BY <2>2
  <2>6. PhaseOf(d) = "free" /\ PhaseOf(d)' = "held" /\ MovesOnly(d)
    BY <1>2, <2>2, <2>3, <2>4, <2>5 DEF PlacesDecide
  <2> QED BY <2>6, OneMoves
<1>4. CASE CreateCommand(k) \/ PostTimesOut(k) \/ ReturnToCaller(k)
  <2>1. /\ UNCHANGED <<pool, queue, current, task>>
        /\ \A l \in Clients \ {k} : client'[l] = client[l]
        /\ HeldBy(k)' = HeldBy(k)
    <3>1. /\ UNCHANGED <<pool, queue, current, task>>
          /\ \/ /\ client[k].pc \in {"held", "filled"}
                /\ \E pc \in {"filled", "refused"} : client' = [client EXCEPT ![k].pc = pc]
             \/ client[k].pc = "returning" /\ client' = [client EXCEPT ![k] = Idle]
      BY <1>4 DEF CreateCommand, PostTimesOut, ReturnToCaller, taskVars
    <3>2. ASSUME NEW pc \in {"filled", "refused"}, client[k].pc \in {"held", "filled"},
                 client' = [client EXCEPT ![k].pc = pc]
          PROVE  (\A l \in Clients \ {k} : client'[l] = client[l]) /\ HeldBy(k)' = HeldBy(k)
      <4>1. client'[k] = [client[k] EXCEPT !.pc = pc]
        BY <1>1, <3>2
      <4>2. client'[k].pc = pc /\ client'[k].cmd = client[k].cmd
        BY <1>1, <4>1 DEF ClientValues
      <4> QED BY <1>1, <3>2, <4>2 DEF HeldBy
    <3>3. ASSUME client[k].pc = "returning", client' = [client EXCEPT ![k] = Idle]
          PROVE  (\A l \in Clients \ {k} : client'[l] = client[l]) /\ HeldBy(k)' = HeldBy(k)
      BY <1>1, <3>3 DEF HeldBy, Idle
    <3> QED BY <3>1, <3>2, <3>3
  <2>2. HeldByClients' = HeldByClients
    BY <2>1 DEF HeldByClients, HeldBy
  <2> QED BY <2>1, <2>2, NoneMoves
<1>5. ASSUME client[k].pc \in HoldingPcs, client' = [client EXCEPT ![k] = [Idle EXCEPT !.pc = "returning"]],
             UNCHANGED <<current, task>>,
             NEW c \in Cmds, c = client[k].cmd,
             \/ UNCHANGED pool /\ Range(queue') = Range(queue) \cup {c}
             \/ UNCHANGED queue /\ Range(pool') = Range(pool) \cup {c}
      PROVE  Lifecycle!Next
  <2>1. HeldByClients' = HeldByClients \ {c} /\ c \in HeldByClients
    <3>1. [Idle EXCEPT !.pc = "returning"] \in ClientValues
      BY DEF Idle, ClientValues, ClientPcs
    <3>2. [Idle EXCEPT !.pc = "returning"].pc \notin HoldingPcs
      BY DEF Idle, HoldingPcs
    <3> QED BY <1>5, <3>1, <3>2, ClientDrops DEF IInv, HeldByClients, HeldBy, HoldingPcs
  <2>2. MovesOnly(c)
    BY <1>5, <2>1 DEF MovesOnly
  <2>3. PhaseOf(c) = "held" /\ PhaseOf(c)' \in {"free", "queued"}
    BY <1>2, <1>5, <2>1 DEF PlacesDecide
  <2> QED BY <2>2, <2>3, OneMoves
<1>6. client[k].pc \in HoldingPcs => client[k].cmd \in Cmds /\ client[k].cmd \in HeldByClients
  BY <1>1 DEF IInv, HandsOK, ClientValues, HoldingPcs, HeldByClients, HeldBy
<1>7. CASE PostCommand(k)
  <2>1. /\ client[k].pc \in HoldingPcs /\ queue' = Append(queue, client[k].cmd)
        /\ client' = [client EXCEPT ![k] = [Idle EXCEPT !.pc = "returning"]]
        /\ UNCHANGED <<pool, current, task>>
    BY <1>7 DEF PostCommand, HoldingPcs, taskVars
  <2>2. client[k].cmd \notin Range(queue)
    BY <1>6, <2>1 DEF IInv, OwnershipOK, InOnePlace
  <2>3. Range(queue') = Range(queue) \cup {client[k].cmd}
    BY <1>1, <1>6, <2>1, <2>2, PushKeeps
  <2> QED BY <1>5, <1>6, <2>1, <2>3
<1>8. CASE ReleaseUnposted(k)
  <2>1. /\ client[k].pc \in HoldingPcs /\ Release(client[k].cmd)
        /\ client' = [client EXCEPT ![k] = [Idle EXCEPT !.pc = "returning"]]
        /\ UNCHANGED <<queue, current, task>>
    BY <1>8 DEF ReleaseUnposted, HoldingPcs, taskVars
  <2>2. client[k].cmd \notin Range(pool)
    BY <1>6, <2>1 DEF IInv, OwnershipOK, InOnePlace
  <2>3. Range(pool') = Range(pool) \cup {client[k].cmd}
    BY <1>6, <2>1, <2>2, ReleaseReturns
  <2> QED BY <1>5, <1>6, <2>1, <2>3
<1> QED BY <1>3, <1>4, <1>7, <1>8 DEF ClientStep

(* The steps of the agent task.                                            *)
LEMMA QueueStepsRefine ==
  ASSUME IInv, IInv', stale = NoSlot,
         ReceiveCommand \/ CancelQueued \/ Resubscribe \/ RepostSubscribe
  PROVE  Lifecycle!Next \/ phases' = phases
<1>1. /\ pool \in Seq(Cmds) /\ IsInjective(pool) /\ queue \in Seq(Cmds) /\ IsInjective(queue)
      /\ NoCmd \notin Cmds /\ current \in Cmds \cup {NoCmd}
      /\ \A c \in Cmds : c \in Range(queue) => c \notin Range(pool) /\ c # current
      /\ current \in Cmds => current \notin Range(queue) /\ current \notin Range(pool)
  BY DEF IInv, TypeOK, OwnershipOK, InOnePlace, InHand, Cmds, NoCmd
<1>2. /\ PlacesDecide
      /\ \A c \in Cmds : /\ c \in Range(pool') => PhaseOf(c)' = "free"
                         /\ c \in Range(queue') => PhaseOf(c)' = "queued"
                         /\ c = current' /\ task' = "repost" => PhaseOf(c)' = "held"
                         /\ c = current' /\ task' # "repost" => PhaseOf(c)' = "running"
  BY PlaceDecides, PlaceDecidesNext DEF PlacesDecide
<1>3. CASE ReceiveCommand
  <2>1. /\ task = "receive" /\ task' = "execute" /\ current = NoCmd
        /\ UNCHANGED <<pool, client>>
    BY <1>3 DEF ReceiveCommand, Goto, IInv, HandsOK, CarryingPcs
  <2>2. CASE queue = << >>
    <3>1. UNCHANGED <<queue, current>>
      BY <1>3, <2>1, <2>2 DEF ReceiveCommand
    <3> QED BY <2>1, <3>1, <1>1, AgentKeepsPhases
  <2>3. CASE queue # << >>
    <3>1. PICK c \in Cmds : c = Head(queue)
      BY <1>1, <2>3, PopKeeps
    <3>2. /\ c \in Range(queue) /\ Range(queue') = Range(queue) \ {c} /\ current' = c
      BY <1>1, <1>3, <2>3, <3>1, PopKeeps DEF ReceiveCommand
    <3>3. MovesOnly(c)
      BY <1>1, <2>1, <3>2, CallersKept DEF MovesOnly
    <3>4. PhaseOf(c) = "queued" /\ PhaseOf(c)' = "running"
      BY <1>2, <2>1, <3>2 DEF PlacesDecide
    <3> QED BY <3>3, <3>4, OneMoves
  <2> QED BY <2>2, <2>3
<1>4. CASE CancelQueued
  <2>1. queue # << >> /\ queue' = Tail(queue) /\ Release(Head(queue)) /\ UNCHANGED <<client, current, task>>
    BY <1>4 DEF CancelQueued, Conclude, taskVars
  <2>2. PICK c \in Cmds : c = Head(queue)
    BY <1>1, <2>1, PopKeeps
  <2>3. c \in Range(queue) /\ Range(queue') = Range(queue) \ {c} /\ c \notin Range(pool)
    BY <1>1, <2>1, <2>2, PopKeeps
  <2>4. Range(pool') = Range(pool) \cup {c}
    BY <2>1, <2>2, <2>3, ReleaseReturns
  <2>5. MovesOnly(c)
    BY <2>1, <2>3, <2>4, CallersKept DEF MovesOnly
  <2>6. PhaseOf(c) = "queued" /\ PhaseOf(c)' = "free"
    BY <1>2, <2>3, <2>4 DEF PlacesDecide
  <2> QED BY <2>5, <2>6, OneMoves
<1>5. CASE Resubscribe
  <2>1. task = "resubscribe" /\ current = NoCmd /\ UNCHANGED <<queue, client>>
    BY <1>5 DEF Resubscribe, IInv, HandsOK, CarryingPcs
  <2>2. CASE pool = << >>
    <3>1. UNCHANGED <<pool, current>>
      BY <1>5, <2>2 DEF Resubscribe
    <3> QED BY <1>1, <2>1, <3>1, AgentKeepsPhases
  <2>3. CASE pool # << >>
    <3>1. PICK c \in Cmds : c = Head(pool)
      BY <1>1, <2>3, PopKeeps
    <3>2. /\ c \in Range(pool) /\ Range(pool') = Range(pool) \ {c} /\ current' = c
          /\ task' = "repost"
      BY <1>1, <1>5, <2>3, <3>1, PopKeeps DEF Resubscribe, Goto
    <3>3. MovesOnly(c)
      BY <1>1, <2>1, <3>2, CallersKept DEF MovesOnly
    <3>4. PhaseOf(c) = "free" /\ PhaseOf(c)' = "held"
      BY <1>2, <3>2 DEF PlacesDecide
    <3> QED BY <3>3, <3>4, OneMoves
  <2> QED BY <2>2, <2>3
<1>6. CASE RepostSubscribe
  <2>1. task = "repost" /\ current \in Cmds /\ current # NoCmd /\ current' = NoCmd /\ UNCHANGED client
    BY <1>1, <1>6 DEF RepostSubscribe, IInv, HandsOK, CarryingPcs
  <2>2. CASE Len(queue) < QueueLength
    <3>1. queue' = Append(queue, current) /\ UNCHANGED pool
      BY <1>6, <2>2 DEF RepostSubscribe
    <3>2. PICK c \in Cmds : c = current
      BY <2>1
    <3>3. Range(queue') = Range(queue) \cup {c}
      BY <1>1, <3>1, <3>2, PushKeeps
    <3>4. MovesOnly(c)
      BY <1>1, <2>1, <3>1, <3>2, <3>3, CallersKept DEF MovesOnly
    <3>5. PhaseOf(c) = "held" /\ PhaseOf(c)' = "queued"
      BY <1>2, <2>1, <3>2, <3>3 DEF PlacesDecide
    <3> QED BY <3>4, <3>5, OneMoves
  <2>3. CASE ~(Len(queue) < QueueLength)
    <3>1. Release(current) /\ UNCHANGED queue
      BY <1>6, <2>3 DEF RepostSubscribe
    <3> QED BY <2>1, <3>1, CurrentReturnsMoves
  <2> QED BY <2>2, <2>3
<1> QED BY <1>3, <1>4, <1>5, <1>6

LEMMA ConcludeStepsRefine ==
  ASSUME IInv, IInv', stale = NoSlot, NEW sendFails \in BOOLEAN,
         \/ ExecuteProcessLoop \/ ExecuteUnacked(sendFails) \/ ExecutePublish(sendFails)
         \/ ExecuteSubscription(sendFails) \/ ExecuteDisconnect(sendFails) \/ CancelAcksDone
  PROVE  Lifecycle!Next
<1>1. /\ current # NoCmd /\ task # "repost" /\ UNCHANGED <<queue, client>>
      /\ task # "cancelAcks" => task = "execute"
  BY DEF ExecuteProcessLoop, ExecuteUnacked, ExecutePublish, ExecuteSubscription,
         ExecuteDisconnect, CancelAcksDone, Executing, IInv, HandsOK, CarryingPcs
<1>2. \A withError \in BOOLEAN : ConcludeCurrent(withError) => Release(current) /\ current' = NoCmd
  BY DEF ConcludeCurrent, Conclude, EndLoop
<1>3. ASSUME NEW id, AwaitAck(id), command[current].type \in AckedTypes, UNCHANGED stale
      PROVE  Lifecycle!Next
  <2>1. CASE WithId(id) = {} /\ FreeSlots # {}
    <3>1. PICK s \in Slots : s = FirstOf(FreeSlots)
      BY <2>1, FirstSlot DEF FreeSlots, WithId
    <3>2. /\ pending' = [pending EXCEPT ![s] = [id |-> id, cmd |-> current]]
          /\ current' = NoCmd /\ UNCHANGED pool
      BY <1>3, <2>1, <3>1 DEF AwaitAck
    <3>3. current \in Cmds /\ pending'[s].cmd = current /\ s # stale'
      BY <1>1, <1>3, <3>2 DEF IInv, TypeOK, Slots, NoSlot
    <3>4. current \in Awaited'
      BY <3>3 DEF Awaited
    <3> QED BY <1>1, <3>2, <3>4, CurrentParksMoves
  <2>2. CASE ~(WithId(id) = {} /\ FreeSlots # {})
    BY <1>1, <1>2, <1>3, <2>2, CurrentReturnsMoves DEF AwaitAck
  <2> QED BY <2>1, <2>2
<1>4. CASE ExecuteProcessLoop
  BY <1>1, <1>2, <1>4, CurrentReturnsMoves DEF ExecuteProcessLoop
<1>5. CASE ExecuteUnacked(sendFails)
  BY <1>1, <1>2, <1>5, CurrentReturnsMoves DEF ExecuteUnacked
<1>6. CASE ExecutePublish(sendFails)
  <2>1. /\ command[current].type \in AckedTypes /\ UNCHANGED stale
        /\ ConcludeCurrent(TRUE) \/ AwaitAck(nextPacketId)
    BY <1>6 DEF ExecutePublish, Executing, AckedTypes
  <2> QED BY <1>1, <1>2, <1>3, <2>1, CurrentReturnsMoves
<1>7. CASE ExecuteSubscription(sendFails)
  <2>1. /\ command[current].type \in AckedTypes /\ UNCHANGED stale
        /\ ConcludeCurrent(TRUE) \/ AwaitAck(nextPacketId)
    BY <1>7 DEF ExecuteSubscription, Executing, AckedTypes
  <2> QED BY <1>1, <1>2, <1>3, <2>1, CurrentReturnsMoves
<1>8. CASE ExecuteDisconnect(sendFails)
  <2>1. Release(current) /\ current' = NoCmd
    BY <1>8 DEF ExecuteDisconnect, Conclude, EndLoop
  <2> QED BY <1>1, <2>1, CurrentReturnsMoves
<1>9. CASE CancelAcksDone
  <2>1. Release(current) /\ current' = NoCmd
    BY <1>9 DEF CancelAcksDone, Conclude, EndLoop
  <2> QED BY <1>1, <2>1, CurrentReturnsMoves
<1> QED BY <1>4, <1>5, <1>6, <1>7, <1>8, <1>9

LEMMA EntryStepsRefine ==
  ASSUME IInv, IInv', stale = NoSlot, NEW sendFails \in BOOLEAN,
         \/ ScanEntry \/ ResendPublish(sendFails)
         \/ \E m \in unanswered : ReceiveSubAck(m) \/ ReceivePublishAck(m)
  PROVE  Lifecycle!Next \/ phases' = phases
<1>1. UNCHANGED <<queue, client>>
  BY DEF ScanEntry, ResendPublish, ReceiveSubAck, ReceivePublishAck
<1>2. ASSUME UNCHANGED <<pool, current>>, task' # "repost", task # "repost"
      PROVE  phases' = phases
  BY <1>1, <1>2, AgentKeepsPhases
<1>3. ASSUME NEW s \in Slots, pending[s].id # NoId, ConcludeEntry(s), UNCHANGED current,
             task' # "repost", task # "repost"
      PROVE  Lifecycle!Next
  BY <1>1, <1>3, EntryReturnsMoves
<1>4. \A i \in PacketIds : WithId(i) # {} =>
        /\ FirstOf(WithId(i)) \in Slots /\ pending[FirstOf(WithId(i))].id # NoId
  <2> TAKE i \in PacketIds
  <2>1. WithId(i) # {} => FirstOf(WithId(i)) \in WithId(i)
    BY FirstSlot DEF WithId
  <2> QED BY <2>1 DEF WithId, PacketIds, NoId
<1>5. ASSUME NEW i \in PacketIds, Acknowledge(i), UNCHANGED taskVars, task = "loop"
      PROVE  Lifecycle!Next \/ phases' = phases
  BY <1>2, <1>3, <1>4, <1>5 DEF Acknowledge, taskVars
<1>6. \A m \in unanswered : m.id \in PacketIds
  BY DEF IInv, TypeOK, Requests
<1>7. CASE ScanEntry
  <2>1. /\ cursor \in Slots /\ task \in {"cancelAcks", "clearAcks"} /\ UNCHANGED <<task, current>>
    BY <1>7 DEF ScanEntry, Scanning, IInv, TypeOK, Slots
  <2> QED BY <1>2, <1>3, <1>7, <2>1 DEF ScanEntry
<1>8. CASE ResendPublish(sendFails)
  <2>1. /\ task = "resend" /\ UNCHANGED current /\ cursor \in Slots
    <3>1. cursor \in Nat \ {0} /\ cursor <= MaxAcks
      BY <1>8 DEF ResendPublish, IInv, TypeOK
    <3>2. cursor \in Slots
      BY ONLY <3>1, SlotsArePlaces
    <3> QED BY <1>8, <3>2 DEF ResendPublish
  <2>2. records[cursor].state \in SendStates => records[cursor].id \in PacketIds
    BY <2>1 DEF IInv, TypeOK, RecordValues, SendStates, NoRecord
  <2>3. \/ UNCHANGED <<pool, task>>
        \/ /\ records[cursor].state \in SendStates /\ WithId(records[cursor].id) # {}
           /\ ConcludeEntry(FirstOf(WithId(records[cursor].id))) /\ task' = "failing"
    BY <1>8 DEF ResendPublish, Goto
  <2> QED BY <1>2, <1>3, <1>4, <2>1, <2>2, <2>3
<1>9. ASSUME NEW m \in unanswered, ReceiveSubAck(m)
      PROVE  Lifecycle!Next \/ phases' = phases
  BY <1>5, <1>6, <1>9 DEF ReceiveSubAck
<1>10. ASSUME NEW m \in unanswered, ReceivePublishAck(m)
       PROVE  Lifecycle!Next \/ phases' = phases
  <2>1. /\ task = "loop"
        /\ \/ Acknowledge(m.id) /\ UNCHANGED taskVars
           \/ EndLoop(TRUE) /\ UNCHANGED pool
    BY <1>10 DEF ReceivePublishAck
  <2>2. EndLoop(TRUE) => UNCHANGED current /\ task' = "ended"
    BY <2>1 DEF EndLoop, Goto, IInv, HandsOK, CarryingPcs
  <2> QED BY <1>2, <1>5, <1>6, <2>1, <2>2
<1> QED BY <1>7, <1>8, <1>9, <1>10

LEMMA QuietStepsRefine ==
  ASSUME IInv, stale = NoSlot, NEW sendFails \in BOOLEAN, NEW present \in BOOLEAN,
         \/ ExecuteNone \/ ExecuteTerminate \/ CancelQueueDone \/ LoopIdle \/ LoopFails
         \/ TaskReturns \/ ReconnectFails \/ ClearAcksDone \/ ResendDone \/ Reconnect(present)
         \/ \E m \in unanswered : ReceivePubRec(m, sendFails)
  PROVE  phases' = phases
<1>1. UNCHANGED <<pool, queue, client>>
  BY DEF ExecuteNone, ExecuteTerminate, CancelQueueDone, LoopIdle, LoopFails, TaskReturns,
         ReconnectFails, ClearAcksDone, ResendDone, Reconnect, ReceivePubRec
<1>2. current' = current /\ task # "repost" /\ task' # "repost"
  BY DEF IInv, HandsOK, CarryingPcs, ExecuteNone, ExecuteTerminate, CancelQueueDone, LoopIdle,
         LoopFails, TaskReturns, ReconnectFails, ClearAcksDone, ResendDone, Goto, EndLoop,
         taskVars, Executing, Reconnect, ReceivePubRec
<1> QED BY <1>1, <1>2, AgentKeepsPhases

LEMMA NextRefines ==
  ASSUME IInv, [Next]_vars
  PROVE  Lifecycle!Next \/ phases' = phases
<1>1. IInv'
  BY NextKeepsIInv
<1>2. CASE Next
  <2>1. CASE \E k \in Clients : ClientStep(k)
    BY <1>1, <2>1, ClientStepRefines
  <2>2. CASE ClearEntry
    BY <2>2, AgentKeepsPhases DEF ClearEntry, taskVars
  <2>3. CASE stale = NoSlot /\ AgentAction
    BY <1>1, <2>3, QueueStepsRefine, ConcludeStepsRefine, EntryStepsRefine, QuietStepsRefine
       DEF AgentAction
  <2> QED BY <1>2, <2>1, <2>2, <2>3 DEF Next, AgentStep
<1>3. CASE UNCHANGED vars
  BY <1>3, AgentKeepsPhases DEF vars, taskVars
<1> QED BY <1>2, <1>3

(* The agent implements CommandLifecycle: whatever callers, command loop,  *)
(* acknowledgments, cancellation and reconnection do, each step hands on   *)
(* one structure at most, and an accepted command is concluded once.       *)
THEOREM ImplementsLifecycle == Spec => CommandsLiveOnce
<1>1. Init => Lifecycle!Init
  <2>1. Init => Range(pool) = Cmds
    BY DEF Init, Range, Cmds
  <2>2. Init => \A c \in Cmds : PhaseOf(c) = "free"
    BY <2>1, InitOwnership, PlaceDecides DEF PlacesDecide
  <2> QED BY <2>2 DEF Lifecycle!Init
<1>2. IInv /\ [Next]_vars => [Lifecycle!Next]_phases
  BY NextRefines
<1> QED BY <1>1, <1>2, Invariance, PTL DEF Spec, CommandsLiveOnce, Lifecycle!Spec, phases

-----------------------------------------------------------------------------
(***************************************************************************)
(* The acknowledgments: the list of awaited operations, which the agent    *)
(* keeps, the array of publish records, which the library keeps, and the   *)
(* requests the broker has got agree, although a lost connection, a        *)
(* resumed session, a resend that is compacted under its cursor and        *)
(* identifiers that wrap change them at different moments.                 *)
(***************************************************************************)

(* The slots with an operation that awaits its acknowledgment.             *)
Awaiting == {s \in Slots \ {stale} : pending[s].id # NoId}
TypeAt(s) == command[pending[s].cmd].type

Looping == task \in {"receive", "execute", "loop", "resubscribe", "repost"}
Serving == Looping \/ task \in {"clearAcks", "resend"}
Stopping == task = "cancelAcks" \/ (task = "ended" /\ ~failed)

-----------------------------------------------------------------------------
(* The inductive invariant                                                 *)

(* At all times: no two slots share an identifier, nor do two records.     *)
IdsApart == \A s, t \in Slots : pending[s].id = pending[t].id /\ pending[s].id # NoId => s = t

AwaitedStates(type) ==
  IF type = "PUBLISH_QOS1" THEN {"PubAckPending"}
                           ELSE {"PubRecPending", "PubRelSend", "PubCompPending"}

Recorded(s) ==
  \E r \in RecordsIn(records) : /\ r.id = pending[s].id
                                /\ r.qos = QosOf(TypeAt(s))
                                /\ r.state \in AwaitedStates(TypeAt(s))

(* A publish that is awaited has its record, except while the list of a    *)
(* session that was not resumed is being cleared, after the records.       *)
RecordsAgree ==
  \/ task = "clearAcks" /\ ~session
  \/ \A s \in Awaiting : TypeAt(s) \in Publishes => Recorded(s)

(* A PUBREL that could not be sent has ended the command loop.             *)
RelSendEnds == \A r \in RecordsIn(records) : r.state = "PubRelSend" => task = "ended"

(* A publish that the broker has released is awaited, unless the task is   *)
(* about to return: otherwise its PUBCOMP could meet another operation.    *)
ReleasedIsAwaited ==
  \/ Stopping
  \/ \A r \in RecordsIn(records) : r.state \in RelStates =>
       \E s \in Awaiting : pending[s].id = r.id /\ TypeAt(s) = "PUBLISH_QOS2"

(* While the task serves a connection, the broker has one request for an   *)
(* identifier at most, and it is of the operation that awaits it.          *)
RequestsAgree ==
  /\ \A m \in unanswered :
       \E s \in Awaiting : pending[s].id = m.id /\ m.kind \in AnswerTo(TypeAt(s))
  /\ \A m, n \in unanswered : m.id = n.id => m = n
  /\ \A i \in PacketIds :
       Request("PUBREL", i) \in unanswered <=>
         \E r \in RecordsIn(records) : r.id = i /\ r.state = "PubCompPending"

(* What is awaited has been asked for: in the command loop all of it, in a *)
(* resend what the cursor has passed, and before it only the publishes of  *)
(* a resumed session have been spared.                                     *)
AskedOrSkipped(s) == pending[s].id \in skipped \/ IsOutstanding(s)

ToBeResent(s) ==
  \E p \in Slots : /\ cursor <= p
                   /\ records[p].id = pending[s].id
                   /\ records[p].state \in SendStates

LoopOK == \A s \in Awaiting : AskedOrSkipped(s)

ResendOK == \A s \in Awaiting : TypeAt(s) \in Publishes /\ (AskedOrSkipped(s) \/ ToBeResent(s))

ClearOK ==
  /\ \A s \in Awaiting : s < cursor => session /\ TypeAt(s) \in Publishes
  /\ session => \A m \in unanswered : m.kind = "PUBREL"
  /\ ~session => unanswered = {} /\ RecordsIn(records) = {}

Tables == /\ IdsApart
          /\ SoundArray(records, MaxAcks, PacketIds)
          /\ RecordsAgree
          /\ RelSendEnds
          /\ ReleasedIsAwaited

Asked == /\ Serving => RequestsAgree
         /\ Looping => LoopOK
         /\ task = "resend" => ResendOK
         /\ task = "clearAcks" => ClearOK

Agreement == Tables /\ Asked

-----------------------------------------------------------------------------
(* What the steps do to the list                                           *)

(* No step changes the type of a command that is awaited after it.         *)
LEMMA TypesStay ==
  ASSUME IInv, IInv', [Next]_vars
  PROVE  \A c \in Awaited' : command'[c].type = command[c].type
<1>1. /\ command \in [Cmds -> CommandValues] /\ Awaited' \subseteq Cmds
      /\ \A c \in Awaited' : c \notin Range(pool') /\ c \notin HeldByClients' /\ c # current'
  <2>1. command \in [Cmds -> CommandValues] /\ Awaited' \subseteq Cmds
    BY DEF IInv, TypeOK, Awaited
  <2>2. \A c \in Awaited' : c \notin Range(pool') /\ c \notin HeldByClients' /\ c \notin InHand'
    BY DEF IInv, OwnershipOK, InOnePlace
  <2>3. \A c \in Awaited' : c # current'
    BY <2>1, <2>2 DEF InHand, Cmds, NoCmd
  <2> QED BY <2>1, <2>2, <2>3
<1>2. CASE UNCHANGED command
  BY <1>2
<1>3. ASSUME NEW c \in Cmds, c \notin Range(pool), Release(c)
      PROVE  \A d \in Awaited' : command'[d].type = command[d].type
  <2>1. Range(pool') = Range(pool) \cup {c} /\ \A d \in Cmds \ {c} : command'[d] = command[d]
    BY <1>3, ReleaseReturns
  <2> QED BY <1>1, <2>1
<1>4. /\ current # NoCmd => current \in Cmds /\ current \notin Range(pool)
      /\ queue # << >> => Head(queue) \in Cmds /\ Head(queue) \notin Range(pool)
      /\ \A k \in Clients : client[k].pc \in HoldingPcs =>
           client[k].cmd \in Cmds /\ client[k].cmd \notin Range(pool)
      /\ \A s \in Slots : pending[s].id # NoId /\ s # stale =>
           pending[s].cmd \in Cmds /\ pending[s].cmd \notin Range(pool)
  <2>1. current # NoCmd => current \in Cmds /\ current \notin Range(pool)
    BY DEF IInv, TypeOK, OwnershipOK, InOnePlace, InHand
  <2>2. queue # << >> => Head(queue) \in Cmds /\ Head(queue) \notin Range(pool)
    <3>1. queue \in Seq(Cmds) /\ IsInjective(queue)
      BY DEF IInv, TypeOK, OwnershipOK, InOnePlace
    <3> QED BY <3>1, PopKeeps DEF IInv, OwnershipOK, InOnePlace
  <2>3. \A k \in Clients : client[k].pc \in HoldingPcs =>
           client[k].cmd \in Cmds /\ client[k].cmd \in HeldByClients
    BY DEF IInv, TypeOK, HandsOK, HoldingPcs, HeldByClients, HeldBy
  <2>4. \A s \in Slots : pending[s].id # NoId /\ s # stale =>
           pending[s].cmd \in Cmds /\ pending[s].cmd \in Awaited
    BY DEF IInv, TypeOK, HandsOK, Awaited
  <2> QED BY <2>1, <2>2, <2>3, <2>4 DEF IInv, OwnershipOK, InOnePlace
<1>5. ASSUME NEW k \in Clients, ClientStep(k)
      PROVE  \A c \in Awaited' : command'[c].type = command[c].type
  <2>1. CASE CreateCommand(k)
    <3>1. client[k].cmd \in HeldByClients'
      <4>1. client[k].pc \in HoldingPcs /\ client[k] \in ClientValues
            /\ \E pc \in {"filled", "refused"} : client' = [client EXCEPT ![k].pc = pc]
        BY <2>1 DEF CreateCommand, HoldingPcs, IInv, TypeOK, ClientValues
      <4>2. client'[k].cmd = client[k].cmd /\ client'[k].pc \in {"filled", "refused"}
        BY <4>1 DEF IInv, TypeOK, ClientValues
      <4> QED BY <1>4, <4>1, <4>2 DEF HeldByClients, HeldBy
    <3>2. \A c \in Cmds : c # client[k].cmd => command'[c] = command[c]
      BY <1>1, <2>1 DEF CreateCommand
    <3> QED BY <1>1, <3>1, <3>2
  <2>2. CASE ReturnToCaller(k)
    <3>1. \A c \in Cmds : command[c] \in CommandValues
      BY <1>1
    <3>2. \A c \in Cmds : command'[c].type = command[c].type
      BY <2>2, <3>1 DEF ReturnToCaller, CommandValues
    <3> QED BY <1>1, <3>2
  <2>3. CASE ReleaseUnposted(k)
    BY <1>3, <1>4, <2>3 DEF ReleaseUnposted, HoldingPcs
  <2>4. CASE (\E type \in Ops : GetCommand(k, type)) \/ PostCommand(k) \/ PostTimesOut(k)
    BY <1>2, <2>4 DEF GetCommand, PostCommand, PostTimesOut
  <2> QED BY <1>5, <2>1, <2>2, <2>3, <2>4 DEF ClientStep
<1>6. CASE Resubscribe
  <2>1. CASE pool = << >>
    BY <1>2, <1>6, <2>1 DEF Resubscribe
  <2>2. CASE pool # << >>
    <3>1. current' = Head(pool) /\ \A c \in Cmds : c # Head(pool) => command'[c] = command[c]
      BY <1>1, <1>6, <2>2 DEF Resubscribe
    <3> QED BY <1>1, <3>1
  <2> QED BY <2>1, <2>2
<1>7. ASSUME stale = NoSlot, AgentAction
      PROVE  \/ UNCHANGED command
             \/ Resubscribe
             \/ current # NoCmd /\ Release(current)
             \/ queue # << >> /\ Release(Head(queue))
             \/ \E s \in Slots : pending[s].id # NoId /\ Release(pending[s].cmd)
  <2>1. ASSUME NEW i \in PacketIds, Acknowledge(i)
        PROVE  \/ UNCHANGED command
               \/ \E s \in Slots : pending[s].id # NoId /\ Release(pending[s].cmd)
    <3>1. CASE WithId(i) = {}
      BY <2>1, <3>1 DEF Acknowledge
    <3>2. CASE WithId(i) # {}
      <4>1. FirstOf(WithId(i)) \in Slots /\ pending[FirstOf(WithId(i))].id # NoId
        <5>1. FirstOf(WithId(i)) \in WithId(i)
          BY <3>2, FirstSlot DEF WithId
        <5> QED BY <5>1 DEF WithId, PacketIds, NoId
      <4> QED BY <2>1, <3>2, <4>1 DEF Acknowledge, ConcludeEntry, Conclude
    <3> QED BY <3>1, <3>2
  <2>2. \A m \in unanswered : m.id \in PacketIds
    BY DEF IInv, TypeOK, Requests
  <2>3. CASE \E m \in unanswered : ReceiveSubAck(m) \/ ReceivePublishAck(m)
    BY <2>1, <2>2, <2>3 DEF ReceiveSubAck, ReceivePublishAck
  <2>4. CASE \E sendFails \in BOOLEAN : \/ ExecuteUnacked(sendFails) \/ ExecutePublish(sendFails)
                                        \/ ExecuteSubscription(sendFails) \/ ExecuteDisconnect(sendFails)
    <3>1. current # NoCmd
      BY <2>4 DEF ExecuteUnacked, ExecutePublish, ExecuteSubscription, ExecuteDisconnect, Executing
    <3>2. Release(current) \/ UNCHANGED command
      BY <2>4 DEF ExecuteUnacked, ExecutePublish, ExecuteSubscription, ExecuteDisconnect, Executing,
                  AwaitAck, ConcludeCurrent, Conclude
    <3> QED BY <3>1, <3>2
  <2>5. CASE ExecuteProcessLoop \/ CancelAcksDone \/ RepostSubscribe
    BY <2>5 DEF ExecuteProcessLoop, CancelAcksDone, RepostSubscribe, Executing, ConcludeCurrent,
                Conclude, IInv, HandsOK, CarryingPcs
  <2>6. CASE CancelQueued
    BY <2>6 DEF CancelQueued, Conclude
  <2>7. CASE ScanEntry
    <3>1. cursor \in Slots
      <4>1. cursor \in Nat \ {0} /\ cursor <= MaxAcks
        BY <2>7 DEF ScanEntry, Scanning, IInv, TypeOK
      <4> QED BY ONLY <4>1, SlotsArePlaces
    <3> QED BY <2>7, <3>1 DEF ScanEntry, ConcludeEntry, Conclude
  <2>8. ASSUME NEW sendFails \in BOOLEAN, ResendPublish(sendFails)
        PROVE  \/ UNCHANGED command
               \/ \E s \in Slots : pending[s].id # NoId /\ Release(pending[s].cmd)
    <3> DEFINE i == records[cursor].id
    <3>1. \/ UNCHANGED command
          \/ /\ cursor <= MaxAcks /\ cursor \in Slots /\ WithId(i) # {} /\ records[cursor].state \in SendStates
             /\ ConcludeEntry(FirstOf(WithId(i)))
      BY <2>8 DEF ResendPublish
    <3>2. cursor \in Slots /\ records[cursor].state \in SendStates => i # NoId
      BY DEF IInv, TypeOK, RecordValues, NoRecord, SendStates, PacketIds, NoId
    <3>3. WithId(i) # {} => FirstOf(WithId(i)) \in WithId(i)
      BY FirstSlot DEF WithId
    <3> HIDE DEF i
    <3> QED BY <3>1, <3>2, <3>3 DEF WithId, ConcludeEntry, Conclude
  <2>9. CASE \/ ReceiveCommand \/ ExecuteNone \/ ExecuteTerminate \/ CancelQueueDone \/ LoopIdle
             \/ LoopFails \/ TaskReturns \/ ReconnectFails \/ ClearAcksDone \/ ResendDone
             \/ \E present \in BOOLEAN : Reconnect(present)
             \/ \E m \in unanswered, sendFails \in BOOLEAN : ReceivePubRec(m, sendFails)
    BY <2>9 DEF ReceiveCommand, ExecuteNone, ExecuteTerminate, CancelQueueDone, LoopIdle,
                LoopFails, TaskReturns, ReconnectFails, ClearAcksDone, ResendDone, Reconnect, ReceivePubRec
  <2> QED BY <1>7, <2>3, <2>4, <2>5, <2>6, <2>7, <2>8, <2>9 DEF AgentAction
<1>8. CASE stale = NoSlot /\ AgentAction
  <2>1. NoSlot \notin Slots
    BY DEF NoSlot, Slots
  <2> QED BY <1>2, <1>3, <1>4, <1>6, <1>7, <1>8, <2>1
<1>9. CASE ClearEntry \/ UNCHANGED vars
  BY <1>2, <1>9 DEF ClearEntry, vars
<1> QED BY <1>5, <1>8, <1>9 DEF Next, AgentStep

(* The entries that stay in the list stay as they are.                     *)
SameEntries == \A s \in Awaiting' : pending'[s].id = pending[s].id /\ TypeAt(s)' = TypeAt(s)

Keeps == Awaiting' = Awaiting /\ SameEntries /\ IdsApart'
Loses(s) == Awaiting' = Awaiting \ {s} /\ SameEntries /\ IdsApart'
Gains(s, id, type) ==
  /\ s \notin Awaiting
  /\ Awaiting' = Awaiting \cup {s}
  /\ \A t \in Awaiting : pending'[t].id = pending[t].id /\ TypeAt(t)' = TypeAt(t)
  /\ pending'[s].id = id /\ TypeAt(s)' = type
  /\ IdsApart'

LEMMA Entries ==
  ASSUME IInv, NEW s \in Awaiting
  PROVE  /\ s \in Slots /\ s # stale /\ pending[s].id \in PacketIds
         /\ pending[s].cmd \in Awaited /\ pending[s].cmd \in Cmds /\ TypeAt(s) \in AckedTypes
<1>1. s \in Slots /\ s # stale /\ pending[s].id \in PacketIds
  BY DEF Awaiting, IInv, TypeOK
<1>2. pending[s].cmd \in Cmds
  BY <1>1 DEF Awaiting, IInv, TypeOK, HandsOK
<1>3. pending[s].cmd \in Awaited
  BY <1>1, <1>2 DEF Awaited
<1> QED BY <1>1, <1>2, <1>3 DEF IInv, AwaitedOK, TypeAt

EntriesAwait == \A s \in Awaiting : pending[s].cmd \in Awaited

LEMMA EntriesAwaitNow == IInv => EntriesAwait
BY Entries DEF EntriesAwait

LEMMA EntriesNext == IInv' => EntriesAwait'
BY EntriesAwaitNow, PTL

(* No entry comes or goes.                                                 *)
LEMMA ListKept ==
  ASSUME IInv, IInv', [Next]_vars, IdsApart, UNCHANGED ackVars
  PROVE  Keeps
<1>1. pending' = pending /\ stale' = stale
  BY DEF ackVars
<1>2. Awaiting' = Awaiting /\ IdsApart'
  BY <1>1 DEF Awaiting, IdsApart
<1>3. \A s \in Awaiting' : TypeAt(s)' = TypeAt(s)
  BY <1>1, TypesStay, EntriesNext DEF TypeAt, EntriesAwait
<1> QED BY <1>1, <1>2, <1>3 DEF Keeps, SameEntries

(* An operation is concluded.                                              *)
LEMMA ListLoses ==
  ASSUME IInv, IInv', [Next]_vars, IdsApart, stale = NoSlot, pending' = pending,
         NEW s \in Slots, stale' = s
  PROVE  Loses(s)
<1>1. Awaiting' = Awaiting \ {s} /\ IdsApart'
  BY DEF Awaiting, IdsApart, NoSlot, Slots
<1>2. \A t \in Awaiting' : TypeAt(t)' = TypeAt(t)
  BY TypesStay, EntriesNext DEF TypeAt, EntriesAwait
<1> QED BY <1>1, <1>2 DEF Loses, SameEntries

(* The entry of a concluded operation is cleared.                          *)
LEMMA ListCleared ==
  ASSUME IInv, IInv', [Next]_vars, IdsApart, ClearEntry
  PROVE  Keeps
<1>1. /\ stale \in Slots /\ stale' = NoSlot /\ NoSlot \notin Slots /\ NoEntry.id = NoId
      /\ pending'[stale] = NoEntry /\ \A t \in Slots \ {stale} : pending'[t] = pending[t]
  BY DEF ClearEntry, IInv, TypeOK, NoSlot, Slots, NoEntry
<1>2. Awaiting' = Awaiting
  BY <1>1 DEF Awaiting
<1>3. IdsApart'
  BY <1>1 DEF IdsApart
<1>4. \A s \in Awaiting' : pending'[s] = pending[s]
  BY <1>1 DEF Awaiting
<1>5. \A s \in Awaiting' : TypeAt(s)' = TypeAt(s)
  BY <1>4, TypesStay, EntriesNext DEF TypeAt, EntriesAwait
<1> QED BY <1>2, <1>3, <1>4, <1>5 DEF Keeps, SameEntries

(* An operation is added.                                                  *)
LEMMA ListGains ==
  ASSUME IInv, IInv', [Next]_vars, IdsApart, stale = NoSlot, UNCHANGED <<command, stale>>,
         NEW id \in PacketIds, WithId(id) = {}, FreeSlots # {},
         pending' = [pending EXCEPT ![FirstOf(FreeSlots)] = [id |-> id, cmd |-> current]]
  PROVE  \E s \in Slots : Gains(s, id, command[current].type)
<1>1. PICK s \in Slots : pending[s].id = NoId /\ s = FirstOf(FreeSlots)
  BY FirstSlot DEF FreeSlots, WithId
<1>2. /\ pending'[s] = [id |-> id, cmd |-> current]
      /\ \A t \in Slots \ {s} : pending'[t] = pending[t]
      /\ \A t \in Slots : pending[t].id # id
  BY <1>1 DEF IInv, TypeOK, WithId
<1>3. NoSlot \notin Slots /\ id # NoId /\ stale' = NoSlot
  BY DEF NoSlot, Slots, NoId, PacketIds
<1>4. s \notin Awaiting /\ Awaiting' = Awaiting \cup {s}
  BY <1>1, <1>2, <1>3 DEF Awaiting
<1>5. IdsApart'
  BY <1>1, <1>2, <1>3 DEF IdsApart
<1>6. /\ pending'[s].id = id /\ TypeAt(s)' = command[current].type
      /\ \A t \in Awaiting : pending'[t].id = pending[t].id /\ TypeAt(t)' = TypeAt(t)
  BY <1>1, <1>2, <1>4 DEF TypeAt, Awaiting
<1> QED BY <1>1, <1>4, <1>5, <1>6 DEF Gains

(* getAwaitingOperation finds the operation that awaits an identifier.     *)
LEMMA EntryFound ==
  ASSUME IInv, IdsApart, NEW s \in Awaiting, NEW i, pending[s].id = i
  PROVE  WithId(i) # {} /\ FirstOf(WithId(i)) = s
<1>1. s \in Slots /\ i # NoId
  BY Entries DEF PacketIds, NoId
<1>2. s \in WithId(i) /\ \A t \in WithId(i) : t = s
  BY <1>1 DEF WithId, IdsApart
<1>3. FirstOf(WithId(i)) \in WithId(i)
  BY <1>2, FirstSlot DEF WithId
<1> QED BY <1>2, <1>3

-----------------------------------------------------------------------------
(* The steps preserve the invariant                                        *)

(* Outside the loop, the scan and the resend nothing is said of requests.  *)
LEMMA TablesSuffice ==
  ASSUME Tables', ~Serving'
  PROVE  Agreement'
BY DEF Agreement, Asked, Serving, Looping

Unchanged == UNCHANGED <<records, skipped, unanswered, session>>

(* The tables of a task that is not clearing the list.                     *)
LEMMA TablesKept ==
  ASSUME Tables, Keeps, UNCHANGED records,
         task # "clearAcks", RelSendEnds', Stopping => Stopping'
  PROVE  Tables'
<1>1. IdsApart' /\ SoundArray(records, MaxAcks, PacketIds)'
  BY DEF Tables, Keeps
<1>2. RecordsAgree'
  <2>1. \A s \in Awaiting : TypeAt(s) \in Publishes => Recorded(s)
    BY DEF Tables, RecordsAgree
  <2>2. ASSUME NEW s \in Awaiting', TypeAt(s)' \in Publishes PROVE Recorded(s)'
    BY <2>1, <2>2 DEF Keeps, SameEntries, Recorded
  <2> QED BY <2>2 DEF RecordsAgree
<1>3. ReleasedIsAwaited'
  BY DEF Tables, Keeps, SameEntries, ReleasedIsAwaited
<1> QED BY <1>1, <1>2, <1>3 DEF Tables

LEMMA RequestsKept ==
  ASSUME RequestsAgree, Keeps, UNCHANGED <<records, unanswered>>
  PROVE  RequestsAgree'
<1>1. \A m \in unanswered' : \E s \in Awaiting' : pending'[s].id = m.id /\ m.kind \in AnswerTo(TypeAt(s)')
  BY DEF RequestsAgree, Keeps, SameEntries
<1> QED BY <1>1 DEF RequestsAgree

LEMMA AskedKept ==
  ASSUME Keeps, UNCHANGED <<skipped, unanswered>>, NEW s \in Awaiting, AskedOrSkipped(s)
  PROVE  AskedOrSkipped(s)'
BY DEF Keeps, SameEntries, AskedOrSkipped, IsOutstanding, TypeAt

(* The steps that leave the tables and the requests alone and keep the     *)
(* task where it is, or in its loop.                                       *)
LEMMA StillAgrees ==
  ASSUME Agreement, Keeps, Unchanged,
         \/ UNCHANGED <<task, failed, cursor>>
         \/ Looping /\ Looping'
  PROVE  Agreement'
<1>1. Tables'
  <2>1. CASE task # "clearAcks"
    <3>1. (Looping => ~Stopping) /\ (Looping => task # "ended")
      BY DEF Looping, Stopping
    <3>2. RelSendEnds' /\ (Stopping => Stopping')
      BY <3>1 DEF Agreement, Tables, RelSendEnds, Unchanged, Stopping
    <3> QED BY <2>1, <3>2, TablesKept DEF Agreement, Unchanged
  <2>2. CASE task = "clearAcks"
    <3>1. task' = task /\ session' = session /\ records' = records
      BY <2>2 DEF Looping, Unchanged
    <3>2. IdsApart' /\ SoundArray(records, MaxAcks, PacketIds)' /\ RelSendEnds'
      BY <3>1 DEF Agreement, Tables, Keeps, RelSendEnds
    <3>3. RecordsAgree'
      <4>1. CASE ~session
        BY <2>2, <3>1, <4>1 DEF RecordsAgree
      <4>2. CASE session
        <5>1. \A s \in Awaiting : TypeAt(s) \in Publishes => Recorded(s)
          BY <4>2 DEF Agreement, Tables, RecordsAgree
        <5>2. ASSUME NEW s \in Awaiting', TypeAt(s)' \in Publishes PROVE Recorded(s)'
          BY <3>1, <5>1, <5>2 DEF Keeps, SameEntries, Recorded
        <5> QED BY <5>2 DEF RecordsAgree
      <4> QED BY <4>1, <4>2
    <3>4. ReleasedIsAwaited'
      BY <2>2, <3>1 DEF Agreement, Tables, Keeps, SameEntries, ReleasedIsAwaited, Stopping
    <3> QED BY <3>2, <3>3, <3>4 DEF Tables
  <2> QED BY <2>1, <2>2
<1>2. Serving' => RequestsAgree'
  <2>1. Serving' => Serving
    BY DEF Serving, Looping
  <2> QED BY <2>1, RequestsKept DEF Agreement, Asked, Unchanged
<1>3. Looping' => LoopOK'
  <2>1. Looping' => Looping
    BY DEF Looping
  <2>2. ASSUME Looping', NEW s \in Awaiting' PROVE AskedOrSkipped(s)'
    <3>1. s \in Awaiting /\ AskedOrSkipped(s)
      BY <2>1, <2>2 DEF Agreement, Asked, LoopOK, Keeps
    <3> QED BY <3>1, AskedKept DEF Unchanged
  <2> QED BY <2>2 DEF LoopOK
<1>4. task' = "resend" => ResendOK'
  <2>1. ASSUME task' = "resend", NEW s \in Awaiting'
        PROVE  TypeAt(s)' \in Publishes /\ (AskedOrSkipped(s)' \/ ToBeResent(s)')
    <3>1. task = "resend" /\ cursor' = cursor /\ s \in Awaiting
      BY <2>1 DEF Looping, Keeps
    <3>2. TypeAt(s) \in Publishes /\ (AskedOrSkipped(s) \/ ToBeResent(s))
      BY <3>1 DEF Agreement, Asked, ResendOK
    <3>3. pending'[s].id = pending[s].id /\ TypeAt(s)' = TypeAt(s)
      BY <2>1 DEF Keeps, SameEntries
    <3>4. AskedOrSkipped(s) => AskedOrSkipped(s)'
      BY <3>1, AskedKept DEF Unchanged
    <3>5. ToBeResent(s) => ToBeResent(s)'
      BY <3>1, <3>3 DEF ToBeResent, Unchanged
    <3> QED BY <3>2, <3>3, <3>4, <3>5
  <2> QED BY <2>1 DEF ResendOK
<1>5. task' = "clearAcks" => ClearOK'
  <2>1. task' = "clearAcks" => task = "clearAcks" /\ cursor' = cursor
    BY DEF Looping
  <2> QED BY <2>1 DEF Agreement, Asked, ClearOK, Keeps, SameEntries, Unchanged
<1> QED BY <1>1, <1>2, <1>3, <1>4, <1>5 DEF Agreement, Asked

(* The steps that leave the loop, or the cancellation, with all tables as  *)
(* they are.                                                               *)
LEMMA LeavingAgrees ==
  ASSUME Agreement, Keeps, UNCHANGED records,
         task \notin {"clearAcks", "ended"}, ~Serving', Stopping => Stopping'
  PROVE  Agreement'
<1>1. RelSendEnds'
  BY DEF Agreement, Tables, RelSendEnds
<1> QED BY <1>1, TablesKept, TablesSuffice DEF Agreement

(* A record is added, by MQTT_ReserveState, or none.                       *)
MoreRecords(id) ==
  /\ SoundArray(records', MaxAcks, PacketIds)
  /\ RecordsIn(records) \subseteq RecordsIn(records')
  /\ \A r \in RecordsIn(records') \ RecordsIn(records) : r.id = id /\ r.state \in SendStates

LEMMA SendingFails ==
  ASSUME Agreement, Keeps, NEW id \in PacketIds, MoreRecords(id), task = "execute", task' = "ended"
  PROVE  Agreement'
<1>1. IdsApart' /\ SoundArray(records, MaxAcks, PacketIds)'
  BY DEF Keeps, MoreRecords
<1>2. RecordsAgree'
  <2>1. \A s \in Awaiting : TypeAt(s) \in Publishes => Recorded(s)
    BY DEF Agreement, Tables, RecordsAgree
  <2>2. ASSUME NEW s \in Awaiting', TypeAt(s)' \in Publishes PROVE Recorded(s)'
    BY <2>1, <2>2 DEF Keeps, SameEntries, Recorded, MoreRecords
  <2> QED BY <2>2 DEF RecordsAgree
<1>3. ReleasedIsAwaited'
  <2>1. \A r \in RecordsIn(records) : r.state \in RelStates =>
          \E s \in Awaiting : pending[s].id = r.id /\ TypeAt(s) = "PUBLISH_QOS2"
    BY DEF Agreement, Tables, ReleasedIsAwaited, Stopping
  <2>2. \A r \in RecordsIn(records') : r.state \in RelStates => r \in RecordsIn(records)
    BY DEF MoreRecords, SendStates, RelStates
  <2> QED BY <2>1, <2>2 DEF Keeps, SameEntries, ReleasedIsAwaited
<1> QED BY <1>1, <1>2, <1>3, TablesSuffice DEF Tables, RelSendEnds, Serving, Looping

(* An operation is added to the list, with its record and its request.     *)
LEMMA SendingAgrees ==
  ASSUME IInv, Agreement, NEW id \in PacketIds, WithId(id) = {}, MoreRecords(id),
         NEW type \in AckedTypes, NEW s \in Slots, Gains(s, id, type),
         type \in Publishes =>
           \E r \in RecordsIn(records') : r.id = id /\ r.qos = QosOf(type) /\ r.state \in AwaitedStates(type),
         unanswered' = unanswered \cup {Request(type, id)}, skipped' = skipped,
         task = "execute", task' = "loop"
  PROVE  Agreement'
<1>1. /\ \A t \in Awaiting : t # s /\ pending[t].id # id /\ pending'[t].id = pending[t].id
                             /\ TypeAt(t)' = TypeAt(t)
      /\ Awaiting' = Awaiting \cup {s} /\ pending'[s].id = id /\ TypeAt(s)' = type
  BY Entries DEF Gains, WithId
<1>2. Looping /\ Serving /\ ~Stopping /\ RequestsAgree /\ LoopOK
  BY DEF Agreement, Asked, Looping, Serving, Stopping
<1>3. RecordsAgree'
  <2>1. \A t \in Awaiting : TypeAt(t) \in Publishes => Recorded(t)
    BY DEF Agreement, Tables, RecordsAgree
  <2>2. ASSUME NEW t \in Awaiting', TypeAt(t)' \in Publishes PROVE Recorded(t)'
    <3>1. CASE t = s
      BY <1>1, <2>2, <3>1 DEF Recorded
    <3>2. CASE t # s
      BY <1>1, <2>1, <2>2, <3>2 DEF Recorded, MoreRecords
    <3> QED BY <3>1, <3>2
  <2> QED BY <2>2 DEF RecordsAgree
<1>4. \A r \in RecordsIn(records') : r.state \in RelStates => r \in RecordsIn(records)
  BY DEF MoreRecords, SendStates, RelStates
<1>5. ReleasedIsAwaited'
  <2>1. \A r \in RecordsIn(records) : r.state \in RelStates =>
          \E t \in Awaiting : pending[t].id = r.id /\ TypeAt(t) = "PUBLISH_QOS2"
    BY <1>2 DEF Agreement, Tables, ReleasedIsAwaited
  <2> QED BY <1>1, <1>4, <2>1 DEF ReleasedIsAwaited
<1>6. RelSendEnds'
  BY <1>4 DEF Agreement, Tables, RelSendEnds, RelStates
<1>7. RequestsAgree'
  <2>1. \A m \in unanswered : \E t \in Awaiting : pending[t].id = m.id /\ m.kind \in AnswerTo(TypeAt(t))
    BY <1>2 DEF RequestsAgree
  <2>2. \A m \in unanswered : m.id # id
    BY <1>1, <2>1
  <2>3. Request(type, id).id = id /\ Request(type, id).kind = type /\ type \in AnswerTo(type) /\ type # "PUBREL"
    BY DEF Request, AnswerTo, AckedTypes, Publishes, Subscriptions
  <2>4. \A m \in unanswered' : \E t \in Awaiting' : pending'[t].id = m.id /\ m.kind \in AnswerTo(TypeAt(t)')
    <3>1. ASSUME NEW m \in unanswered
          PROVE  \E t \in Awaiting' : pending'[t].id = m.id /\ m.kind \in AnswerTo(TypeAt(t)')
      BY <1>1, <2>1, <3>1
    <3>2. s \in Awaiting' /\ pending'[s].id = Request(type, id).id
          /\ Request(type, id).kind \in AnswerTo(TypeAt(s)')
      BY <1>1, <2>3
    <3> QED BY <3>1, <3>2
  <2>5. \A m, n \in unanswered' : m.id = n.id => m = n
    BY <1>2, <2>2, <2>3 DEF RequestsAgree
  <2>6. ASSUME NEW i \in PacketIds
        PROVE  Request("PUBREL", i) \in unanswered' <=>
                 \E r \in RecordsIn(records') : r.id = i /\ r.state = "PubCompPending"
    <3>1. Request("PUBREL", i) \in unanswered' <=> Request("PUBREL", i) \in unanswered
      BY <2>3 DEF Request
    <3>2. \A r : r.state = "PubCompPending" => (r \in RecordsIn(records') <=> r \in RecordsIn(records))
      BY <1>4 DEF MoreRecords, RelStates
    <3> QED BY <1>2, <3>1, <3>2 DEF RequestsAgree
  <2> QED BY <2>4, <2>5, <2>6 DEF RequestsAgree
<1>8. LoopOK'
  <2>1. ASSUME NEW t \in Awaiting' PROVE AskedOrSkipped(t)'
    <3>1. CASE t = s
      <4>1. Request(type, id).id = id /\ Request(type, id).kind \in AnswerTo(type)
        BY DEF Request, AnswerTo
      <4> QED BY <1>1, <3>1, <4>1 DEF AskedOrSkipped, IsOutstanding, TypeAt
    <3>2. CASE t # s
      <4>1. t \in Awaiting /\ AskedOrSkipped(t)
        BY <1>1, <1>2, <2>1, <3>2 DEF LoopOK
      <4> QED BY <1>1, <4>1 DEF AskedOrSkipped, IsOutstanding, TypeAt
    <3> QED BY <3>1, <3>2
  <2> QED BY <2>1 DEF LoopOK
<1> QED BY <1>3, <1>5, <1>6, <1>7, <1>8 DEF Agreement, Asked, Tables, MoreRecords, Gains

(* Fewer records, but those of the operations that stay.                   *)
FewerRecords(id) ==
  /\ SoundArray(records', MaxAcks, PacketIds)
  /\ RecordsIn(records') \subseteq RecordsIn(records)
  /\ \A r \in RecordsIn(records) \ RecordsIn(records') : r.id = id

(* The last acknowledgment of an operation.                                *)
LEMMA AnswerAgrees ==
  ASSUME IInv, Agreement, NEW m \in unanswered, m.kind # "PUBLISH_QOS2",
         NEW s \in Awaiting, pending[s].id = m.id, m.kind \in AnswerTo(TypeAt(s)), Loses(s),
         FewerRecords(m.id),
         m.kind \in Subscriptions \/ \A r \in RecordsIn(records') : r.id # m.id,
         unanswered' = unanswered \ {m}, skipped' = skipped,
         task = "loop", task' = "loop"
  PROVE  Agreement'
<1>1. /\ \A t \in Awaiting' : /\ t \in Awaiting /\ t # s /\ pending[t].id # m.id
                              /\ pending'[t].id = pending[t].id /\ TypeAt(t)' = TypeAt(t)
      /\ Awaiting' = Awaiting \ {s}
  <2>1. \A t \in Awaiting : t \in Slots /\ pending[t].id # NoId
    BY DEF Awaiting
  <2> QED BY <2>1 DEF Loses, SameEntries, Agreement, Tables, IdsApart
<1>2. Looping /\ Serving /\ ~Stopping /\ RequestsAgree /\ LoopOK /\ Looping' /\ Serving'
  BY DEF Agreement, Asked, Looping, Serving, Stopping
<1>3. RecordsAgree'
  <2>1. \A t \in Awaiting : TypeAt(t) \in Publishes => Recorded(t)
    BY DEF Agreement, Tables, RecordsAgree
  <2>2. ASSUME NEW t \in Awaiting', TypeAt(t)' \in Publishes PROVE Recorded(t)'
    BY <1>1, <2>1, <2>2 DEF Recorded, FewerRecords
  <2> QED BY <2>2 DEF RecordsAgree
<1>4. \A r \in RecordsIn(records) : r.state \in RelStates =>
        \E t \in Awaiting : pending[t].id = r.id /\ TypeAt(t) = "PUBLISH_QOS2"
  BY <1>2 DEF Agreement, Tables, ReleasedIsAwaited
<1>5. \A r \in RecordsIn(records') : r.state \in RelStates => r.id # m.id
  <2>1. CASE \A r \in RecordsIn(records') : r.id # m.id
    BY <2>1
  <2>2. CASE m.kind \in Subscriptions
    <3>1. TypeAt(s) # "PUBLISH_QOS2"
      BY <2>2 DEF AnswerTo, Subscriptions
    <3>2. \A t \in Awaiting : pending[t].id = m.id => t = s
      BY <1>1
    <3>3. RecordsIn(records') \subseteq RecordsIn(records)
      BY DEF FewerRecords
    <3> QED BY <1>4, <3>1, <3>2, <3>3
  <2> QED BY <2>1, <2>2
<1>6. ReleasedIsAwaited'
  <2>1. ASSUME NEW r \in RecordsIn(records'), r.state \in RelStates
        PROVE  \E t \in Awaiting' : pending'[t].id = r.id /\ TypeAt(t)' = "PUBLISH_QOS2"
    <3>1. PICK t \in Awaiting : pending[t].id = r.id /\ TypeAt(t) = "PUBLISH_QOS2"
      BY <1>4, <2>1 DEF FewerRecords
    <3>2. t \in Awaiting'
      BY <1>1, <1>5, <2>1, <3>1
    <3> QED BY <1>1, <3>1, <3>2
  <2> QED BY <2>1 DEF ReleasedIsAwaited
<1>7. RelSendEnds'
  <2>1. \A r \in RecordsIn(records) : r.state # "PubRelSend"
    BY DEF Agreement, Tables, RelSendEnds
  <2> QED BY <2>1 DEF RelSendEnds, FewerRecords
<1>8. RequestsAgree'
  <2>1. ASSUME NEW n \in unanswered'
        PROVE  \E t \in Awaiting' : pending'[t].id = n.id /\ n.kind \in AnswerTo(TypeAt(t)')
    <3>1. PICK t \in Awaiting : pending[t].id = n.id /\ n.kind \in AnswerTo(TypeAt(t))
      BY <1>2, <2>1 DEF RequestsAgree
    <3>2. n.id # m.id
      BY <1>2, <2>1 DEF RequestsAgree
    <3>3. t \in Awaiting'
      BY <1>1, <3>1, <3>2
    <3> QED BY <1>1, <3>1, <3>3
  <2>2. \A n, k \in unanswered' : n.id = k.id => n = k
    BY <1>2 DEF RequestsAgree
  <2>3. ASSUME NEW i \in PacketIds
        PROVE  Request("PUBREL", i) \in unanswered' <=>
                 \E r \in RecordsIn(records') : r.id = i /\ r.state = "PubCompPending"
    <3>1. CASE i = m.id
      <4>1. \A n \in unanswered' : n.id # m.id
        BY <1>2 DEF RequestsAgree
      <4> QED BY <1>5, <3>1, <4>1 DEF Request, RelStates
    <3>2. CASE i # m.id
      <4>1. Request("PUBREL", i) \in unanswered' <=> Request("PUBREL", i) \in unanswered
        BY <3>2 DEF Request
      <4>2. \A r : r.id = i => (r \in RecordsIn(records') <=> r \in RecordsIn(records))
        BY <3>2 DEF FewerRecords
      <4> QED BY <1>2, <4>1, <4>2 DEF RequestsAgree
    <3> QED BY <3>1, <3>2
  <2> QED BY <2>1, <2>2, <2>3 DEF RequestsAgree
<1>9. LoopOK'
  <2>1. ASSUME NEW t \in Awaiting' PROVE AskedOrSkipped(t)'
    <3>1. AskedOrSkipped(t) /\ pending[t].id # m.id /\ pending'[t].id = pending[t].id
          /\ TypeAt(t)' = TypeAt(t)
      BY <1>1, <1>2, <2>1 DEF LoopOK
    <3> QED BY <3>1 DEF AskedOrSkipped, IsOutstanding, TypeAt
  <2> QED BY <2>1 DEF LoopOK
<1> QED BY <1>2, <1>3, <1>6, <1>7, <1>8, <1>9 DEF Agreement, Asked, Tables, FewerRecords, Loses

(* A PUBREC: the record is that of a publish released, whether or not the  *)
(* PUBREL could be sent.                                                   *)
Released(id, state) ==
  \E r \in RecordsIn(records) :
    /\ r.id = id
    /\ SoundArray(records', MaxAcks, PacketIds)
    /\ RecordsIn(records') = (RecordsIn(records) \ {r}) \cup {Record(id, 2, state)}

LEMMA ReleasedTables ==
  ASSUME IInv, Agreement, NEW s \in Awaiting, TypeAt(s) = "PUBLISH_QOS2", Keeps,
         NEW state \in RelStates, Released(pending[s].id, state),
         task = "loop", state = "PubRelSend" => task' = "ended"
  PROVE  Tables'
<1>1. PICK r \in RecordsIn(records) :
        /\ r.id = pending[s].id
        /\ SoundArray(records', MaxAcks, PacketIds)
        /\ RecordsIn(records') = (RecordsIn(records) \ {r}) \cup {Record(pending[s].id, 2, state)}
  BY DEF Released
<1>2. /\ Record(pending[s].id, 2, state).id = pending[s].id
      /\ Record(pending[s].id, 2, state).qos = 2
      /\ Record(pending[s].id, 2, state).state = state
  BY DEF Record
<1>3. \A t \in Awaiting : pending[t].id = pending[s].id => t = s
  <2>1. \A t \in Awaiting : t \in Slots /\ pending[t].id # NoId
    BY DEF Awaiting
  <2> QED BY <2>1 DEF Agreement, Tables, IdsApart
<1> DEFINE new == Record(pending[s].id, 2, state)
<1> HIDE DEF new
<1>4. RecordsAgree'
  <2>1. \A t \in Awaiting : TypeAt(t) \in Publishes => Recorded(t)
    BY DEF Agreement, Tables, RecordsAgree
  <2>2. ASSUME NEW t \in Awaiting', TypeAt(t)' \in Publishes PROVE Recorded(t)'
    <3>1. t \in Awaiting /\ pending'[t].id = pending[t].id /\ TypeAt(t)' = TypeAt(t)
      BY <2>2 DEF Keeps, SameEntries
    <3>2. CASE t = s
      <4>1. QosOf("PUBLISH_QOS2") = 2 /\ state \in AwaitedStates("PUBLISH_QOS2")
        BY DEF QosOf, AwaitedStates, RelStates
      <4>2. new \in RecordsIn(records') /\ new.id = pending[s].id /\ new.qos = 2 /\ new.state = state
        BY <1>1, <1>2 DEF new
      <4> QED BY <3>1, <3>2, <4>1, <4>2 DEF Recorded
    <3>3. CASE t # s
      <4>1. Recorded(t) /\ pending[t].id # r.id
        BY <1>1, <1>3, <2>1, <2>2, <3>1, <3>3
      <4>2. \A q \in RecordsIn(records) : q.id # r.id => q \in RecordsIn(records')
        BY <1>1
      <4> QED BY <3>1, <4>1, <4>2 DEF Recorded
    <3> QED BY <3>2, <3>3
  <2> QED BY <2>2 DEF RecordsAgree
<1>5. ReleasedIsAwaited'
  <2>1. \A q \in RecordsIn(records) : q.state \in RelStates =>
          \E t \in Awaiting : pending[t].id = q.id /\ TypeAt(t) = "PUBLISH_QOS2"
    BY DEF Agreement, Tables, ReleasedIsAwaited, Stopping
  <2>2. ASSUME NEW q \in RecordsIn(records'), q.state \in RelStates
        PROVE  \E t \in Awaiting : pending[t].id = q.id /\ TypeAt(t) = "PUBLISH_QOS2"
    BY <1>1, <1>2, <2>1, <2>2
  <2> QED BY <2>2 DEF ReleasedIsAwaited, Keeps, SameEntries
<1>6. RelSendEnds'
  <2>1. \A q \in RecordsIn(records) : q.state # "PubRelSend"
    BY DEF Agreement, Tables, RelSendEnds
  <2> QED BY <1>1, <1>2, <2>1 DEF RelSendEnds
<1> QED BY <1>1, <1>4, <1>5, <1>6 DEF Tables, Keeps

LEMMA ReleaseAgrees ==
  ASSUME IInv, Agreement, NEW m \in unanswered, m.kind = "PUBLISH_QOS2",
         NEW s \in Awaiting, pending[s].id = m.id, TypeAt(s) = "PUBLISH_QOS2", Keeps,
         Released(m.id, "PubCompPending"),
         unanswered' = (unanswered \ {m}) \cup {Request("PUBREL", m.id)}, skipped' = skipped,
         task = "loop", task' = "loop"
  PROVE  Agreement'
<1>1. Tables'
  BY ReleasedTables DEF RelStates
<1>2. RequestsAgree /\ LoopOK /\ Looping' /\ Serving' /\ m.id \in PacketIds
  BY Entries DEF Agreement, Asked, Looping, Serving
<1>3. /\ Request("PUBREL", m.id).id = m.id /\ Request("PUBREL", m.id).kind = "PUBREL"
      /\ "PUBREL" \in AnswerTo("PUBLISH_QOS2")
  BY DEF Request, AnswerTo
<1>4. \A n \in unanswered \ {m} : n.id # m.id
  BY <1>2 DEF RequestsAgree
<1>5. \A t \in Awaiting : pending'[t].id = pending[t].id /\ TypeAt(t)' = TypeAt(t) /\ t \in Awaiting'
  BY DEF Keeps, SameEntries
<1>6. RequestsAgree'
  <2>1. ASSUME NEW n \in unanswered'
        PROVE  \E t \in Awaiting' : pending'[t].id = n.id /\ n.kind \in AnswerTo(TypeAt(t)')
    <3>1. \A k \in unanswered : \E t \in Awaiting : pending[t].id = k.id /\ k.kind \in AnswerTo(TypeAt(t))
      BY <1>2 DEF RequestsAgree
    <3>2. CASE n = Request("PUBREL", m.id)
      BY <1>3, <1>5, <3>2
    <3>3. CASE n \in unanswered
      BY <1>5, <3>1, <3>3
    <3> QED BY <2>1, <3>2, <3>3
  <2>2. \A n, k \in unanswered' : n.id = k.id => n = k
    BY <1>2, <1>3, <1>4 DEF RequestsAgree
  <2>3. ASSUME NEW i \in PacketIds
        PROVE  Request("PUBREL", i) \in unanswered' <=>
                 \E r \in RecordsIn(records') : r.id = i /\ r.state = "PubCompPending"
    <3>1. PICK r \in RecordsIn(records) :
            /\ r.id = m.id
            /\ RecordsIn(records') = (RecordsIn(records) \ {r}) \cup {Record(m.id, 2, "PubCompPending")}
      BY DEF Released
    <3>2. CASE i = m.id
      <4>1. Record(m.id, 2, "PubCompPending") \in RecordsIn(records')
        BY <3>1
      <4> QED BY <3>2, <4>1 DEF Record
    <3>3. CASE i # m.id
      <4>1. Request("PUBREL", i) \in unanswered' <=> Request("PUBREL", i) \in unanswered
        BY <3>3 DEF Request
      <4>2. Record(m.id, 2, "PubCompPending").id = m.id
        BY DEF Record
      <4>3. \A q : q.id = i => (q \in RecordsIn(records') <=> q \in RecordsIn(records))
        BY <3>1, <3>3, <4>2
      <4> QED BY <1>2, <4>1, <4>3 DEF RequestsAgree
    <3> QED BY <3>2, <3>3
  <2> QED BY <2>1, <2>2, <2>3 DEF RequestsAgree
<1>7. LoopOK'
  <2>1. ASSUME NEW t \in Awaiting' PROVE AskedOrSkipped(t)'
    <3>1. t \in Awaiting /\ AskedOrSkipped(t)
      BY <1>2, <2>1 DEF LoopOK, Keeps
    <3>2. CASE pending[t].id = m.id
      <4>1. t = s
        <5>1. \A u \in Awaiting : u \in Slots /\ pending[u].id # NoId
          BY DEF Awaiting
        <5> QED BY <3>1, <3>2, <5>1 DEF Agreement, Tables, IdsApart
      <4> QED BY <1>3, <1>5, <4>1 DEF AskedOrSkipped, IsOutstanding, TypeAt
    <3>3. CASE pending[t].id # m.id
      BY <1>5, <3>1, <3>3 DEF AskedOrSkipped, IsOutstanding, TypeAt
    <3> QED BY <3>2, <3>3
  <2> QED BY <2>1 DEF LoopOK
<1> QED BY <1>1, <1>2, <1>6, <1>7 DEF Agreement, Asked

(* An entry is passed, or concluded, in a scan of the list.                *)
LEMMA ScanAgrees ==
  ASSUME IInv, IInv', [Next]_vars, Agreement, stale = NoSlot, ScanEntry
  PROVE  Agreement'
<1>1. /\ cursor \in Slots /\ task' = task /\ cursor' = cursor + 1 /\ failed' = failed /\ pending' = pending
      /\ Unchanged /\ cursor \in Nat /\ Slots \subseteq Nat /\ task \in {"cancelAcks", "clearAcks"}
  <2>1. cursor \in Nat \ {0} /\ cursor <= MaxAcks
    BY DEF ScanEntry, Scanning, IInv, TypeOK
  <2>2. cursor \in Slots /\ Slots \subseteq Nat
    BY ONLY <2>1, SlotsArePlaces
  <2>3. /\ task' = task /\ cursor' = cursor + 1 /\ failed' = failed /\ pending' = pending
        /\ Unchanged /\ task \in {"cancelAcks", "clearAcks"}
    BY DEF ScanEntry, Scanning, Unchanged, recordVars, linkVars
  <2> QED BY <2>1, <2>2, <2>3
<1>2. \/ Keeps /\ (pending[cursor].id = NoId \/ Spared(cursor))
      \/ Loses(cursor) /\ ~Spared(cursor)
  <2>1. CASE pending[cursor].id # NoId /\ ~Spared(cursor)
    <3>1. stale' = cursor
      BY <2>1 DEF ScanEntry, ConcludeEntry
    <3>2. \A s \in Slots : stale' = s => Loses(s)
      BY <1>1, ListLoses DEF Agreement, Tables
    <3> QED BY <1>1, <2>1, <3>1, <3>2
  <2>2. CASE ~ (pending[cursor].id # NoId /\ ~Spared(cursor))
    <3>1. UNCHANGED ackVars
      BY <1>1, <2>2 DEF ScanEntry, ackVars
    <3> QED BY <2>2, <3>1, ListKept DEF Agreement, Tables
  <2> QED BY <2>1, <2>2
<1>3. /\ IdsApart' /\ SoundArray(records, MaxAcks, PacketIds)' /\ RelSendEnds'
      /\ SameEntries /\ Awaiting' \subseteq Awaiting
  <2>1. SameEntries /\ Awaiting' \subseteq Awaiting /\ IdsApart'
    BY <1>2 DEF Keeps, Loses
  <2> QED BY <1>1, <2>1 DEF Agreement, Tables, RelSendEnds, Unchanged
<1>4. RecordsAgree'
  <2>1. CASE task = "clearAcks" /\ ~session
    BY <1>1, <2>1 DEF RecordsAgree, Unchanged
  <2>2. CASE ~ (task = "clearAcks" /\ ~session)
    <3>1. \A s \in Awaiting : TypeAt(s) \in Publishes => Recorded(s)
      BY <2>2 DEF Agreement, Tables, RecordsAgree
    <3>2. ASSUME NEW s \in Awaiting', TypeAt(s)' \in Publishes PROVE Recorded(s)'
      BY <1>1, <1>3, <3>1, <3>2 DEF SameEntries, Recorded, Unchanged
    <3> QED BY <3>2 DEF RecordsAgree
  <2> QED BY <2>1, <2>2
<1>5. CASE task = "cancelAcks"
  <2>1. ReleasedIsAwaited' /\ ~Serving'
    BY <1>1, <1>5 DEF ReleasedIsAwaited, Stopping, Serving, Looping
  <2> QED BY <1>3, <1>4, <2>1, TablesSuffice DEF Tables
<1>6. CASE task = "clearAcks"
  <2>1. RequestsAgree /\ ClearOK /\ ~Stopping
    BY <1>6 DEF Agreement, Asked, Serving, Stopping
  <2>2. \A s \in Awaiting : s = cursor => (s \in Awaiting' <=> Spared(s))
    <3>1. \A s \in Awaiting : pending[s].id # NoId
      BY DEF Awaiting
    <3> QED BY <1>2, <3>1 DEF Keeps, Loses
  <2>3. \A s \in Awaiting : s # cursor => s \in Awaiting'
    BY <1>2 DEF Keeps, Loses
  <2>4. \A s \in Awaiting : Spared(s) <=> session /\ TypeAt(s) \in Publishes
    <3>1. \A s \in Awaiting : TypeAt(s) \in AckedTypes
      BY Entries
    <3> QED BY <1>6, <3>1 DEF Spared, TypeAt, AckedTypes, Publishes, Subscriptions
  <2>5. \A s \in Awaiting : session /\ TypeAt(s) = "PUBLISH_QOS2" => s \in Awaiting'
    BY <2>2, <2>3, <2>4 DEF Publishes
  <2>6. ReleasedIsAwaited'
    <3>1. ASSUME NEW r \in RecordsIn(records'), r.state \in RelStates
          PROVE  \E t \in Awaiting' : pending'[t].id = r.id /\ TypeAt(t)' = "PUBLISH_QOS2"
      <4>1. r \in RecordsIn(records) /\ session
        BY <1>1, <2>1, <3>1 DEF ClearOK, Unchanged
      <4>2. PICK t \in Awaiting : pending[t].id = r.id /\ TypeAt(t) = "PUBLISH_QOS2"
        BY <2>1, <3>1, <4>1 DEF Agreement, Tables, ReleasedIsAwaited
      <4> QED BY <1>3, <2>5, <4>1, <4>2 DEF SameEntries
    <3> QED BY <3>1 DEF ReleasedIsAwaited
  <2>7. RequestsAgree'
    <3>1. ASSUME NEW n \in unanswered'
          PROVE  \E t \in Awaiting' : pending'[t].id = n.id /\ n.kind \in AnswerTo(TypeAt(t)')
      <4>1. n \in unanswered /\ session /\ n.kind = "PUBREL"
        BY <1>1, <2>1, <3>1 DEF ClearOK, Unchanged
      <4>2. PICK t \in Awaiting : pending[t].id = n.id /\ n.kind \in AnswerTo(TypeAt(t))
        BY <2>1, <4>1 DEF RequestsAgree
      <4>3. TypeAt(t) = "PUBLISH_QOS2"
        <5>1. TypeAt(t) \in AckedTypes
          BY Entries
        <5> QED BY <4>1, <4>2, <5>1 DEF AnswerTo, AckedTypes, Publishes, Subscriptions
      <4> QED BY <1>3, <2>5, <4>1, <4>2, <4>3 DEF SameEntries
    <3>2. records' = records /\ unanswered' = unanswered
      BY <1>1 DEF Unchanged
    <3> QED BY <2>1, <3>1, <3>2 DEF RequestsAgree
  <2>8. ClearOK'
    <3>1. ASSUME NEW s \in Awaiting', s < cursor' PROVE session' /\ TypeAt(s)' \in Publishes
      <4>1. s \in Awaiting /\ s \in Slots /\ TypeAt(s)' = TypeAt(s) /\ session' = session
        BY <1>1, <1>3, <3>1 DEF SameEntries, Unchanged, Awaiting
      <4>2. s < cursor \/ s = cursor
        BY <1>1, <3>1, <4>1
      <4>3. CASE s < cursor
        BY <2>1, <4>1, <4>3 DEF ClearOK
      <4>4. CASE s = cursor
        BY <2>2, <2>4, <3>1, <4>1, <4>4
      <4> QED BY <4>2, <4>3, <4>4
    <3> QED BY <1>1, <2>1, <3>1 DEF ClearOK, Unchanged
  <2>9. task' = "clearAcks" /\ ~Looping'
    BY <1>1, <1>6 DEF Looping
  <2> QED BY <1>3, <1>4, <2>6, <2>7, <2>8, <2>9 DEF Agreement, Asked, Tables
<1> QED BY <1>1, <1>5, <1>6

(* The records and the requests of a new connection.                       *)
LEMMA ResumedRecords ==
  ASSUME IInv, Agreement, NEW present \in BOOLEAN, SessionResumed(present)
  PROVE  /\ SoundArray(records', MaxAcks, PacketIds)
         /\ ~present => RecordsIn(records') = {} /\ unanswered' = {}
         /\ present => /\ RecordsIn(records') = {IF r.state \in RelStates
                                                   THEN Record(r.id, r.qos, "PubCompPending")
                                                   ELSE r : r \in RecordsIn(records)}
                       /\ unanswered' = {Request("PUBREL", r.id) :
                                           r \in {q \in RecordsIn(records) : q.state \in RelStates}}
         /\ skipped' = {}
<1>1. MaxAcks \in Nat /\ Slots = 1 .. MaxAcks /\ NoId \notin PacketIds
      /\ SoundArray(records, MaxAcks, PacketIds)
  BY SlotsArePlaces DEF NoId, PacketIds, Agreement, Tables
<1>2. /\ Used(records) \subseteq Slots
      /\ \A p \in Slots : p \notin Used(records) => records[p] = NoRecord
      /\ \A p \in Used(records) : /\ records[p] \in RecordValues(PacketIds)
                                  /\ records[p].id \in PacketIds /\ records[p].id # NoId
                                  /\ records[p] = Record(records[p].id, records[p].qos, records[p].state)
      /\ \A p, q \in Used(records) : records[p].id = records[q].id => p = q
  <2>1. /\ records \in [Slots -> RecordValues(PacketIds)] /\ Used(records) \subseteq Slots
        /\ \A p \in Slots : p \notin Used(records) => records[p] = NoRecord
        /\ \A p \in Used(records) : /\ records[p].id \in PacketIds
                                    /\ records[p] = Record(records[p].id, records[p].qos, records[p].state)
    BY <1>1, SoundRecords
  <2> QED BY <1>1, <2>1 DEF SoundArray, Used
<1>3. CASE ~present
  <2>1. records' = [p \in Slots |-> NoRecord] /\ unanswered' = {} /\ skipped' = {}
    BY <1>3 DEF SessionResumed
  <2>2. NoRecord \in RecordValues(PacketIds) /\ NoRecord.id = NoId
    BY DEF RecordValues, NoRecord
  <2>3. Used(records') = {}
    BY <2>1, <2>2 DEF Used
  <2>4. RecordsIn(records') = {}
    BY <2>3 DEF RecordsIn
  <2>5. SoundArray(records', MaxAcks, PacketIds)
    BY <1>1, <2>1, <2>2, <2>3 DEF SoundArray
  <2> QED BY <1>3, <2>1, <2>4, <2>5
<1>4. CASE present
  <2> DEFINE Resumed(r) == IF r.state \in RelStates THEN Record(r.id, r.qos, "PubCompPending") ELSE r
  <2>1. \A p \in Slots : records'[p] = IF records[p].state \in RelStates
                                         THEN [records[p] EXCEPT !.state = "PubCompPending"]
                                         ELSE records[p]
    BY <1>4 DEF SessionResumed
  <2>2. DOMAIN records' = Slots /\ skipped' = {} /\ records' = [p \in Slots |-> records'[p]]
    BY <1>4 DEF SessionResumed
  <2>3. \A p \in Used(records) : records'[p] = Resumed(records[p])
    <3>1. \A i, q, state : [Record(i, q, state) EXCEPT !.state = "PubCompPending"]
                               = Record(i, q, "PubCompPending")
      BY DEF Record
    <3>2. ASSUME NEW p \in Used(records)
          PROVE  [records[p] EXCEPT !.state = "PubCompPending"]
                   = Record(records[p].id, records[p].qos, "PubCompPending")
      <4>1. records[p] = Record(records[p].id, records[p].qos, records[p].state)
        BY <1>2
      <4> QED BY <3>1, <4>1
    <3>3. ASSUME NEW p \in Used(records) PROVE records'[p] = Resumed(records[p])
      <4>1. p \in Slots
        BY <1>2
      <4> QED BY <2>1, <3>2, <4>1
    <3> QED BY <3>3
  <2>4. \A p \in Slots \ Used(records) : records'[p] = NoRecord
    <3>1. NoRecord.state \notin RelStates
      BY DEF NoRecord, RelStates
    <3>2. ASSUME NEW p \in Slots, p \notin Used(records) PROVE records'[p] = NoRecord
      <4>1. records[p] = NoRecord
        BY <1>2, <3>2
      <4> QED BY ONLY <2>1, <3>1, <3>2, <4>1
    <3> QED BY <3>2
  <2>5. \A p \in Used(records) : /\ Resumed(records[p]).id = records[p].id
                                 /\ Resumed(records[p]) \in RecordValues(PacketIds)
    <3>1. ASSUME NEW p \in Used(records) PROVE Resumed(records[p]).id = records[p].id
      BY DEF Record
    <3>2. ASSUME NEW p \in Used(records) PROVE Resumed(records[p]) \in RecordValues(PacketIds)
      <4>1. records[p].qos \in {1, 2}
        BY <1>1, SoundRecords
      <4> QED BY <1>2, <4>1 DEF Record, RecordValues, RelStates
    <3> QED BY <3>1, <3>2
  <2> HIDE DEF Resumed
  <2>6. NoRecord \in RecordValues(PacketIds) /\ NoRecord.id = NoId
    BY DEF RecordValues, NoRecord
  <2>7. records' \in [Slots -> RecordValues(PacketIds)]
    <3>1. \A p \in Slots : records'[p] \in RecordValues(PacketIds)
      BY <2>3, <2>4, <2>5, <2>6
    <3> QED BY <2>2, <3>1
  <2>8. Used(records') = Used(records)
    BY <1>2, <2>2, <2>3, <2>4, <2>5, <2>6 DEF Used
  <2>9. SoundArray(records', MaxAcks, PacketIds)
    BY <1>1, <1>2, <2>3, <2>5, <2>7, <2>8 DEF SoundArray
  <2>10. RecordsIn(records') = {Resumed(r) : r \in RecordsIn(records)}
    BY <2>3, <2>8 DEF RecordsIn
  <2>11. unanswered' = {Request("PUBREL", r.id) :
                           r \in {q \in RecordsIn(records) : q.state \in RelStates}}
    <3>1. unanswered' = {Request("PUBREL", records[p].id) :
                           p \in {p \in Slots : records[p].state \in RelStates}}
      BY <1>4 DEF SessionResumed
    <3>2. \A p \in Slots : records[p].state \in RelStates => p \in Used(records)
      BY <1>2 DEF NoRecord, RelStates
    <3> QED BY <1>2, <3>1, <3>2 DEF RecordsIn
  <2> QED BY <1>4, <2>2, <2>9, <2>10, <2>11 DEF Resumed
<1> QED BY <1>3, <1>4

LEMMA ReconnectAgrees ==
  ASSUME IInv, IInv', [Next]_vars, Agreement, NEW present \in BOOLEAN, Reconnect(present)
  PROVE  Agreement'
<1>1. /\ task = "ended" /\ failed /\ ~Stopping /\ task' = "clearAcks" /\ session' = present /\ cursor' = 1
      /\ SessionResumed(present) /\ UNCHANGED ackVars
  BY DEF Reconnect, Goto, Stopping
<1>2. Keeps
  BY <1>1, ListKept DEF Agreement, Tables
<1>3. \A s \in Awaiting : pending'[s].id = pending[s].id /\ TypeAt(s)' = TypeAt(s) /\ s \in Awaiting'
  BY <1>2 DEF Keeps, SameEntries
<1>4. /\ \A s \in Awaiting : TypeAt(s) \in Publishes => Recorded(s)
      /\ \A r \in RecordsIn(records) : r.state \in RelStates =>
           \E s \in Awaiting : pending[s].id = r.id /\ TypeAt(s) = "PUBLISH_QOS2"
      /\ \A q, r \in RecordsIn(records) : q.id = r.id => q = r
  <2>1. MaxAcks \in Nat /\ NoId \notin PacketIds /\ SoundArray(records, MaxAcks, PacketIds)
    BY SlotsArePlaces DEF NoId, PacketIds, Agreement, Tables
  <2>2. \A q, r \in RecordsIn(records) : q.id = r.id => q = r
    BY <2>1, SoundRecords
  <2> QED BY <1>1, <2>2 DEF Agreement, Tables, RecordsAgree, ReleasedIsAwaited
<1> DEFINE Resumed(r) == IF r.state \in RelStates THEN Record(r.id, r.qos, "PubCompPending") ELSE r
<1>5. /\ SoundArray(records', MaxAcks, PacketIds)
      /\ ~present => RecordsIn(records') = {} /\ unanswered' = {}
      /\ present => /\ RecordsIn(records') = {Resumed(r) : r \in RecordsIn(records)}
                    /\ unanswered' = {Request("PUBREL", r.id) :
                                        r \in {q \in RecordsIn(records) : q.state \in RelStates}}
  BY <1>1, ResumedRecords
<1>6. ASSUME NEW r \in RecordsIn(records), NEW q, q = Resumed(r)
      PROVE  /\ q.id = r.id
             /\ q.state \in RelStates <=> r.state \in RelStates
             /\ q.state = "PubCompPending" <=> r.state \in RelStates
             /\ q.state # "PubRelSend"
             /\ r.qos = q.qos
             /\ r.state \in RelStates \/ q = r
  BY <1>6 DEF Record, RelStates
<1> HIDE DEF Resumed
<1>7. \A q \in RecordsIn(records') : present /\ \E r \in RecordsIn(records) : q = Resumed(r)
  BY <1>5
<1>8. RelSendEnds'
  BY <1>6, <1>7 DEF RelSendEnds
<1>9. RecordsAgree'
  <2>1. CASE ~present
    BY <1>1, <2>1 DEF RecordsAgree
  <2>2. CASE present
    <3>1. ASSUME NEW s \in Awaiting', TypeAt(s)' \in Publishes PROVE Recorded(s)'
      <4>1. s \in Awaiting /\ pending'[s].id = pending[s].id /\ TypeAt(s)' = TypeAt(s)
        BY <1>2, <3>1 DEF Keeps, SameEntries
      <4>2. PICK r \in RecordsIn(records) : /\ r.id = pending[s].id /\ r.qos = QosOf(TypeAt(s))
                                            /\ r.state \in AwaitedStates(TypeAt(s))
        BY <1>4, <3>1, <4>1 DEF Recorded
      <4>3. Resumed(r) \in RecordsIn(records')
        BY <1>5, <2>2
      <4>4. Resumed(r).state \in AwaitedStates(TypeAt(s))
        <5>1. CASE r.state \in RelStates
          <6>1. Resumed(r).state = "PubCompPending"
            BY <1>6, <5>1
          <6> QED BY <4>2, <5>1, <6>1 DEF AwaitedStates, RelStates
        <5>2. CASE r.state \notin RelStates
          BY <1>6, <4>2, <5>2
        <5> QED BY <5>1, <5>2
      <4>5. Resumed(r).id = pending[s].id /\ Resumed(r).qos = QosOf(TypeAt(s))
        BY <1>6, <4>2
      <4> QED BY <4>1, <4>3, <4>4, <4>5 DEF Recorded
    <3> QED BY <3>1 DEF RecordsAgree
  <2> QED BY <2>1, <2>2
<1>10. ReleasedIsAwaited'
  <2>1. ASSUME NEW q \in RecordsIn(records'), q.state \in RelStates
        PROVE  \E s \in Awaiting' : pending'[s].id = q.id /\ TypeAt(s)' = "PUBLISH_QOS2"
    <3>1. PICK r \in RecordsIn(records) : q = Resumed(r)
      BY <1>7, <2>1
    <3>2. r.state \in RelStates /\ q.id = r.id
      BY <1>6, <2>1, <3>1
    <3> QED BY <1>3, <1>4, <3>2
  <2> QED BY <2>1 DEF ReleasedIsAwaited
<1>11. RequestsAgree'
  <2>1. \A n \in unanswered' : \E r \in RecordsIn(records) :
          r.state \in RelStates /\ n = Request("PUBREL", r.id) /\ n.id = r.id /\ n.kind = "PUBREL"
    BY <1>5 DEF Request
  <2>2. ASSUME NEW n \in unanswered'
        PROVE  \E s \in Awaiting' : pending'[s].id = n.id /\ n.kind \in AnswerTo(TypeAt(s)')
    <3>1. PICK s \in Awaiting : pending[s].id = n.id /\ TypeAt(s) = "PUBLISH_QOS2"
      BY <1>4, <2>1, <2>2
    <3>2. n.kind \in AnswerTo("PUBLISH_QOS2")
      BY <2>1, <2>2 DEF AnswerTo
    <3> QED BY <1>3, <3>1, <3>2
  <2>3. \A n, k \in unanswered' : n.id = k.id => n = k
    BY <2>1
  <2>4. ASSUME NEW i \in PacketIds
        PROVE  Request("PUBREL", i) \in unanswered' <=>
                 \E q \in RecordsIn(records') : q.id = i /\ q.state = "PubCompPending"
    <3>1. CASE ~present
      BY <1>5, <3>1
    <3>2. CASE present
      <4>1. Request("PUBREL", i).id = i
        BY DEF Request
      <4>2. Request("PUBREL", i) \in unanswered' <=>
              \E r \in RecordsIn(records) : r.state \in RelStates /\ r.id = i
        BY <1>5, <2>1, <3>2, <4>1
      <4>3. (\E q \in RecordsIn(records') : q.id = i /\ q.state = "PubCompPending") <=>
              \E r \in RecordsIn(records) : r.state \in RelStates /\ r.id = i
        BY <1>5, <1>6, <3>2
      <4> QED BY <4>2, <4>3
    <3> QED BY <3>1, <3>2
  <2> QED BY <2>2, <2>3, <2>4 DEF RequestsAgree
<1>12. ClearOK'
  <2>1. \A s \in Awaiting' : ~ (s < cursor')
    BY <1>1, <1>2, SlotsArePlaces DEF Keeps, Awaiting
  <2>2. present => \A n \in unanswered' : n.kind = "PUBREL"
    BY <1>5 DEF Request
  <2> QED BY <1>1, <1>5, <2>1, <2>2 DEF ClearOK
<1> QED BY <1>1, <1>2, <1>5, <1>8, <1>9, <1>10, <1>11, <1>12
    DEF Agreement, Asked, Tables, Keeps, Looping

(* The list is cleared: either nothing is awaited, or the publishes of a   *)
(* resumed session, whose records say which of them is to be sent again.   *)
LEMMA ClearedAgrees ==
  ASSUME IInv, IInv', [Next]_vars, Agreement, ClearAcksDone
  PROVE  Agreement'
<1>1. /\ task = "clearAcks" /\ cursor > MaxAcks /\ cursor' = 1
      /\ task' = IF session THEN "resend" ELSE IF Subscribed THEN "resubscribe" ELSE "receive"
      /\ UNCHANGED ackVars /\ UNCHANGED <<records, skipped, unanswered>>
  BY DEF ClearAcksDone, Goto, mqttVars, recordVars
<1>2. Keeps /\ RequestsAgree /\ ClearOK
  BY <1>1, ListKept DEF Agreement, Tables, Asked, Serving
<1>3. \A s \in Awaiting : session /\ TypeAt(s) \in Publishes
  <2>1. MaxAcks \in Nat /\ \A s \in Awaiting : s \in Nat /\ s <= MaxAcks
    BY SlotsArePlaces DEF Awaiting
  <2>2. \A s \in Awaiting : s < cursor
    BY <1>1, <2>1 DEF IInv, TypeOK
  <2> QED BY <1>2, <2>2 DEF ClearOK
<1>4. \A s \in Awaiting : Recorded(s)
  BY <1>1, <1>3 DEF Agreement, Tables, RecordsAgree
<1>5. IdsApart' /\ SoundArray(records, MaxAcks, PacketIds)' /\ RelSendEnds'
  BY <1>1, <1>2 DEF Agreement, Tables, RelSendEnds, Keeps
<1>6. \A s \in Awaiting' : s \in Awaiting /\ pending'[s].id = pending[s].id /\ TypeAt(s)' = TypeAt(s)
  BY <1>2 DEF Keeps, SameEntries
<1>7. RecordsAgree'
  <2>1. \A s \in Awaiting' : Recorded(s)'
    BY <1>1, <1>4, <1>6 DEF Recorded
  <2> QED BY <2>1 DEF RecordsAgree
<1>8. ReleasedIsAwaited' /\ RequestsAgree'
  <2>1. ReleasedIsAwaited'
    BY <1>1, <1>2 DEF Agreement, Tables, ReleasedIsAwaited, Keeps, SameEntries, Stopping
  <2>2. RequestsAgree'
    BY <1>1, <1>2, RequestsKept
  <2> QED BY <2>1, <2>2
<1>9. CASE ~session
  <2>1. LoopOK' /\ Looping'
    BY <1>1, <1>2, <1>3, <1>9 DEF LoopOK, Looping, Keeps
  <2> QED BY <1>5, <1>7, <1>8, <2>1 DEF Agreement, Asked, Tables, Looping
<1>10. CASE session
  <2>1. ASSUME NEW s \in Awaiting
        PROVE  IsOutstanding(s) \/ \E p \in Slots : records[p].id = pending[s].id /\ records[p].state \in SendStates
    <3>1. PICK r \in RecordsIn(records) : /\ r.id = pending[s].id
                                          /\ r.state \in AwaitedStates(TypeAt(s))
      BY <1>4, <2>1 DEF Recorded
    <3>2. r.state # "PubRelSend"
      BY <1>1 DEF Agreement, Tables, RelSendEnds
    <3>3. CASE r.state \in SendStates
      <4>1. PICK p \in Used(records) : r = records[p]
        BY DEF RecordsIn
      <4>2. p \in Slots
        BY <4>1 DEF Used, IInv, TypeOK
      <4> QED BY <3>1, <3>3, <4>1, <4>2
    <3>4. CASE r.state \notin SendStates
      <4>1. r.state = "PubCompPending" /\ TypeAt(s) = "PUBLISH_QOS2"
        BY <1>3, <3>1, <3>2, <3>4 DEF AwaitedStates, SendStates, Publishes
      <4>2. Request("PUBREL", pending[s].id) \in unanswered
        BY <1>2, <3>1, <4>1, Entries DEF RequestsAgree
      <4> QED BY <4>1, <4>2 DEF IsOutstanding, Request, AnswerTo, TypeAt
    <3> QED BY <3>3, <3>4
  <2>2. ASSUME NEW s \in Awaiting'
        PROVE  TypeAt(s)' \in Publishes /\ (AskedOrSkipped(s)' \/ ToBeResent(s)')
    <3>1. TypeAt(s)' \in Publishes
      BY <1>3, <1>6, <2>2
    <3>2. CASE IsOutstanding(s)
      <4>1. s \in Awaiting /\ AskedOrSkipped(s)
        BY <1>6, <2>2, <3>2 DEF AskedOrSkipped
      <4>2. AskedOrSkipped(s)'
        BY <1>1, <1>2, <4>1, AskedKept
      <4> QED BY <3>1, <4>2
    <3>3. ASSUME NEW p \in Slots, records[p].id = pending[s].id, records[p].state \in SendStates
          PROVE  ToBeResent(s)'
      <4>1. 1 <= p
        BY SlotsArePlaces
      <4> QED BY <1>1, <1>6, <2>2, <3>3, <4>1 DEF ToBeResent
    <3> QED BY <1>6, <2>1, <2>2, <3>1, <3>2, <3>3
  <2>3. task' = "resend" /\ ResendOK' /\ ~Looping'
    BY <1>1, <1>10, <2>2 DEF ResendOK, Looping
  <2> QED BY <1>5, <1>7, <1>8, <2>3 DEF Agreement, Asked, Tables
<1> QED BY <1>9, <1>10

(* The cursor has passed all records.                                      *)
LEMMA ResentAgrees ==
  ASSUME IInv, IInv', [Next]_vars, Agreement, ResendDone
  PROVE  Agreement'
<1>1. /\ task = "resend" /\ cursor > MaxAcks /\ task' = "receive"
      /\ UNCHANGED ackVars /\ UNCHANGED <<records, skipped, unanswered>>
  BY DEF ResendDone, Goto, mqttVars, recordVars, linkVars
<1>2. Keeps /\ RequestsAgree /\ ResendOK
  BY <1>1, ListKept DEF Agreement, Tables, Asked, Serving
<1>3. Tables'
  <2>1. RelSendEnds' /\ ~Stopping
    BY <1>1 DEF Agreement, Tables, RelSendEnds, Stopping
  <2> QED BY <1>1, <1>2, <2>1, TablesKept DEF Agreement
<1>4. \A s \in Awaiting : AskedOrSkipped(s)
  <2>1. MaxAcks \in Nat /\ \A p \in Slots : p \in Nat /\ p <= MaxAcks
    BY SlotsArePlaces
  <2>2. \A p \in Slots : ~ (cursor <= p)
    BY <1>1, <2>1 DEF IInv, TypeOK
  <2> QED BY <1>2, <2>2 DEF ResendOK, ToBeResent
<1>5. LoopOK'
  <2>1. ASSUME NEW s \in Awaiting' PROVE AskedOrSkipped(s)'
    <3>1. s \in Awaiting /\ AskedOrSkipped(s)
      BY <1>2, <1>4, <2>1 DEF Keeps
    <3> QED BY <1>1, <1>2, <3>1, AskedKept
  <2> QED BY <2>1 DEF LoopOK
<1>6. RequestsAgree'
  BY <1>1, <1>2, RequestsKept
<1> QED BY <1>1, <1>3, <1>5, <1>6 DEF Agreement, Asked

(* The record under the cursor and the operation found for it.             *)
LEMMA ResendFinds ==
  ASSUME IInv, Agreement, task = "resend", cursor \in Slots,
         records[cursor].state \in SendStates, WithId(records[cursor].id) # {}, stale = NoSlot
  PROVE  \E s \in Awaiting :
           /\ s = FirstOf(WithId(records[cursor].id))
           /\ pending[s].id = records[cursor].id
           /\ TypeAt(s) \in Publishes
           /\ records[cursor] \in RecordsIn(records)
           /\ records[cursor] = Record(pending[s].id, QosOf(TypeAt(s)),
                                       CalculateStatePublish("SEND", QosOf(TypeAt(s))))
<1> DEFINE r == records[cursor]
<1>1. MaxAcks \in Nat /\ NoId \notin PacketIds /\ SoundArray(records, MaxAcks, PacketIds)
      /\ Slots = 1 .. MaxAcks
  BY SlotsArePlaces DEF NoId, PacketIds, Agreement, Tables
<1>2. cursor \in Used(records) /\ r \in RecordsIn(records) /\ r.id \in PacketIds
  <2>1. cursor \in Used(records)
    <3>1. \A p \in 1 .. MaxAcks : p \notin Used(records) => records[p] = NoRecord
      BY <1>1, SoundRecords
    <3>2. NoRecord.state \notin SendStates
      BY DEF NoRecord, SendStates
    <3> QED BY <1>1, <3>1, <3>2
  <2>2. r.id \in PacketIds
    BY <1>1, <2>1, SoundRecords
  <2> QED BY <2>1, <2>2 DEF RecordsIn
<1>3. PICK s \in Slots : s = FirstOf(WithId(r.id)) /\ pending[s].id = r.id
  BY FirstSlot DEF WithId
<1>4. s \in Awaiting
  BY <1>1, <1>2, <1>3 DEF Awaiting, NoSlot, Slots
<1>5. TypeAt(s) \in Publishes
  BY <1>4 DEF Agreement, Asked, ResendOK
<1>6. PICK q \in RecordsIn(records) : /\ q.id = r.id /\ q.qos = QosOf(TypeAt(s))
                                      /\ q.state \in AwaitedStates(TypeAt(s))
  BY <1>3, <1>4, <1>5 DEF Agreement, Tables, RecordsAgree, Recorded
<1>7. q = r /\ r = Record(r.id, r.qos, r.state)
  <2>1. \A x, y \in RecordsIn(records) : x.id = y.id => x = y
    BY <1>1, SoundRecords
  <2>2. r = Record(r.id, r.qos, r.state)
    BY <1>1, <1>2, SoundRecords
  <2> QED BY <1>2, <1>6, <2>1, <2>2
<1>8. r.state = CalculateStatePublish("SEND", QosOf(TypeAt(s)))
  BY <1>5, <1>6, <1>7 DEF AwaitedStates, SendStates, CalculateStatePublish, QosOf, Publishes
<1> QED BY <1>2, <1>3, <1>4, <1>5, <1>6, <1>7, <1>8

(* Sending a publish again keeps the records, if not their places.         *)
LEMMA ResentRecords ==
  ASSUME IInv, Agreement, NEW r \in RecordsIn(records), NEW qos, r.qos = qos,
         r.state = CalculateStatePublish("SEND", qos),
         NEW a, a = AddRecord(records, Record(r.id, qos, "PublishSend")).records,
         NEW b, b = UpdateStateSent(a, r.id, qos).records
  PROVE  /\ SoundArray(a, MaxAcks, PacketIds) /\ RecordsIn(a) = RecordsIn(records)
         /\ SoundArray(b, MaxAcks, PacketIds) /\ RecordsIn(b) = RecordsIn(records)
         /\ \A q \in Slots : b[q].id = a[q].id
<1>1. /\ MaxAcks \in Nat \ {0} /\ MaxAcks \in Nat /\ NoId \notin PacketIds
      /\ SoundArray(records, MaxAcks, PacketIds) /\ Slots = 1 .. MaxAcks
  BY ConstantsAssumption DEF NoId, PacketIds, Agreement, Tables, Slots
<1>2. r.id \in PacketIds /\ qos \in {1, 2} /\ r = Record(r.id, qos, r.state)
  <2>1. PICK p \in Used(records) : records[p] = r
    BY DEF RecordsIn
  <2> QED BY <1>1, <2>1, SoundRecords
<1> DEFINE new == Record(r.id, qos, "PublishSend")
<1>3. new \in RecordValues(PacketIds) /\ new.id = r.id
  BY <1>2 DEF Record, RecordValues, SendStates
<1> HIDE DEF new
<1>4. SoundArray(a, MaxAcks, PacketIds) /\ a \in {records, Compact(records)}
  <2>1. \E s \in RecordsIn(records) : s.id = new.id
    BY <1>3
  <2>2. a = AddRecord(records, new).records
    BY DEF new
  <2> QED BY <1>1, <1>2, <1>3, <2>1, <2>2, AddRecords
<1>5. RecordsIn(a) = RecordsIn(records)
  BY <1>1, <1>4, CompactRecords
<1>6. /\ SoundArray(b, MaxAcks, PacketIds)
      /\ RecordsIn(b) = (RecordsIn(a) \ {r}) \cup {Record(r.id, r.qos, r.state)}
      /\ \A q \in 1 .. MaxAcks : b[q].id = a[q].id
  BY <1>1, <1>4, <1>5, SentRecords
<1>7. RecordsIn(b) = RecordsIn(records)
  BY <1>2, <1>5, <1>6
<1> QED BY <1>1, <1>4, <1>5, <1>6, <1>7

(* One step of the resend.                                                 *)
LEMMA ResendAgrees ==
  ASSUME IInv, IInv', [Next]_vars, Agreement, stale = NoSlot,
         NEW sendFails \in BOOLEAN, ResendPublish(sendFails)
  PROVE  Agreement'
<1>1. /\ task = "resend" /\ cursor' = cursor + 1 /\ cursor \in Slots /\ cursor \in Nat
      /\ pending' = pending /\ Slots \subseteq Nat /\ session' = session
  <2>1. task = "resend" /\ cursor' = cursor + 1 /\ pending' = pending /\ session' = session
    BY DEF ResendPublish
  <2>2. cursor \in Nat \ {0} /\ cursor <= MaxAcks
    BY DEF ResendPublish, IInv, TypeOK
  <2>3. cursor \in Slots /\ Slots \subseteq Nat
    BY ONLY <2>2, SlotsArePlaces
  <2> QED BY <2>1, <2>2, <2>3
<1>2. RequestsAgree /\ ResendOK /\ ~Stopping /\ SoundArray(records, MaxAcks, PacketIds)
  BY <1>1 DEF Agreement, Asked, Tables, Serving, Stopping
<1>3. \A s \in Awaiting : TypeAt(s) \in Publishes /\ Recorded(s)
  BY <1>1, <1>2 DEF ResendOK, Agreement, Tables, RecordsAgree
<1>4. /\ \A r \in RecordsIn(records) : r.state \in RelStates =>
           \E s \in Awaiting : pending[s].id = r.id /\ TypeAt(s) = "PUBLISH_QOS2"
      /\ \A r \in RecordsIn(records) : r.state # "PubRelSend"
  BY <1>1, <1>2 DEF Agreement, Tables, ReleasedIsAwaited, RelSendEnds
<1>5. \A x, y \in RecordsIn(records) : x.id = y.id => x = y
  <2>1. MaxAcks \in Nat /\ NoId \notin PacketIds
    BY SlotsArePlaces DEF NoId, PacketIds
  <2> QED BY <1>2, <2>1, SoundRecords
<1>6. \A s \in Awaiting : s \in Slots /\ pending[s].id \in PacketIds
  BY Entries
<1> DEFINE found == records[cursor].state \in SendStates /\ WithId(records[cursor].id) # {}
<1>7. CASE ~found
  <2>1. UNCHANGED ackVars /\ UNCHANGED <<task, records, skipped, unanswered>>
    BY <1>1, <1>7 DEF ResendPublish, recordVars, ackVars
  <2>2. Keeps
    BY <2>1, ListKept DEF Agreement, Tables
  <2>3. Tables'
    <3>1. RelSendEnds'
      BY <1>4, <2>1 DEF RelSendEnds
    <3> QED BY <1>1, <1>2, <2>1, <2>2, <3>1, TablesKept DEF Agreement
  <2>4. RequestsAgree'
    BY <1>2, <2>1, <2>2, RequestsKept
  <2>5. ResendOK'
    <3>1. ASSUME NEW s \in Awaiting'
          PROVE  TypeAt(s)' \in Publishes /\ (AskedOrSkipped(s)' \/ ToBeResent(s)')
      <4>1. s \in Awaiting /\ pending'[s].id = pending[s].id /\ TypeAt(s)' = TypeAt(s)
        BY <2>2, <3>1 DEF Keeps, SameEntries
      <4>2. TypeAt(s) \in Publishes /\ (AskedOrSkipped(s) \/ ToBeResent(s))
        BY <1>2, <4>1 DEF ResendOK
      <4>3. ASSUME ToBeResent(s) PROVE ToBeResent(s)'
        <5>1. PICK p \in Slots : /\ cursor <= p /\ records[p].id = pending[s].id
                                 /\ records[p].state \in SendStates
          BY <4>3 DEF ToBeResent
        <5>2. p # cursor
          <6>1. s \in WithId(records[p].id)
            BY <1>6, <4>1, <5>1 DEF WithId
          <6> QED BY <1>7, <5>1, <6>1
        <5>3. cursor' <= p
          BY <1>1, <5>1, <5>2
        <5> QED BY <2>1, <4>1, <5>1, <5>3 DEF ToBeResent
      <4>4. AskedOrSkipped(s) => AskedOrSkipped(s)'
        BY <2>1, <2>2, <4>1, AskedKept
      <4> QED BY <4>1, <4>2, <4>3, <4>4
    <3> QED BY <3>1 DEF ResendOK
  <2> QED BY <1>1, <2>1, <2>3, <2>4, <2>5 DEF Agreement, Asked, Looping
<1>8. CASE found
  <2>1. PICK slot \in Awaiting :
          /\ slot = FirstOf(WithId(records[cursor].id))
          /\ pending[slot].id = records[cursor].id
          /\ TypeAt(slot) \in Publishes
          /\ records[cursor] \in RecordsIn(records)
          /\ records[cursor] = Record(pending[slot].id, QosOf(TypeAt(slot)),
                                      CalculateStatePublish("SEND", QosOf(TypeAt(slot))))
    BY <1>1, <1>8, ResendFinds
  <2>2. PICK id : id = records[cursor].id
    OBVIOUS
  <2>3. PICK type : type = TypeAt(slot)
    OBVIOUS
  <2>4. PICK a : a = AddRecord(records, Record(id, QosOf(type), "PublishSend")).records
    OBVIOUS
  <2>5. PICK b : b = UpdateStateSent(a, id, QosOf(type)).records
    OBVIOUS
  <2>6. /\ SoundArray(a, MaxAcks, PacketIds) /\ RecordsIn(a) = RecordsIn(records)
        /\ SoundArray(b, MaxAcks, PacketIds) /\ RecordsIn(b) = RecordsIn(records)
        /\ \A q \in Slots : b[q].id = a[q].id
    <3>1. PICK qos : qos = QosOf(type)
      OBVIOUS
    <3>2. PICK r \in RecordsIn(records) :
            r.id = id /\ r.qos = qos /\ r.state = CalculateStatePublish("SEND", qos)
      BY <2>1, <2>2, <2>3, <3>1 DEF Record
    <3>3. a = AddRecord(records, Record(r.id, qos, "PublishSend")).records
          /\ b = UpdateStateSent(a, r.id, qos).records
      BY <2>4, <2>5, <3>1, <3>2
    <3> QED BY <3>2, <3>3, ResentRecords
  <2>7. id \in PacketIds /\ type \in Publishes /\ pending[slot].id = id /\ records[cursor].state \in SendStates
    BY <1>6, <1>8, <2>1, <2>2, <2>3
  <2>8. \A s \in Awaiting : pending[s].id = id => s = slot
    BY <1>6, <2>1, <2>2 DEF Agreement, Tables, IdsApart, PacketIds, NoId
  <2>9. \A r \in RecordsIn(records) : r.id = id => r.state \in SendStates
    BY <1>5, <2>1, <2>2, <2>7
  <2> DEFINE toResend == {p \in Slots : records[p].state \in SendStates /\ WithId(records[p].id) # {}}
             overtaken == {p \in toResend : p > cursor /\ PositionsOf(a, records[p].id) \subseteq 1 .. cursor}
  <2>10. \/ /\ records' = b
            /\ skipped' = skipped \cup {records[p].id : p \in overtaken}
            /\ unanswered' = unanswered \cup {Request(type, id)}
            /\ UNCHANGED <<task, stale>>
         \/ /\ records' = a /\ stale' = slot /\ task' = "failing"
            /\ UNCHANGED <<skipped, unanswered>>
    <3>1. type = command[pending[FirstOf(WithId(id))].cmd].type /\ slot = FirstOf(WithId(id))
      BY <2>1, <2>2, <2>3 DEF TypeAt
    <3>2. cursor \in toResend
      BY <1>1, <1>8
    <3>3. b = UpdateStateSent(a, id, QosOf(command[pending[FirstOf(WithId(id))].cmd].type)).records
          /\ a = AddRecord(records, Record(id, QosOf(command[pending[FirstOf(WithId(id))].cmd].type), "PublishSend")).records
      BY <2>4, <2>5, <3>1
    <3> QED BY <2>2, <3>1, <3>2, <3>3 DEF ResendPublish, ConcludeEntry, Goto
  <2> HIDE DEF toResend
  <2>11. CASE records' = a /\ stale' = slot /\ task' = "failing" /\ UNCHANGED <<skipped, unanswered>>
    <3>1. Loses(slot)
      BY <1>1, <1>6, <2>11, ListLoses DEF Agreement, Tables
    <3>2. \A s \in Awaiting' : s \in Awaiting /\ pending'[s].id = pending[s].id /\ TypeAt(s)' = TypeAt(s)
      BY <3>1 DEF Loses, SameEntries
    <3>3. RecordsAgree'
      <4>1. \A s \in Awaiting' : Recorded(s)'
        BY <1>3, <2>6, <2>11, <3>2 DEF Recorded
      <4> QED BY <4>1 DEF RecordsAgree
    <3>4. ReleasedIsAwaited'
      <4>1. ASSUME NEW r \in RecordsIn(records'), r.state \in RelStates
            PROVE  \E s \in Awaiting' : pending'[s].id = r.id /\ TypeAt(s)' = "PUBLISH_QOS2"
        <5>1. r \in RecordsIn(records)
          BY <2>6, <2>11, <4>1
        <5>2. PICK s \in Awaiting : pending[s].id = r.id /\ TypeAt(s) = "PUBLISH_QOS2"
          BY <1>4, <4>1, <5>1
        <5>3. s # slot
          BY <2>7, <2>9, <4>1, <5>1, <5>2 DEF SendStates, RelStates
        <5>4. s \in Awaiting'
          BY <3>1, <5>3 DEF Loses
        <5> QED BY <3>2, <5>2, <5>4
      <4> QED BY <4>1 DEF ReleasedIsAwaited
    <3>5. RelSendEnds' /\ SoundArray(records, MaxAcks, PacketIds)' /\ IdsApart'
      BY <1>4, <2>6, <2>11, <3>1 DEF RelSendEnds, Loses
    <3>6. ~Serving'
      BY <2>11 DEF Serving, Looping
    <3> QED BY <3>3, <3>4, <3>5, <3>6, TablesSuffice DEF Tables
  <2>12. CASE /\ records' = b
              /\ skipped' = skipped \cup {records[p].id : p \in overtaken}
              /\ unanswered' = unanswered \cup {Request(type, id)}
              /\ UNCHANGED <<task, stale>>
    <3>1. Keeps
      <4>1. UNCHANGED ackVars
        BY <1>1, <2>12 DEF ackVars
      <4> QED BY <4>1, ListKept DEF Agreement, Tables
    <3>2. \A s \in Awaiting' : s \in Awaiting /\ pending'[s].id = pending[s].id /\ TypeAt(s)' = TypeAt(s)
      BY <3>1 DEF Keeps, SameEntries
    <3>3. \A s \in Awaiting : s \in Awaiting' /\ pending'[s].id = pending[s].id /\ TypeAt(s)' = TypeAt(s)
      BY <3>1 DEF Keeps, SameEntries
    <3>4. RecordsIn(records') = RecordsIn(records)
      BY <2>6, <2>12
    <3>5. RecordsAgree'
      <4>1. \A s \in Awaiting' : Recorded(s)'
        BY <1>3, <3>2, <3>4 DEF Recorded
      <4> QED BY <4>1 DEF RecordsAgree
    <3>6. ReleasedIsAwaited' /\ RelSendEnds'
      BY <1>4, <3>3, <3>4 DEF ReleasedIsAwaited, RelSendEnds
    <3>7. /\ Request(type, id).id = id /\ Request(type, id).kind = type /\ type \in AnswerTo(type)
          /\ type # "PUBREL"
      BY <2>7 DEF Request, AnswerTo, Publishes
    <3>8. RequestsAgree'
      <4>1. ASSUME NEW n \in unanswered'
            PROVE  \E s \in Awaiting' : pending'[s].id = n.id /\ n.kind \in AnswerTo(TypeAt(s)')
        <5>1. CASE n \in unanswered
          BY <1>2, <3>3, <5>1 DEF RequestsAgree
        <5>2. CASE n = Request(type, id)
          BY <2>1, <2>3, <2>7, <3>3, <3>7, <5>2
        <5> QED BY <2>12, <4>1, <5>1, <5>2
      <4>2. ASSUME NEW n \in unanswered, n.id = id PROVE n = Request(type, id)
        <5>1. PICK s \in Awaiting : pending[s].id = id /\ n.kind \in AnswerTo(TypeAt(s))
          BY <1>2, <4>2 DEF RequestsAgree
        <5>2. n.kind \in {type, "PUBREL"} /\ n \in Requests
          BY <2>3, <2>8, <4>2, <5>1 DEF AnswerTo, IInv, TypeOK
        <5>3. n = Request(n.kind, id)
          BY <4>2, <5>2 DEF Requests, Request
        <5>4. n.kind # "PUBREL"
          <6>1. Request("PUBREL", id) \in unanswered => \E r \in RecordsIn(records) : r.id = id /\ r.state = "PubCompPending"
            BY <1>2, <2>7 DEF RequestsAgree
          <6> QED BY <2>9, <4>2, <5>3, <6>1 DEF SendStates
        <5> QED BY <5>2, <5>3, <5>4
      <4>3. \A n, k \in unanswered' : n.id = k.id => n = k
        BY <1>2, <2>12, <3>7, <4>2 DEF RequestsAgree
      <4>4. ASSUME NEW i \in PacketIds
            PROVE  Request("PUBREL", i) \in unanswered' <=>
                     \E r \in RecordsIn(records') : r.id = i /\ r.state = "PubCompPending"
        <5>1. Request("PUBREL", i) \in unanswered' <=> Request("PUBREL", i) \in unanswered
          BY <2>12, <3>7 DEF Request
        <5> QED BY <1>2, <3>4, <5>1 DEF RequestsAgree
      <4> QED BY <4>1, <4>3, <4>4 DEF RequestsAgree
    <3>9. ASSUME NEW s \in Awaiting', s # slot, ToBeResent(s)
          PROVE  AskedOrSkipped(s)' \/ ToBeResent(s)'
      <4>1. s \in Awaiting /\ s \in Slots /\ pending'[s].id = pending[s].id
        BY <1>6, <3>2, <3>9
      <4>2. PICK p \in Slots : /\ cursor <= p /\ records[p].id = pending[s].id
                               /\ records[p].state \in SendStates
        BY <3>9 DEF ToBeResent
      <4>3. p > cursor
        <5>1. pending[s].id # id
          BY <2>8, <3>9, <4>1
        <5> QED BY <1>1, <2>2, <4>2, <5>1
      <4>4. p \in toResend
        BY <4>1, <4>2 DEF toResend, WithId
      <4>5. CASE PositionsOf(a, records[p].id) \subseteq 1 .. cursor
        <5>1. p \in overtaken
          BY <4>3, <4>4, <4>5
        <5>2. records[p].id \in skipped'
          BY <2>12, <5>1
        <5> QED BY <4>1, <4>2, <5>2 DEF AskedOrSkipped
      <4>6. CASE ~ (PositionsOf(a, records[p].id) \subseteq 1 .. cursor)
        <5>1. DOMAIN a = Slots /\ DOMAIN b = Slots /\ b \in [Slots -> RecordValues(PacketIds)]
          BY <2>6, SlotsArePlaces DEF SoundArray
        <5>2. PICK q \in Slots : a[q].id = records[p].id /\ q \notin 1 .. cursor
          BY <4>6, <5>1 DEF PositionsOf
        <5>3. cursor' <= q
          <6>1. q \in Nat \ {0}
            BY SlotsArePlaces
          <6> QED BY <1>1, <5>2, <6>1
        <5>4. records'[q].id = pending[s].id
          BY <2>6, <2>12, <4>2, <5>2
        <5>5. records'[q] \in RecordsIn(records)
          <6>1. q \in Used(b)
            BY <1>6, <2>12, <4>1, <5>1, <5>4 DEF Used, PacketIds, NoId
          <6> QED BY <2>6, <2>12, <6>1 DEF RecordsIn
        <5>6. records[p] \in RecordsIn(records)
          <6>1. p \in Used(records)
            BY <1>6, <4>1, <4>2 DEF Used, PacketIds, NoId, IInv, TypeOK
          <6> QED BY <6>1 DEF RecordsIn
        <5>7. records'[q] = records[p]
          BY <1>5, <4>2, <5>4, <5>5, <5>6
        <5> QED BY <4>1, <4>2, <5>3, <5>4, <5>7 DEF ToBeResent
      <4> QED BY <4>5, <4>6
    <3>10. ASSUME NEW s \in Awaiting', AskedOrSkipped(s) \/ s = slot
           PROVE  AskedOrSkipped(s)'
      <4>1. unanswered \subseteq unanswered' /\ skipped \subseteq skipped' /\ Request(type, id) \in unanswered'
        BY <2>12
      <4>2. s \in Awaiting /\ pending'[s].id = pending[s].id /\ TypeAt(s)' = TypeAt(s)
        BY <3>2, <3>10
      <4>3. CASE s = slot
        BY <2>3, <2>7, <3>7, <4>1, <4>2, <4>3 DEF AskedOrSkipped, IsOutstanding, TypeAt
      <4>4. CASE AskedOrSkipped(s)
        BY <4>1, <4>2, <4>4 DEF AskedOrSkipped, IsOutstanding, TypeAt
      <4> QED BY <3>10, <4>3, <4>4
    <3>11. ResendOK'
      <4>1. \A s \in Awaiting' : TypeAt(s)' \in Publishes
        BY <1>3, <3>2
      <4>2. \A s \in Awaiting' : AskedOrSkipped(s)' \/ ToBeResent(s)'
        BY <1>2, <3>2, <3>9, <3>10 DEF ResendOK
      <4> QED BY <4>1, <4>2 DEF ResendOK
    <3>12. task' = "resend" /\ ~Looping' /\ IdsApart' /\ SoundArray(records, MaxAcks, PacketIds)'
      BY <1>1, <2>6, <2>12, <3>1 DEF Looping, Keeps
    <3> QED BY <3>5, <3>6, <3>8, <3>11, <3>12 DEF Agreement, Asked, Tables
  <2> QED BY <2>10, <2>11, <2>12
<1> QED BY <1>7, <1>8

(* addAwaitingOperation: the operation is added, or concluded with an      *)
(* error.                                                                  *)
LEMMA AwaitAckAgrees ==
  ASSUME IInv, IInv', [Next]_vars, Agreement, stale = NoSlot, task = "execute",
         NEW id \in PacketIds, NEW type, type = command[current].type, type \in AckedTypes,
         AwaitAck(id), stale' = stale, skipped' = skipped, MoreRecords(id),
         type \in Publishes =>
           \E r \in RecordsIn(records') : r.id = id /\ r.qos = QosOf(type) /\ r.state \in AwaitedStates(type),
         unanswered' = unanswered \cup {Request(type, id)}
  PROVE  Agreement'
<1>1. CASE WithId(id) = {} /\ FreeSlots # {}
  <2>1. /\ pending' = [pending EXCEPT ![FirstOf(FreeSlots)] = [id |-> id, cmd |-> current]]
        /\ task' = "loop" /\ command' = command
    BY <1>1 DEF AwaitAck, Goto
  <2>2. PICK s \in Slots : Gains(s, id, command[current].type)
    BY <1>1, <2>1, ListGains DEF Agreement, Tables
  <2> QED BY <1>1, <2>1, <2>2, SendingAgrees
<1>2. CASE ~ (WithId(id) = {} /\ FreeSlots # {})
  <2>1. pending' = pending /\ task' = "ended"
    BY <1>2 DEF AwaitAck, ConcludeCurrent, EndLoop, Goto
  <2>2. Keeps
    BY <2>1, ListKept DEF Agreement, Tables, ackVars
  <2> QED BY <2>1, <2>2, SendingFails
<1> QED BY <1>1, <1>2

LEMMA PublishAgrees ==
  ASSUME IInv, IInv', [Next]_vars, Agreement, stale = NoSlot,
         NEW sendFails \in BOOLEAN, ExecutePublish(sendFails)
  PROVE  Agreement'
<1>1. PICK id \in PacketIds : id = nextPacketId
  BY DEF IInv, TypeOK
<1>2. PICK type \in Publishes : type = command[current].type
  BY DEF ExecutePublish, Executing
<1>3. PICK qos \in {1, 2} : qos = QosOf(type)
  BY DEF QosOf
<1>4. PICK reserved : reserved = AddRecord(records, Record(id, qos, "PublishSend"))
  OBVIOUS
<1>5. PICK new : new = Record(id, qos, "PublishSend")
  OBVIOUS
<1>6. /\ MaxAcks \in Nat \ {0} /\ MaxAcks \in Nat /\ NoId \notin PacketIds
      /\ SoundArray(records, MaxAcks, PacketIds)
  BY ConstantsAssumption DEF NoId, PacketIds, Agreement, Tables
<1>7. new \in RecordValues(PacketIds) /\ new.id = id /\ new.qos = qos /\ new.state = "PublishSend"
  BY <1>5 DEF Record, RecordValues, SendStates
<1>8. /\ SoundArray(reserved.records, MaxAcks, PacketIds)
      /\ \/ reserved.status = "Success" /\ RecordsIn(reserved.records) = RecordsIn(records) \cup {new}
         \/ reserved.status # "Success" /\ RecordsIn(reserved.records) = RecordsIn(records)
  BY <1>4, <1>5, <1>6, <1>7, AddRecords
<1>9. task = "execute" /\ skipped' = skipped /\ stale' = stale
  BY DEF ExecutePublish, Executing
<1>10. CASE reserved.status # "Success" \/ sendFails
  <2>1. records' = reserved.records /\ ConcludeCurrent(TRUE) /\ pending' = pending
    BY <1>1, <1>2, <1>3, <1>4, <1>10 DEF ExecutePublish
  <2>2. Keeps /\ task' = "ended"
    BY <1>9, <2>1, ListKept DEF Agreement, Tables, ackVars, ConcludeCurrent, EndLoop, Goto
  <2>3. MoreRecords(id)
    BY <1>7, <1>8, <2>1 DEF MoreRecords, SendStates
  <2> QED BY <1>9, <2>2, <2>3, SendingFails
<1>11. CASE ~ (reserved.status # "Success" \/ sendFails)
  <2>1. PICK b : b = UpdateStateSent(reserved.records, id, qos).records
    OBVIOUS
  <2>2. records' = b /\ unanswered' = unanswered \cup {Request(type, id)} /\ AwaitAck(id)
    BY <1>1, <1>2, <1>3, <1>4, <1>11, <2>1 DEF ExecutePublish
  <2>3. PICK state : state = CalculateStatePublish("SEND", qos)
    OBVIOUS
  <2>4. RecordsIn(reserved.records) = RecordsIn(records) \cup {new}
    BY <1>8, <1>11
  <2>5. /\ SoundArray(b, MaxAcks, PacketIds)
        /\ RecordsIn(b) = (RecordsIn(reserved.records) \ {new}) \cup {Record(id, qos, state)}
    <3>1. PICK a : a = reserved.records
      OBVIOUS
    <3>2. SoundArray(a, MaxAcks, PacketIds) /\ new \in RecordsIn(a) /\ b = UpdateStateSent(a, new.id, new.qos).records
      BY <1>7, <1>8, <2>1, <2>4, <3>1
    <3>3. state = CalculateStatePublish("SEND", new.qos) /\ new.state \in {"PublishSend", state}
      BY <1>7, <2>3
    <3>4. SoundArray(b, MaxAcks, PacketIds) /\ RecordsIn(b) = (RecordsIn(a) \ {new}) \cup {Record(new.id, new.qos, state)}
      BY <1>6, <3>2, <3>3, SentRecords
    <3> QED BY <1>7, <3>1, <3>4
  <2>6. \A r \in RecordsIn(records) : r # new
    <3>1. (\E r \in RecordsIn(records) : r.id = new.id) \/ \A r \in RecordsIn(records) : r.id # new.id
      OBVIOUS
    <3>2. \A r \in RecordsIn(records) : r.id # new.id
      BY <1>4, <1>5, <1>6, <1>7, <1>11, AddRecords
    <3> QED BY <3>2
  <2>7. Record(id, qos, state).id = id /\ Record(id, qos, state).qos = qos /\ Record(id, qos, state).state = state
    BY DEF Record
  <2>8. state \in SendStates /\ state \in AwaitedStates(type)
    BY <1>3, <2>3 DEF SendStates, AwaitedStates, CalculateStatePublish, QosOf
  <2>9. RecordsIn(records') = RecordsIn(records) \cup {Record(id, qos, state)}
    BY <2>2, <2>4, <2>5, <2>6
  <2>10. MoreRecords(id)
    BY <2>2, <2>5, <2>7, <2>8, <2>9 DEF MoreRecords
  <2>11. type \in AckedTypes
    BY DEF AckedTypes
  <2> QED BY <1>2, <1>3, <1>9, <2>2, <2>7, <2>8, <2>9, <2>10, <2>11, AwaitAckAgrees
<1> QED BY <1>10, <1>11

LEMMA SubscriptionAgrees ==
  ASSUME IInv, IInv', [Next]_vars, Agreement, stale = NoSlot,
         NEW sendFails \in BOOLEAN, ExecuteSubscription(sendFails)
  PROVE  Agreement'
<1>1. PICK id \in PacketIds : id = nextPacketId
  BY DEF IInv, TypeOK
<1>2. PICK type \in Subscriptions : type = command[current].type
  BY DEF ExecuteSubscription, Executing
<1>3. task = "execute" /\ skipped' = skipped /\ stale' = stale /\ records' = records
  BY DEF ExecuteSubscription, Executing, recordVars
<1>4. MoreRecords(id)
  BY <1>3 DEF MoreRecords, Agreement, Tables
<1>5. CASE sendFails
  <2>1. ConcludeCurrent(TRUE) /\ pending' = pending
    BY <1>5 DEF ExecuteSubscription
  <2>2. Keeps /\ task' = "ended"
    BY <1>3, <2>1, ListKept DEF Agreement, Tables, ackVars, ConcludeCurrent, EndLoop, Goto
  <2> QED BY <1>3, <1>4, <2>2, SendingFails
<1>6. CASE ~sendFails
  <2>1. unanswered' = unanswered \cup {Request(type, id)} /\ AwaitAck(id)
    BY <1>1, <1>2, <1>6 DEF ExecuteSubscription
  <2>2. type \in AckedTypes /\ type \notin Publishes
    BY DEF AckedTypes, Publishes, Subscriptions
  <2> QED BY <1>2, <1>3, <1>4, <2>1, <2>2, AwaitAckAgrees
<1> QED BY <1>5, <1>6

(* The operation an acknowledgment is for.                                 *)
LEMMA AnswerFinds ==
  ASSUME IInv, Agreement, task = "loop", NEW m \in unanswered
  PROVE  /\ \E s \in Awaiting : /\ pending[s].id = m.id /\ m.kind \in AnswerTo(TypeAt(s))
                                /\ WithId(m.id) # {} /\ FirstOf(WithId(m.id)) = s
         /\ m.id \in PacketIds
<1>1. PICK s \in Awaiting : pending[s].id = m.id /\ m.kind \in AnswerTo(TypeAt(s))
  BY DEF Agreement, Asked, Serving, Looping, RequestsAgree
<1>2. WithId(m.id) # {} /\ FirstOf(WithId(m.id)) = s
  BY <1>1, EntryFound DEF Agreement, Tables
<1> QED BY <1>1, <1>2, Entries

LEMMA AcknowledgeLoses ==
  ASSUME IInv, IInv', [Next]_vars, Agreement, stale = NoSlot, NEW i, NEW s \in Awaiting,
         WithId(i) # {}, FirstOf(WithId(i)) = s, Acknowledge(i), pending' = pending
  PROVE  Loses(s)
<1>1. stale' = s /\ s \in Slots
  BY DEF Acknowledge, ConcludeEntry, Awaiting
<1> QED BY <1>1, ListLoses DEF Agreement, Tables

LEMMA SubAckAgrees ==
  ASSUME IInv, IInv', [Next]_vars, Agreement, stale = NoSlot, NEW m \in unanswered, ReceiveSubAck(m)
  PROVE  Agreement'
<1>1. /\ task = "loop" /\ task' = "loop" /\ m.kind \in Subscriptions /\ unanswered' = unanswered \ {m}
      /\ Acknowledge(m.id) /\ pending' = pending /\ records' = records /\ skipped' = skipped
  BY DEF ReceiveSubAck, taskVars, recordVars
<1>2. PICK s \in Awaiting : /\ pending[s].id = m.id /\ m.kind \in AnswerTo(TypeAt(s))
                            /\ WithId(m.id) # {} /\ FirstOf(WithId(m.id)) = s
  BY <1>1, AnswerFinds
<1>3. Loses(s)
  BY <1>1, <1>2, AcknowledgeLoses
<1>4. FewerRecords(m.id)
  BY <1>1 DEF FewerRecords, Agreement, Tables
<1>5. m.kind # "PUBLISH_QOS2"
  BY <1>1 DEF Subscriptions
<1> QED BY <1>1, <1>2, <1>3, <1>4, <1>5, AnswerAgrees

LEMMA PublishAckAgrees ==
  ASSUME IInv, IInv', [Next]_vars, Agreement, stale = NoSlot, NEW m \in unanswered, ReceivePublishAck(m)
  PROVE  Agreement'
<1>1. /\ task = "loop" /\ m.kind \in {"PUBLISH_QOS1", "PUBREL"} /\ unanswered' = unanswered \ {m}
      /\ pending' = pending /\ skipped' = skipped
  BY DEF ReceivePublishAck
<1>2. PICK s \in Awaiting : /\ pending[s].id = m.id /\ m.kind \in AnswerTo(TypeAt(s))
                            /\ WithId(m.id) # {} /\ FirstOf(WithId(m.id)) = s
  BY <1>1, AnswerFinds
<1>3. PICK i \in PacketIds : i = m.id
  BY <1>1, AnswerFinds
<1>4. PICK ack \in {"PUBACK", "PUBCOMP"} : ack = IF m.kind = "PUBREL" THEN "PUBCOMP" ELSE "PUBACK"
  OBVIOUS
<1>5. PICK updated : updated = UpdateStateAck(records, i, ack, "RECEIVE")
  OBVIOUS
<1>6. /\ records' = updated.records
      /\ \/ updated.status = "Success" /\ Acknowledge(i) /\ UNCHANGED taskVars
         \/ updated.status # "Success" /\ EndLoop(TRUE) /\ stale' = stale
  BY <1>3, <1>4, <1>5 DEF ReceivePublishAck
<1>7. /\ MaxAcks \in Nat \ {0} /\ MaxAcks \in Nat /\ NoId \notin PacketIds
      /\ SoundArray(records, MaxAcks, PacketIds)
  BY ConstantsAssumption DEF NoId, PacketIds, Agreement, Tables
<1>8. \/ updated.status # "Success" /\ updated.records = records
      \/ /\ updated.status = "Success"
         /\ SoundArray(updated.records, MaxAcks, PacketIds)
         /\ \E r \in RecordsIn(records) : r.id = i /\ RecordsIn(updated.records) = RecordsIn(records) \ {r}
  <2>1. CASE \A r \in RecordsIn(records) : r.id # i
    BY <1>5, <1>7, <2>1, AckOfNoRecord
  <2>2. ASSUME NEW r \in RecordsIn(records), r.id = i
        PROVE  \/ updated.status # "Success" /\ updated.records = records
               \/ /\ updated.status = "Success"
                  /\ SoundArray(updated.records, MaxAcks, PacketIds)
                  /\ RecordsIn(updated.records) = RecordsIn(records) \ {r}
    <3>1. PICK new : new = CalculateStateAck(ack, "RECEIVE", r.qos)
      OBVIOUS
    <3>2. updated = UpdateStateAck(records, r.id, ack, "RECEIVE")
      BY <1>5, <2>2
    <3>3. /\ SoundArray(updated.records, MaxAcks, PacketIds)
          /\ \/ updated.status # "Success" /\ updated.records = records
             \/ /\ Follows(r, new)
                /\ updated.status = "Success" /\ RecordsIn(updated.records) = AfterAck(records, r, new)
      BY <1>7, <3>1, <3>2, AckRecords
    <3>4. new \in {"PublishDone", "Null"} /\ ~Follows(r, "Null")
      BY <3>1 DEF CalculateStateAck, Follows, AckTransitions
    <3>5. AfterAck(records, r, "PublishDone") = RecordsIn(records) \ {r}
      BY DEF AfterAck
    <3> QED BY <3>3, <3>4, <3>5
  <2> QED BY <2>1, <2>2
<1>9. CASE updated.status = "Success"
  <2>1. Acknowledge(i) /\ task' = "loop" /\ records' = updated.records
    BY <1>1, <1>6, <1>9 DEF taskVars
  <2>2. Loses(s)
    BY <1>1, <1>2, <1>3, <2>1, AcknowledgeLoses
  <2>3. PICK r \in RecordsIn(records) : r.id = i /\ RecordsIn(records') = RecordsIn(records) \ {r}
    BY <1>8, <1>9, <2>1
  <2>4. FewerRecords(i)
    BY <1>8, <1>9, <2>1, <2>3 DEF FewerRecords
  <2>5. \A q \in RecordsIn(records') : q.id # i
    <3>1. \A x, y \in RecordsIn(records) : x.id = y.id => x = y
      BY <1>7, SoundRecords
    <3> QED BY <2>3, <3>1
  <2>6. m.kind # "PUBLISH_QOS2"
    BY <1>1
  <2> QED BY <1>1, <1>2, <1>3, <2>1, <2>2, <2>4, <2>5, <2>6, AnswerAgrees
<1>10. CASE updated.status # "Success"
  <2>1. EndLoop(TRUE) /\ stale' = stale /\ records' = records
    BY <1>6, <1>8, <1>10
  <2>2. task' = "ended" /\ ~Serving' /\ ~Stopping
    BY <1>1, <2>1 DEF EndLoop, Goto, Serving, Looping, Stopping
  <2>3. Keeps
    BY <1>1, <2>1, ListKept DEF Agreement, Tables, ackVars
  <2> QED BY <1>1, <2>1, <2>2, <2>3, LeavingAgrees
<1> QED BY <1>9, <1>10

LEMMA PubRecAgrees ==
  ASSUME IInv, IInv', [Next]_vars, Agreement, stale = NoSlot, NEW m \in unanswered,
         NEW sendFails \in BOOLEAN, ReceivePubRec(m, sendFails)
  PROVE  Agreement'
<1>1. /\ task = "loop" /\ m.kind = "PUBLISH_QOS2" /\ UNCHANGED ackVars /\ skipped' = skipped
  BY DEF ReceivePubRec
<1>2. PICK s \in Awaiting : pending[s].id = m.id /\ m.kind \in AnswerTo(TypeAt(s))
  BY <1>1, AnswerFinds
<1>3. PICK i \in PacketIds : i = m.id
  BY <1>1, AnswerFinds
<1>4. Keeps
  BY <1>1, ListKept DEF Agreement, Tables
<1>5. TypeAt(s) = "PUBLISH_QOS2"
  <2>1. TypeAt(s) \in AckedTypes
    BY Entries
  <2> QED BY <1>1, <1>2, <2>1 DEF AnswerTo
<1>6. /\ MaxAcks \in Nat \ {0} /\ MaxAcks \in Nat /\ NoId \notin PacketIds
      /\ SoundArray(records, MaxAcks, PacketIds)
  BY ConstantsAssumption DEF NoId, PacketIds, Agreement, Tables
<1>7. PICK received : received = UpdateStateAck(records, i, "PUBREC", "RECEIVE")
  OBVIOUS
<1>8. PICK a : a = received.records
  OBVIOUS
<1>9. \/ received.status # "Success" /\ a = records
      \/ /\ received.status = "Success" /\ SoundArray(a, MaxAcks, PacketIds)
         /\ \E r \in RecordsIn(records) :
              r.id = i /\ RecordsIn(a) = (RecordsIn(records) \ {r}) \cup {Record(i, 2, "PubRelSend")}
  <2>1. CASE \A r \in RecordsIn(records) : r.id # i
    BY <1>6, <1>7, <1>8, <2>1, AckOfNoRecord
  <2>2. ASSUME NEW r \in RecordsIn(records), r.id = i, received.status = "Success"
        PROVE  /\ SoundArray(a, MaxAcks, PacketIds)
               /\ RecordsIn(a) = (RecordsIn(records) \ {r}) \cup {Record(i, 2, "PubRelSend")}
    <3>1. PICK new : new = CalculateStateAck("PUBREC", "RECEIVE", r.qos)
      OBVIOUS
    <3>2. received = UpdateStateAck(records, r.id, "PUBREC", "RECEIVE")
      BY <1>7, <2>2
    <3>3. /\ SoundArray(received.records, MaxAcks, PacketIds)
          /\ Follows(r, new) /\ RecordsIn(received.records) = AfterAck(records, r, new)
      BY <1>6, <2>2, <3>1, <3>2, AckRecords
    <3>4. new = "PubRelSend" /\ r.qos = 2
      <4>1. ~Follows(r, "Null")
        BY DEF Follows, AckTransitions
      <4>2. new # "Null"
        BY <3>3, <4>1
      <4> QED BY <3>1, <4>2 DEF CalculateStateAck
    <3>5. AfterAck(records, r, "PubRelSend") = (RecordsIn(records) \ {r}) \cup {Record(i, 2, "PubRelSend")}
      BY <2>2, <3>4 DEF AfterAck
    <3> QED BY <1>8, <3>3, <3>4, <3>5
  <2>3. ASSUME NEW r \in RecordsIn(records), r.id = i, received.status # "Success"
        PROVE  a = records
    <3>1. PICK new : new = CalculateStateAck("PUBREC", "RECEIVE", r.qos)
      OBVIOUS
    <3>2. received = UpdateStateAck(records, r.id, "PUBREC", "RECEIVE")
      BY <1>7, <2>3
    <3> QED BY <1>6, <1>8, <2>3, <3>1, <3>2, AckRecords
  <2> QED BY <2>1, <2>2, <2>3
<1>10. CASE received.status # "Success" \/ sendFails
  <2>1. records' = a /\ EndLoop(TRUE)
    BY <1>3, <1>7, <1>8, <1>10 DEF ReceivePubRec
  <2>2. task' = "ended" /\ ~Serving' /\ ~Stopping
    BY <1>1, <2>1 DEF EndLoop, Goto, Serving, Looping, Stopping
  <2>3. CASE a = records
    BY <1>1, <1>4, <2>1, <2>2, <2>3, LeavingAgrees
  <2>4. CASE a # records
    <3>1. Released(i, "PubRelSend")
      BY <1>9, <2>1, <2>4 DEF Released
    <3>2. "PubRelSend" \in RelStates
      BY DEF RelStates
    <3>3. Tables'
      BY <1>1, <1>2, <1>3, <1>4, <1>5, <2>2, <3>1, <3>2, ReleasedTables
    <3> QED BY <2>2, <3>3, TablesSuffice
  <2> QED BY <2>3, <2>4
<1>11. CASE ~ (received.status # "Success" \/ sendFails)
  <2>1. PICK b : b = UpdateStateAck(a, i, "PUBREL", "SEND").records
    OBVIOUS
  <2>2. /\ records' = b /\ unanswered' = (unanswered \ {m}) \cup {Request("PUBREL", i)}
        /\ task' = "loop"
    BY <1>1, <1>3, <1>7, <1>8, <1>11, <2>1 DEF ReceivePubRec, taskVars
  <2>3. PICK r \in RecordsIn(records) :
          r.id = i /\ RecordsIn(a) = (RecordsIn(records) \ {r}) \cup {Record(i, 2, "PubRelSend")}
    BY <1>9, <1>11
  <2>4. PICK q \in RecordsIn(a) :
          q = Record(i, 2, "PubRelSend") /\ q.id = i /\ q.qos = 2 /\ q.state = "PubRelSend"
    <3>1. /\ Record(i, 2, "PubRelSend").id = i /\ Record(i, 2, "PubRelSend").qos = 2
          /\ Record(i, 2, "PubRelSend").state = "PubRelSend"
      BY DEF Record
    <3>2. Record(i, 2, "PubRelSend") \in RecordsIn(a)
      BY <2>3
    <3> QED BY <3>1, <3>2
  <2>5. Follows(q, "PubCompPending") /\ "PubCompPending" = CalculateStateAck("PUBREL", "SEND", q.qos)
    BY <2>4 DEF Follows, AckTransitions, CalculateStateAck
  <2>6. SoundArray(b, MaxAcks, PacketIds) /\ RecordsIn(b) = AfterAck(a, q, "PubCompPending")
    <3>1. PICK result : result = UpdateStateAck(a, q.id, "PUBREL", "SEND")
      OBVIOUS
    <3>2. SoundArray(a, MaxAcks, PacketIds)
      BY <1>9, <1>11
    <3>3. SoundArray(result.records, MaxAcks, PacketIds)
          /\ RecordsIn(result.records) = AfterAck(a, q, "PubCompPending")
      BY <1>6, <2>5, <3>1, <3>2, AckRecords
    <3> QED BY <2>1, <2>4, <3>1, <3>3
  <2>7. RecordsIn(b) = (RecordsIn(a) \ {q}) \cup {Record(i, 2, "PubCompPending")}
    BY <2>4, <2>6 DEF AfterAck
  <2>8. q \notin RecordsIn(records) \ {r}
    <3>1. \A x, y \in RecordsIn(records) : x.id = y.id => x = y
      BY <1>6, SoundRecords
    <3> QED BY <2>3, <2>4, <3>1
  <2>9. RecordsIn(b) = (RecordsIn(records) \ {r}) \cup {Record(i, 2, "PubCompPending")}
    BY <2>3, <2>4, <2>7, <2>8
  <2>10. Released(i, "PubCompPending")
    BY <2>2, <2>3, <2>6, <2>9 DEF Released
  <2> QED BY <1>1, <1>2, <1>3, <1>4, <1>5, <2>2, <2>10, ReleaseAgrees
<1> QED BY <1>10, <1>11

-----------------------------------------------------------------------------
(* Theorems                                                                *)

LEMMA InitAgrees == Init => Agreement
<1> SUFFICES ASSUME Init PROVE Agreement
  OBVIOUS
<1>1. /\ pending = [s \in Slots |-> NoEntry] /\ records = [p \in Slots |-> NoRecord]
      /\ task = "receive" /\ unanswered = {} /\ NoEntry.id = NoId /\ NoRecord.id = NoId
      /\ NoRecord \in RecordValues(PacketIds) /\ Slots = 1 .. MaxAcks
  BY SlotsArePlaces DEF Init, NoEntry, NoRecord, RecordValues
<1>2. Awaiting = {} /\ IdsApart
  BY <1>1 DEF Awaiting, IdsApart
<1>3. Used(records) = {} /\ RecordsIn(records) = {}
  BY <1>1 DEF Used, RecordsIn
<1>4. SoundArray(records, MaxAcks, PacketIds)
  BY <1>1, <1>3 DEF SoundArray
<1>5. Tables
  BY <1>2, <1>3, <1>4 DEF Tables, RecordsAgree, RelSendEnds, ReleasedIsAwaited
<1>6. Asked
  BY <1>1, <1>2, <1>3 DEF Asked, RequestsAgree, LoopOK, Request
<1> QED BY <1>5, <1>6 DEF Agreement

(* The steps that change neither records nor requests, one by one.         *)
LEMMA QuietAgrees ==
  ASSUME IInv, IInv', [Next]_vars, Agreement, stale = NoSlot,
         \/ ReceiveCommand \/ ExecuteNone \/ ExecuteProcessLoop
         \/ (\E sendFails \in BOOLEAN : ExecuteUnacked(sendFails) \/ ExecuteDisconnect(sendFails))
         \/ ExecuteTerminate \/ CancelQueued \/ CancelQueueDone \/ CancelAcksDone
         \/ LoopIdle \/ LoopFails \/ TaskReturns \/ ReconnectFails
         \/ Resubscribe \/ RepostSubscribe
  PROVE  Agreement'
<1>1. UNCHANGED ackVars /\ Unchanged
  BY DEF ReceiveCommand, ExecuteNone, ExecuteProcessLoop, ExecuteUnacked, ExecuteDisconnect,
         ExecuteTerminate, CancelQueued, CancelQueueDone, CancelAcksDone, LoopIdle, LoopFails,
         TaskReturns, ReconnectFails, Resubscribe, RepostSubscribe,
         mqttVars, recordVars, linkVars, Unchanged
<1>2. Keeps
  BY <1>1, ListKept DEF Agreement, Tables
<1>3. ASSUME Looping, task' \in {"receive", "execute", "loop", "repost"} PROVE Agreement'
  <2>1. Looping'
    BY <1>3 DEF Looping
  <2> QED BY <1>1, <1>2, <1>3, <2>1, StillAgrees
<1>4. ASSUME Looping, task' \in {"ended", "failing", "cancelQueue"} PROVE Agreement'
  <2>1. task \notin {"clearAcks", "ended"} /\ ~Serving' /\ ~Stopping
    BY <1>4 DEF Looping, Serving, Stopping
  <2> QED BY <1>1, <1>2, <2>1, LeavingAgrees DEF Unchanged
<1>5. CASE UNCHANGED <<task, failed, cursor>>
  BY <1>1, <1>2, <1>5, StillAgrees
<1>6. CASE ReceiveCommand \/ ExecuteNone \/ LoopIdle \/ ExecuteProcessLoop
  <2>1. Looping /\ task' \in {"receive", "execute", "loop", "repost"}
    BY <1>6 DEF ReceiveCommand, ExecuteNone, LoopIdle, ExecuteProcessLoop, Executing,
                ConcludeCurrent, Goto, Looping
  <2> QED BY <1>3, <2>1
<1>7. CASE \E sendFails \in BOOLEAN : ExecuteUnacked(sendFails) \/ ExecuteDisconnect(sendFails)
  <2>1. Looping /\ task' \in {"loop", "ended"}
    BY <1>7 DEF ExecuteUnacked, ExecuteDisconnect, Executing, ConcludeCurrent, EndLoop, Goto, Looping
  <2> QED BY <1>3, <1>4, <2>1
<1>8. CASE ExecuteTerminate \/ LoopFails
  <2>1. Looping /\ task' \in {"cancelQueue", "ended"}
    BY <1>8 DEF ExecuteTerminate, LoopFails, Executing, EndLoop, Goto, Looping
  <2> QED BY <1>4, <2>1
<1>9. CASE Resubscribe \/ RepostSubscribe
  <2>1. Looping /\ task' \in {"failing", "repost", "receive"}
    BY <1>9 DEF Resubscribe, RepostSubscribe, Goto, Looping
  <2> QED BY <1>3, <1>4, <2>1
<1>10. CASE CancelQueued \/ TaskReturns \/ ReconnectFails
  BY <1>5, <1>10 DEF CancelQueued, TaskReturns, ReconnectFails, taskVars
<1>11. CASE CancelQueueDone
  <2>1. task = "cancelQueue" /\ task' = "cancelAcks" /\ ~Serving' /\ ~Stopping
    BY <1>11 DEF CancelQueueDone, Goto, Serving, Looping, Stopping
  <2> QED BY <1>1, <1>2, <2>1, LeavingAgrees DEF Unchanged
<1>12. CASE CancelAcksDone
  <2>1. task = "cancelAcks" /\ task' = "ended" /\ failed' = FALSE
    BY <1>12 DEF CancelAcksDone, EndLoop, Goto
  <2>2. ~Serving' /\ Stopping'
    BY <2>1 DEF Serving, Looping, Stopping
  <2> QED BY <1>1, <1>2, <2>1, <2>2, LeavingAgrees DEF Unchanged
<1> QED BY <1>6, <1>7, <1>8, <1>9, <1>10, <1>11, <1>12

LEMMA NextKeepsAgreement ==
  ASSUME IInv, Agreement, [Next]_vars
  PROVE  Agreement'
<1>1. IInv'
  BY NextKeepsIInv
<1>2. ASSUME Keeps, Unchanged, UNCHANGED taskVars PROVE Agreement'
  BY <1>2, StillAgrees DEF taskVars
<1>3. CASE (\E k \in Clients : ClientStep(k)) \/ UNCHANGED vars
  <2>1. UNCHANGED ackVars /\ Unchanged /\ UNCHANGED taskVars
    BY <1>3 DEF ClientStep, GetCommand, CreateCommand, PostCommand, PostTimesOut, ReleaseUnposted,
                ReturnToCaller, vars, mqttVars, recordVars, linkVars, Unchanged
  <2> QED BY <1>1, <1>2, <2>1, ListKept DEF Agreement, Tables
<1>4. CASE ClearEntry
  <2>1. Unchanged /\ UNCHANGED taskVars
    BY <1>4 DEF ClearEntry, recordVars, linkVars, Unchanged
  <2> QED BY <1>1, <1>2, <1>4, <2>1, ListCleared DEF Agreement, Tables
<1>5. CASE stale = NoSlot /\ AgentAction
  <2>1. CASE \E sendFails \in BOOLEAN :
               \/ ExecutePublish(sendFails) \/ ExecuteSubscription(sendFails) \/ ResendPublish(sendFails)
               \/ \E m \in unanswered : ReceivePubRec(m, sendFails)
    BY <1>1, <1>5, <2>1, PublishAgrees, SubscriptionAgrees, ResendAgrees, PubRecAgrees
  <2>2. CASE \E m \in unanswered : ReceiveSubAck(m) \/ ReceivePublishAck(m)
    BY <1>1, <1>5, <2>2, SubAckAgrees, PublishAckAgrees
  <2>3. CASE ScanEntry \/ (\E present \in BOOLEAN : Reconnect(present)) \/ ClearAcksDone \/ ResendDone
    BY <1>1, <1>5, <2>3, ScanAgrees, ReconnectAgrees, ClearedAgrees, ResentAgrees
  <2>4. CASE \/ ReceiveCommand \/ ExecuteNone \/ ExecuteProcessLoop
             \/ (\E sendFails \in BOOLEAN : ExecuteUnacked(sendFails) \/ ExecuteDisconnect(sendFails))
             \/ ExecuteTerminate \/ CancelQueued \/ CancelQueueDone \/ CancelAcksDone
             \/ LoopIdle \/ LoopFails \/ TaskReturns \/ ReconnectFails
             \/ Resubscribe \/ RepostSubscribe
    BY <1>1, <1>5, <2>4, QuietAgrees
  <2> QED BY <1>5, <2>1, <2>2, <2>3, <2>4 DEF AgentAction
<1> QED BY <1>3, <1>4, <1>5 DEF Next, AgentStep

(* The two tables and the broker's requests agree in every reachable       *)
(* state.                                                                  *)
THEOREM AgreementHolds == Spec => [](IInv /\ Agreement)
<1>1. Init => IInv /\ Agreement
  BY InitOwnership, InitAgrees
<1>2. IInv /\ Agreement /\ [Next]_vars => (IInv /\ Agreement)'
  BY NextKeepsIInv, NextKeepsAgreement
<1> QED BY <1>1, <1>2, PTL DEF Spec

(* The subscriptions are renewed once the list has been emptied: there is  *)
(* no session, and then the scan spares nothing.                           *)
RenewOK == task = "resubscribe" => stale = NoSlot /\ \A s \in Slots : pending[s].id = NoId

LEMMA RenewKept ==
  ASSUME IInv, Agreement, RenewOK, [Next]_vars
  PROVE  RenewOK'
<1> SUFFICES ASSUME task' = "resubscribe"
             PROVE  (stale = NoSlot /\ \A s \in Slots : pending[s].id = NoId)'
  BY DEF RenewOK
<1>1. CASE (\E k \in Clients : ClientStep(k)) \/ UNCHANGED vars
  <2>1. UNCHANGED <<task, stale, pending>>
    BY <1>1 DEF ClientStep, GetCommand, CreateCommand, PostCommand, PostTimesOut, ReleaseUnposted,
                ReturnToCaller, vars, taskVars, mqttVars, ackVars
  <2> QED BY <2>1 DEF RenewOK
<1>2. CASE ClearEntry
  BY <1>2 DEF ClearEntry, taskVars, RenewOK
<1>3. CASE stale = NoSlot /\ AgentAction
  <2>1. ClearAcksDone
    <3>1. ~ ( \/ ReceiveCommand \/ ExecuteNone \/ ExecuteProcessLoop \/ ExecuteTerminate
              \/ CancelQueued \/ CancelQueueDone \/ ScanEntry \/ CancelAcksDone
              \/ LoopIdle \/ LoopFails \/ TaskReturns \/ ReconnectFails \/ ResendDone
              \/ Resubscribe \/ RepostSubscribe
              \/ \E present \in BOOLEAN : Reconnect(present) )
      BY DEF ReceiveCommand, ExecuteNone, ExecuteProcessLoop, ExecuteTerminate, CancelQueued,
             CancelQueueDone, ScanEntry, Scanning, CancelAcksDone, LoopIdle, LoopFails, TaskReturns,
             ReconnectFails, ResendDone, Resubscribe, RepostSubscribe, Reconnect,
             ConcludeCurrent, EndLoop, Goto, taskVars
    <3>2. ASSUME NEW sendFails \in BOOLEAN
          PROVE  ~ ( \/ ExecuteUnacked(sendFails) \/ ExecutePublish(sendFails)
                     \/ ExecuteSubscription(sendFails) \/ ExecuteDisconnect(sendFails)
                     \/ ResendPublish(sendFails) )
      BY DEF ExecuteUnacked, ExecutePublish, ExecuteSubscription, ExecuteDisconnect, ResendPublish,
             AwaitAck, ConcludeCurrent, EndLoop, Goto, Executing, taskVars
    <3>3. ASSUME NEW m \in unanswered, NEW sendFails \in BOOLEAN
          PROVE  ~ (ReceiveSubAck(m) \/ ReceivePublishAck(m) \/ ReceivePubRec(m, sendFails))
      BY DEF ReceiveSubAck, ReceivePublishAck, ReceivePubRec, EndLoop, Goto, taskVars
    <3> QED BY <1>3, <3>1, <3>2, <3>3 DEF AgentAction
  <2>2. task = "clearAcks" /\ cursor > MaxAcks /\ ~session /\ UNCHANGED ackVars
    BY <2>1 DEF ClearAcksDone, Goto, mqttVars
  <2>3. \A s \in Awaiting : s < cursor
    <3>1. MaxAcks \in Nat /\ \A s \in Awaiting : s \in Nat /\ s <= MaxAcks
      BY SlotsArePlaces DEF Awaiting
    <3> QED BY <2>2, <3>1 DEF IInv, TypeOK
  <2>4. Awaiting = {}
    BY <2>2, <2>3 DEF Agreement, Asked, ClearOK
  <2> QED BY <1>3, <2>2, <2>4 DEF Awaiting, ackVars, NoSlot, Slots
<1> QED BY <1>1, <1>2, <1>3 DEF Next, AgentStep

(* The two reasons for which a renewal can be refused.                     *)
LEMMA RefusalExplained ==
  ASSUME IInv, RenewOK, [Next]_vars
  PROVE  /\ task = "resubscribe" /\ task' = "failing" => Backlog = Cmds
         /\ task = "repost" /\ task' = "failing" => PoolSize > QueueLength
<1>1. ASSUME task \in {"resubscribe", "repost"}, task' = "failing"
      PROVE  Resubscribe \/ RepostSubscribe
  <2>1. ~ ((\E k \in Clients : ClientStep(k)) \/ ClearEntry \/ UNCHANGED vars)
    BY <1>1 DEF ClientStep, GetCommand, CreateCommand, PostCommand, PostTimesOut, ReleaseUnposted,
                ReturnToCaller, ClearEntry, vars, taskVars
  <2>2. AgentAction
    BY <2>1 DEF Next, AgentStep
  <2>3. ~ ( \/ ReceiveCommand \/ ExecuteNone \/ ExecuteProcessLoop \/ ExecuteTerminate
            \/ CancelQueued \/ CancelQueueDone \/ ScanEntry \/ CancelAcksDone
            \/ LoopIdle \/ LoopFails \/ TaskReturns \/ ReconnectFails
            \/ ClearAcksDone \/ ResendDone
            \/ \E present \in BOOLEAN : Reconnect(present) )
    BY <1>1 DEF ReceiveCommand, ExecuteNone, ExecuteProcessLoop, ExecuteTerminate, CancelQueued,
                CancelQueueDone, ScanEntry, Scanning, CancelAcksDone, LoopIdle, LoopFails, TaskReturns,
                ReconnectFails, ClearAcksDone, ResendDone, Reconnect, Executing
  <2>4. ASSUME NEW sendFails \in BOOLEAN
        PROVE  ~ ( \/ ExecuteUnacked(sendFails) \/ ExecutePublish(sendFails)
                   \/ ExecuteSubscription(sendFails) \/ ExecuteDisconnect(sendFails)
                   \/ ResendPublish(sendFails) )
    BY <1>1 DEF ExecuteUnacked, ExecutePublish, ExecuteSubscription, ExecuteDisconnect,
                ResendPublish, Executing
  <2>5. ASSUME NEW m \in unanswered, NEW sendFails \in BOOLEAN
        PROVE  ~ (ReceiveSubAck(m) \/ ReceivePublishAck(m) \/ ReceivePubRec(m, sendFails))
    BY <1>1 DEF ReceiveSubAck, ReceivePublishAck, ReceivePubRec
  <2> QED BY <2>2, <2>3, <2>4, <2>5 DEF AgentAction
<1>2. ASSUME task = "resubscribe", task' = "failing"
      PROVE  Backlog = Cmds
  <2>1. pool = << >>
    BY <1>1, <1>2 DEF Resubscribe, RepostSubscribe, Goto
  <2>2. Range(pool) = {}
    BY <2>1 DEF Range
  <2>3. Awaited = {}
    BY <1>2 DEF Awaited, RenewOK, IInv, HandsOK, Cmds, NoCmd
  <2>4. InHand = {}
    BY <1>2 DEF InHand, IInv, HandsOK, CarryingPcs
  <2> QED BY <2>2, <2>3, <2>4 DEF IInv, OwnershipOK, NothingLost, Backlog
<1>3. ASSUME task = "repost", task' = "failing"
      PROVE  PoolSize > QueueLength
  <2>1. ~ (Len(queue) < QueueLength)
    BY <1>1, <1>3 DEF Resubscribe, RepostSubscribe, Goto
  <2> QED BY <1>3, <2>1, QueuePlace, ConstantsAssumption
<1> QED BY <1>2, <1>3

(* prvHandleResubscribe, which does not wait, fails and stops the device   *)
(* only under a backlog of calls as large as the pool, or with a queue     *)
(* shorter than the pool: what awaited an acknowledgment on the lost       *)
(* connection never stands in its way.                                     *)
THEOREM RenewalHolds == Spec => RenewalRefusedByBacklog
<1>1. Init => RenewOK
  BY DEF Init, RenewOK
<1>2. IInv /\ Agreement /\ RenewOK /\ [Next]_vars => RenewOK'
  BY RenewKept
<1>3. Spec => []RenewOK
  BY <1>1, <1>2, AgreementHolds, PTL DEF Spec
<1>4. IInv /\ Agreement /\ RenewOK /\ [Next]_vars =>
        [/\ task = "resubscribe" /\ task' = "failing" => Backlog = Cmds
         /\ task = "repost" /\ task' = "failing" => PoolSize > QueueLength]_vars
  BY RefusalExplained
<1> QED BY <1>3, <1>4, AgreementHolds, PTL DEF Spec, RenewalRefusedByBacklog

(* Whenever the command loop runs, the broker has got the request of every *)
(* operation that awaits its acknowledgment, but for the records skipped   *)
(* by a resend: addAwaitingOperation, clearPendingAcknowledgments and      *)
(* resendPublishes between them forget none.                               *)
THEOREM OutstandingHolds == Spec => []AwaitedIsOutstanding
<1>1. IInv /\ Agreement => AwaitedIsOutstanding
  <2> SUFFICES ASSUME IInv, Agreement, LoopRunning, NEW s \in Slots \ {stale},
                      pending[s].id \notin skipped \cup {NoId}
               PROVE  IsOutstanding(s)
    BY DEF AwaitedIsOutstanding
  <2>1. s \in Awaiting /\ Looping
    BY DEF Awaiting, LoopRunning, Looping
  <2> QED BY <2>1 DEF Agreement, Asked, LoopOK, AskedOrSkipped
<1> QED BY <1>1, AgreementHolds, PTL

(* getAwaitingOperation goes by the identifier alone, and still never      *)
(* takes the acknowledgment of one kind of operation for another's.        *)
THEOREM AnswersHold == Spec => []AnswersMatch
<1>1. IInv /\ Agreement => AnswersMatch
  <2> SUFFICES ASSUME IInv, Agreement, LoopRunning, NEW m \in unanswered,
                      NEW s \in WithId(m.id) \ {stale}
               PROVE  m.kind \in AnswerTo(command[pending[s].cmd].type)
    BY DEF AnswersMatch
  <2>1. PICK t \in Awaiting : pending[t].id = m.id /\ m.kind \in AnswerTo(TypeAt(t))
    BY DEF Agreement, Asked, Serving, Looping, LoopRunning, RequestsAgree
  <2>2. s = t
    <3>1. t \in Slots /\ pending[t].id # NoId
      BY DEF Awaiting
    <3> QED BY <2>1, <3>1 DEF Agreement, Tables, IdsApart, WithId
  <2> QED BY <2>1, <2>2 DEF TypeAt
<1> QED BY <1>1, AgreementHolds, PTL

(* A publish that awaits its acknowledgment has its record in the library, *)
(* in the state that acknowledgment needs.                                 *)
THEOREM RecordedHolds == Spec => []AwaitedPublishIsRecorded
<1>1. IInv /\ Agreement => AwaitedPublishIsRecorded
  <2> SUFFICES ASSUME IInv, Agreement, LoopRunning, NEW s \in Slots \ {stale},
                      pending[s].id # NoId, command[pending[s].cmd].type \in Publishes
               PROVE  \E p \in PositionsOf(records, pending[s].id) :
                        records[p].state \in (IF command[pending[s].cmd].type = "PUBLISH_QOS1"
                                                THEN {"PubAckPending"}
                                                ELSE {"PubRecPending", "PubCompPending"})
    BY DEF AwaitedPublishIsRecorded
  <2>1. s \in Awaiting /\ TypeAt(s) = command[pending[s].cmd].type
    BY DEF Awaiting, TypeAt
  <2>2. task # "clearAcks" /\ task # "ended"
    BY DEF LoopRunning
  <2>3. PICK r \in RecordsIn(records) : r.id = pending[s].id /\ r.state \in AwaitedStates(TypeAt(s))
    BY <2>1, <2>2 DEF Agreement, Tables, RecordsAgree, Recorded
  <2>4. r.state # "PubRelSend"
    BY <2>2 DEF Agreement, Tables, RelSendEnds
  <2>5. PICK p \in Used(records) : r = records[p]
    BY DEF RecordsIn
  <2>6. p \in PositionsOf(records, pending[s].id)
    BY <2>3, <2>5 DEF PositionsOf, Used
  <2>7. records[p].state \in (IF TypeAt(s) = "PUBLISH_QOS1" THEN {"PubAckPending"}
                                ELSE {"PubRecPending", "PubCompPending"})
    BY <2>3, <2>4, <2>5 DEF AwaitedStates
  <2> QED BY <2>1, <2>6, <2>7
<1> QED BY <1>1, AgreementHolds, PTL

=============================================================================
