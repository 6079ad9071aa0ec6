--------------------------- MODULE OutgoingRecords ---------------------------
(***************************************************************************)
(* The life of outgoingPublishRecords under every legal sequence of calls  *)
(* of core_mqtt_state.c: the array with its gaps is shown to keep the      *)
(* order in which a resumed session has to send the packets again.         *)
(***************************************************************************)
EXTENDS PublishRecords, Sequences

CONSTANTS
  PacketIds,
  MaxCount      \* outgoingPublishRecordMaxCount

ASSUME OutgoingAssumption ==
  /\ PacketIds \subseteq Nat \ {NoId}
  /\ MaxCount \in Nat \ {0}

VARIABLE outgoing    \* outgoingPublishRecords

Places == 1 .. MaxCount

Init == outgoing = [p \in Places |-> NoRecord]

(* MQTT_ReserveState for QoS 1 and 2.                                      *)
ReserveState(i, qos) ==
  outgoing' = AddRecord(outgoing, Record(i, qos, "PublishSend")).records

(* The PUBLISH has been sent, for the first time or again.                 *)
UpdateStatePublish(i, qos) ==
  outgoing' = UpdateStateSent(outgoing, i, qos).records

(* An acknowledgment of an outgoing publish has arrived, or a PUBREL has   *)
(* been sent.                                                              *)
UpdateAck(i, ack, op) ==
  /\ IsPublishOutgoing(ack, op)
  /\ outgoing' = UpdateStateAck(outgoing, i, ack, op).records

Remove(i) == outgoing' = RemoveStateRecord(outgoing, i).records

(* handleSessionResumption without a session.                              *)
ClearRecords == outgoing' = [p \in Places |-> NoRecord]

Next ==
  \/ \E i \in PacketIds : \/ \E qos \in {1, 2} : ReserveState(i, qos) \/ UpdateStatePublish(i, qos)
                          \/ \E ack \in Acks, op \in Operations : UpdateAck(i, ack, op)
                          \/ Remove(i)
  \/ ClearRecords

Spec == Init /\ [][Next]_outgoing

-----------------------------------------------------------------------------
(* stateSelect, called until it finds nothing more: the packets of some    *)
(* states, by the places of their records.                                 *)
Select(states) ==
  LET found == InOrder({p \in Places : outgoing[p].state \in states})
  IN [k \in DOMAIN found |-> outgoing[found[k]].id]

PublishesToResend == Select(SendStates)   \* MQTT_PublishToResend
PubrelsToResend   == Select(RelStates)    \* MQTT_PubrelToResend

-----------------------------------------------------------------------------
(* The loop of compactRecords: what its turn at the place index makes of   *)
(* the records and of emptyIndex, the first gap found so far (0: none).    *)
CompactTurn(index, before) ==
  LET records == before.records
      gap == before.gap
  IN IF records[index].id = NoId
       THEN [records |-> records, gap |-> IF gap = 0 THEN index ELSE gap]
     ELSE IF gap = 0 THEN before
     ELSE [records |-> [records EXCEPT ![gap] = records[index], ![index] = NoRecord],
           gap |-> gap + 1]

CompactLoop(a) ==
  LET After[turns \in 0 .. MaxCount] ==
        IF turns = 0 THEN [records |-> a, gap |-> 0]
        ELSE CompactTurn(turns, After[turns - 1])
  IN After[MaxCount].records

-----------------------------------------------------------------------------
(* Every place holds a record of a packet, or none.  Part of              *)
(* QosAndStateAgree.                                                       *)
TypeOK == outgoing \in [Places -> RecordValues(PacketIds)]

(* The loop of compactRecords moves the records in use to the front, in    *)
(* their order, and clears all others: it does what Compact says by ranks. *)
CompactIsTheLoop == Compact(outgoing) = CompactLoop(outgoing)

(* A record is in a state of its own QoS, whatever acknowledgments arrive: *)
(* one of the other QoS, or in the wrong order, is refused.                *)
QosAndStateAgree ==
  /\ TypeOK
  /\ \A p \in Used(outgoing) :
       outgoing[p].state \in (IF outgoing[p].qos = 1 THEN {"PublishSend", "PubAckPending"}
                              ELSE {"PublishSend", "PubRecPending", "PubRelSend", "PubCompPending"})

(* Gaps never cost room: a new publish is refused for want of memory only  *)
(* when every place holds a publish in progress.                           *)
RoomIsFound ==
  \A i \in PacketIds :
    AddRecord(outgoing, Record(i, 1, "PublishSend")).status = "NoMemory" => Used(outgoing) = Places

(* What MQTT_PublishToResend and MQTT_PubrelToResend return, until they    *)
(* return nothing more, are the publishes and PUBRELs in the order that    *)
(* ResendOrder keeps; and nothing is lost by compactions and by the move   *)
(* of a record at its PUBREC.                                              *)
Resending == INSTANCE ResendOrder WITH
               Ids <- PacketIds, Capacity <- MaxCount,
               publishes <- PublishesToResend, pubrels <- PubrelsToResend

ResendsInOrder == Resending!Spec
=============================================================================
