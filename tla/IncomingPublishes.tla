-------------------------- MODULE IncomingPublishes --------------------------
(***************************************************************************)
(* Publishes of QoS 1 and 2 from the broker to the device, over            *)
(* connections that are lost: what handleIncomingPublish and               *)
(* handlePublishAcks do with incomingPublishRecords, the broker as         *)
(* MQTT 3.1.1 describes it, and the reconnections of the agent task.       *)
(*                                                                         *)
(* Only the agent task touches the incoming records, so the handling of    *)
(* one packet is one step.                                                 *)
(***************************************************************************)
EXTENDS PublishRecords, Sequences, SequencesExt

CONSTANTS
  Messages,      \* what the broker has to publish
  Qos,           \* the QoS of each message
  PacketIds,     \* the identifiers the broker uses
  MaxCount,      \* incomingPublishRecordMaxCount
  MaxFaults      \* bound: lost connections and failed sends in a behaviour

ASSUME IncomingAssumption ==
  /\ Qos \in [Messages -> {1, 2}]
  /\ PacketIds \subseteq Nat \ {NoId}
  /\ MaxCount \in Nat \ {0}
  /\ MaxFaults \in Nat

VARIABLES
  incoming,    \* incomingPublishRecords[]
  link,        \* "up", or "failed": MQTT_ProcessLoop has returned an error
  toDevice,    \* packets on their way on this connection
  toBroker,
  exchanges,   \* the broker: the publishes in flight, in their order
  fate,        \* the broker: what has become of each message
  deliveries,  \* how often appCallback has got each message, up to Often
  strayed,     \* history: the identifiers of which, in this session, an acknowledgment
               \* has arrived although its send was reported as failed
  faults

deviceVars == <<incoming, deliveries>>
brokerVars == <<exchanges, fate>>
vars == <<deviceVars, brokerVars, link, toDevice, toBroker, strayed, faults>>

Places == 1 .. MaxCount
Often == 2      \* bound: twice stands for any number above one
NoRecords == [p \in Places |-> NoRecord]

Fates == {"unsent", "inFlight", "done", "forgotten"}
Exchange(m, i, phase) == [msg |-> m, id |-> i, phase |-> phase]
Packet(type, e) == [type |-> type, id |-> e.id, msg |-> e.msg]
Ack(type, i) == [type |-> type, id |-> i]

ExchangeOf(i) == {n \in DOMAIN exchanges : exchanges[n].id = i}

-----------------------------------------------------------------------------
(* The first connection is a clean one, whose session the broker drops:    *)
(* the behaviours start with the reconnection after it.                    *)
Init ==
  /\ incoming = NoRecords
  /\ link = "up"
  /\ toDevice = << >>
  /\ toBroker = << >>
  /\ exchanges = << >>
  /\ fate = [m \in Messages |-> "unsent"]
  /\ deliveries = [m \in Messages |-> 0]
  /\ strayed = {}
  /\ faults = 0

-----------------------------------------------------------------------------
(* The broker *)

Publish(m, i) ==
  /\ link = "up"
  /\ fate[m] = "unsent"
  /\ ExchangeOf(i) = {}
  /\ LET e == Exchange(m, i, "publish")
     IN /\ exchanges' = Append(exchanges, e)
        /\ toDevice' = Append(toDevice, Packet("PUBLISH", e))
  /\ fate' = [fate EXCEPT ![m] = "inFlight"]
  /\ UNCHANGED <<deviceVars, link, toBroker, strayed, faults>>

(* An acknowledgment that fits no exchange is ignored.                     *)
Fits(ack, n) ==
  LET e == exchanges[n]
  IN /\ e.id = ack.id
     /\ \/ ack.type = "PUBACK"  /\ e.phase = "publish" /\ Qos[e.msg] = 1
        \/ ack.type = "PUBREC"  /\ e.phase = "publish" /\ Qos[e.msg] = 2
        \/ ack.type = "PUBCOMP" /\ e.phase = "release"

BrokerReceives ==
  /\ toBroker # << >>
  /\ toBroker' = Tail(toBroker)
  /\ LET ack == Head(toBroker)
     IN \/ /\ \A n \in DOMAIN exchanges : ~Fits(ack, n)
           /\ UNCHANGED <<brokerVars, toDevice>>
        \/ \E n \in DOMAIN exchanges :
             /\ Fits(ack, n)
             /\ IF ack.type = "PUBREC"
                  THEN /\ exchanges' = [exchanges EXCEPT ![n].phase = "release"]
                       /\ toDevice' = IF link = "up"
                                        THEN Append(toDevice, Packet("PUBREL", exchanges[n]))
                                        ELSE toDevice
                       /\ UNCHANGED fate
                  ELSE /\ exchanges' = RemoveAt(exchanges, n)
                       /\ fate' = [fate EXCEPT ![exchanges[n].msg] = "done"]
                       /\ UNCHANGED toDevice
  /\ UNCHANGED <<deviceVars, link, strayed, faults>>

-----------------------------------------------------------------------------
(* The device *)

(* getAckTypeToSend, for the states of incoming publishes.                 *)
AckTypeToSend(state) ==
  CASE state = "PubAckSend"  -> "PUBACK"
    [] state = "PubRecSend"  -> "PUBREC"
    [] state = "PubCompSend" -> "PUBCOMP"

(* How the send ends: done, failed, or failed although the packet arrives  *)
(* (AT_RequestSendData also fails when only the module's reply is lost).   *)
Outcomes == {"sent"} \cup (IF faults = MaxFaults THEN {} ELSE {"failed", "late"})

(* sendPublishAcks: the record follows only if the send succeeded; an      *)
(* error of either ends the process loop.                                  *)
SendPublishAck(records, i, state, outcome) ==
  LET type == AckTypeToSend(state)
      updated == UpdateStateAck(records, i, type, "SEND")
      sent == outcome = "sent"
  IN /\ outcome \in Outcomes
     /\ toBroker' = IF outcome = "failed" THEN toBroker ELSE Append(toBroker, Ack(type, i))
     /\ incoming' = IF sent THEN updated.records ELSE records
     /\ link' = IF sent /\ updated.status = "Success" THEN link ELSE "failed"
     /\ strayed' = IF outcome = "late" THEN strayed \cup {i} ELSE strayed
     /\ faults' = IF sent THEN faults ELSE faults + 1

(* An error ends the process loop and the packet is gone.                  *)
Refuse(records) ==
  /\ incoming' = records
  /\ link' = "failed"
  /\ UNCHANGED <<toBroker, strayed, faults>>

Deliver(m) == deliveries' = [deliveries EXCEPT ![m] = IF @ = Often THEN @ ELSE @ + 1]

NextPacket(type) ==
  /\ link = "up"
  /\ toDevice # << >>
  /\ Head(toDevice).type = type
  /\ toDevice' = Tail(toDevice)

HandleIncomingPublishAgain(outcome) ==                    \* mutant: duplicates are delivered too
  /\ NextPacket("PUBLISH")
  /\ LET p == Head(toDevice)
         state == CalculateStatePublish("RECEIVE", Qos[p.msg])
         added == AddRecord(incoming, Record(p.id, Qos[p.msg], state))
     IN \/ /\ added.status = "NoMemory"
           /\ Refuse(added.records)
           /\ UNCHANGED deliveries
        \/ /\ added.status # "NoMemory"
           /\ SendPublishAck(added.records, p.id, state, outcome)
           /\ Deliver(p.msg)
  /\ UNCHANGED brokerVars

HandleIncomingPublishUnseen(outcome) ==                   \* mutant: not delivered unless acknowledged
  /\ NextPacket("PUBLISH")
  /\ LET p == Head(toDevice)
         state == CalculateStatePublish("RECEIVE", Qos[p.msg])
         added == AddRecord(incoming, Record(p.id, Qos[p.msg], state))
     IN \/ /\ added.status = "NoMemory"
           /\ Refuse(added.records)
           /\ UNCHANGED deliveries
        \/ /\ added.status # "NoMemory"
           /\ SendPublishAck(added.records, p.id, state, outcome)
           /\ IF added.status = "Success" /\ outcome = "sent"
                THEN Deliver(p.msg) ELSE UNCHANGED deliveries
  /\ UNCHANGED brokerVars

(* handleIncomingPublish: the callback gets the publish unless its         *)
(* identifier has a record, and it is acknowledged either way.             *)
HandleIncomingPublish(outcome) ==
  /\ NextPacket("PUBLISH")
  /\ LET p == Head(toDevice)
         state == CalculateStatePublish("RECEIVE", Qos[p.msg])
         added == AddRecord(incoming, Record(p.id, Qos[p.msg], state))
     IN \/ /\ added.status = "NoMemory"
           /\ Refuse(added.records)
           /\ UNCHANGED deliveries
        \/ /\ added.status # "NoMemory"
           /\ SendPublishAck(added.records, p.id, state, outcome)
           /\ IF added.status = "Success" THEN Deliver(p.msg) ELSE UNCHANGED deliveries
  /\ UNCHANGED brokerVars

(* handlePublishAcks for a PUBREL.                                         *)
HandlePubRel(outcome) ==
  /\ NextPacket("PUBREL")
  /\ LET i == Head(toDevice).id
         updated == UpdateStateAck(incoming, i, "PUBREL", "RECEIVE")
     IN \/ /\ updated.status # "Success"
           /\ Refuse(updated.records)
        \/ /\ updated.status = "Success"
           /\ SendPublishAck(updated.records, i, "PubCompSend", outcome)
  /\ UNCHANGED <<brokerVars, deliveries>>

-----------------------------------------------------------------------------
(* The connection *)

LinkFails ==
  /\ link = "up"
  /\ faults < MaxFaults
  /\ faults' = faults + 1
  /\ link' = "failed"
  /\ UNCHANGED <<deviceVars, brokerVars, toDevice, toBroker, strayed>>

(* What a broker sends again on a resumed session, in the original order.  *)
Resent == [n \in DOMAIN exchanges |->
             Packet(IF exchanges[n].phase = "publish" THEN "PUBLISH" ELSE "PUBREL", exchanges[n])]

(* handleSessionResumption clears the records unless a session is present. *)
SessionResumedKeeping(present) == UNCHANGED incoming      \* mutant: never cleared
SessionResumed(present) == incoming' = IF present THEN incoming ELSE NoRecords

ReconnectLeavingPackets(present) ==                       \* mutant: what was received before is read
  /\ link = "failed"
  /\ link' = "up"
  /\ toBroker' = << >>
  /\ SessionResumed(present)
  /\ IF present
       THEN /\ toDevice' = Resent
            /\ UNCHANGED brokerVars
       ELSE /\ exchanges' = << >>
            /\ fate' = [m \in Messages |-> IF fate[m] = "inFlight" THEN "forgotten" ELSE fate[m]]
            /\ UNCHANGED toDevice
  /\ strayed' = IF present THEN strayed ELSE {}
  /\ UNCHANGED <<deliveries, faults>>

(* What is on its way is lost with the old connection.                     *)
Reconnect(present) ==
  /\ link = "failed"
  /\ link' = "up"
  /\ toBroker' = << >>
  /\ SessionResumed(present)
  /\ IF present
       THEN /\ toDevice' = Resent
            /\ UNCHANGED brokerVars
       ELSE /\ toDevice' = << >>
            /\ exchanges' = << >>
            /\ fate' = [m \in Messages |-> IF fate[m] = "inFlight" THEN "forgotten" ELSE fate[m]]
  /\ strayed' = IF present THEN strayed ELSE {}
  /\ UNCHANGED <<deliveries, faults>>

-----------------------------------------------------------------------------
DeviceReceives(outcome) == HandleIncomingPublish(outcome) \/ HandlePubRel(outcome)

Next ==
  \/ \E m \in Messages, i \in PacketIds : Publish(m, i)
  \/ BrokerReceives
  \/ \E outcome \in Outcomes : DeviceReceives(outcome)
  \/ LinkFails
  \/ \E present \in BOOLEAN : Reconnect(present)

Spec == Init /\ [][Next]_vars

(* The agent task keeps reading and reconnecting.  The broker reads what   *)
(* has reached it before a connection is closed often enough: a device     *)
(* that closes a connection at once each time must not hide its last       *)
(* packet from it for ever.                                                *)
FairSpec == /\ Spec
            /\ WF_vars(DeviceReceives("sent"))
            /\ SF_vars(BrokerReceives)
            /\ WF_vars(\E present \in BOOLEAN : Reconnect(present))

-----------------------------------------------------------------------------
(* Properties *)

(* Every variable has its type.  Part of RecordsAreInFlight.               *)
TypeOK ==
  /\ incoming \in [Places -> RecordValues(PacketIds)]
  /\ link \in {"up", "failed"}
  /\ \A n \in DOMAIN toDevice : toDevice[n] \in
       [type : {"PUBLISH", "PUBREL"}, id : PacketIds, msg : Messages]
  /\ \A n \in DOMAIN toBroker : toBroker[n] \in
       [type : {"PUBACK", "PUBREC", "PUBCOMP"}, id : PacketIds]
  /\ \A n \in DOMAIN exchanges : exchanges[n] \in
       [msg : Messages, id : PacketIds, phase : {"publish", "release"}]
  /\ fate \in [Messages -> Fates]
  /\ deliveries \in [Messages -> 0 .. Often]
  /\ strayed \subseteq PacketIds
  /\ faults \in 0 .. MaxFaults

(* core_mqtt_serializer.h, on MQTTQoS2: delivery exactly once.  However    *)
(* often connections are lost, packets sent again and identifiers used     *)
(* again, the callback never gets a QoS 2 message twice.                   *)
QoS2NotTwice == \A m \in Messages : Qos[m] = 2 => deliveries[m] <= 1

(* core_mqtt_serializer.h, on MQTTQoS1: delivery at least once.  A message *)
(* the broker takes for delivered has reached the callback.                *)
DoneIsDelivered == \A m \in Messages : fate[m] = "done" => deliveries[m] >= 1

(* The broker ends the exchange of a message only after the callback has   *)
(* got it, unless an acknowledgment of the identifier of that exchange has *)
(* strayed in this session: a stray of another identifier, or in an        *)
(* earlier session, is no excuse.                                          *)
EndsDelivered(m) ==
  fate[m] # "done" /\ fate'[m] = "done" =>
    \/ deliveries[m] >= 1
    \/ \E n \in DOMAIN exchanges : exchanges[n].msg = m /\ exchanges[n].id \in strayed

DoneIsDeliveredUnlessStrayed == [][\A m \in Messages : EndsDelivered(m)]_vars

(* What QoS 1 and QoS 2 promise, message by message: packets resent,       *)
(* packets of an old connection and identifiers used again never give the  *)
(* callback of handleIncomingPublish a message that the broker has done    *)
(* with or forgotten, nor one of QoS 2 again.                              *)
Promise == INSTANCE Delivery WITH
             ExactlyOnce <- {m \in Messages : Qos[m] = 2},
             doubt <- (strayed # {})

DeliversAsPromised == Promise!Spec

(* A record belongs to a publish in flight, so that a new publish with a   *)
(* used identifier is never mistaken for a duplicate of an old one, unless *)
(* an acknowledgment with that identifier has strayed in this session.     *)
RecordsAreInFlight ==
  /\ TypeOK
  /\ \A p \in Used(incoming) :
       incoming[p].id \notin strayed =>
         \E n \in ExchangeOf(incoming[p].id) : Qos[exchanges[n].msg] = incoming[p].qos

(* The broker waits for a PUBCOMP and the device cannot give one: it has   *)
(* no record of the exchange, for its PUBCOMP was lost after the record    *)
(* had been deleted, or one that still waits to send a PUBREC, for that    *)
(* has strayed.  Every PUBREL ends the process loop with an error.         *)
Blocked(m) ==
  \E n \in DOMAIN exchanges :
    /\ exchanges[n].msg = m
    /\ exchanges[n].phase = "release"
    /\ \A p \in PositionsOf(incoming, exchanges[n].id) :
         incoming[p].state \notin {"PubRelPending", "PubCompSend"}

(* With no more identifiers in use than there are records, every exchange  *)
(* ends, whatever connections and acknowledgments are lost on the way.     *)
(* The exception holds up all the others too, for a blocked exchange is    *)
(* resent and refused on every connection.  With fewer records than        *)
(* identifiers a resent publish at the head of the order can be refused    *)
(* for ever, while the records are held by exchanges behind it.            *)
ExchangesEnd ==
  Cardinality(PacketIds) <= MaxCount =>
    \A m \in Messages :
      [](fate[m] = "inFlight" => <>(fate[m] # "inFlight") \/ <>[](\E o \in Messages : Blocked(o)))
=============================================================================
