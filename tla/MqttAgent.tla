------------------------------ MODULE MqttAgent ------------------------------
(***************************************************************************)
(* The coreMQTT agent as this firmware runs it: application tasks call the *)
(* MQTTAgent_* functions, which take a command structure from a pool and   *)
(* post it on a queue; the agent task runs the commands one by one, keeps  *)
(* the list of the operations awaiting an acknowledgment, and reconnects   *)
(* to the broker when the command loop ends with an error.                 *)
(*                                                                         *)
(* Steps are the points at which another task can run: every FreeRTOS      *)
(* queue operation and every blocking network call ends one.  Task         *)
(* priorities are not used: what holds here holds for every schedule.      *)
(***************************************************************************)
EXTENDS PublishRecords, Sequences, Functions

CONSTANTS
  Clients,       \* tasks that call the MQTTAgent_* API
  Ops,           \* the types of command they issue
  PoolSize,      \* MQTT_COMMAND_CONTEXTS_POOL_SIZE
  QueueLength,   \* MQTT_AGENT_COMMAND_QUEUE_LENGTH
  MaxAcks,       \* MQTT_AGENT_MAX_OUTSTANDING_ACKS
  MaxPacketId,   \* UINT16_MAX: packet identifiers wrap to 1 after it
  Subscribed     \* whether xGlobalSubscriptionList holds a filter

Agent == "agent"   \* the agent task as the issuer of a command

Publishes == {"PUBLISH_QOS1", "PUBLISH_QOS2"}
Subscriptions == {"SUBSCRIBE", "UNSUBSCRIBE"}
AckedTypes == Publishes \cup Subscriptions
Types == AckedTypes \cup {"PUBLISH_QOS0", "PROCESSLOOP", "PING", "DISCONNECT", "TERMINATE"}

ASSUME ConstantsAssumption ==
  /\ PoolSize \in Nat \ {0}
  /\ QueueLength \in Nat \ {0}
  /\ MaxAcks \in Nat \ {0}
  /\ MaxPacketId \in Nat \ {0}
  /\ Agent \notin Clients
  /\ Ops \subseteq Types
  /\ Subscribed \in BOOLEAN

Cmds == 1 .. PoolSize          \* commandStructurePool[], by position
NoCmd == 0                     \* a NULL command pointer
Slots == 1 .. MaxAcks          \* pPendingAcks[]
NoSlot == 0
PacketIds == 1 .. MaxPacketId

VARIABLES
  pool,         \* the FreeRTOS queue of free command structures
  queue,        \* the FreeRTOS queue of posted commands
  command,      \* what each command structure holds
  client,       \* what each calling task is doing
  task,         \* what the agent task is doing
  current,      \* the command the agent task has in hand
  failed,       \* whether the command loop ended with an error
  cursor,       \* position of the agent task in a scan of an array
  pending,      \* pPendingAcks[]
  stale,        \* the slot whose command has been released and which is still
                \* to be cleared, or NoSlot
  records,      \* outgoingPublishRecords[]
  skipped,      \* history: the identifiers of the publishes whose record has moved
                \* behind the cursor of the resend on this connection
  nextPacketId,
  connected,    \* connectStatus = MQTTConnected
  persistent,   \* the connection was made with cleanSession = false
  session,      \* the session-present flag of the CONNACK being acted on
  unanswered,   \* requests the broker has got on this connection and not answered
  fault         \* which configASSERT has stopped the device, if any

taskVars   == <<task, current, failed, cursor>>
ackVars    == <<pending, stale>>
recordVars == <<records, skipped>>
mqttVars   == <<ackVars, recordVars, nextPacketId>>
linkVars   == <<connected, persistent, session, unanswered>>
vars == <<pool, queue, command, client, taskVars, mqttVars, linkVars, fault>>

-----------------------------------------------------------------------------
(* Values *)

Blank == [type |-> "NONE", owner |-> Agent, inScope |-> FALSE]
CommandValues == [type : Types \cup {"NONE"}, owner : Clients \cup {Agent}, inScope : BOOLEAN]

ClientPcs == {"idle", "held", "filled", "refused", "returning"}
Idle == [pc |-> "idle", cmd |-> NoCmd, type |-> "NONE"]

TaskPcs == {"receive", "execute", "loop", "cancelQueue", "cancelAcks", "ended",
            "clearAcks", "resend", "resubscribe", "repost", "failing"}

NoEntry == [id |-> NoId, cmd |-> NoCmd]

Requests == [kind : AckedTypes \cup {"PUBREL"}, id : PacketIds]
Request(k, i) == [kind |-> k, id |-> i]

Faults == {"none", "releaseFailed", "reconnectFailed", "taskReturned"}

-----------------------------------------------------------------------------
(* Helpers *)

WithId(i) == {s \in Slots : pending[s].id = i}
FreeSlots == WithId(NoId)

PacketIdAfterUnwrapped(i) == i + 1                             \* mutant
PacketIdAfter(i) == IF i = MaxPacketId THEN 1 ELSE i + 1

QosOf(type) == IF type = "PUBLISH_QOS1" THEN 1 ELSE 2

(* Agent_ReleaseCommand: back into the pool, and a configASSERT that the   *)
(* queue took it.  Nothing reads a free structure before createCommand     *)
(* clears it, so its content is blank from here on.                        *)
Release(c) ==
  /\ command' = [command EXCEPT ![c] = Blank]
  /\ IF Len(pool) < PoolSize
       THEN pool' = Append(pool, c) /\ UNCHANGED fault
       ELSE fault' = "releaseFailed" /\ UNCHANGED pool

(* concludeCommand: the completion callback, then the release.             *)
Conclude(c) == Release(c)

(* Every caller that concludes an entry clears it only afterwards, when    *)
(* the structure may already be in another task's hands (ClearEntry).      *)
ConcludeEntry(s) ==
  /\ Conclude(pending[s].cmd)
  /\ stale' = s

Goto(pc) == task' = pc

(* processCommand sets pEndLoop and the command loop returns.              *)
EndLoop(withError) ==
  /\ Goto("ended")
  /\ failed' = withError
  /\ current' = NoCmd
  /\ UNCHANGED cursor

-----------------------------------------------------------------------------
Init ==
  /\ pool = [i \in Cmds |-> i]
  /\ queue = << >>
  /\ command = [c \in Cmds |-> Blank]
  /\ client = [k \in Clients |-> Idle]
  /\ task = "receive"
  /\ current = NoCmd
  /\ failed = FALSE
  /\ cursor = 1
  /\ stale = NoSlot
  /\ pending = [s \in Slots |-> NoEntry]
  /\ records = [p \in Slots |-> NoRecord]
  /\ skipped = {}
  /\ nextPacketId = 1
  /\ connected = TRUE
  /\ persistent = FALSE     \* prvMQTTConnect( true )
  /\ session = FALSE
  /\ unanswered = {}
  /\ fault = "none"

-----------------------------------------------------------------------------
(* The calling tasks: createAndAddCommand, step by step *)

(* getCommand returns a structure.  With an empty pool the call waits and  *)
(* returns MQTTNoMemory, which changes nothing.                            *)
GetCommand(k, type) ==
  /\ client[k].pc = "idle"
  /\ pool # << >>
  /\ client' = [client EXCEPT ![k] = [pc |-> "held", cmd |-> Head(pool), type |-> type]]
  /\ pool' = Tail(pool)
  /\ UNCHANGED <<queue, command, taskVars, mqttVars, linkVars, fault>>

(* createCommand reads the agent task's list without a lock.               *)
CreateCommand(k) ==
  /\ client[k].pc = "held"
  /\ LET type == client[k].type
         valid == type \in AckedTypes => FreeSlots # {}
     IN /\ command' = [command EXCEPT ![client[k].cmd] =
                         IF valid THEN [type |-> type, owner |-> k, inScope |-> TRUE]
                                  ELSE Blank]
        /\ client' = [client EXCEPT ![k].pc = IF valid THEN "filled" ELSE "refused"]
  /\ UNCHANGED <<pool, queue, taskVars, mqttVars, linkVars, fault>>

PostCommandToFront(k) ==                                       \* mutant: xQueueSendToFront
  /\ client[k].pc = "filled"
  /\ Len(queue) < QueueLength
  /\ queue' = <<client[k].cmd>> \o queue
  /\ client' = [client EXCEPT ![k] = [Idle EXCEPT !.pc = "returning"]]
  /\ UNCHANGED <<pool, command, taskVars, mqttVars, linkVars, fault>>

PostCommand(k) ==
  /\ client[k].pc = "filled"
  /\ Len(queue) < QueueLength
  /\ queue' = Append(queue, client[k].cmd)
  /\ client' = [client EXCEPT ![k] = [Idle EXCEPT !.pc = "returning"]]
  /\ UNCHANGED <<pool, command, taskVars, mqttVars, linkVars, fault>>

PostTimesOutLeaks(k) ==                                        \* mutant: not released
  /\ client[k].pc = "filled"
  /\ Len(queue) = QueueLength
  /\ client' = [client EXCEPT ![k] = [Idle EXCEPT !.pc = "returning"]]
  /\ UNCHANGED <<pool, queue, command, taskVars, mqttVars, linkVars, fault>>

(* The queue stayed full for blockTimeMs.                                  *)
PostTimesOut(k) ==
  /\ client[k].pc = "filled"
  /\ Len(queue) = QueueLength
  /\ client' = [client EXCEPT ![k].pc = "refused"]
  /\ UNCHANGED <<pool, queue, command, taskVars, mqttVars, linkVars, fault>>

ReleaseUnposted(k) ==
  /\ client[k].pc = "refused"
  /\ Release(client[k].cmd)
  /\ client' = [client EXCEPT ![k] = [Idle EXCEPT !.pc = "returning"]]
  /\ UNCHANGED <<queue, taskVars, mqttVars, linkVars>>

(* The calling function returns (PublishTelemetryMessage does so at once): *)
(* its locals, publishInfo among them, go out of scope.                    *)
ReturnToCaller(k) ==
  /\ client[k].pc = "returning"
  /\ client' = [client EXCEPT ![k] = Idle]
  /\ command' = [c \in Cmds |-> IF command[c].owner = k
                                  THEN [command[c] EXCEPT !.inScope = FALSE]
                                  ELSE command[c]]
  /\ UNCHANGED <<pool, queue, taskVars, mqttVars, linkVars, fault>>

ClientStep(k) ==
  \/ \E type \in Ops : GetCommand(k, type)
  \/ CreateCommand(k)
  \/ PostCommand(k)
  \/ PostTimesOut(k)
  \/ ReleaseUnposted(k)
  \/ ReturnToCaller(k)

-----------------------------------------------------------------------------
(* The agent task: MQTTAgent_CommandLoop and processCommand *)

(* recv returns the first command, or nothing once its wait has expired.   *)
ReceiveCommand ==
  /\ task = "receive"
  /\ current' = IF queue = << >> THEN NoCmd ELSE Head(queue)
  /\ queue' = IF queue = << >> THEN queue ELSE Tail(queue)
  /\ Goto("execute")
  /\ UNCHANGED <<pool, command, client, failed, cursor, mqttVars, linkVars, fault>>

Executing(types) == /\ task = "execute"
                    /\ current # NoCmd
                    /\ command[current].type \in types

(* concludeCommand with the outcome, then the process loop or the end.     *)
ConcludeCurrent(withError) ==
  /\ Conclude(current)
  /\ IF withError THEN EndLoop(TRUE)
                  ELSE Goto("loop") /\ current' = NoCmd /\ UNCHANGED <<failed, cursor>>

(* The wait expired: the function of NONE only asks for the process loop.  *)
ExecuteNone ==
  /\ task = "execute"
  /\ current = NoCmd
  /\ Goto("loop")
  /\ UNCHANGED <<pool, queue, command, client, current, failed, cursor, mqttVars, linkVars, fault>>

ExecuteProcessLoop ==
  /\ Executing({"PROCESSLOOP"})
  /\ ConcludeCurrent(FALSE)
  /\ UNCHANGED <<queue, client, mqttVars, linkVars>>

(* One packet that leaves nothing to wait for.                             *)
ExecuteUnacked(sendFails) ==
  /\ Executing({"PUBLISH_QOS0", "PING"})
  /\ ConcludeCurrent(sendFails)
  /\ UNCHANGED <<queue, client, mqttVars, linkVars>>

AwaitAckUnchecked(id) ==                                       \* mutant: duplicates allowed
  IF FreeSlots # {}
    THEN /\ pending' = [pending EXCEPT ![FirstOf(FreeSlots)] = [id |-> id, cmd |-> current]]
         /\ Goto("loop")
         /\ current' = NoCmd
         /\ UNCHANGED <<pool, command, failed, cursor, fault>>
    ELSE /\ ConcludeCurrent(TRUE)
         /\ UNCHANGED pending

AwaitAckConcluding(id) ==                                      \* mutant: concluded although added
  IF WithId(id) = {} /\ FreeSlots # {}
    THEN /\ pending' = [pending EXCEPT ![FirstOf(FreeSlots)] = [id |-> id, cmd |-> current]]
         /\ ConcludeCurrent(FALSE)
    ELSE /\ ConcludeCurrent(TRUE)
         /\ UNCHANGED pending

(* addAwaitingOperation, and processCommand's reaction to its result.      *)
AwaitAck(id) ==
  IF WithId(id) = {} /\ FreeSlots # {}
    THEN /\ pending' = [pending EXCEPT ![FirstOf(FreeSlots)] = [id |-> id, cmd |-> current]]
         /\ Goto("loop")
         /\ current' = NoCmd
         /\ UNCHANGED <<pool, command, failed, cursor, fault>>
    ELSE /\ ConcludeCurrent(TRUE)
         /\ UNCHANGED pending

(* MQTTAgentCommand_Publish for QoS 1 and 2.  MQTT_ReserveState refuses an *)
(* identifier in use and a full table; after it the record stays, whether  *)
(* the packet could be sent or not.                                        *)
ExecutePublish(sendFails) ==
  /\ Executing(Publishes)
  /\ nextPacketId' = PacketIdAfter(nextPacketId)
  /\ LET id == nextPacketId
         type == command[current].type
         qos == QosOf(type)
         reserved == AddRecord(records, Record(id, qos, "PublishSend"))
     IN IF reserved.status # "Success" \/ sendFails
          THEN /\ records' = reserved.records
               /\ ConcludeCurrent(TRUE)
               /\ UNCHANGED <<pending, unanswered>>
          ELSE /\ records' = UpdateStateSent(reserved.records, id, qos).records
               /\ unanswered' = unanswered \cup {Request(type, id)}
               /\ AwaitAck(id)
  /\ UNCHANGED <<queue, client, stale, skipped, connected, persistent, session>>

ExecuteSubscription(sendFails) ==
  /\ Executing(Subscriptions)
  /\ nextPacketId' = PacketIdAfter(nextPacketId)
  /\ IF sendFails
       THEN ConcludeCurrent(TRUE) /\ UNCHANGED <<pending, unanswered>>
       ELSE /\ unanswered' = unanswered \cup {Request(command[current].type, nextPacketId)}
            /\ AwaitAck(nextPacketId)
  /\ UNCHANGED <<queue, client, stale, recordVars, connected, persistent, session>>

ExecuteDisconnect(sendFails) ==
  /\ Executing({"DISCONNECT"})
  /\ Conclude(current)
  /\ EndLoop(sendFails)
  /\ connected' = (connected /\ sendFails)
  /\ UNCHANGED <<queue, client, mqttVars, persistent, session, unanswered>>

-----------------------------------------------------------------------------
(* MQTTAgent_CancelAll, run by a TERMINATE command *)

ExecuteTerminate ==
  /\ Executing({"TERMINATE"})
  /\ Goto("cancelQueue")
  /\ UNCHANGED <<pool, queue, command, client, current, failed, cursor, mqttVars, linkVars, fault>>

CancelQueued ==
  /\ task = "cancelQueue"
  /\ queue # << >>
  /\ Conclude(Head(queue))
  /\ queue' = Tail(queue)
  /\ UNCHANGED <<client, taskVars, mqttVars, linkVars>>

CancelQueueDone ==
  /\ task = "cancelQueue"
  /\ queue = << >>
  /\ Goto("cancelAcks")
  /\ cursor' = 1
  /\ UNCHANGED <<pool, queue, command, client, current, failed, mqttVars, linkVars, fault>>

(* The scans of pPendingAcks[]: CancelAll ends every entry,                *)
(* clearPendingAcknowledgments spares the publishes of a resumed session.  *)
Scanning == task \in {"cancelAcks", "clearAcks"} /\ cursor <= MaxAcks

SparedAny(s) == task = "clearAcks" /\ session                 \* mutant: also subscriptions

SparedWithoutSession(s) == /\ task = "clearAcks"               \* mutant: without one too
                           /\ command[pending[s].cmd].type \notin Subscriptions

Spared(s) == /\ task = "clearAcks"
             /\ session
             /\ command[pending[s].cmd].type \notin Subscriptions

ScanEntry ==
  /\ Scanning
  /\ cursor' = cursor + 1
  /\ IF pending[cursor].id # NoId /\ ~Spared(cursor)
       THEN ConcludeEntry(cursor)
       ELSE UNCHANGED <<pool, command, stale, fault>>
  /\ UNCHANGED <<queue, client, task, current, failed, pending, recordVars, nextPacketId, linkVars>>

ClearEntryOmitted ==                                           \* mutant: no memset
  /\ stale # NoSlot
  /\ stale' = NoSlot
  /\ UNCHANGED <<pool, queue, command, client, taskVars, pending, recordVars, nextPacketId, linkVars, fault>>

(* memset( pAckInfo ), wherever the entry was concluded.                   *)
ClearEntry ==
  /\ stale # NoSlot
  /\ pending' = [pending EXCEPT ![stale] = NoEntry]
  /\ stale' = NoSlot
  /\ UNCHANGED <<pool, queue, command, client, taskVars, recordVars, nextPacketId, linkVars, fault>>

CancelAcksDone ==
  /\ task = "cancelAcks"
  /\ cursor > MaxAcks
  /\ Conclude(current)
  /\ EndLoop(FALSE)
  /\ UNCHANGED <<queue, client, mqttVars, linkVars>>

-----------------------------------------------------------------------------
(* The process loop of processCommand: MQTT_ProcessLoop is called again as *)
(* long as the previous call received a packet.                            *)

(* Nothing more has arrived, or there is no connection to read.            *)
LoopIdle ==
  /\ task = "loop"
  /\ Goto("receive")
  /\ UNCHANGED <<pool, queue, command, client, current, failed, cursor, mqttVars, linkVars, fault>>

(* The receive fails, or the keep-alive finds the broker silent.           *)
LoopFails ==
  /\ task = "loop"
  /\ connected
  /\ EndLoop(TRUE)
  /\ UNCHANGED <<pool, queue, command, client, mqttVars, linkVars, fault>>

(* mqttEventCallback for an acknowledgment: getAwaitingOperation looks for *)
(* the identifier alone, whatever kind of packet it came in.               *)
Acknowledge(id) ==
  IF WithId(id) # {}
    THEN ConcludeEntry(FirstOf(WithId(id)))
    ELSE UNCHANGED <<pool, command, stale, fault>>

ReceiveSubAck(m) ==
  /\ task = "loop" /\ connected
  /\ m \in unanswered /\ m.kind \in Subscriptions
  /\ unanswered' = unanswered \ {m}
  /\ Acknowledge(m.id)
  /\ UNCHANGED <<queue, client, taskVars, pending, recordVars, nextPacketId, connected, persistent, session>>

(* PUBACK or PUBCOMP: MQTT_UpdateStateAck deletes the record, and a packet *)
(* without a record in the right state ends the loop.                      *)
ReceivePublishAck(m) ==
  /\ task = "loop" /\ connected
  /\ m \in unanswered /\ m.kind \in {"PUBLISH_QOS1", "PUBREL"}
  /\ unanswered' = unanswered \ {m}
  /\ LET ack == IF m.kind = "PUBREL" THEN "PUBCOMP" ELSE "PUBACK"
     IN \E updated \in {UpdateStateAck(records, m.id, ack, "RECEIVE")} :
        /\ records' = updated.records
        /\ \/ /\ updated.status = "Success"
              /\ Acknowledge(m.id)
              /\ UNCHANGED taskVars
           \/ /\ updated.status # "Success"
              /\ EndLoop(TRUE)
              /\ UNCHANGED <<pool, command, stale, fault>>
  /\ UNCHANGED <<queue, client, pending, skipped, nextPacketId, connected, persistent, session>>

(* PUBREC: the record moves behind the others and the PUBREL is sent.      *)
ReceivePubRec(m, sendFails) ==
  /\ task = "loop" /\ connected
  /\ m \in unanswered /\ m.kind = "PUBLISH_QOS2"
  /\ \E received \in {UpdateStateAck(records, m.id, "PUBREC", "RECEIVE")} :
       IF received.status # "Success" \/ sendFails
          THEN /\ records' = received.records
               /\ unanswered' = unanswered \ {m}
               /\ EndLoop(TRUE)
          ELSE /\ records' = UpdateStateAck(received.records, m.id, "PUBREL", "SEND").records
               /\ unanswered' = (unanswered \ {m}) \cup {Request("PUBREL", m.id)}
               /\ UNCHANGED taskVars
  /\ UNCHANGED <<pool, queue, command, client, ackVars, skipped, nextPacketId,
                 connected, persistent, session, fault>>

-----------------------------------------------------------------------------
(* prvMQTTAgentTask: what follows the end of the command loop *)

(* After a disconnect or a termination the task function returns, which    *)
(* its caller answers with configASSERT( 0 ).                              *)
TaskReturns ==
  /\ task = "ended" /\ ~failed
  /\ fault' = "taskReturned"
  /\ UNCHANGED <<pool, queue, command, client, taskVars, mqttVars, linkVars>>

(* Socket, TLS or MQTT connection refused: configASSERT stops the device.  *)
ReconnectFails ==
  /\ task = "failing" \/ (task = "ended" /\ failed)
  /\ connected' = FALSE
  /\ fault' = "reconnectFailed"
  /\ UNCHANGED <<pool, queue, command, client, taskVars, mqttVars, persistent, session, unanswered>>

SessionForgotten(present) ==                                   \* mutant: records always cleared
  /\ records' = [p \in Slots |-> NoRecord]
  /\ unanswered' = {}
  /\ skipped' = {}

(* handleSessionResumption: the PUBRELs are sent again, or the records are *)
(* cleared; what the broker had not answered is forgotten either way.      *)
SessionResumed(present) ==
  LET released == {p \in Slots : records[p].state \in RelStates}
  IN /\ records' = [p \in Slots |->
                      IF ~present THEN NoRecord
                      ELSE IF p \in released THEN [records[p] EXCEPT !.state = "PubCompPending"]
                      ELSE records[p]]
     /\ unanswered' = {Request("PUBREL", records[p].id) : p \in IF present THEN released ELSE {}}
     /\ skipped' = {}

(* MQTT_Connect with cleanSession = false.  A broker has a session to      *)
(* resume only if the last connection was not a clean one.                 *)
Reconnect(present) ==
  /\ task = "ended" /\ failed
  /\ present => persistent
  /\ SessionResumed(present)
  /\ session' = present
  /\ persistent' = TRUE
  /\ connected' = TRUE
  /\ Goto("clearAcks")
  /\ cursor' = 1
  /\ failed' = FALSE
  /\ UNCHANGED <<pool, queue, command, client, current, ackVars, nextPacketId, fault>>

(* MQTTAgent_ResumeSession goes on with the publishes, or it is over and   *)
(* the subscriptions of a new session are renewed, if there are any.       *)
ClearAcksDone ==
  /\ task = "clearAcks"
  /\ cursor > MaxAcks
  /\ cursor' = 1
  /\ session' = FALSE   \* a local variable of prvMQTTConnect, read for the last time
  /\ Goto(IF session THEN "resend" ELSE IF Subscribed THEN "resubscribe" ELSE "receive")
  /\ UNCHANGED <<pool, queue, command, client, current, failed, mqttVars,
                 connected, persistent, unanswered, fault>>

(* resendPublishes: one record after the other; a record whose command is  *)
(* no longer awaited is passed over.  MQTT_Publish reserves the identifier *)
(* once more: it is in use, which is no error for a duplicate, but the     *)
(* array may have been compacted, and the cursor stays where it was.       *)
ResendPublish(sendFails) ==
  /\ task = "resend"
  /\ cursor <= MaxAcks
  /\ cursor' = cursor + 1
  /\ LET id == records[cursor].id
         toResend == {p \in Slots : /\ records[p].state \in SendStates
                                   /\ WithId(records[p].id) # {}}
         found == cursor \in toResend
         slot == FirstOf(WithId(id))
         type == command[pending[slot].cmd].type
         reserved == AddRecord(records, Record(id, QosOf(type), "PublishSend")).records
         overtaken == {p \in toResend : /\ p > cursor
                                        /\ PositionsOf(reserved, records[p].id) \subseteq 1 .. cursor}
     IN \/ /\ ~found
           /\ UNCHANGED <<pool, command, task, stale, recordVars, unanswered, fault>>
        \/ /\ found /\ ~sendFails
           /\ records' = UpdateStateSent(reserved, id, QosOf(type)).records
           /\ skipped' = skipped \cup {records[p].id : p \in overtaken}
           /\ unanswered' = unanswered \cup {Request(type, id)}
           /\ UNCHANGED <<pool, command, task, stale, fault>>
        \/ /\ found /\ sendFails
           /\ records' = reserved
           /\ ConcludeEntry(slot)
           /\ Goto("failing")
           /\ UNCHANGED <<skipped, unanswered>>
  /\ UNCHANGED <<queue, client, current, failed, pending, nextPacketId, connected, persistent, session>>

ResendDone ==
  /\ task = "resend"
  /\ cursor > MaxAcks
  /\ Goto("receive")
  /\ cursor' = 1
  /\ UNCHANGED <<pool, queue, command, client, current, failed, mqttVars, linkVars, fault>>

(* prvHandleResubscribe calls MQTTAgent_Subscribe with a block time of 0;  *)
(* its arguments are static and stay in scope.                             *)
Resubscribe ==
  /\ task = "resubscribe"
  /\ IF pool = << >>
       THEN /\ Goto("failing")
            /\ UNCHANGED <<pool, command, current>>
       ELSE /\ current' = Head(pool)
            /\ pool' = Tail(pool)
            /\ command' = [command EXCEPT ![Head(pool)] =
                             [type |-> "SUBSCRIBE", owner |-> Agent, inScope |-> TRUE]]
            /\ Goto("repost")
  /\ UNCHANGED <<queue, client, failed, cursor, mqttVars, linkVars, fault>>

RepostSubscribe ==
  /\ task = "repost"
  /\ current' = NoCmd
  /\ IF Len(queue) < QueueLength
       THEN /\ queue' = Append(queue, current)
            /\ Goto("receive")
            /\ UNCHANGED <<pool, command, fault>>
       ELSE /\ Release(current)
            /\ Goto("failing")
            /\ UNCHANGED queue
  /\ UNCHANGED <<client, failed, cursor, mqttVars, linkVars>>

AgentAction ==
  \/ ReceiveCommand
  \/ ExecuteNone
  \/ ExecuteProcessLoop
  \/ \E sendFails \in BOOLEAN : \/ ExecuteUnacked(sendFails)
                                \/ ExecutePublish(sendFails)
                                \/ ExecuteSubscription(sendFails)
                                \/ ExecuteDisconnect(sendFails)
                                \/ ResendPublish(sendFails)
                                \/ \E m \in unanswered : ReceivePubRec(m, sendFails)
  \/ ExecuteTerminate \/ CancelQueued \/ CancelQueueDone
  \/ ScanEntry \/ CancelAcksDone
  \/ LoopIdle \/ LoopFails
  \/ \E m \in unanswered : ReceiveSubAck(m) \/ ReceivePublishAck(m)
  \/ TaskReturns \/ ReconnectFails
  \/ \E present \in BOOLEAN : Reconnect(present)
  \/ ClearAcksDone \/ ResendDone
  \/ Resubscribe \/ RepostSubscribe

AgentStep == \/ ClearEntry
             \/ stale = NoSlot /\ AgentAction

-----------------------------------------------------------------------------
Running == fault = "none"       \* configASSERT disables interrupts and spins

Next == /\ Running
        /\ \/ \E k \in Clients : ClientStep(k)
           \/ AgentStep

Spec == Init /\ [][Next]_vars

(* FreeRTOS keeps running a ready task of the highest priority, so neither *)
(* the agent task nor a task in the middle of an API call stops for good.  *)
(* Commands are issued at will, and the network may do anything.           *)
FairSpec == /\ Spec
            /\ WF_vars(Running /\ AgentStep)
            /\ \A k \in Clients :
                 WF_vars(Running /\ (PostCommand(k) \/ PostTimesOut(k) \/ ReleaseUnposted(k)
                                       \/ CreateCommand(k) \/ ReturnToCaller(k)))

(* A broker that answers: the requests it has got are not kept waiting for *)
(* ever while the agent task keeps reading the connection.                 *)
AnsweringBroker ==
  \A i \in PacketIds :
    SF_vars(Running /\ \E m \in unanswered :
                         /\ m.id = i /\ stale = NoSlot
                         /\ ReceiveSubAck(m) \/ ReceivePublishAck(m) \/ ReceivePubRec(m, FALSE))

-----------------------------------------------------------------------------
(* Properties *)

HeldBy(k) == IF client[k].pc \in {"held", "filled", "refused"} THEN {client[k].cmd} ELSE {}
HeldByClients == {c \in Cmds : \E k \in Clients : c \in HeldBy(k)}
InHand == {current} \ {NoCmd}
Awaited == {c \in Cmds : \E s \in Slots \ {stale} : pending[s].cmd = c}

TypeOK ==
  /\ pool \in Seq(Cmds)
  /\ queue \in Seq(Cmds)
  /\ command \in [Cmds -> CommandValues]
  /\ client \in [Clients -> [pc : ClientPcs, cmd : Cmds \cup {NoCmd}, type : Types \cup {"NONE"}]]
  /\ task \in TaskPcs
  /\ current \in Cmds \cup {NoCmd}
  /\ failed \in BOOLEAN
  /\ cursor \in Nat \ {0}
  /\ pending \in [Slots -> [id : PacketIds \cup {NoId}, cmd : Cmds \cup {NoCmd}]]
  /\ stale \in Slots \cup {NoSlot}
  /\ records \in [Slots -> RecordValues(PacketIds)]
  /\ skipped \subseteq PacketIds \cup {NoId}
  /\ nextPacketId \in PacketIds
  /\ connected \in BOOLEAN
  /\ persistent \in BOOLEAN
  /\ session \in BOOLEAN
  /\ unanswered \subseteq Requests
  /\ fault \in Faults

HeldApart == \A k, l \in Clients : k # l => HeldBy(k) \cap HeldBy(l) = {}
SlotsApart == \A s, t \in Slots \ {stale} :
                pending[s].cmd = pending[t].cmd /\ s # t => pending[s].cmd = NoCmd

(* A command structure is in one place only: free, with one caller, on the *)
(* queue, in the agent task's hand or awaiting one acknowledgment; and it  *)
(* is in that place once.  concludeCommand, the failure path of            *)
(* createAndAddCommand and the cancel scans all release structures, so a   *)
(* second release, or a lost one, would break this.                        *)
InOnePlace ==
  /\ IsInjective(pool)
  /\ IsInjective(queue)
  /\ HeldApart
  /\ SlotsApart
  /\ Range(pool) \cap (Range(queue) \cup HeldByClients \cup InHand \cup Awaited) = {}
  /\ Range(queue) \cap (HeldByClients \cup InHand \cup Awaited) = {}
  /\ HeldByClients \cap (InHand \cup Awaited) = {}
  /\ InHand \cap Awaited = {}

NothingLost ==
  Cmds = Range(pool) \cup Range(queue) \cup HeldByClients \cup InHand \cup Awaited

OwnershipOK == InOnePlace /\ NothingLost

(* The configASSERT( structReturned ) of Agent_ReleaseCommand never fires: *)
(* "The send should not fail as the queue was created to hold every        *)
(* command in the pool."                                                   *)
ReleaseNeverFails == fault # "releaseFailed"

(* With fewer command structures than slots for acknowledgments, neither   *)
(* the unlocked check in createCommand nor addAwaitingOperation can find   *)
(* the list full, although the check and the use are far apart in time.    *)
(* As many structures as slots would not do: a concluded command is given  *)
(* back before its slot is cleared.                                        *)
AckSlotAvailable ==
  PoolSize < MaxAcks =>
    (HeldByClients # {} \/ InHand # {} => FreeSlots # {})

\* The structures of calls made and not yet run; a former renewal may be one.
Backlog == Range(queue) \cup HeldByClients

(* prvHandleResubscribe takes a structure and a place on the queue, both   *)
(* with a block time of 0, and a refusal stops the device.  It is refused  *)
(* a structure only while every one of them is a caller's or on the queue: *)
(* by then each operation that awaited an acknowledgment on the lost       *)
(* connection, the publishes too, has given its own back.  It is refused a *)
(* place only if the queue is shorter than the pool.                       *)
RenewalRefusedByBacklog ==
  [][/\ task = "resubscribe" /\ task' = "failing" => Backlog = Cmds
     /\ task = "repost" /\ task' = "failing" => PoolSize > QueueLength]_vars

LoopRunning == task \in {"receive", "execute", "loop"}

AnswerTo(type) == IF type = "PUBLISH_QOS2" THEN {"PUBLISH_QOS2", "PUBREL"} ELSE {type}

(* Every operation awaiting an acknowledgment can still get one: whenever  *)
(* the command loop runs, the broker has its request, sent or resent, on   *)
(* the present connection.  No reconnection forgets an operation, except   *)
(* one whose record was skipped.                                           *)
IsOutstanding(s) ==
  \E m \in unanswered : m.id = pending[s].id /\ m.kind \in AnswerTo(command[pending[s].cmd].type)

AwaitedIsOutstanding ==
  LoopRunning =>
    \A s \in Slots \ {stale} : pending[s].id \notin skipped \cup {NoId} => IsOutstanding(s)

(* core_mqtt_state.h: calling MQTT_PublishToResend repeatedly until the    *)
(* packet id is 0 will give all the packets for which a publish need to be *)
(* resent.  So no awaited publish is left without its request.             *)
AwaitedPublishIsResent ==
  LoopRunning =>
    \A s \in Slots \ {stale} :
      pending[s].id # NoId /\ command[pending[s].cmd].type \in Publishes => IsOutstanding(s)

(* getAwaitingOperation compares identifiers only; still an acknowledgment *)
(* never concludes an operation of another kind, not even after the packet *)
(* identifiers have wrapped and collided.                                  *)
AnswersMatch ==
  LoopRunning =>
    \A m \in unanswered : \A s \in WithId(m.id) \ {stale} :
      m.kind \in AnswerTo(command[pending[s].cmd].type)

(* A publish awaiting its acknowledgment has its record in the state table *)
(* of the library, in the state its next acknowledgment needs: two tables  *)
(* kept by two layers, cleared and scanned at different moments.           *)
AwaitedPublishIsRecorded ==
  LoopRunning =>
    \A s \in Slots \ {stale} :
      pending[s].id # NoId /\ command[pending[s].cmd].type \in Publishes =>
        \E p \in PositionsOf(records, pending[s].id) :
          records[p].state \in (IF command[pending[s].cmd].type = "PUBLISH_QOS1"
                                  THEN {"PubAckPending"}
                                  ELSE {"PubRecPending", "PubCompPending"})

(* The place of a structure, for the abstract specification.               *)
PhaseOf(c) ==
  CASE c \in Range(pool)                       -> "free"
    [] c \in Range(queue)                      -> "queued"
    [] c \in HeldByClients \/ (c = current /\ task = "repost") -> "held"
    [] c = current /\ task # "repost"             -> "running"
    [] OTHER                                      -> "awaiting"

Lifecycle == INSTANCE CommandLifecycle
               WITH Structs <- Cmds, phase <- [c \in Cmds |-> PhaseOf(c)]

(* Every step of every task moves at most one structure, along the life of *)
(* a command: what is accepted is concluded, once.                         *)
CommandsLiveOnce == Lifecycle!Spec

(* A posted command is taken off the queue, or the device has stopped.     *)
PostedIsTaken ==
  \A c \in Cmds : (c \in Range(queue)) ~> (c \notin Range(queue) \/ ~Running)

(* With a broker that answers, an operation does not await its             *)
(* acknowledgment for ever, whatever connections are lost meanwhile,       *)
(* provided the agent task keeps coming to its process loop (a run of      *)
(* commands that all fail ends the command loop before it, each time) and  *)
(* the record of the operation is not skipped.                             *)
AwaitedIsConcluded ==
  AnsweringBroker /\ []<>(task = "loop") =>
    \A c \in Cmds :
      (c \in Awaited) ~>
        \/ c \notin Awaited \/ ~Running
        \/ \E s \in Slots : pending[s].cmd = c /\ pending[s].id \in skipped

(* core_mqtt_agent.h, on the completion callback: the arguments that a     *)
(* command uses MUST stay in scope until the callback is called.           *)
ArgsInScope ==
  \A c \in Range(queue) \cup InHand \cup Awaited : command[c].inScope
=============================================================================
