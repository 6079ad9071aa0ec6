# STSAFE-A110-Project: specifications

TLA+ modules, TLC runs and TLAPS proofs for the firmware in `src/Core`: an
STM32L4S5 node that publishes telemetry over MQTT, TLS (wolfSSL with an
STSAFE-A110 secure element) and an Inventek Wi-Fi module, under FreeRTOS.

## 1. The system

Three tasks (`freertos.c`): `mqttTask` (High) brings the network up and becomes
the MQTT agent; `sampleDataTask` (Normal) publishes a message every 5 s;
`defaultTask` (Low) toggles a LED. They share a command queue, a pool of
command structures, two flags in `GlobalState`, and the message buffer.

| Component | State | Operations | Talks to |
|---|---|---|---|
| MQTT agent (`core_mqtt_agent.c`, `..._command_functions.c`) | `pPendingAcks[20]`, end-of-loop flag, the command in hand | API calls (create, post, release), command loop, one function per command, ack callback, cancel all, resume session | pool and queue; MQTT client; completion callbacks |
| Command pool and queues (`freertos_command_pool.c`, `freertos_agent_message.c`) | a FreeRTOS queue of 10 free structures, one of 25 posted commands | get, release; send, receive with a timeout | calling tasks, agent task |
| Publish records (`core_mqtt_state.c`) | two arrays of `{packetId, qos, state}` | reserve, update on publish / ack, remove, select for resend, compact | MQTT client, agent |
| MQTT client (`core_mqtt.c`) | connection status, next packet id, receive buffer and index, keep-alive times, `waitingForPingResp` | connect, publish, (un)subscribe, ping, disconnect, process loop, topic matching | transport, records, agent callback |
| MQTT serializer (`core_mqtt_serializer.c`) | none | packet coding | client |
| Agent task (`task_mqtt_agent.c`) | network context, subscription list | connect, command loop, reconnect, resubscribe | agent, transport |
| Telemetry task (`task_sample_data.c`) | shared message buffer | update, publish | agent API |
| Subscription manager (`subscription_manager.c`) | `xGlobalSubscriptionList[10]` | add, remove, dispatch | agent task |
| Transport (`transport_interface*.c`) | socket, wolfSSL context and session | connect, disconnect, send, receive | Wi-Fi driver, wolfSSL, secure element |
| Wi-Fi driver (`wifi*.c`, `es_wifi*.c`) | AT buffer, SPI event flags | AT commands, SPI transfers, interrupt handlers | Wi-Fi module |
| Secure element (`stsafe_interface.c`) | ephemeral key, handle | wolfSSL public-key callbacks | STSAFE-A110 |
| Start-up (`main.c`, `freertos.c`, `task_default.c`) | `WiFiConnected`, `MQTTConnected` | task creation | all |

**What is hard.** Several tasks use the agent's structures, and one of them
(`createCommand`) reads the agent task's list without a lock. A structure is
returned to the pool *before* the list entry that points to it is cleared. Two
layers (the agent's list, the library's records) describe the same operations
and are reset at different moments of a reconnection. A network failure can
come between any two packets. The records are compacted while the resend walks
them. Identifiers wrap. A refused reconnection stops the device. A failed
attempt to connect leaves things open behind it. The subscription list changes
while it is walked, and its renewal competes with failures of the link.
`PROJECT.json` lists the hazards line by line, the ones no property covers too.

**What makes each component correct.** *Pool and queue*: no structure lost, none
in two places, no overflow. *Agent*: every accepted command is concluded exactly
once; an acknowledgment concludes the operation it belongs to; every awaited
operation can still be answered. *Records*: QoS and state agree, no room is lost
to gaps, the resend is complete and in order. *Agent task*: an error leads back
to a working connection. *Client*: keep-alive notices a dead peer and only a
dead peer; a packet is handled once. *Subscription manager*: each publish
reaches each matching callback once, the first free place is used. *Transport*:
every session and context is freed once, never used after. *Start-up*: it
ends in a connection, and nothing that was posted is thrown away by it.

## 2. Modules

| Module | What it is |
|---|---|
| `CommandLifecycle` | abstract: the phases of a command structure |
| `ResendOrder` | abstract: the publishes and PUBRELs a resumed session must send, in order |
| `Delivery` | abstract: what QoS 1 and QoS 2 promise about each message of the broker |
| `Positions` | listing a set of positions in ascending order, by rank |
| `PublishRecords` | the operators of `core_mqtt_state.c` on an array of records |
| `OutgoingRecords` (`MCOutgoingRecords`) | the outgoing array under every sequence of calls; implements `ResendOrder` |
| `MqttAgent` (`MCMqttAgent`) | calling tasks, pool, queue, agent task, list of awaited operations, records, broker and network; implements `CommandLifecycle`; uses `PublishRecords` |
| `IncomingPublishes` (`MCIncomingPublishes`) | publishes from the broker, the incoming array, and reconnections; implements `Delivery`; uses `PublishRecords` |
| `ReceiveBuffer` (`MCReceiveBuffer`) | `receiveSingleIteration` on the bytes of the receive buffer |
| `KeepAlive` | `handleKeepAlive` and the times it reads, with a clock that wraps and a peer that may die |
| `TopicMatch` | `MQTT_MatchTopic` as a function, and the definition of MQTT 3.1.1 it is compared with |
| `Subscriptions` (`MCSubscriptions`) | the subscription list, the dispatch of publishes, and the renewal after a lost session; uses `TopicMatch` |
| `Connection` | the start-up, the stages of a connection and what each leaves behind, disconnection, reconnection, the start of the telemetry task |
| `RemainingLength` | the coding of the remaining length and the size of a PUBLISH packet; part of `ReceiveBuffer` |
| `PublishRecordsProofs` | lemmas on positions, on arrays, and on what each record operator does to the type of the array and to its records |
| `OutgoingRecordsProofs` | `OutgoingRecords`: its invariant, the refinement of `ResendOrder`, the loop of `compactRecords` |
| `MqttAgentProofs` | `MqttAgent`: types, ownership, room, the refinement of `CommandLifecycle`; the list, the records and the requests agree |
| `IncomingPublishesProofs` | `IncomingPublishes`: records and exchanges over lost connections, the refinement of `Delivery` |
| `ReceiveBufferProofs` | `ReceiveBuffer`: framing, order, room; the coding of the remaining length |
| `KeepAliveProofs` | `KeepAlive`: how long either side can be silent |
| `SubscriptionsProofs` | `Subscriptions`: types, renewals, dispatch, SUBACKs; topic matching |
| `ConnectionProofs` | `Connection`: pointers, lost memory, what stops the device |

### MqttAgent

A step is what happens between two points at which another task can run: each
FreeRTOS queue operation and each blocking network call ends one. Priorities are
not used, so the results hold for every schedule.

* **Callers.** `createAndAddCommand` is `GetCommand`, `CreateCommand` (reads
  `pPendingAcks` unlocked), `PostCommand` or `PostTimesOut`, and
  `ReleaseUnposted` on failure. An empty pool makes the call return
  `MQTTNoMemory` and changes nothing, so it is no step. `ReturnToCaller` is the
  return of the function that holds the arguments.
* **Command loop.** `ReceiveCommand` takes a command, or nothing after the 1 s
  wait; the `Execute...` actions are the command functions with the reaction of
  `processCommand`. `sendFails` stands for every failure of the transport's
  send. `LoopIdle`, `LoopFails` and the `Receive...` actions are the turns of
  `MQTT_ProcessLoop`.
* **Conclusion.** `Conclude` is the callback and `Agent_ReleaseCommand`. The
  three callers that conclude a list entry clear it afterwards: `stale` names
  the slot in between and `ClearEntry` is the `memset`; other tasks run in
  between. A free structure is blank since nothing reads it before
  `createCommand` clears it.
* **Reconnection.** `Reconnect(present)` is socket, TLS and `MQTT_Connect` with
  `cleanSession = false`, and `handleSessionResumption` (`SessionResumed`). The first
  connection is a clean one, so a broker can have a session only from the second
  reconnection on (`persistent`). Then `clearPendingAcknowledgments`
  (`ScanEntry`), `resendPublishes` (`ResendPublish`, with the compaction that
  `MQTT_ReserveState` may do under the cursor) or `prvHandleResubscribe`.
  `ReconnectFails` is any of the three `configASSERT`s; a renewal that is
  refused, by an empty pool in `Resubscribe` or a full queue in
  `RepostSubscribe`, leads to it (`failing`).
* **Broker and network.** `unanswered` holds the requests the broker has got on
  this connection. It answers in any order, any answer may never come, and a
  reconnection forgets them all.
* `skipped` is a history variable: the identifiers whose record was moved behind
  the resend's cursor.

Abstractions, all in the direction of more behaviour unless said: arguments that
have gone out of scope are taken to keep their values, so every run except
`agent_scope` is relative to callers that keep them; `configASSERT(pdTRUE)` in
the subscribe callback does nothing; the `CONNECT` command is left out
(the firmware never calls `MQTTAgent_Connect`); incoming PUBLISH packets have
a module of their own; PINGRESP changes nothing here. A failed `configASSERT` disables
interrupts and spins, so nothing runs afterwards: that is why the runs of
`MqttAgent` have `CHECK_DEADLOCK FALSE`. What would be a deadlock of a running
device is excluded by the liveness properties.

### OutgoingRecords

Places are positions 1..MaxCount. `Compact` lists the places that are taken in
ascending order (`InOrder` of `Positions`), so that it can be reasoned about;
`CompactLoop` is the loop of `compactRecords`, turn by turn, and
`CompactIsTheLoop` says that both leave the same array. `Select` lists the identifiers of the
records in given states the same way: it is what repeated calls of
`stateSelect` return. `UpdateStateAck` moves a record to the end at PUBREC, as the
code does, to keep the order of the PUBRELs.

### IncomingPublishes

`HandleIncomingPublish` is `MQTT_UpdateStatePublish`, the callback unless the
identifier has a record, and `sendPublishAcks`; `HandlePubRel` is
`handlePublishAcks` for a PUBREL. Only the agent task touches the incoming
records, so the handling of one packet is one step. A send ends in one of three
ways: it succeeds, it fails, or it is reported as failed although the packet
arrives (`late`; `AT_RequestSendData` reports an error also when only the
module's reply is lost). The broker is external and follows MQTT 3.1.1: it
keeps its exchanges in order, ignores acknowledgments that fit none, and resends
what is unfinished on a resumed session. The behaviours start with the first
connection whose session can be resumed. `strayed` is a history variable: the
identifiers with a `late` acknowledgment in the present session. A session that
is not resumed empties it, since records, exchanges and packets go with it.

`Delivery` says what all this is for, message by message: a message reaches the
callback only from the moment the broker first sends it until the broker is done
with it or forgets it with the session, one of QoS 2 once, and the broker is
not done with it earlier, unless an acknowledgment has strayed in the same
session (`doubt`).
`DeliversAsPromised` maps `fate` and `deliveries` to themselves and `doubt` to
`strayed # {}`. A packet of an old connection that is read on the new one breaks
it, which is why `handleSessionResumption` clears the buffer.

### ReceiveBuffer

A byte is its number in the stream of a connection, so that what is lost,
repeated or shifted shows. `Iterate` is one `receiveSingleIteration`: a receive into the
free part, then at most one packet, handled, or discarded when it is larger
than the buffer (`discardStoredPacket`, with the subtraction of what is already
there). Where the packets of a connection end, and the lengths of their headers,
are constants.

### KeepAlive

Time passes in ticks between the steps of the agent task, at most `MaxPause` of
them between two steps. `ReceiveNothing` is an iteration in which the transport
has no data: keep-alive first, then a packet read before. `ReceivePackets` and
`HandlePacket` are one with data, in which the keep-alive is not looked at.
`lastPacketRxTime` survives a reconnection, as in the code. Abstractions:
packets arrive whole (pieces are the matter of `ReceiveBuffer`), PINGREQs that
callers post themselves are left out, a reconnection succeeds.

### Subscriptions and TopicMatch

The list has no lock and needs none, since only the agent task works on it:
every step is one of that task, except the broker's answer. `PublishArrives`,
`CallPlace`, `PassPlace` and `PublishHandled` are `handleIncomingPublishes`, one
step per place, because the callback it calls may add and remove registrations
(`CallbackAdds`, `CallbackRemoves`) while the walk stands at its place. `kept`
remembers the registrations that were there from the start and that no callback
removed. `Reconnect` is `prvMQTTConnect( false )`: the renewals awaiting a SUBACK
are concluded first, and then the list is copied into the static arguments of
a new one. `SendSubscribe` reads those arguments when the command is run;
`SubAckArrives` reads them again.

The firmware subscribes to nothing, so the application is external: its
SUBSCRIBE with the completion callback that registers the filter, and its
UNSUBSCRIBE, are one step each (their life as commands is in `MqttAgent`), and a
callback registers others only for filters that are listed. A renewal that ends
without a SUBACK is concluded with no codes; the callback reads at the address 0
(`task_mqtt_agent.c:457`), so any subset of the filters may be delisted
(`ConcludedWithoutCodes`). `unrenewed` is a history variable. At most
`MaxRenewals` renewals are queued; the code has no such bound but the queue's.

`MatchTopicFilter` moves two positions as the code does, and keeps the answer for
each pair of them in a recursive function (of the position in the name first, so
that each row is made of later rows). `StandardMatch` goes
level by level. `LostByPlus` describes the pairs on which they differ, exactly:
the code looks at the special cases for the end of a filter only after
comparing two equal characters, so where `+` takes a level of the name and the
name then ends, `a` is not matched by `+/#`, `a/b` not by `a/+/#`, and `/` not by
`+/+`, although the header says that matching follows the standard
(`core_mqtt.h:872-873`). Names and filters are assumed valid by the standard, as
the header asks (`core_mqtt.h:884`): a name has no wildcards, and in a filter a
wildcard is a level of its own and `#` the last one. `Names` and `Patterns` are the
words of the comparison; `Topics` and `Filters` those of the dispatch.

### Connection

One action per stage of `ConnectToMQTTBroker` and `prvSocketConnect`, in the order
of the code; `GiveUp` is where a failure leads: another attempt during the
start-up, a failed `configASSERT` during a reconnection. `tls` has the two pointers
of `SSLContext_t`, the reference count of each wolfSSL context and the context each
session refers to, as in wolfSSL's `wolfSSL_CTX_new_ex`, `SetSSL_CTX`, `FreeSSL`
and `FreeSSL_Ctx`. The heap holds `HeapObjects` of them. `TlsOutcomes` lists the
ways through `tlsSetup`. A command to the Wi-Fi module may fail, or take effect
and be reported as failed; whether the module lets an open socket be opened
again is not known, and both are allowed. A failure of the network, the module,
the secure element or the broker is a fault and there are at most `MaxFaults`;
the end of an established connection is not counted. `LoopTakes` and
`PublishTelemetry` keep only the number of posted commands.

### RemainingLength

Functions of numbers and sequences of bytes, which `ReceiveBuffer` extends and
says `LengthsReadAsWritten` of. What is written and what is read are constants:
`Lengths`, `Codings` (byte sequences that may start with a length, or with part
of one), `TopicLengths`, `PayloadLengths`. The run takes them at the boundaries of
the coding; the theorem takes any. No arithmetic of theirs wraps in 32 bits: a length has at most 28 bits,
and the header fields of a publish are far below the limit they are taken from.

## 3. Runs

| Run | Instance | Question |
|---|---|---|
| `agent_safety` | 1 caller, pool 2, queue 2, 3 slots, ids 1..3, QoS 2, subscribe, a filter to renew | room on the list, when a renewal is refused, requests outstanding, answers that match |
| `agent_tight` | 2 callers, a command of every kind, pool 2, queue 1, 1 slot, ids 1..2, a filter to renew | everything overflows; ownership; refinement of `CommandLifecycle` |
| `agent_live` | 1 caller, pool 2, queue 2, 3 slots, ids 1..2, QoS 1 and 2, fair | awaited publishes recorded; every posted command is taken; every awaited operation is concluded |
| `records` | 3 places, 4 identifiers | compaction, QoS and state, room, refinement of `ResendOrder` |
| `incoming` | 3 messages, 2 identifiers, 2 places, 3 faults, fair | exactly once, at least once, records and exchanges in step, refinement of `Delivery`, every exchange ends |
| `buffer` | a buffer of 5, seven packets, fair; lengths around every boundary of their coding, headers of up to five bytes | framing, order, room, no packet left waiting; lengths are read as they are written, publish sizes are right |
| `keepalive` | clock modulo 15, timeouts 3, 4, 1 | dead peers noticed, live ones kept, the client not silent |
| `subscriptions` | 3 places, 2 overlapping filters, 2 callbacks, 2 topics, 2 renewals; names of up to 4 characters against every valid filter of up to 5 | dispatch, renewal, SUBACKs read against the right filters; matching by the standard |
| `connection` | 5 contexts, 5 sessions, a heap for 5 of them, a queue of 2, 6 faults, fair | pointers and reference counts, lost memory, what stops the device, the start-up ends |
| `agent_scope`, `agent_resend`, `incoming_lost` | small | the documented claims that the code does not keep (below) |

`TypeOK` is checked in the runs as a part of `NoDanglingPointers`,
`QosAndStateAgree`, `RecordsAreInFlight` and `SilenceIsBounded` where it is not an
invariant of its own. What is about functions alone (`LengthsReadAsWritten`,
`MatchIsStandardButForPlus`) is evaluated in the initial state.

**Bounds.** *Agent.* Two structures are the least for one to be released, taken
by another task and posted while an old entry still points to it. Queue and list
are as large as, smaller and larger than the pool in different runs. Two or
three identifiers make the counter wrap after as many packets, so that
collisions occur; three fill a list that is larger than the pool when an entry is
leaked, and leave room for a compaction under the cursor. *Records.* Three
places are the least with a gap between two records. *Incoming.* Three messages
on two identifiers: one is used again while another exchange is open.
`MaxFaults` = 3 lets an exchange lose each of its acknowledgments; `Often` = 2
stands for any count above one. *Buffer.* The lengths lie below, at and above
the size of the buffer, and the last byte of a header may be missing. *Keep-alive.*
`MaxPause` = 2 exceeds the PINGRESP timeout, as the 20 s a send may take exceed
the 5 s of the firmware. `Modulus` is only just larger than the sum of the timeouts and three pauses, the
longest time the code can come to compare (the device has 2^32 ms and some tens of
seconds), so a clock that wraps, and an old `lastPacketRxTime` at any
distance, are met at once; `Long` caps two history counters above every bound a
property states; `MaxPackets` = 2 is the least with a packet behind another. A
live peer never takes longer than `MaxAnswer`. *Subscriptions.* Three places are
the least for a free one between two taken ones, and for a duplicate behind a
free place; `#` matches a topic that `a/+` does not; two
renewals are the least for the arguments of one to be overwritten by the next.
Names of 4 and filters of 5 characters hold three levels of which some are
empty. *Connection.* Six faults allow several
refused connections with other failures before, between and after them; the heap
has no room for another context and session after three refusals, or after two when a failed handshake lies
between them (then each has left its own context behind). There are as many names
of contexts and of sessions as the heap has places, which `ConnectionAssumption`
demands: it is the heap, and never the names, that runs out.

**Fairness.** *Agent* (`FairSpec`): FreeRTOS runs a ready task of the highest
priority and nothing here blocks without a timeout, so the agent task, and a
caller in the middle of an API call, eventually take their next step. Issuing
commands, and anything the network does, is unfair. `AnsweringBroker`, a
premise of `AwaitedIsConcluded`, adds that a request repeatedly within reach of
the agent task is answered in the end; strong, because the task leaves the
process loop between answers. The other premise, `[]<>(task = "loop")`, excludes
behaviours in which every command fails before the loop is ever reached.
*Incoming*: the agent task reads on and reconnects (weak); what has reached the
broker is read before the connection closes often enough (strong: closing
disables it). *Connection*: each stage of the agent task ends (weak), since every
wait in it has a time limit; faults, the end of a connection and other tasks are
unfair. *Buffer*: the transport delivers what has been sent and the task
keeps iterating (weak).

**Deadlock** is checked in `records`, `buffer`, `keepalive` and `subscriptions`. In
`MqttAgent` and `Connection` a failed `configASSERT` disables interrupts and spins, and in `IncomingPublishes`
the messages of the instance run out; there the liveness properties exclude any
other end.

**Disagreements found.**

* `agent_scope`: `PublishTelemetryMessage` returns while its command points to
  its stack.
* `agent_resend`: a compaction under the cursor of `resendPublishes` leaves an
  awaited publish unsent on the resumed connection; its operation waits until a
  later reconnection.
* `incoming_lost`: a PUBACK that arrives although its send was reported as failed
  leaves its record behind; the next message with the identifier is acknowledged
  as a duplicate and never delivered.

**What the properties except.** Some are weaker than one might wish, because the
code does no better:

* `ExchangesEnd` excepts `Blocked`. The device deletes its record when it sends
  the PUBCOMP; if that is lost, the broker's PUBREL finds no record,
  `MQTT_ProcessLoop` returns an error, the agent reconnects, and the same
  PUBREL comes again, for ever and before everything else. It also assumes as
  many places as identifiers: with fewer, a resent publish at the head can be
  refused for want of memory on every connection.
* `TxIdleIsBounded` assumes that the peer only answers. `handleKeepAlive` is called
  only when the transport has no data, so a steady flow of packets keeps the
  client silent (the telemetry, every 5 s, hides this). Its bound has two parts,
  because no PINGREQ is sent while a PINGRESP is awaited: one that the receiving
  side has caused can hold the next one back. With pauses as long as the
  timeouts, the second part is the larger.
* `LivePeerKept` excepts a PINGRESP that lies in the buffer: with no new data the
  keep-alive is judged before the packets already there are looked at.
* `PostedIsTaken` excepts a device that has stopped; a single refused reconnection
  stops it. `StopsOnlyAfterFault` and `Connects` say the same of the connection:
  only a fault, or a command that ends the loop, stops the device.
* `Connects` excepts `Exhausted`: an MQTT connection that is refused closes nothing,
  the next `tlsSetup` overwrites the pointer to the session, and after enough
  refusals the heap has no room for another context and session.
* `RenewalRefusedByBacklog` does not say that a renewal is never refused.
  `prvHandleResubscribe` waits neither for a structure nor for a place on the
  queue, and calls that hold every structure of the pool, on the queue or on the
  way to it, stop the device. The property says that only this does: the
  operations that awaited an acknowledgment have given their structures back by
  then, and the queue has a place if it is as long as the pool.
* `DoneIsDeliveredUnlessStrayed` excepts the messages that end on an identifier
  one of whose acknowledgments has strayed in the session; `incoming_lost` shows
  that the exception is needed. A stray of another
  identifier, or of an earlier session, excuses nothing. `Delivery` knows no identifiers,
  and its exception (`doubt`) is for the session as a whole.
* `ListedIsSubscribed` excepts `unrenewed`: a renewal that was given up (its send
  failed, or the link was lost before the SUBACK and the broker then resumed the
  session) is not repeated, and its filters stay silent until a session is lost.
* `MatchIsStandardButForPlus` and `DispatchReachesEach` except `LostByPlus`.

## 4. Proofs

Every theorem holds for every value of the constants that satisfies the named
assumption of its module (any number of tasks, structures, places, slots,
identifiers, faults). Each invariant was model-checked on the instances of
section 3 before it was proved.

**`MqttAgentProofs`.** `Invariance`: `IInv == TypeOK /\ OwnershipOK /\ HandsOK /\
AwaitedOK /\ ReleaseNeverFails`. `OwnershipOK` is not inductive alone: one has to
know that a command in hand exists in exactly the states that use it, and that
a used slot (other than the stale one) holds a command of an acknowledged type.
`TypeCorrect`, `OwnershipHolds` and `ReleaseAssertHolds` are parts of it.
`AckSlotHolds` is a counting argument on top of it: structures in different places
are different, so the awaited ones and the one in hand need no more than the
pool. The bound is strict (`PoolSize < MaxAcks`; the device has 10 and 20): the
slot to be cleared no longer counts as a structure. `ImplementsLifecycle` is the refinement, step by step: each step moves
one structure, by ownership the only one in that place, and so is one step of
`CommandLifecycle` or a stutter.

*Acknowledgments*, in the second half of the module. `AgreementHolds`: `IInv /\ Agreement`, from which
`OutstandingHolds`, `AnswersHold` and `RecordedHolds` follow. The two layers and the
connection agree only together, and at no moment of a recovery completely, so
the invariant says what is true when:

* `Tables`, always: no two slots share an identifier, nor do two records; a publish
  that is awaited has its record, except while the list of a lost session is
  being cleared, after its records; a PUBREL that was not sent has ended the
  loop; and a publish that the broker has released is awaited. Without the last,
  a PUBCOMP could meet another operation that has come by the same identifier.
* `Asked`, by stage: while a connection is served every request is of an operation
  that awaits it, one per identifier; in the command loop all that is awaited has
  been asked for or was skipped; during the resend, what is awaited has been
  asked for, skipped, or has a record at or behind the cursor that is still
  to come; before it, the slots the scan has passed hold publishes of a resumed
  session.

The hard step is `ResendPublish`: the record it sends can be moved by the
compaction of the same call, and every other record to be resent either stays
in front of the cursor or enters `skipped`.

`RenewalHolds` needs both invariants and one more (`RenewOK`): when the
subscriptions are about to be renewed the list is empty, for the renewal follows a
scan without a session, which by `Agreement` spares nothing. With an empty pool,
an empty list and nothing in hand, `NothingLost` leaves the queue and the callers
to hold every structure; and the queue, which cannot hold the structure
just taken for the renewal, is not full if it has a place for each (the lemma
`QueuePlace`).

**`PublishRecordsProofs`.** Lemmas the others rest on. *Positions*: ranks number a set
of positions in their order, so `InOrder` lists each of them once and in order
(`InOrderLists`). *Arrays*: finding, adding, replacing and erasing. *Records*: what
adding, sending, acknowledging and compacting do to the set of records of
a sound array (no identifier twice), places aside.

**`OutgoingRecordsProofs`.** `Invariance` and its parts `TypeCorrect`, `QosHolds`, and
`RoomHolds` (the gaps that acknowledgments leave are never counted as room
lost). `ImplementsResendOrder`: under every call, `Select` changes as `ResendOrder`
says. A compaction keeps both lists; a record that is erased leaves its list; a
PUBREC takes a record off one list and puts it at the end of the other, which is
why the code moves it to the last place. `CompactionHolds`: after each turn of
`compactRecords` the records found so far stand at the front in their order, the
places from `emptyIndex` to the current one are clear, and the rest is untouched; at the
end this is `Compact`, so what the other theorems take a compaction to do is what
its loop does.

**`SubscriptionsProofs`.** `Invariance`: types, `ArgsAreTheRequest`, `ListedIsSubscribed`,
and what the walk has done so far: the places behind it have been called if
they match and were kept, each once; a place in front of it has not been.
`WalkReachesEach` says it in terms of what `MQTT_MatchTopic` answers, and
`DispatchHolds`, with the lemma `MatchIs`, in terms of the standard. `SubAckHolds` is
an action property.

*Matching.* `MatchIs`: for every valid name and filter, of any length and any
characters, `MQTT_MatchTopic` answers what the standard says unless the pair is one
of `LostByPlus`. `WalkIs` first shows that the recursive function of the walk exists,
so that its equation (`Compare`) can be used at every pair of positions. The walk is
then followed through one level: without wildcards (`LevelWalked`: it comes to
the ends of both levels just if they are equal), through a `+` (`SingleWalked`) and at
a `#` (`MultiWalked`). The special cases of `matchEndWildcardsSpecialCases` are put in
terms of the last levels of the filter (`EndWithinLevel`, `EndAtSeparator`). `Taken`
says what the standard asks from a level on, less what is lost from there on,
and `DecidesEarlier` that the walk decides so at a level if it does at the next
one. `MatchingHolds` is the property of the run.

**`ConnectionProofs`.** `Invariance`: at which stages which pointer is set, that
the socket and the flags go with the stage, that a context is counted once for
its pointer and once for each session that refers to it, that what nothing points
to any more was lost at a refusal, and that nothing is posted before the first
connection. `PointersHold`, `AbandonedBound`, `StopsHold` and `PostedHolds` follow.

**`IncomingPublishesProofs`.** `Invariance`. Device and broker are apart by the packets
under way and by the acknowledgments that failed, so the invariant says what is
true of each identifier at every stage: an exchange of the broker has one packet
on its way at most, to the device what the broker resends or from it an
acknowledgment it waits for; a QoS 2 message that was delivered and may come
again has its record (`KnownAgain`); a record is of the open exchange, delivered;
and an acknowledgment that ends an exchange is under way only when the message
was delivered and the record is gone. The last two hold for identifiers outside
`strayed`, the sends that were reported as failed and yet arrived, and a QoS 2
message is delivered once even there. `OnceHolds` and `RecordsHold`
follow, and `AcksAreExpected`: what the model lets a broker do with an
acknowledgment that fits no exchange never happens. `DeliveredHolds` follows from
the one step that ends an exchange (`BrokerEndsDelivered`): the acknowledgment that
is read fits an open exchange, whose message is delivered unless its own
identifier is in `strayed`. `ImplementsDelivery`: every step is
one of `Delivery` or a stutter, as long as a packet to the device is of an open
exchange (`PacketsFit`), so that what is delivered is in flight; as `KnownAgain`
holds, so that a QoS 2 message without a record is new; and as what ends an
exchange comes after the delivery (`HeldFit`).

**`ReceiveBufferProofs`.** `Invariance`: the bytes still to come are the end of the
stream; those in the buffer follow the packets done with, and meet the former as
long as the loop runs; while a packet is discarded, what is left to discard ends
where the packet does, and the packet is the next one and larger than the
buffer. `FramingHolds`, `TurnsHold`, `RoomHolds` and `TypeCorrect` follow.
`RoomHolds` rests on the headers being no longer than the buffer: a full buffer
then has a known length, and is a packet to handle or one to discard.

*The remaining length.* `LengthsHold`: for every length up to the largest one, what
`encodeRemainingLength` writes is read back by `processRemainingLength`, which waits for the
rest of any shorter start of it (`RoundTrip`); whatever else it accepts starts
with what is written for the length it reports, so 0x80 0x00 and a fifth byte are
refused (`OnlyWrittenIsRead`); and a publish is accepted just with a length that is
coded, or refused within five bytes of the largest (`PublishFits`). The coding is opened by
its number of bytes, of which there are four at most (`EncodeBytes`, `BytesAre`).

**`KeepAliveProofs`.** Distances on the clock are sums and differences as long as it
wraps at most once (`Distance`, `DistanceTicks`). `Invariance`: what is in the buffer
and on the wire, with `waitingForPingResp` and what the peer owes (one PINGRESP at
most); and for each point of the loop how long either side can have been silent,
given the times since the last packets and the last PINGREQ and the pause since
the keep-alive was judged. `SilenceBound`, `TxIdleBound` and `PeerKept` follow; none of
the distances compared exceeds the clock, although `lastPacketRxTime` may have any
value when a connection begins.

**Recursion and loops.** The three results about functions (`LengthsHold`,
`CompactionHolds`, `MatchingHolds`) are about recursive functions, of which a prover
knows nothing before a function is known to satisfy the recursive equation. The
proofs exhibit one: row by row, from the row that needs no other
(`WalkExists`, `DecodeIs`, `LoopCompacts`). What then holds at every row is shown
by the least distance at which it could fail (`FirstOf` of `Positions`), which takes
the place of the library's induction theorems: those have an operator as a
parameter, which the provers here cannot instantiate.

**Only model-checked.** Liveness: `PostedIsTaken`, `AwaitedIsConcluded`, `ExchangesEnd`,
`EveryPacketIsDone` and `Connects` (fairness and `ENABLED` are out of the provers'
reach). Every safety property of the passing runs, invariant or action property,
is a theorem.

## 5. Plan

Modelled: agent, records, incoming publishes, receive buffer, keep-alive,
subscriptions and matching, connection and start-up, remaining length. Proved:
every safety property of the passing runs, the refinements of `CommandLifecycle`,
`ResendOrder` and `Delivery` among them. Worth stating next: how many records of outgoing
publishes a bad link can leave behind, which no property bounds yet.

## 6. Not modelled

* **SPI transfers of the Wi-Fi driver** (`es_wifi_io.c`). Who drives the data-ready
  line, and when, is the firmware of the module, which is not in the repository; a
  model would state a guess. Above it, every result a command can have is
  allowed with every effect (`Connection`, `IncomingPublishes`).
* **Public-key callbacks of the secure element** (`stsafe_interface.c`). They
  compute on keys and signatures inside the handshake, and all that comes out
  is whether the handshake succeeds, which `Connection` leaves open.
* **The payload of the telemetry** (`MESSAGE_BUFFER`), rewritten while a publish may
  still point to it: known (see the hazards), and not prevented by anything.
* **Layout of packets**, AT command texts, the LED, register set-up generated by
  STM32CubeMX.
* **Vendored libraries.** wolfSSL, FreeRTOS, the STM32 drivers and the STSAFE
  middleware are nearly all of `src/` by size: 1.7 million of its lines, many of
  them the same arithmetic for different processors. They are used as their
  interfaces describe; of wolfSSL the life of contexts and sessions is modelled
  because the firmware depends on it.
