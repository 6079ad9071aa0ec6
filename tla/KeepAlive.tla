------------------------------ MODULE KeepAlive ------------------------------
(***************************************************************************)
(* The keep-alive of core_mqtt.c: handleKeepAlive, called by               *)
(* receiveSingleIteration when the transport has no data, with the clock   *)
(* of the device, which wraps, and a peer that may die without a sign.     *)
(*                                                                         *)
(* Time advances in ticks.  The agent task never lets more than MaxPause   *)
(* of them pass between two points at which it looks at the connection.    *)
(***************************************************************************)
EXTENDS Naturals, Sequences

CONSTANTS
  Modulus,      \* the clock counts modulo this: 2^32 ms
  TxTimeout,    \* the smaller of the keep-alive interval and PACKET_TX_TIMEOUT_MS
  RxTimeout,    \* PACKET_RX_TIMEOUT_MS
  PingTimeout,  \* MQTT_PINGRESP_TIMEOUT_MS
  MaxPause,     \* bound: ticks between two steps of the agent task
  MaxAnswer,    \* bound: ticks a live peer takes to answer a PINGREQ
  MaxPackets    \* bound: packets on their way, or in the buffer

ASSUME KeepAliveAssumption ==
  /\ {RxTimeout, PingTimeout, MaxPause, MaxPackets} \subseteq Nat \ {0}
  /\ {TxTimeout, MaxAnswer} \subseteq Nat
  /\ MaxAnswer <= PingTimeout
  /\ Modulus \in Nat
  /\ Modulus > TxTimeout + RxTimeout + PingTimeout + 3 * MaxPause

VARIABLES
  now,       \* getTime()
  lastTx,    \* lastPacketTxTime
  lastRx,    \* lastPacketRxTime
  pingAt,    \* pingReqSendTimeMs
  waiting,   \* waitingForPingResp
  buffer,    \* the packets in networkBuffer
  loop,      \* "ready", "handling" a packet, or why the process loop ended
  peer,      \* "alive" or "dead"
  wire,      \* packets of the peer that have arrived but are not read
  asked,     \* ticks since a PINGREQ the peer has not answered, or NotAsked
  pause,     \* ticks since the last step of the agent task
  txIdle,    \* history: ticks since the client sent anything, up to Long
  heard,     \* history: whether a packet but a PINGRESP has been on its way or
             \* in the buffer since then
  quiet      \* history: ticks since a packet was handled, up to Long

clientVars == <<lastTx, lastRx, pingAt, waiting, buffer, loop>>
peerVars == <<peer, wire, asked>>
vars == <<clientVars, peerVars, now, pause, txIdle, heard, quiet>>

Packets == {"PINGRESP", "other"}
Running == {"ready", "handling"}
Ended == {"timedOut", "sendFailed"}
NotAsked == MaxAnswer + 1
Incoming(packets) == \E n \in DOMAIN packets : packets[n] = "other"

Long == TxTimeout + RxTimeout + PingTimeout + 4 * MaxPause      \* bound
Longer(t) == IF t = Long THEN t ELSE t + 1

ElapsedTimeUnwrapped(later, start) ==                    \* mutant: no wrap
  IF later >= start THEN later - start ELSE 0

(* calculateElapsedTime, on unsigned integers.                             *)
ElapsedTime(later, start) == (later + Modulus - start) % Modulus

-----------------------------------------------------------------------------
(* At first MQTT_Init has set everything to zero and MQTT_Connect has sent *)
(* its CONNECT.                                                            *)
Init ==
  /\ now \in 0 .. Modulus - 1
  /\ lastTx = now
  /\ lastRx = 0
  /\ pingAt = 0
  /\ waiting = FALSE
  /\ buffer = << >>
  /\ loop = "ready"
  /\ peer = "alive"
  /\ wire = << >>
  /\ asked = NotAsked
  /\ pause = 0
  /\ txIdle = 0
  /\ heard = FALSE
  /\ quiet = 0

-----------------------------------------------------------------------------
(* MQTT_Ping.  A PINGREQ to a dead peer may still be sent, into a buffer.  *)
Ping(next) ==
  \/ /\ lastTx' = now
     /\ pingAt' = now
     /\ waiting' = TRUE
     /\ txIdle' = 0
     /\ heard' = Incoming(buffer)
     /\ asked' = IF peer = "alive" THEN 0 ELSE asked
     /\ loop' = next
  \/ /\ peer = "dead"
     /\ loop' = "sendFailed"
     /\ UNCHANGED <<lastTx, pingAt, waiting, txIdle, heard, asked>>

PingDueTxOnly ==                                         \* mutant: no look at lastPacketRxTime
  TxTimeout # 0 /\ ElapsedTime(now, lastTx) >= TxTimeout

PingDueRxOnly ==                                         \* mutant: no look at lastPacketTxTime
  ElapsedTime(now, lastRx) # 0 /\ ElapsedTime(now, lastRx) >= RxTimeout

PingDue ==
  \/ TxTimeout # 0 /\ ElapsedTime(now, lastTx) >= TxTimeout
  \/ ElapsedTime(now, lastRx) # 0 /\ ElapsedTime(now, lastRx) >= RxTimeout

(* handleKeepAlive; the iteration goes on as next says if it succeeds.     *)
HandleKeepAlive(next) ==
  \/ /\ waiting
     /\ loop' = IF ElapsedTime(now, pingAt) > PingTimeout THEN "timedOut" ELSE next
     /\ UNCHANGED <<lastTx, pingAt, waiting, txIdle, heard, asked>>
  \/ /\ ~waiting
     /\ PingDue
     /\ Ping(next)
  \/ /\ ~waiting
     /\ ~PingDue
     /\ loop' = next
     /\ UNCHANGED <<lastTx, pingAt, waiting, txIdle, heard, asked>>

-----------------------------------------------------------------------------
(* receiveSingleIteration, in the steps between which time can pass.       *)

AfterKeepAlive == IF buffer = << >> THEN "ready" ELSE "handling"

(* No data: keep-alive, then a packet that was read before.                *)
ReceiveNothing ==
  /\ loop = "ready"
  /\ wire = << >>
  /\ HandleKeepAlive(AfterKeepAlive)
  /\ pause' = 0
  /\ UNCHANGED <<now, lastRx, buffer, peer, wire, quiet>>

ReceivePackets ==
  /\ loop = "ready"
  /\ \E n \in 1 .. Len(wire) :
       /\ buffer' = buffer \o SubSeq(wire, 1, n)
       /\ wire' = SubSeq(wire, n + 1, Len(wire))
  /\ loop' = "handling"
  /\ pause' = 0
  /\ UNCHANGED <<now, lastTx, lastRx, pingAt, waiting, peer, asked, txIdle, heard, quiet>>

StillWaitingAlways == waiting                            \* mutant: PINGRESP ignored
StillWaiting == waiting /\ Head(buffer) # "PINGRESP"

(* handleIncomingPublish or handleIncomingAck; an acknowledgment may be    *)
(* sent, and an error leaves lastPacketRxTime alone.                       *)
HandlePacket(acked) ==
  /\ loop = "handling"
  /\ acked => Head(buffer) = "other"
  /\ buffer' = Tail(buffer)
  /\ waiting' = StillWaiting
  /\ IF acked THEN lastTx' = now /\ txIdle' = 0 /\ heard' = Incoming(Tail(buffer) \o wire)
              ELSE UNCHANGED <<lastTx, txIdle, heard>>
  /\ \/ /\ loop' = "ready"
        /\ lastRx' = now
        /\ quiet' = 0
     \/ /\ acked /\ peer = "dead"
        /\ loop' = "sendFailed"
        /\ UNCHANGED <<lastRx, quiet>>
  /\ pause' = 0
  /\ UNCHANGED <<now, pingAt, peerVars>>

(* A command of the agent sends a packet before the next iteration.        *)
SendPacket ==
  /\ loop = "ready"
  /\ lastTx' = now
  /\ txIdle' = 0
  /\ heard' = Incoming(buffer \o wire)
  /\ UNCHANGED <<now, lastRx, pingAt, waiting, buffer, loop, peerVars, pause, quiet>>

(* MQTT_Connect on a new connection, at any later time.  It does not touch *)
(* lastPacketRxTime.                                                       *)
Reconnect ==
  /\ loop \in Ended
  /\ now' \in 0 .. Modulus - 1
  /\ lastTx' = now'
  /\ pingAt' = 0
  /\ waiting' = FALSE
  /\ buffer' = << >>
  /\ loop' = "ready"
  /\ peer' = "alive"
  /\ wire' = << >>
  /\ asked' = NotAsked
  /\ pause' = 0
  /\ txIdle' = 0
  /\ heard' = FALSE
  /\ quiet' = 0
  /\ UNCHANGED lastRx

-----------------------------------------------------------------------------
(* The peer and the clock *)

PeerAnswers ==
  /\ asked # NotAsked
  /\ asked' = NotAsked
  /\ wire' = Append(wire, "PINGRESP")
  /\ UNCHANGED <<clientVars, peer, now, pause, txIdle, heard, quiet>>

PeerSends ==
  /\ loop \in Running
  /\ peer = "alive"
  /\ Len(wire) + Len(buffer) < MaxPackets
  /\ wire' = Append(wire, "other")
  /\ heard' = TRUE
  /\ UNCHANGED <<clientVars, peer, asked, now, pause, txIdle, quiet>>

PeerDies ==
  /\ loop \in Running
  /\ peer = "alive"
  /\ peer' = "dead"
  /\ asked' = NotAsked
  /\ UNCHANGED <<clientVars, wire, now, pause, txIdle, heard, quiet>>

Tick ==
  /\ loop \in Running
  /\ pause < MaxPause
  /\ asked # MaxAnswer
  /\ now' = (now + 1) % Modulus
  /\ pause' = pause + 1
  /\ asked' = IF asked = NotAsked THEN asked ELSE asked + 1
  /\ txIdle' = Longer(txIdle)
  /\ quiet' = Longer(quiet)
  /\ UNCHANGED <<clientVars, peer, wire, heard>>

-----------------------------------------------------------------------------
Next ==
  \/ ReceiveNothing
  \/ ReceivePackets
  \/ \E acked \in BOOLEAN : HandlePacket(acked)
  \/ SendPacket
  \/ Reconnect
  \/ PeerAnswers
  \/ PeerSends
  \/ PeerDies
  \/ Tick

Spec == Init /\ [][Next]_vars

-----------------------------------------------------------------------------
(* Properties *)

(* Every variable has its type, and a packet is handled only if the buffer *)
(* has one.  Part of SilenceIsBounded.                                     *)
TypeOK ==
  /\ {now, lastTx, lastRx, pingAt} \subseteq 0 .. Modulus - 1
  /\ waiting \in BOOLEAN
  /\ \A s \in {buffer, wire} : Len(s) <= MaxPackets + 1 /\ \A n \in DOMAIN s : s[n] \in Packets
  /\ loop \in Running \cup Ended
  /\ loop = "handling" => buffer # << >>
  /\ peer \in {"alive", "dead"}
  /\ asked \in 0 .. NotAsked
  /\ pause \in 0 .. MaxPause
  /\ {txIdle, quiet} \subseteq 0 .. Long
  /\ heard \in BOOLEAN

(* core_mqtt_config.h, on PACKET_RX_TIMEOUT_MS and                         *)
(* MQTT_PINGRESP_TIMEOUT_MS: a connection on which nothing arrives is      *)
(* given up, whatever the client sends, however the clock wraps and        *)
(* whatever lastPacketRxTime the connection before has left.               *)
SilenceIsBounded ==
  /\ TypeOK
  /\ loop \in Running => quiet < RxTimeout + PingTimeout + 4 * MaxPause

(* core_mqtt_config.h, on PACKET_TX_TIMEOUT_MS: the maximum of TX          *)
(* inactivity to wait before a PINGREQ is initiated.  It is kept while the *)
(* peer sends nothing but answers; any other packet puts the next look at  *)
(* the keep-alive off, and a steady flow of them puts it off for ever.     *)
(* While a PINGRESP is awaited no other PINGREQ is sent, so a PINGREQ that *)
(* the reading side has caused can hold the next one back for as long as   *)
(* PINGRESP and its handling take.  An interval of 0 turns this off.       *)
TxIdleIsBounded ==
  TxTimeout # 0 /\ loop \in Running /\ ~heard =>
    txIdle < TxTimeout + MaxPause \/ txIdle <= PingTimeout + 3 * MaxPause

(* core_mqtt.h, on MQTT_ProcessLoop: MQTTKeepAliveTimeout if the server    *)
(* has not sent a PINGRESP in time.  Only a dead peer is given up, or one  *)
(* whose PINGRESP was read together with another packet and is still in    *)
(* the buffer, behind it, when the keep-alive is judged.                   *)
LivePeerKept ==
  loop = "timedOut" => peer = "dead" \/ \E n \in DOMAIN buffer : buffer[n] = "PINGRESP"
=============================================================================
