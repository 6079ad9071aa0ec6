----------------------------- MODULE Connection -----------------------------
(***************************************************************************)
(* The connection of the device from power-on: the start-up loops of       *)
(* ConnectAndStartMQTTAgentTask, the stages of a connection (secure        *)
(* element, credentials, TCP socket of the Wi-Fi module, TLS, MQTT), what  *)
(* each of them leaves behind when it fails, the disconnection and         *)
(* reconnection around the command loop, and the telemetry task that waits *)
(* for the flags of the start-up before it posts commands.                 *)
(*                                                                         *)
(* A failure of the network, the broker, the Wi-Fi module or the secure    *)
(* element is a fault, and there are at most MaxFaults of them.  The end   *)
(* of an established connection is none and may happen any time.           *)
(***************************************************************************)
EXTENDS Naturals, FiniteSets

CONSTANTS
  Contexts,    \* places for a WOLFSSL_CTX
  Sessions,    \* places for a WOLFSSL
  HeapObjects, \* how many of both fit into the heap together
  MaxPosted,   \* MQTT_AGENT_COMMAND_QUEUE_LENGTH
  MaxFaults    \* bound on the faults

Null == "NULL"

ASSUME ConnectionAssumption ==
  /\ Null \notin Contexts \cup Sessions
  /\ HeapObjects \in Nat /\ HeapObjects >= 2
  /\ IsFiniteSet(Contexts) /\ Cardinality(Contexts) >= HeapObjects
  /\ IsFiniteSet(Sessions) /\ Cardinality(Sessions) >= HeapObjects
  /\ MaxPosted \in Nat \ {0}
  /\ MaxFaults \in Nat

VARIABLES
  pc,            \* the stage the agent task is at
  WiFiConnected, MQTTConnected,   \* the flags of GLOBAL_STATE
  socket,        \* socket 0 of the Wi-Fi module: "closed" or "open"
  tls,           \* the TLS objects, see below
  telemetry,     \* the telemetry task: "waiting" or "running"
  posted,        \* commands on the agent's queue
  faults,        \* faults so far
  refusals,      \* history: MQTT connections that were not made
  terminated     \* history: the command loop ended by command

taskVars == <<pc, WiFiConnected, MQTTConnected>>
historyVars == <<refusals, terminated>>
vars == <<taskVars, socket, tls, telemetry, posted, faults, historyVars>>

Stages == {"wifi", "secureElement", "credentials", "open", "tls", "init",
           "connect", "loop", "disconnect"}

(***************************************************************************)
(* The pointers of sslContext, the reference count of each context (0 for  *)
(* one that is not allocated), and the context each allocated session      *)
(* holds a reference to.                                                   *)
(***************************************************************************)
NoTls == [ctx |-> Null, ssl |-> Null,
          refs |-> [c \in Contexts |-> 0],
          contextOf |-> [s \in Sessions |-> Null]]

LiveContexts(t) == {c \in Contexts : t.refs[c] > 0}
LiveSessions(t) == {s \in Sessions : t.contextOf[s] # Null}
HasRoom(t) == Cardinality(LiveContexts(t)) + Cardinality(LiveSessions(t)) < HeapObjects

Init ==
  /\ pc = "wifi"
  /\ WiFiConnected = FALSE
  /\ MQTTConnected = FALSE
  /\ socket = "closed"
  /\ tls = NoTls
  /\ telemetry = "waiting"
  /\ posted = 0
  /\ faults = 0
  /\ refusals = 0
  /\ terminated = FALSE

-----------------------------------------------------------------------------
(* wolfSSL's objects *)

NewContext(t) ==
  LET c == CHOOSE c \in Contexts : t.refs[c] = 0
  IN [t EXCEPT !.ctx = c, !.refs[c] = 1]

NewSession(t) ==
  LET s == CHOOSE s \in Sessions : t.contextOf[s] = Null
  IN [t EXCEPT !.ssl = s, !.contextOf[s] = t.ctx, !.refs[t.ctx] = @ + 1]

\* wolfSSL_CTX_free gives back one reference, and the pointer is cleared.
FreeContext(t) ==
  IF t.ctx = Null THEN t ELSE [t EXCEPT !.refs[t.ctx] = @ - 1, !.ctx = Null]

\* wolfSSL_free gives back the session's reference too.
FreeSession(t) ==
  IF t.ssl = Null THEN t
  ELSE [t EXCEPT !.refs[t.contextOf[t.ssl]] = @ - 1, !.contextOf[t.ssl] = Null,
                 !.ssl = Null]

-----------------------------------------------------------------------------
(* The Wi-Fi module's socket *)

Faults(n) == faults + n <= MaxFaults /\ faults' = faults + n

\* ES_WIFI_StopClientConnection: its result is ignored by every caller.
Closing(from) ==
  {[socket |-> "closed", cost |-> 0], [socket |-> from, cost |-> 1]}

(* ES_WIFI_StartClientConnection sends several commands, each of which may *)
(* fail or lose its answer after it took effect; whether the module takes  *)
(* an open socket or refuses it is not in the code.                        *)
Opening ==
  [ok : {TRUE}, socket : {"open"}, cost : {0}]
  \cup [ok : {FALSE}, socket : {"closed", "open"}, cost : {1}]
  \cup (IF socket = "open" THEN [ok : {FALSE}, socket : {"open"}, cost : {0}] ELSE {})

\* ConnectToMQTTBroker is tried again by the start-up; a reconnection that
\* fails meets a configASSERT.
GiveUp == pc' = IF MQTTConnected THEN "stopped" ELSE "secureElement"
Proceed(stage) == pc' = stage

-----------------------------------------------------------------------------
(* The stages *)

WifiConnect ==
  /\ pc = "wifi"
  /\ \/ WiFiConnected' = TRUE /\ Proceed("secureElement") /\ Faults(0)
     \/ WiFiConnected' = FALSE /\ UNCHANGED pc /\ Faults(1)
  /\ UNCHANGED <<MQTTConnected, socket, tls, telemetry, posted, historyVars>>

\* InitNetworkContext: the secure element is initialised on every attempt of
\* the start-up.
InitSecureElement ==
  /\ pc = "secureElement"
  /\ \/ Proceed("credentials") /\ Faults(0)
     \/ GiveUp /\ Faults(1)
  /\ UNCHANGED <<WiFiConnected, MQTTConnected, socket, tls, telemetry, posted, historyVars>>

LoadTLSCredentials ==
  /\ pc = "credentials"
  /\ \/ Proceed("open") /\ Faults(0)
     \/ GiveUp /\ Faults(1)
  /\ UNCHANGED <<WiFiConnected, MQTTConnected, socket, tls, telemetry, posted, historyVars>>

OpenWithoutClosing ==                                             \* mutant
  /\ pc = "open"
  /\ \E opened \in Opening :
       /\ socket' = opened.socket
       /\ IF opened.ok THEN Proceed("tls") ELSE GiveUp
       /\ Faults(opened.cost)
  /\ UNCHANGED <<WiFiConnected, MQTTConnected, tls, telemetry, posted, historyVars>>

\* PlaintextWiFiConnect closes the socket it could not open.
OpenSocket ==
  /\ pc = "open"
  /\ \E opened \in Opening :
       \/ /\ opened.ok
          /\ socket' = opened.socket
          /\ Proceed("tls")
          /\ Faults(opened.cost)
       \/ /\ ~opened.ok
          /\ \E closed \in Closing(opened.socket) :
               socket' = closed.socket /\ Faults(opened.cost + closed.cost)
          /\ GiveUp
  /\ UNCHANGED <<WiFiConnected, MQTTConnected, tls, telemetry, posted, historyVars>>

ForgottenSession(t) == FreeContext([t EXCEPT !.ssl = Null])       \* mutant

HandshakeFailed(t) == FreeContext(FreeSession(t))

(* tlsSetup: the context is made unless there is one, the session is made  *)
(* in any case, and what fails after that frees what it made.              *)
TlsOutcomes ==
  LET Outcome(ok, t, cost) == [ok |-> ok, tls |-> t, cost |-> cost]
      WithContext == IF tls.ctx = Null THEN NewContext(tls) ELSE tls
      NoContext == Outcome(FALSE, tls, IF HasRoom(tls) THEN 1 ELSE 0)
      NoSession ==
        Outcome(FALSE, FreeContext([WithContext EXCEPT !.ssl = Null]),
                IF HasRoom(WithContext) THEN 1 ELSE 0)
      BadCredentials == Outcome(FALSE, FreeContext(WithContext), 1)
      Handshakes ==
        { Outcome(TRUE, NewSession(WithContext), 0),
          Outcome(FALSE, HandshakeFailed(NewSession(WithContext)), 1) }
  IN (IF tls.ctx = Null THEN {NoContext} ELSE {})
     \cup (IF tls.ctx # Null \/ HasRoom(tls)
           THEN {BadCredentials, NoSession}
                \cup (IF HasRoom(WithContext) THEN Handshakes ELSE {})
           ELSE {})

\* TLSWiFiConnect behind the socket, which it closes when TLS fails.
SetupTls ==
  /\ pc = "tls"
  /\ \E setup \in TlsOutcomes :
       /\ tls' = setup.tls
       /\ \/ /\ setup.ok
             /\ Proceed(IF MQTTConnected THEN "connect" ELSE "init")
             /\ Faults(setup.cost)
             /\ UNCHANGED socket
          \/ /\ ~setup.ok
             /\ GiveUp
             /\ \E closed \in Closing(socket) :
                  socket' = closed.socket /\ Faults(setup.cost + closed.cost)
  /\ UNCHANGED <<WiFiConnected, MQTTConnected, telemetry, posted, historyVars>>

\* prvMQTTInit makes the command queue anew, empty.
MQTTInit ==
  /\ pc = "init"
  /\ posted' = 0
  /\ Proceed("connect")
  /\ UNCHANGED <<WiFiConnected, MQTTConnected, socket, tls, telemetry, faults, historyVars>>

\* prvMQTTConnect: a failure leaves the socket and the TLS session as they are.
MQTTConnect ==
  /\ pc = "connect"
  /\ \/ /\ Proceed("loop")
        /\ MQTTConnected' = TRUE
        /\ Faults(0)
        /\ UNCHANGED refusals
     \/ /\ GiveUp
        /\ Faults(1)
        /\ refusals' = refusals + 1
        /\ UNCHANGED MQTTConnected
  /\ UNCHANGED <<WiFiConnected, socket, tls, telemetry, posted, terminated>>

-----------------------------------------------------------------------------
(* The command loop *)

LoopTakes ==
  /\ pc = "loop"
  /\ posted > 0
  /\ posted' = posted - 1
  /\ UNCHANGED <<taskVars, socket, tls, telemetry, faults, historyVars>>

\* MQTTAgent_CommandLoop returns: with an error, or with success after a
\* DISCONNECT or TERMINATE command.
LoopFails ==
  /\ pc = "loop"
  /\ Proceed("disconnect")
  /\ UNCHANGED <<WiFiConnected, MQTTConnected, socket, tls, telemetry, posted, faults, historyVars>>

LoopEnds ==
  /\ pc = "loop"
  /\ terminated' = TRUE
  /\ Proceed("disconnect")
  /\ UNCHANGED <<WiFiConnected, MQTTConnected, socket, tls, telemetry, posted, faults, refusals>>

DisconnectKeepingContext ==                                       \* mutant
  /\ pc = "disconnect"
  /\ tls' = [FreeContext(FreeSession(tls)) EXCEPT !.ctx = tls.ctx]
  /\ \E closed \in Closing(socket) : socket' = closed.socket /\ Faults(closed.cost)
  /\ Proceed(IF terminated THEN "stopped" ELSE "credentials")
  /\ UNCHANGED <<WiFiConnected, MQTTConnected, telemetry, posted, historyVars>>

DisconnectKeepingSession ==                                       \* mutant
  /\ pc = "disconnect"
  /\ tls' = FreeContext([tls EXCEPT !.ssl = Null])
  /\ \E closed \in Closing(socket) : socket' = closed.socket /\ Faults(closed.cost)
  /\ Proceed(IF terminated THEN "stopped" ELSE "credentials")
  /\ UNCHANGED <<WiFiConnected, MQTTConnected, telemetry, posted, historyVars>>

\* TLSWiFiDisconnect; after a loop that ended by command the task runs into
\* the configASSERT( 0 ) behind it.
Disconnect ==
  /\ pc = "disconnect"
  /\ tls' = FreeContext(FreeSession(tls))
  /\ \E closed \in Closing(socket) : socket' = closed.socket /\ Faults(closed.cost)
  /\ Proceed(IF terminated THEN "stopped" ELSE "credentials")
  /\ UNCHANGED <<WiFiConnected, MQTTConnected, telemetry, posted, historyVars>>

-----------------------------------------------------------------------------
(* The telemetry task *)

StartsAfterWifi ==                                                \* mutant
  /\ telemetry = "waiting"
  /\ WiFiConnected
  /\ telemetry' = "running"
  /\ UNCHANGED <<taskVars, socket, tls, posted, faults, historyVars>>

TelemetryStarts ==
  /\ telemetry = "waiting"
  /\ WiFiConnected /\ MQTTConnected
  /\ telemetry' = "running"
  /\ UNCHANGED <<taskVars, socket, tls, posted, faults, historyVars>>

PublishTelemetry ==
  /\ telemetry = "running"
  /\ pc # "stopped"
  /\ posted < MaxPosted
  /\ posted' = posted + 1
  /\ UNCHANGED <<taskVars, socket, tls, telemetry, faults, historyVars>>

-----------------------------------------------------------------------------
Connecting ==
  \/ WifiConnect \/ InitSecureElement \/ LoadTLSCredentials \/ OpenSocket
  \/ SetupTls \/ MQTTInit \/ MQTTConnect \/ Disconnect

Next ==
  \/ Connecting
  \/ LoopTakes \/ LoopFails \/ LoopEnds
  \/ TelemetryStarts \/ PublishTelemetry

\* Each stage of the agent task ends: every wait in it has a time limit.
Spec == Init /\ [][Next]_vars /\ WF_vars(Connecting)

-----------------------------------------------------------------------------
(* Properties *)

(* Every variable has its type; no reference count passes below zero.      *)
(* Part of NoDanglingPointers.                                             *)
TypeOK ==
  /\ pc \in Stages \cup {"stopped"}
  /\ {WiFiConnected, MQTTConnected, terminated} \subseteq BOOLEAN
  /\ socket \in {"closed", "open"}
  /\ tls \in [ctx : Contexts \cup {Null}, ssl : Sessions \cup {Null},
              refs : [Contexts -> 0 .. Cardinality(Sessions) + 1],
              contextOf : [Sessions -> Contexts \cup {Null}]]
  /\ telemetry \in {"waiting", "running"}
  /\ posted \in 0 .. MaxPosted
  /\ faults \in 0 .. MaxFaults
  /\ refusals \in 0 .. MaxFaults

(* Whatever the stage a connection was given up at, the pointers of        *)
(* sslContext are NULL or point to an allocated object, and a context has  *)
(* as many references as there are holders: one for the pointer, one for   *)
(* each session made from it, also for those nothing points to any more.   *)
NoDanglingPointers ==
  /\ TypeOK
  /\ tls.ssl # Null => tls.ssl \in LiveSessions(tls)
  /\ tls.ctx # Null => tls.ctx \in LiveContexts(tls)
  /\ \A c \in Contexts :
       tls.refs[c] = Cardinality({s \in Sessions : tls.contextOf[s] = c})
                     + (IF tls.ctx = c THEN 1 ELSE 0)

(* A session stays allocated behind a connection attempt only because an   *)
(* MQTT connection was refused, which closes nothing: the next session     *)
(* overwrites the pointer to it.  No other failure, and no reconnection,   *)
(* costs memory.                                                           *)
InUse == IF pc \in {"init", "connect", "loop", "disconnect"} THEN {tls.ssl} ELSE {}
Abandoned == LiveSessions(tls) \ InUse
AbandonedByRefusals == Cardinality(Abandoned) <= refusals

(* A device that meets no fault but the end of established connections     *)
(* never stops, however often it reconnects: each disconnection gives back *)
(* all that the next connection takes.                                     *)
StopsOnlyAfterFault ==
  pc = "stopped" => faults > 0 \/ terminated

(* A command that a task has posted is taken by the command loop, and is   *)
(* never thrown away with the queue that prvMQTTInit makes anew on every   *)
(* attempt of the start-up.                                                *)
PostedOnlyTakenByLoop ==
  [][posted' < posted => pc = "loop"]_vars

(* The start-up, and a reconnection, come to an end: the device is         *)
(* connected or has stopped, unless the sessions that refused connections  *)
(* left behind, with the contexts they hold, leave no room in the heap for *)
(* another context and session.                                            *)
Exhausted ==
  Cardinality(Abandoned) + Cardinality({tls.contextOf[s] : s \in Abandoned}) + 2
    > HeapObjects
Connects ==
  pc \notin {"loop", "stopped"} ~> pc \in {"loop", "stopped"} \/ Exhausted
=============================================================================
