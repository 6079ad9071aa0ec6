-------------------------- MODULE ConnectionProofs --------------------------
(***************************************************************************)
(* What is proved of Connection: the pointers and reference counts of the  *)
(* TLS objects at every stage, what a connection attempt can leave behind, *)
(* what stops the device, and that no posted command is thrown away.       *)
(***************************************************************************)
EXTENDS Connection, FiniteSetTheorems, TLAPS

-----------------------------------------------------------------------------
(* The inductive invariant *)

Holders(t, c) == {s \in Sessions : t.contextOf[s] = c}

TlsValues == [ctx : Contexts \cup {Null}, ssl : Sessions \cup {Null},
              refs : [Contexts -> Nat],
              contextOf : [Sessions -> Contexts \cup {Null}]]

(* The pointers point to what is allocated, the references are counted.    *)
TlsOK(t) ==
  /\ t \in TlsValues
  /\ t.ssl # Null => t.contextOf[t.ssl] # Null
  /\ \A c \in Contexts :
       t.refs[c] = Cardinality(Holders(t, c)) + (IF t.ctx = c THEN 1 ELSE 0)

Connected == {"init", "connect", "loop", "disconnect"}

(* The flags and the telemetry task go with the stage of the start-up.     *)
StartUpOK ==
  /\ pc = "init" => ~MQTTConnected
  /\ ~MQTTConnected => telemetry = "waiting"
  /\ telemetry = "waiting" => posted = 0

(* A connection has a session; an attempt that failed leaves at most its   *)
(* session, and only if it was the MQTT connection that was refused.       *)
SessionsOK ==
  /\ pc \in Connected => tls.ssl # Null
  /\ AbandonedByRefusals
  /\ refusals <= faults

(* Without a fault the socket is closed before it is opened.               *)
SocketOK ==
  faults = 0 /\ pc \in {"wifi", "secureElement", "credentials", "open"} => socket = "closed"

ScalarsOK ==
  /\ pc \in Stages \cup {"stopped"}
  /\ {WiFiConnected, MQTTConnected, terminated} \subseteq BOOLEAN
  /\ socket \in {"closed", "open"}
  /\ telemetry \in {"waiting", "running"}
  /\ posted \in 0 .. MaxPosted
  /\ faults \in 0 .. MaxFaults
  /\ refusals \in Nat

IInv == /\ ScalarsOK /\ TlsOK(tls) /\ StartUpOK /\ SessionsOK /\ SocketOK
        /\ StopsOnlyAfterFault

-----------------------------------------------------------------------------
(* wolfSSL's objects *)

LEMMA Names ==
  /\ Null \notin Contexts /\ Null \notin Sessions
  /\ IsFiniteSet(Contexts) /\ Cardinality(Contexts) \in Nat
  /\ IsFiniteSet(Sessions) /\ Cardinality(Sessions) \in Nat
  /\ HeapObjects \in Nat /\ HeapObjects >= 2
  /\ Cardinality(Contexts) >= HeapObjects /\ Cardinality(Sessions) >= HeapObjects
BY ConnectionAssumption, FS_CardinalityType

(* There are finitely many references to a context.                        *)
LEMMA HoldersFinite ==
  ASSUME NEW t, NEW c
  PROVE  /\ IsFiniteSet(Holders(t, c))
         /\ Cardinality(Holders(t, c)) \in 0 .. Cardinality(Sessions)
<1>1. Holders(t, c) \in SUBSET Sessions
  BY DEF Holders
<1> QED BY <1>1, Names, FS_Subset, FS_CardinalityType

(* While there is room in the heap, there is a place for either object.    *)
LEMMA RoomHasNames ==
  ASSUME NEW t \in TlsValues, HasRoom(t)
  PROVE  /\ \E c \in Contexts : t.refs[c] = 0
         /\ \E s \in Sessions : t.contextOf[s] = Null
<1>1. LiveContexts(t) \in SUBSET Contexts /\ LiveSessions(t) \in SUBSET Sessions
  BY DEF LiveContexts, LiveSessions
<1>2. Cardinality(LiveContexts(t)) \in Nat /\ Cardinality(LiveSessions(t)) \in Nat
  BY <1>1, Names, FS_Subset, FS_CardinalityType
<1>3. Cardinality(LiveContexts(t)) < HeapObjects /\ Cardinality(LiveSessions(t)) < HeapObjects
  BY <1>2, Names DEF HasRoom
<1>4. LiveContexts(t) # Contexts /\ LiveSessions(t) # Sessions
  BY <1>2, <1>3, Names
<1>5. \E c \in Contexts : ~ (t.refs[c] > 0)
  BY <1>1, <1>4 DEF LiveContexts
<1>6. \E s \in Sessions : t.contextOf[s] = Null
  BY <1>1, <1>4 DEF LiveSessions
<1> QED BY <1>5, <1>6 DEF TlsValues

(* wolfSSL_CTX_new: the context has the pointer's reference.               *)
LEMMA NewContextKeeps ==
  ASSUME NEW t, TlsOK(t), HasRoom(t), t.ctx = Null
  PROVE  LET u == NewContext(t)
         IN  TlsOK(u) /\ u.ctx # Null /\ u.contextOf = t.contextOf
<1> DEFINE c == CHOOSE c \in Contexts : t.refs[c] = 0
           u == NewContext(t)
<1>1. t \in TlsValues
  BY DEF TlsOK
<1>2. c \in Contexts /\ t.refs[c] = 0
  BY <1>1, RoomHasNames
<1>3. u = [t EXCEPT !.ctx = c, !.refs[c] = 1]
  BY DEF NewContext
<1> HIDE DEF c, u
<1>4. /\ u \in TlsValues /\ u.ctx = c /\ u.ssl = t.ssl /\ u.contextOf = t.contextOf
      /\ u.refs = [t.refs EXCEPT ![c] = 1]
  BY <1>1, <1>2, <1>3 DEF TlsValues
<1>5. ASSUME NEW d \in Contexts
      PROVE  u.refs[d] = Cardinality(Holders(u, d)) + (IF u.ctx = d THEN 1 ELSE 0)
  <2>1. Holders(u, d) = Holders(t, d)
    BY <1>4 DEF Holders
  <2>2. t.refs[d] = Cardinality(Holders(t, d))
    BY Names, HoldersFinite DEF TlsOK
  <2>3. t.refs \in [Contexts -> Nat]
    BY <1>1 DEF TlsValues
  <2>4. CASE d = c
    BY <1>2, <1>4, <2>1, <2>2, <2>3, <2>4
  <2>5. CASE d # c
    BY <1>2, <1>4, <2>1, <2>2, <2>3, <2>5
  <2> QED BY <2>4, <2>5
<1>6. TlsOK(u) /\ u.ctx # Null /\ u.contextOf = t.contextOf
  BY <1>2, <1>4, <1>5, Names DEF TlsOK
<1> QED BY <1>6 DEF u

(* wolfSSL_new: the session holds a reference to the context.              *)
LEMMA NewSessionKeeps ==
  ASSUME NEW t, TlsOK(t), HasRoom(t), t.ctx # Null
  PROVE  LET u == NewSession(t)
         IN  /\ TlsOK(u) /\ u.ssl # Null
             /\ u.ssl \notin LiveSessions(t)
             /\ LiveSessions(u) = LiveSessions(t) \cup {u.ssl}
<1> DEFINE s == CHOOSE s \in Sessions : t.contextOf[s] = Null
           u == NewSession(t)
<1>1. t \in TlsValues
  BY DEF TlsOK
<1>2. s \in Sessions /\ t.contextOf[s] = Null
  BY <1>1, RoomHasNames
<1>3. u = [t EXCEPT !.ssl = s, !.contextOf[s] = t.ctx, !.refs[t.ctx] = @ + 1]
  BY DEF NewSession
<1>4. t.ctx \in Contexts
  BY <1>1 DEF TlsValues
<1> HIDE DEF s, u
<1>5. t.contextOf \in [Sessions -> Contexts \cup {Null}] /\ t.refs \in [Contexts -> Nat]
  BY <1>1 DEF TlsValues
<1>6. /\ u \in TlsValues /\ u.ssl = s /\ u.ctx = t.ctx
      /\ u.contextOf = [t.contextOf EXCEPT ![s] = t.ctx]
      /\ u.refs = [t.refs EXCEPT ![t.ctx] = @ + 1]
  <2>1. /\ [t.contextOf EXCEPT ![s] = t.ctx] \in [Sessions -> Contexts \cup {Null}]
        /\ [t.refs EXCEPT ![t.ctx] = @ + 1] \in [Contexts -> Nat]
    BY <1>2, <1>4, <1>5
  <2>2. /\ u.ssl = s /\ u.ctx = t.ctx
        /\ u.contextOf = [t.contextOf EXCEPT ![s] = t.ctx]
        /\ u.refs = [t.refs EXCEPT ![t.ctx] = @ + 1]
    BY <1>1, <1>3 DEF TlsValues
  <2>3. u \in TlsValues
    BY <1>1, <1>2, <1>3, <1>4, <2>1 DEF TlsValues
  <2> QED BY <2>2, <2>3
<1>7. ASSUME NEW d \in Contexts
      PROVE  u.refs[d] = Cardinality(Holders(u, d)) + (IF u.ctx = d THEN 1 ELSE 0)
  <2>1. t.refs[d] = Cardinality(Holders(t, d)) + (IF t.ctx = d THEN 1 ELSE 0)
    BY DEF TlsOK
  <2>2. CASE d = t.ctx
    <3>1. Holders(u, d) = Holders(t, d) \cup {s} /\ s \notin Holders(t, d)
      BY <1>2, <1>4, <1>5, <1>6, <2>2, Names DEF Holders
    <3>2. Cardinality(Holders(u, d)) = Cardinality(Holders(t, d)) + 1
      BY <3>1, HoldersFinite, FS_AddElement
    <3> QED BY <1>5, <1>6, <2>1, <2>2, <3>2, HoldersFinite
  <2>3. CASE d # t.ctx
    <3>1. Holders(u, d) = Holders(t, d)
      BY <1>2, <1>4, <1>5, <1>6, <2>3, Names DEF Holders
    <3> QED BY <1>5, <1>6, <2>1, <2>3, <3>1
  <2> QED BY <2>2, <2>3
<1>8. TlsOK(u) /\ u.ssl # Null
  <2>1. u.contextOf[u.ssl] # Null /\ u.ssl # Null
    BY <1>2, <1>4, <1>5, <1>6, Names
  <2> QED BY <1>6, <1>7, <2>1 DEF TlsOK
<1>9. s \notin LiveSessions(t) /\ LiveSessions(u) = LiveSessions(t) \cup {s}
  BY <1>2, <1>4, <1>5, <1>6, Names DEF LiveSessions
<1> QED BY <1>6, <1>8, <1>9 DEF u

(* The pointer to a session is overwritten.                                *)
LEMMA ForgetSessionKeeps ==
  ASSUME NEW t, TlsOK(t)
  PROVE  LET u == [t EXCEPT !.ssl = Null]
         IN  TlsOK(u) /\ LiveSessions(u) = LiveSessions(t)
<1> DEFINE u == [t EXCEPT !.ssl = Null]
<1>1. u \in TlsValues /\ u.ssl = Null /\ u.ctx = t.ctx /\ u.refs = t.refs /\ u.contextOf = t.contextOf
  BY DEF TlsOK, TlsValues
<1> HIDE DEF u
<1>2. TlsOK(u) /\ LiveSessions(u) = LiveSessions(t)
  BY <1>1 DEF TlsOK, Holders, LiveSessions
<1> QED BY <1>2 DEF u

(* wolfSSL_CTX_free never finds a context without a reference.             *)
LEMMA FreeContextKeeps ==
  ASSUME NEW t, TlsOK(t)
  PROVE  LET u == FreeContext(t)
         IN  TlsOK(u) /\ LiveSessions(u) = LiveSessions(t)
<1>1. CASE t.ctx = Null
  BY <1>1 DEF FreeContext
<1>2. CASE t.ctx # Null
  <2> DEFINE u == [t EXCEPT !.refs[t.ctx] = @ - 1, !.ctx = Null]
  <2>1. t \in TlsValues /\ t.ctx \in Contexts /\ t.refs \in [Contexts -> Nat]
    BY <1>2 DEF TlsOK, TlsValues
  <2>2. t.refs[t.ctx] = Cardinality(Holders(t, t.ctx)) + 1
    BY <2>1 DEF TlsOK
  <2>3. t.refs[t.ctx] - 1 \in Nat
    BY <2>2, HoldersFinite
  <2>4. /\ u \in TlsValues /\ u.ssl = t.ssl /\ u.ctx = Null /\ u.contextOf = t.contextOf
        /\ u.refs = [t.refs EXCEPT ![t.ctx] = @ - 1]
    BY <2>1, <2>3 DEF TlsValues
  <2> HIDE DEF u
  <2>5. ASSUME NEW d \in Contexts
        PROVE  u.refs[d] = Cardinality(Holders(u, d)) + (IF u.ctx = d THEN 1 ELSE 0)
    <3>1. Holders(u, d) = Holders(t, d)
      BY <2>4 DEF Holders
    <3>2. t.refs[d] = Cardinality(Holders(t, d)) + (IF t.ctx = d THEN 1 ELSE 0)
      BY DEF TlsOK
    <3>3. u.ctx # d
      BY <2>4, Names
    <3> QED BY <2>1, <2>4, <3>1, <3>2, <3>3, HoldersFinite
  <2>6. TlsOK(u) /\ LiveSessions(u) = LiveSessions(t)
    BY <2>4, <2>5 DEF TlsOK, LiveSessions
  <2>7. FreeContext(t) = u
    BY <1>2 DEF FreeContext, u
  <2> QED BY <2>6, <2>7
<1> QED BY <1>1, <1>2

(* wolfSSL_free gives the session and its reference back.                  *)
LEMMA FreeSessionKeeps ==
  ASSUME NEW t, TlsOK(t)
  PROVE  LET u == FreeSession(t)
         IN  TlsOK(u) /\ u.ssl = Null /\ LiveSessions(u) = LiveSessions(t) \ {t.ssl}
<1>1. CASE t.ssl = Null
  BY <1>1, Names DEF FreeSession, LiveSessions
<1>2. CASE t.ssl # Null
  <2> DEFINE s == t.ssl
             c == t.contextOf[t.ssl]
             u == FreeSession(t)
  <2>1. /\ t \in TlsValues /\ t.refs \in [Contexts -> Nat]
        /\ t.contextOf \in [Sessions -> Contexts \cup {Null}]
        /\ s \in Sessions /\ c \in Contexts
    BY <1>2 DEF TlsOK, TlsValues
  <2>2. u = [t EXCEPT !.refs[c] = @ - 1, !.contextOf[s] = Null, !.ssl = Null]
    BY <1>2 DEF FreeSession
  <2>3. s \in Holders(t, c)
    BY <2>1 DEF Holders
  <2>4. Cardinality(Holders(t, c)) \in Nat \ {0}
    BY <2>3, HoldersFinite, FS_EmptySet
  <2>5. t.refs[c] = Cardinality(Holders(t, c)) + (IF t.ctx = c THEN 1 ELSE 0)
    BY <2>1 DEF TlsOK
  <2>6. t.refs[c] - 1 \in Nat
    BY <2>4, <2>5
  <2> HIDE DEF u, c, s
  <2>7. /\ u \in TlsValues /\ u.ssl = Null /\ u.ctx = t.ctx
        /\ u.contextOf = [t.contextOf EXCEPT ![s] = Null]
        /\ u.refs = [t.refs EXCEPT ![c] = @ - 1]
    BY <2>1, <2>2, <2>6 DEF TlsValues
  <2>8. ASSUME NEW d \in Contexts
        PROVE  u.refs[d] = Cardinality(Holders(u, d)) + (IF u.ctx = d THEN 1 ELSE 0)
    <3>1. t.refs[d] = Cardinality(Holders(t, d)) + (IF t.ctx = d THEN 1 ELSE 0)
      BY DEF TlsOK
    <3>2. CASE d = c
      <4>1. Holders(u, d) = Holders(t, d) \ {s}
        BY <2>1, <2>7, <3>2, Names DEF Holders
      <4>2. Cardinality(Holders(u, d)) = Cardinality(Holders(t, d)) - 1
        BY <2>3, <3>2, <4>1, HoldersFinite, FS_RemoveElement
      <4> QED BY <2>1, <2>4, <2>7, <3>1, <3>2, <4>2
    <3>3. CASE d # c
      <4>1. Holders(u, d) = Holders(t, d)
        BY <2>1, <2>3, <2>7, <3>3, Names DEF Holders
      <4> QED BY <2>1, <2>7, <3>1, <3>3, <4>1
    <3> QED BY <3>2, <3>3
  <2>9. TlsOK(u) /\ LiveSessions(u) = LiveSessions(t) \ {s}
    BY <2>1, <2>7, <2>8 DEF TlsOK, LiveSessions
  <2> QED BY <2>7, <2>9 DEF u, s
<1> QED BY <1>1, <1>2

(* tlsSetup: a success leaves one more session, and it is the one the      *)
(* pointer is set to; a failure leaves the sessions that were there.       *)
LEMMA SetupKeeps ==
  ASSUME TlsOK(tls), NEW setup \in TlsOutcomes
  PROVE  /\ TlsOK(setup.tls)
         /\ setup.ok => /\ setup.tls.ssl # Null
                        /\ LiveSessions(setup.tls) \ {setup.tls.ssl} = LiveSessions(tls)
         /\ ~setup.ok => LiveSessions(setup.tls) = LiveSessions(tls)
         /\ setup.ok \in BOOLEAN
         /\ setup.cost \in {0, 1}
         /\ ~setup.ok /\ LiveSessions(tls) = {} => setup.cost = 1
<1> DEFINE with == IF tls.ctx = Null THEN NewContext(tls) ELSE tls
           Outcome(ok, t, cost) == [ok |-> ok, tls |-> t, cost |-> cost]
           noContext == Outcome(FALSE, tls, IF HasRoom(tls) THEN 1 ELSE 0)
           noSession == Outcome(FALSE, FreeContext([with EXCEPT !.ssl = Null]),
                                IF HasRoom(with) THEN 1 ELSE 0)
           badCredentials == Outcome(FALSE, FreeContext(with), 1)
           success == Outcome(TRUE, NewSession(with), 0)
           failure == Outcome(FALSE, HandshakeFailed(NewSession(with)), 1)
<1>1. \/ setup = noContext /\ tls.ctx = Null
      \/ (tls.ctx # Null \/ HasRoom(tls)) /\ setup \in {badCredentials, noSession}
      \/ (tls.ctx # Null \/ HasRoom(tls)) /\ HasRoom(with) /\ setup \in {success, failure}
  BY DEF TlsOutcomes
<1>2. ASSUME tls.ctx # Null \/ HasRoom(tls)
      PROVE  TlsOK(with) /\ with.ctx # Null /\ with.contextOf = tls.contextOf
  BY <1>2, NewContextKeeps
<1>3. ASSUME NEW t, TlsOK(t), LiveSessions(t) = {}
      PROVE  HasRoom(t)
  <2>1. \A c \in Contexts : Holders(t, c) = {}
    BY <1>3, Names DEF Holders, LiveSessions
  <2>2. \A c \in Contexts : t.refs[c] > 0 => c = t.ctx
    BY <1>3, <2>1, Names, FS_EmptySet DEF TlsOK
  <2>3. LiveContexts(t) = {} \/ LiveContexts(t) = {t.ctx}
    BY <2>2 DEF LiveContexts
  <2>4. Cardinality(LiveContexts(t)) \in {0, 1}
    BY <2>3, FS_EmptySet, FS_Singleton
  <2> QED BY <1>3, <2>4, FS_EmptySet, Names DEF HasRoom
<1>4. CASE setup = noContext /\ tls.ctx = Null
  BY <1>3, <1>4
<1>5. CASE (tls.ctx # Null \/ HasRoom(tls)) /\ setup = badCredentials
  <2>1. LiveSessions(with) = LiveSessions(tls)
    BY <1>2, <1>5 DEF LiveSessions
  <2> QED BY <1>2, <1>5, <2>1, FreeContextKeeps
<1>6. CASE (tls.ctx # Null \/ HasRoom(tls)) /\ setup = noSession
  <2> DEFINE forgotten == [with EXCEPT !.ssl = Null]
  <2>1. LiveSessions(with) = LiveSessions(tls) /\ TlsOK(with)
    BY <1>2, <1>6 DEF LiveSessions
  <2>2. LiveSessions(tls) = {} => HasRoom(with)
    BY <1>3, <2>1
  <2> HIDE DEF with
  <2>3. TlsOK(forgotten) /\ LiveSessions(forgotten) = LiveSessions(tls)
    BY <2>1, ForgetSessionKeeps
  <2> HIDE DEF forgotten
  <2>4. TlsOK(FreeContext(forgotten)) /\ LiveSessions(FreeContext(forgotten)) = LiveSessions(tls)
    BY <2>3, FreeContextKeeps
  <2> QED BY <1>6, <2>2, <2>4 DEF forgotten
<1>7. CASE /\ tls.ctx # Null \/ HasRoom(tls)
           /\ HasRoom(with) /\ setup \in {success, failure}
  <2> DEFINE t == NewSession(with)
  <2>1. LiveSessions(with) = LiveSessions(tls) /\ TlsOK(with) /\ with.ctx # Null
    BY <1>2, <1>7 DEF LiveSessions
  <2> HIDE DEF with
  <2>2. /\ TlsOK(t) /\ t.ssl # Null /\ t.ssl \notin LiveSessions(tls)
        /\ LiveSessions(t) = LiveSessions(tls) \cup {t.ssl}
    BY <1>7, <2>1, NewSessionKeeps
  <2> HIDE DEF t
  <2>3. TlsOK(FreeSession(t)) /\ LiveSessions(FreeSession(t)) = LiveSessions(tls)
    BY <2>2, FreeSessionKeeps
  <2>4. TlsOK(HandshakeFailed(t)) /\ LiveSessions(HandshakeFailed(t)) = LiveSessions(tls)
    BY <2>3, FreeContextKeeps DEF HandshakeFailed
  <2>5. CASE setup = success
    <3>1. setup.ok = TRUE /\ setup.tls = t /\ setup.cost = 0
      BY <2>5 DEF t
    <3>2. LiveSessions(t) \ {t.ssl} = LiveSessions(tls)
      BY <2>2
    <3> QED BY <2>2, <3>1, <3>2
  <2>6. CASE setup = failure
    <3>1. setup.ok = FALSE /\ setup.tls = HandshakeFailed(t) /\ setup.cost = 1
      BY <2>6 DEF t
    <3> QED BY <2>4, <3>1
  <2> QED BY <1>7, <2>5, <2>6
<1> QED BY <1>1, <1>4, <1>5, <1>6, <1>7

-----------------------------------------------------------------------------
(* The stages *)

(* The sessions that are in no use are a finite set.                       *)
LEMMA SessionsFinite ==
  IsFiniteSet(LiveSessions(tls)) /\ IsFiniteSet(Abandoned) /\ Cardinality(Abandoned) \in Nat
<1>1. LiveSessions(tls) \in SUBSET Sessions /\ Abandoned \in SUBSET Sessions
  BY DEF LiveSessions, Abandoned
<1> QED BY <1>1, Names, FS_Subset, FS_CardinalityType

(* What the steps that leave the TLS objects alone need.                   *)
LEMMA SameObjects ==
  ASSUME IInv, tls' = tls, refusals' = refusals, faults' \in Nat, faults' >= faults,
         pc' \in Connected <=> pc \in Connected
  PROVE  TlsOK(tls)' /\ SessionsOK'
<1>1. Abandoned' = Abandoned
  BY DEF Abandoned, InUse, LiveSessions, Connected
<1>2. TlsOK(tls)'
  BY DEF IInv, TlsOK, Holders
<1> QED BY <1>1, <1>2 DEF IInv, SessionsOK, AbandonedByRefusals, ScalarsOK

LEMMA WifiConnectKeeps ==
  ASSUME IInv, WifiConnect PROVE IInv'
<1>1. TlsOK(tls)' /\ SessionsOK'
  BY SameObjects, ConnectionAssumption
     DEF WifiConnect, Faults, Proceed, historyVars, Connected, IInv, ScalarsOK
<1>2. ({WiFiConnected, MQTTConnected, terminated} \subseteq BOOLEAN)'
  BY DEF WifiConnect, historyVars, IInv, ScalarsOK
<1> QED BY <1>1, <1>2, ConnectionAssumption
        DEF WifiConnect, Faults, Proceed, historyVars, IInv, ScalarsOK, Stages, StartUpOK, SocketOK,
            StopsOnlyAfterFault

LEMMA SecureElementKeeps ==
  ASSUME IInv, InitSecureElement \/ LoadTLSCredentials PROVE IInv'
<1>1. TlsOK(tls)' /\ SessionsOK'
  BY SameObjects, ConnectionAssumption
     DEF InitSecureElement, LoadTLSCredentials, GiveUp, Faults, Proceed, historyVars, Connected,
         IInv, ScalarsOK
<1> QED BY <1>1, ConnectionAssumption
        DEF InitSecureElement, LoadTLSCredentials, GiveUp, Faults, Proceed, historyVars, IInv,
            ScalarsOK, Stages, StartUpOK, SocketOK, StopsOnlyAfterFault

LEMMA OpenSocketKeeps ==
  ASSUME IInv, OpenSocket PROVE IInv'
<1> PICK opened \in Opening :
      \/ /\ opened.ok
         /\ socket' = opened.socket
         /\ Proceed("tls")
         /\ Faults(opened.cost)
      \/ /\ ~opened.ok
         /\ \E closed \in Closing(opened.socket) :
              socket' = closed.socket /\ Faults(opened.cost + closed.cost)
         /\ GiveUp
  BY DEF OpenSocket
<1>1. /\ opened.ok \in BOOLEAN /\ opened.socket \in {"closed", "open"} /\ opened.cost \in {0, 1}
      /\ ~opened.ok /\ opened.cost = 0 => socket = "open"
  <2>1. CASE opened \in [ok : {TRUE}, socket : {"open"}, cost : {0}]
    <3>1. opened.ok = TRUE /\ opened.socket = "open" /\ opened.cost = 0
      BY <2>1
    <3>2. opened.ok \in BOOLEAN
      BY <3>1, Zenon
    <3> QED BY <3>1, <3>2
  <2>2. CASE opened \in [ok : {FALSE}, socket : {"closed", "open"}, cost : {1}]
    <3>1. opened.ok = FALSE /\ opened.socket \in {"closed", "open"} /\ opened.cost = 1
      BY <2>2
    <3>2. opened.ok \in BOOLEAN
      BY <3>1, Zenon
    <3> QED BY <3>1, <3>2
  <2>3. CASE socket = "open" /\ opened \in [ok : {FALSE}, socket : {"open"}, cost : {0}]
    <3>1. opened.ok = FALSE /\ opened.socket = "open" /\ opened.cost = 0
      BY <2>3
    <3>2. opened.ok \in BOOLEAN
      BY <3>1, Zenon
    <3> QED BY <2>3, <3>1, <3>2
  <2> QED BY <2>1, <2>2, <2>3 DEF Opening
<1>2. \A closed \in Closing(opened.socket) :
        closed.socket \in {"closed", "open"} /\ closed.cost \in {0, 1}
  BY <1>1 DEF Closing
<1>3. pc = "open" /\ UNCHANGED <<WiFiConnected, MQTTConnected, tls, telemetry, posted, historyVars>>
  BY DEF OpenSocket
<1>4. /\ faults \in 0 .. MaxFaults /\ faults' \in 0 .. MaxFaults /\ faults' >= faults
      /\ socket' \in {"closed", "open"}
      /\ \/ pc' = "tls"
         \/ GiveUp /\ (socket = "open" \/ faults' > 0)
  BY <1>1, <1>2, ConnectionAssumption DEF IInv, ScalarsOK, Faults, Proceed
<1>5. TlsOK(tls)' /\ SessionsOK'
  BY <1>3, <1>4, SameObjects DEF GiveUp, historyVars, Connected
<1>6. faults' = 0 /\ pc' # "tls" => FALSE
  BY <1>3, <1>4 DEF IInv, SocketOK
<1> QED BY <1>3, <1>4, <1>5, <1>6
        DEF GiveUp, historyVars, IInv, ScalarsOK, Stages, StartUpOK, SocketOK, StopsOnlyAfterFault

LEMMA SetupTlsKeeps ==
  ASSUME IInv, SetupTls PROVE IInv'
<1> PICK setup \in TlsOutcomes :
      /\ tls' = setup.tls
      /\ \/ /\ setup.ok
            /\ Proceed(IF MQTTConnected THEN "connect" ELSE "init")
            /\ Faults(setup.cost)
            /\ UNCHANGED socket
         \/ /\ ~setup.ok
            /\ GiveUp
            /\ \E closed \in Closing(socket) :
                 socket' = closed.socket /\ Faults(setup.cost + closed.cost)
  BY DEF SetupTls
<1>1. pc = "tls" /\ UNCHANGED <<WiFiConnected, MQTTConnected, telemetry, posted, historyVars>>
  BY DEF SetupTls
<1>2. /\ TlsOK(setup.tls)
      /\ setup.ok => /\ setup.tls.ssl # Null
                     /\ LiveSessions(setup.tls) \ {setup.tls.ssl} = LiveSessions(tls)
      /\ ~setup.ok => LiveSessions(setup.tls) = LiveSessions(tls)
      /\ setup.ok \in BOOLEAN
      /\ setup.cost \in {0, 1}
      /\ ~setup.ok /\ LiveSessions(tls) = {} => setup.cost = 1
  BY SetupKeeps DEF IInv
<1>3. \A closed \in Closing(socket) :
        closed.socket \in {"closed", "open"} /\ closed.cost \in {0, 1}
  BY DEF Closing, IInv, ScalarsOK
<1>4. /\ faults \in 0 .. MaxFaults /\ faults' \in 0 .. MaxFaults /\ faults' >= faults
      /\ socket' \in {"closed", "open"}
      /\ \/ setup.ok /\ pc' = IF MQTTConnected THEN "connect" ELSE "init"
         \/ ~setup.ok /\ GiveUp /\ (setup.cost = 1 => faults' > 0)
  BY <1>2, <1>3, ConnectionAssumption DEF IInv, ScalarsOK, Faults, Proceed
<1>5. LiveSessions(tls)' = LiveSessions(setup.tls)
  BY DEF LiveSessions
<1>6. Abandoned = LiveSessions(tls)
  BY <1>1 DEF Abandoned, InUse
<1>7. Abandoned' = Abandoned
  <2>1. CASE setup.ok
    BY <1>2, <1>4, <1>5, <1>6, <2>1 DEF Abandoned, InUse
  <2>2. CASE ~setup.ok
    BY <1>2, <1>4, <1>5, <1>6, <2>2 DEF Abandoned, InUse, GiveUp
  <2> QED BY <2>1, <2>2
<1>8. SessionsOK'
  BY <1>1, <1>2, <1>4, <1>7
     DEF IInv, SessionsOK, AbandonedByRefusals, ScalarsOK, historyVars, Connected, GiveUp
<1>9. TlsOK(tls)'
  BY <1>2 DEF TlsOK, Holders
<1>10. faults' = 0 => setup.ok
  <2>1. SUFFICES ASSUME faults' = 0, ~setup.ok PROVE FALSE
    BY <1>2
  <2>2. faults = 0 /\ refusals = 0
    BY <1>4, <2>1 DEF IInv, SessionsOK, ScalarsOK
  <2>3. Abandoned = {}
    BY <2>2, SessionsFinite, FS_EmptySet DEF IInv, SessionsOK, AbandonedByRefusals
  <2> QED BY <1>2, <1>4, <1>6, <2>1, <2>3
<1> QED BY <1>1, <1>4, <1>8, <1>9, <1>10
        DEF GiveUp, historyVars, IInv, ScalarsOK, Stages, StartUpOK, SocketOK, StopsOnlyAfterFault

LEMMA MQTTInitKeeps ==
  ASSUME IInv, MQTTInit PROVE IInv'
<1>1. TlsOK(tls)' /\ SessionsOK'
  BY SameObjects DEF MQTTInit, Proceed, historyVars, Connected, IInv, ScalarsOK
<1> QED BY <1>1, ConnectionAssumption
        DEF MQTTInit, Proceed, historyVars, IInv, ScalarsOK, Stages, StartUpOK, SocketOK,
            StopsOnlyAfterFault

LEMMA MQTTConnectKeeps ==
  ASSUME IInv, MQTTConnect PROVE IInv'
<1>1. CASE Proceed("loop") /\ MQTTConnected' = TRUE /\ Faults(0) /\ UNCHANGED refusals
  <2>1. TlsOK(tls)' /\ SessionsOK'
    BY <1>1, SameObjects
       DEF MQTTConnect, Faults, Proceed, historyVars, Connected, IInv, ScalarsOK
  <2> QED BY <1>1, <2>1
          DEF MQTTConnect, Faults, Proceed, IInv, ScalarsOK, Stages, StartUpOK, SocketOK,
              StopsOnlyAfterFault
<1>2. CASE GiveUp /\ Faults(1) /\ refusals' = refusals + 1 /\ UNCHANGED MQTTConnected
  <2>1. pc = "connect" /\ tls' = tls
    BY DEF MQTTConnect
  <2>2. Abandoned' = LiveSessions(tls) /\ Abandoned = LiveSessions(tls) \ {tls.ssl}
    BY <1>2, <2>1 DEF Abandoned, InUse, LiveSessions, GiveUp
  <2>3. Abandoned' = Abandoned \cup {tls.ssl}
    BY <2>1, <2>2 DEF IInv, SessionsOK, TlsOK, TlsValues, LiveSessions, Connected
  <2>4. Cardinality(Abandoned') \in {Cardinality(Abandoned), Cardinality(Abandoned) + 1}
    BY <2>3, SessionsFinite, FS_AddElement
  <2>5. SessionsOK'
    BY <1>2, <2>1, <2>4, SessionsFinite
       DEF GiveUp, Faults, Connected, IInv, ScalarsOK, SessionsOK, AbandonedByRefusals
  <2>6. TlsOK(tls)'
    BY <2>1 DEF IInv, TlsOK, Holders
  <2> QED BY <1>2, <2>5, <2>6, ConnectionAssumption
          DEF MQTTConnect, GiveUp, Faults, Proceed, IInv, ScalarsOK, Stages, StartUpOK, SocketOK,
              StopsOnlyAfterFault
<1> QED BY <1>1, <1>2 DEF MQTTConnect

LEMMA DisconnectKeeps ==
  ASSUME IInv, Disconnect PROVE IInv'
<1> DEFINE freed == FreeSession(tls)
<1>1. /\ pc = "disconnect" /\ tls' = FreeContext(freed)
      /\ pc' = IF terminated THEN "stopped" ELSE "credentials"
      /\ UNCHANGED <<WiFiConnected, MQTTConnected, telemetry, posted, historyVars>>
  BY DEF Disconnect, Proceed
<1>2. TlsOK(freed) /\ LiveSessions(freed) = LiveSessions(tls) \ {tls.ssl}
  BY FreeSessionKeeps DEF IInv
<1> HIDE DEF freed
<1>3. TlsOK(FreeContext(freed)) /\ LiveSessions(FreeContext(freed)) = LiveSessions(freed)
  BY <1>2, FreeContextKeeps
<1>4. TlsOK(tls)' /\ LiveSessions(tls)' = LiveSessions(tls) \ {tls.ssl}
  BY <1>1, <1>2, <1>3 DEF TlsOK, Holders, LiveSessions
<1>5. Abandoned' = Abandoned
  BY <1>1, <1>4 DEF Abandoned, InUse
<1>6. /\ faults \in 0 .. MaxFaults /\ faults' \in 0 .. MaxFaults /\ faults' >= faults
      /\ socket' \in {"closed", "open"}
      /\ socket' = "closed" \/ faults' > 0
  <2>1. PICK closed \in Closing(socket) : socket' = closed.socket /\ Faults(closed.cost)
    BY DEF Disconnect
  <2> QED BY <2>1, ConnectionAssumption DEF Closing, Faults, IInv, ScalarsOK
<1>7. SessionsOK'
  BY <1>1, <1>5, <1>6 DEF IInv, SessionsOK, AbandonedByRefusals, ScalarsOK, historyVars, Connected
<1> QED BY <1>1, <1>4, <1>6, <1>7
        DEF historyVars, IInv, ScalarsOK, Stages, StartUpOK, SocketOK, StopsOnlyAfterFault

(* The command loop and the telemetry task.                                *)
LEMMA LoopKeeps ==
  ASSUME IInv, LoopTakes \/ LoopFails \/ LoopEnds \/ TelemetryStarts \/ PublishTelemetry
  PROVE  IInv'
<1>1. TlsOK(tls)' /\ SessionsOK'
  BY SameObjects
     DEF LoopTakes, LoopFails, LoopEnds, TelemetryStarts, PublishTelemetry, Proceed, taskVars,
         historyVars, Connected, IInv, ScalarsOK
<1>2. posted' \in 0 .. MaxPosted
  BY ConnectionAssumption
     DEF LoopTakes, LoopFails, LoopEnds, TelemetryStarts, PublishTelemetry, IInv, ScalarsOK
<1>3. ({WiFiConnected, MQTTConnected, terminated} \subseteq BOOLEAN)'
  BY DEF LoopTakes, LoopFails, LoopEnds, TelemetryStarts, PublishTelemetry, taskVars, historyVars,
         IInv, ScalarsOK
<1> QED BY <1>1, <1>2, <1>3
        DEF LoopTakes, LoopFails, LoopEnds, TelemetryStarts, PublishTelemetry, Proceed, taskVars,
            historyVars, IInv, ScalarsOK, Stages, StartUpOK, SocketOK, StopsOnlyAfterFault

-----------------------------------------------------------------------------
(* Theorems *)

LEMMA InitIInv == Init => IInv
<1> SUFFICES ASSUME Init PROVE IInv
  OBVIOUS
<1>1. /\ NoTls \in TlsValues /\ NoTls.ssl = Null /\ NoTls.ctx = Null
      /\ \A c \in Contexts : NoTls.refs[c] = 0
      /\ \A s \in Sessions : NoTls.contextOf[s] = Null
  BY DEF NoTls, TlsValues
<1>2. \A c \in Contexts : Holders(NoTls, c) = {}
  BY <1>1, Names DEF Holders
<1>3. TlsOK(tls)
  BY <1>1, <1>2, Names, FS_EmptySet DEF Init, TlsOK
<1>4. Abandoned = {}
  BY <1>1 DEF Init, Abandoned, LiveSessions
<1>5. SessionsOK
  BY <1>4, FS_EmptySet DEF Init, SessionsOK, AbandonedByRefusals, Connected
<1>6. {WiFiConnected, MQTTConnected, terminated} \subseteq BOOLEAN
  BY DEF Init
<1> QED BY <1>3, <1>5, <1>6, ConnectionAssumption
        DEF Init, IInv, ScalarsOK, Stages, StartUpOK, SocketOK, StopsOnlyAfterFault

LEMMA NextKeepsIInv ==
  ASSUME IInv, [Next]_vars PROVE IInv'
<1>1. CASE UNCHANGED vars
  <2>1. TlsOK(tls)' /\ SessionsOK'
    BY <1>1, SameObjects DEF vars, taskVars, historyVars, IInv, ScalarsOK
  <2> QED BY <1>1, <2>1
          DEF vars, taskVars, historyVars, IInv, ScalarsOK, StartUpOK, SocketOK, StopsOnlyAfterFault
<1>2. CASE Connecting
  BY <1>2, WifiConnectKeeps, SecureElementKeeps, OpenSocketKeeps, SetupTlsKeeps, MQTTInitKeeps,
     MQTTConnectKeeps, DisconnectKeeps DEF Connecting
<1>3. CASE LoopTakes \/ LoopFails \/ LoopEnds \/ TelemetryStarts \/ PublishTelemetry
  BY <1>3, LoopKeeps
<1> QED BY <1>1, <1>2, <1>3 DEF Next

(* The inductive invariant holds in every reachable state.                 *)
THEOREM Invariance == Spec => []IInv
<1>1. Init => IInv
  BY InitIInv
<1>2. IInv /\ [Next]_vars => IInv'
  BY NextKeepsIInv
<1> QED BY <1>1, <1>2, PTL DEF Spec

(* Whatever sockets, handshakes and connections fail, and however often,   *)
(* the pointers of sslContext are NULL or point to an allocated object,    *)
(* and tlsSetup and TLSWiFiDisconnect give back every reference they take. *)
THEOREM PointersHold == Spec => []NoDanglingPointers
<1>1. IInv => NoDanglingPointers
  <2> SUFFICES ASSUME IInv PROVE NoDanglingPointers
    OBVIOUS
  <2>1. /\ tls \in TlsValues /\ tls.refs \in [Contexts -> Nat]
        /\ tls.contextOf \in [Sessions -> Contexts \cup {Null}]
        /\ tls.ctx \in Contexts \cup {Null} /\ tls.ssl \in Sessions \cup {Null}
    BY DEF IInv, TlsOK, TlsValues
  <2>2. \A c \in Contexts :
          tls.refs[c] = Cardinality({s \in Sessions : tls.contextOf[s] = c})
                        + (IF tls.ctx = c THEN 1 ELSE 0)
    BY DEF IInv, TlsOK, Holders
  <2>3. \A c \in Contexts : tls.refs[c] \in 0 .. Cardinality(Sessions) + 1
    <3> SUFFICES ASSUME NEW c \in Contexts
                 PROVE  tls.refs[c] \in 0 .. Cardinality(Sessions) + 1
      OBVIOUS
    <3>1. tls.refs[c] = Cardinality(Holders(tls, c)) + (IF tls.ctx = c THEN 1 ELSE 0)
      BY DEF IInv, TlsOK
    <3>2. Cardinality(Holders(tls, c)) \in 0 .. Cardinality(Sessions)
      BY HoldersFinite
    <3> QED BY <3>1, <3>2, Names
  <2>4. tls \in [ctx : Contexts \cup {Null}, ssl : Sessions \cup {Null},
                 refs : [Contexts -> 0 .. Cardinality(Sessions) + 1],
                 contextOf : [Sessions -> Contexts \cup {Null}]]
    <3>1. tls.refs \in [Contexts -> 0 .. Cardinality(Sessions) + 1]
      BY <2>1, <2>3
    <3> QED BY <2>1, <3>1 DEF TlsValues
  <2>5. refusals \in 0 .. MaxFaults
    BY ConnectionAssumption DEF IInv, SessionsOK, ScalarsOK
  <2>6. TypeOK
    BY <2>4, <2>5 DEF IInv, ScalarsOK, TypeOK
  <2>7. tls.ssl # Null => tls.ssl \in LiveSessions(tls)
    BY <2>1 DEF IInv, TlsOK, LiveSessions
  <2>8. tls.ctx # Null => tls.refs[tls.ctx] > 0
    <3>1. tls.ctx # Null => tls.refs[tls.ctx] = Cardinality(Holders(tls, tls.ctx)) + 1
      BY <2>1 DEF IInv, TlsOK
    <3> QED BY <3>1, HoldersFinite
  <2>9. tls.ctx # Null => tls.ctx \in LiveContexts(tls)
    BY <2>1, <2>8 DEF LiveContexts
  <2> QED BY <2>2, <2>6, <2>7, <2>9 DEF NoDanglingPointers
<1> QED BY <1>1, Invariance, PTL

(* Memory is lost by a refused MQTT connection and by nothing else: no     *)
(* failed socket, credential or handshake, and no reconnection, leaves a   *)
(* session behind.                                                         *)
THEOREM AbandonedBound == Spec => []AbandonedByRefusals
<1>1. IInv => AbandonedByRefusals
  BY DEF IInv, SessionsOK
<1> QED BY <1>1, Invariance, PTL

(* The device reconnects as often as its connection ends: while nothing    *)
(* fails, the configASSERTs of prvSocketConnect hold.                      *)
THEOREM StopsHold == Spec => []StopsOnlyAfterFault
<1>1. IInv => StopsOnlyAfterFault
  BY DEF IInv
<1> QED BY <1>1, Invariance, PTL

(* prvMQTTInit makes the command queue anew on every attempt of the        *)
(* start-up, but never while a command is on it.                           *)
THEOREM PostedHolds == Spec => PostedOnlyTakenByLoop
<1>1. IInv /\ [Next]_vars => [posted' < posted => pc = "loop"]_vars
  <2> SUFFICES ASSUME IInv, Next, posted' < posted PROVE pc = "loop"
    OBVIOUS
  <2>1. posted \in Nat
    BY DEF IInv, ScalarsOK
  <2>2. ~MQTTInit
    BY <2>1 DEF MQTTInit, IInv, StartUpOK
  <2> QED BY <2>1, <2>2
          DEF Next, Connecting, WifiConnect, InitSecureElement, LoadTLSCredentials, OpenSocket,
              SetupTls, MQTTConnect, Disconnect, LoopTakes, LoopFails, LoopEnds, TelemetryStarts,
              PublishTelemetry
<1> QED BY <1>1, Invariance, PTL DEF Spec, PostedOnlyTakenByLoop
=============================================================================
