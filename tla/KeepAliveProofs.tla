--------------------------- MODULE KeepAliveProofs ---------------------------
(***************************************************************************)
(* What is proved of KeepAlive, for any timeouts, pauses and times of      *)
(* answer, and for any clock that wraps no sooner than the sum of the      *)
(* times it is compared with: a silent connection is given up, a live peer *)
(* is kept, and the client does not stay silent itself.                    *)
(***************************************************************************)
EXTENDS KeepAlive, SequenceTheorems, TLAPS

-----------------------------------------------------------------------------
(* Distances on the clock                                                  *)

Instants == 0 .. Modulus - 1

LEMMA Constants ==
  /\ Modulus \in Nat /\ TxTimeout \in Nat /\ MaxAnswer \in Nat
  /\ RxTimeout \in Nat /\ RxTimeout >= 1 /\ PingTimeout \in Nat /\ PingTimeout >= 1
  /\ MaxPause \in Nat /\ MaxPause >= 1 /\ MaxPackets \in Nat /\ MaxPackets >= 1
  /\ MaxAnswer <= PingTimeout
  /\ Modulus > TxTimeout + RxTimeout + PingTimeout + 3 * MaxPause
<1>1. /\ TxTimeout \in Nat /\ MaxAnswer \in Nat
      /\ RxTimeout \in Nat \ {0} /\ PingTimeout \in Nat \ {0}
      /\ MaxPause \in Nat \ {0} /\ MaxPackets \in Nat \ {0}
  BY KeepAliveAssumption
<1> QED BY <1>1, KeepAliveAssumption

(* A value that exceeds the modulus at most once.                          *)
LEMMA WrapsOnce ==
  ASSUME NEW m \in Nat, m > 0, NEW x \in Nat, x < 2 * m
  PROVE  x % m = IF x < m THEN x ELSE x - m
OBVIOUS

(* calculateElapsedTime is the distance between two instants.              *)
LEMMA Distance ==
  ASSUME NEW l \in Instants, NEW s \in Instants
  PROVE  /\ ElapsedTime(l, s) = IF l >= s THEN l - s ELSE l + Modulus - s
         /\ ElapsedTime(l, s) \in Instants
<1>1. /\ Modulus \in Nat /\ Modulus > 0 /\ l \in Nat /\ s \in Nat /\ l < Modulus /\ s < Modulus
      /\ l + Modulus - s \in Nat /\ l + Modulus - s < 2 * Modulus
  BY Constants DEF Instants
<1>2. (l + Modulus - s) % Modulus = IF l + Modulus - s < Modulus THEN l + Modulus - s ELSE (l + Modulus - s) - Modulus
  BY <1>1, WrapsOnce
<1> QED BY <1>1, <1>2 DEF ElapsedTime, Instants

(* A tick adds one to it, or the clock has gone once round.                *)
LEMMA DistanceTicks ==
  ASSUME NEW l \in Instants, NEW s \in Instants
  PROVE  /\ (l + 1) % Modulus \in Instants
         /\ ElapsedTime((l + 1) % Modulus, s) = IF ElapsedTime(l, s) = Modulus - 1 THEN 0 ELSE ElapsedTime(l, s) + 1
<1>1. /\ Modulus \in Nat /\ Modulus > 1 /\ l \in Nat /\ s \in Nat /\ l < Modulus /\ s < Modulus
      /\ l + 1 \in Nat /\ l + 1 < 2 * Modulus
  BY Constants DEF Instants
<1>2. (l + 1) % Modulus = IF l + 1 < Modulus THEN l + 1 ELSE l + 1 - Modulus
  BY <1>1, WrapsOnce
<1> PICK n : n = (l + 1) % Modulus
  OBVIOUS
<1>3. n \in Instants
  BY <1>1, <1>2 DEF Instants
<1>4. ElapsedTime(n, s) = IF n >= s THEN n - s ELSE n + Modulus - s
  BY <1>3, Distance
<1>5. ElapsedTime(l, s) = IF l >= s THEN l - s ELSE l + Modulus - s
  BY Distance
<1>6. ElapsedTime(n, s) = IF ElapsedTime(l, s) = Modulus - 1 THEN 0 ELSE ElapsedTime(l, s) + 1
  BY <1>1, <1>2, <1>4, <1>5
<1> QED BY <1>3, <1>6

LEMMA DistanceZero ==
  ASSUME NEW s \in Instants
  PROVE  ElapsedTime(s, s) = 0
BY Distance, Constants DEF Instants

-----------------------------------------------------------------------------
(* What is in the buffer or on the wire                                    *)

Answered(packets) == \E n \in DOMAIN packets : packets[n] = "PINGRESP"
OneAnswer(packets) ==
  \A j, k \in DOMAIN packets : packets[j] = "PINGRESP" /\ packets[k] = "PINGRESP" => j = k

LEMMA EmptyQueue == ~Answered(<< >>) /\ ~Incoming(<< >>) /\ OneAnswer(<< >>)
BY DEF Answered, Incoming, OneAnswer

LEMMA SomePacket ==
  ASSUME NEW q \in Seq(Packets), q # << >>
  PROVE  Answered(q) \/ Incoming(q)
<1>1. 1 \in DOMAIN q /\ q[1] \in Packets
  OBVIOUS
<1> QED BY <1>1 DEF Answered, Incoming, Packets

LEMMA AppendQueue ==
  ASSUME NEW q \in Seq(Packets), NEW x \in Packets
  PROVE  /\ Append(q, x) \in Seq(Packets) /\ Len(Append(q, x)) = Len(q) + 1
         /\ Answered(Append(q, x)) <=> Answered(q) \/ x = "PINGRESP"
         /\ Incoming(q) => Incoming(Append(q, x))
         /\ x = "PINGRESP" /\ ~Incoming(q) => ~Incoming(Append(q, x))
         /\ OneAnswer(q) /\ (x = "other" \/ ~Answered(q)) => OneAnswer(Append(q, x))
<1> DEFINE t == Append(q, x)
<1>1. /\ t \in Seq(Packets) /\ DOMAIN t = 1 .. Len(q) + 1 /\ DOMAIN q = 1 .. Len(q) /\ Len(q) \in Nat
      /\ Len(t) = Len(q) + 1
      /\ t[Len(q) + 1] = x /\ \A k \in 1 .. Len(q) : t[k] = q[k]
  OBVIOUS
<1> HIDE DEF t
<1>2. /\ "PINGRESP" # "other"
      /\ \A k \in 1 .. Len(q) + 1 : k \in 1 .. Len(q) \/ k = Len(q) + 1
      /\ \A k \in 1 .. Len(q) : k \in 1 .. Len(q) + 1
      /\ Len(q) + 1 \in 1 .. Len(q) + 1
  BY <1>1
<1>3. Answered(t) <=> Answered(q) \/ x = "PINGRESP"
  BY <1>1, <1>2, Zenon DEF Answered
<1>4. (Incoming(q) => Incoming(t)) /\ (x = "PINGRESP" /\ ~Incoming(q) => ~Incoming(t))
  BY <1>1, <1>2, Zenon DEF Incoming
<1>5. OneAnswer(q) /\ (x = "other" \/ ~Answered(q)) => OneAnswer(t)
  BY <1>1, <1>2 DEF OneAnswer, Answered
<1> QED BY <1>1, <1>3, <1>4, <1>5 DEF t

LEMMA TailQueue ==
  ASSUME NEW q \in Seq(Packets), q # << >>, OneAnswer(q)
  PROVE  /\ Tail(q) \in Seq(Packets) /\ Len(Tail(q)) = Len(q) - 1 /\ Head(q) \in Packets
         /\ OneAnswer(Tail(q))
         /\ Answered(Tail(q)) <=> Answered(q) /\ Head(q) # "PINGRESP"
         /\ Incoming(Tail(q)) => Incoming(q)
         /\ Head(q) = "PINGRESP" => Answered(q)
         /\ Head(q) = "other" => Incoming(q)
<1> DEFINE t == Tail(q)
<1>1. /\ t \in Seq(Packets) /\ DOMAIN t = 1 .. Len(q) - 1 /\ DOMAIN q = 1 .. Len(q)
      /\ Len(q) \in Nat \ {0} /\ Len(t) = Len(q) - 1
      /\ \A k \in 1 .. Len(q) - 1 : t[k] = q[k + 1]
      /\ Head(q) = q[1] /\ Head(q) \in Packets
  OBVIOUS
<1> HIDE DEF t
<1>2. /\ 1 \in DOMAIN q
      /\ \A k \in DOMAIN t : k + 1 \in DOMAIN q /\ k + 1 # 1 /\ t[k] = q[k + 1]
      /\ \A k \in DOMAIN q : k # 1 => k - 1 \in DOMAIN t /\ t[k - 1] = q[k]
  BY <1>1
<1>3. OneAnswer(t)
  <2> SUFFICES ASSUME NEW j \in DOMAIN t, NEW k \in DOMAIN t, t[j] = "PINGRESP", t[k] = "PINGRESP"
               PROVE  j = k
    BY DEF OneAnswer
  <2>1. j + 1 = k + 1
    BY <1>2 DEF OneAnswer
  <2> QED BY <1>1, <2>1
<1>4. Answered(t) => Answered(q) /\ q[1] # "PINGRESP"
  <2> SUFFICES ASSUME NEW k \in DOMAIN t, t[k] = "PINGRESP" PROVE Answered(q) /\ q[1] # "PINGRESP"
    BY DEF Answered
  <2>1. k + 1 \in DOMAIN q /\ k + 1 # 1 /\ q[k + 1] = "PINGRESP" /\ 1 \in DOMAIN q
    BY <1>2
  <2> QED BY <2>1 DEF Answered, OneAnswer
<1>5. Answered(q) /\ q[1] # "PINGRESP" => Answered(t)
  BY <1>2 DEF Answered
<1>6. Incoming(t) => Incoming(q)
  BY <1>2 DEF Incoming
<1>7. (q[1] = "PINGRESP" => Answered(q)) /\ (q[1] = "other" => Incoming(q))
  BY <1>2 DEF Answered, Incoming
<1> QED BY <1>1, <1>3, <1>4, <1>5, <1>6, <1>7 DEF t

(* The packet handled is the first of what is in the buffer and on the     *)
(* wire, the packet sent the last.                                         *)
LEMMA QueueIs ==
  ASSUME NEW b \in Seq(Packets), NEW w \in Seq(Packets)
  PROVE  /\ b \o w \in Seq(Packets) /\ Len(b \o w) = Len(b) + Len(w)
         /\ \A x \in Packets : b \o Append(w, x) = Append(b \o w, x)
         /\ b # << >> => b \o w # << >> /\ Tail(b) \o w = Tail(b \o w) /\ Head(b \o w) = Head(b)
         /\ w = << >> => b \o w = b
OBVIOUS

(* Reading from the wire leaves both together as they are.                 *)
LEMMA ReadingKeepsQueue ==
  ASSUME NEW b \in Seq(Packets), NEW w \in Seq(Packets), NEW n \in 1 .. Len(w)
  PROVE  /\ SubSeq(w, 1, n) \in Seq(Packets) /\ SubSeq(w, n + 1, Len(w)) \in Seq(Packets)
         /\ b \o SubSeq(w, 1, n) # << >>
         /\ (b \o SubSeq(w, 1, n)) \o SubSeq(w, n + 1, Len(w)) = b \o w
<1>1. PICK u : u = SubSeq(w, 1, n)
  OBVIOUS
<1>2. PICK v : v = SubSeq(w, n + 1, Len(w))
  OBVIOUS
<1>3. n \in Nat /\ n >= 1 /\ n <= Len(w) /\ Len(w) \in Nat
  OBVIOUS
<1>4. u \in Seq(Packets) /\ Len(u) = n /\ \A k \in 1 .. n : u[k] = w[k]
  BY <1>1, <1>3
<1>5. v \in Seq(Packets) /\ Len(v) = Len(w) - n /\ \A k \in 1 .. Len(w) - n : v[k] = w[n + k]
  BY <1>2, <1>3
<1>6. b \o u \in Seq(Packets) /\ Len(b \o u) = Len(b) + n
      /\ (\A k \in 1 .. Len(b) : (b \o u)[k] = b[k])
      /\ \A k \in Len(b) + 1 .. Len(b) + n : (b \o u)[k] = w[k - Len(b)]
  BY <1>3, <1>4
<1>7. PICK c : c = b \o u
  OBVIOUS
<1>8. c \o v = b \o w
  <2>1. PICK d : d = c \o v
    OBVIOUS
  <2>2. PICK e : e = b \o w
    OBVIOUS
  <2>3. c \in Seq(Packets) /\ Len(c) = Len(b) + n /\ Len(b) \in Nat
    BY <1>6, <1>7
  <2>4. /\ d \in Seq(Packets) /\ Len(d) = Len(b) + Len(w)
        /\ \A k \in 1 .. Len(b) + n : d[k] = c[k]
        /\ \A k \in Len(b) + n + 1 .. Len(b) + Len(w) : d[k] = v[k - (Len(b) + n)]
    <3>1. /\ d \in Seq(Packets) /\ Len(d) = Len(c) + Len(v)
          /\ \A k \in 1 .. Len(c) + Len(v) : d[k] = IF k <= Len(c) THEN c[k] ELSE v[k - Len(c)]
      BY <1>5, <2>1, <2>3, ConcatProperties
    <3>2. Len(c) + Len(v) = Len(b) + Len(w)
      BY <1>3, <1>5, <2>3
    <3> QED BY <1>3, <2>3, <3>1, <3>2
  <2>5. /\ e \in Seq(Packets) /\ Len(e) = Len(b) + Len(w)
        /\ \A k \in 1 .. Len(b) : e[k] = b[k]
        /\ \A k \in Len(b) + 1 .. Len(b) + Len(w) : e[k] = w[k - Len(b)]
    BY <1>3, <2>2
  <2>6. \A k \in 1 .. Len(b) + Len(w) : d[k] = e[k]
    <3> SUFFICES ASSUME NEW k \in 1 .. Len(b) + Len(w) PROVE d[k] = e[k]
      OBVIOUS
    <3>1. CASE k \in 1 .. Len(b)
      BY <1>3, <1>6, <1>7, <2>3, <2>4, <2>5, <3>1
    <3>2. CASE k \in Len(b) + 1 .. Len(b) + n
      BY <1>3, <1>6, <1>7, <2>3, <2>4, <2>5, <3>2
    <3>3. CASE k \in Len(b) + n + 1 .. Len(b) + Len(w)
      <4>1. PICK l : l = k - (Len(b) + n)
        OBVIOUS
      <4>2. l \in 1 .. Len(w) - n /\ n + l = k - Len(b)
        BY <1>3, <2>3, <3>3, <4>1
      <4>3. d[k] = v[l]
        BY <2>4, <3>3, <4>1
      <4>4. e[k] = w[n + l]
        BY <1>3, <2>3, <2>5, <3>3, <4>2
      <4> QED BY <1>5, <4>2, <4>3, <4>4
    <3> QED BY <1>3, <2>3, <3>1, <3>2, <3>3
  <2>7. d = e
    BY <2>4, <2>5, <2>6
  <2> QED BY <2>1, <2>2, <2>7
<1>9. b \o u # << >>
  BY <1>3, <1>6
<1> QED BY <1>1, <1>2, <1>4, <1>5, <1>7, <1>8, <1>9

-----------------------------------------------------------------------------
(* The invariant                                                           *)

Queue == buffer \o wire

(* Ticks since the times that handleKeepAlive compares with.               *)
SinceRx == ElapsedTime(now, lastRx)
SincePing == ElapsedTime(now, pingAt)
SinceTx == ElapsedTime(now, lastTx)

TypesOK ==
  /\ now \in Instants /\ lastTx \in Instants /\ lastRx \in Instants /\ pingAt \in Instants
  /\ waiting \in BOOLEAN
  /\ buffer \in Seq(Packets) /\ wire \in Seq(Packets)
  /\ loop \in Running \cup Ended
  /\ loop = "handling" => buffer # << >>
  /\ peer \in {"alive", "dead"}
  /\ asked \in 0 .. NotAsked
  /\ pause \in 0 .. MaxPause
  /\ txIdle \in 0 .. Long /\ quiet \in 0 .. Long
  /\ heard \in BOOLEAN

(* One PINGRESP is on its way at most, and only while it is waited for; a  *)
(* live peer owes it or has sent it.                                       *)
QueueFits ==
  /\ OneAnswer(Queue)
  /\ Answered(Queue) => waiting /\ asked = NotAsked
  /\ asked # NotAsked => waiting /\ peer = "alive" /\ SincePing = asked /\ pause <= asked
  /\ waiting /\ peer = "alive" => Answered(Queue) \/ asked # NotAsked
  /\ Len(Queue) <= MaxPackets + IF Answered(Queue) THEN 1 ELSE 0
  /\ ~heard => ~Incoming(Queue)

(* How long nothing has been handled, by what the last look at the         *)
(* keep-alive has found, which was pause ticks ago if the loop is ready.   *)
BeforePing == RxTimeout - 1 + 2 * MaxPause

SilenceFits ==
  /\ loop = "ready" /\ ~waiting =>
       \/ quiet = pause
       \/ pause <= SinceRx /\ SinceRx - pause < RxTimeout /\ quiet <= SinceRx + MaxPause
  /\ loop = "ready" /\ waiting =>
       \/ quiet = pause
       \/ pause <= SincePing /\ SincePing - pause <= PingTimeout /\ quiet <= SincePing + BeforePing
  /\ loop = "handling" => quiet <= pause + BeforePing + PingTimeout + MaxPause

(* The same for how long nothing has been sent.                            *)
TxFits ==
  TxTimeout # 0 /\ loop \in Running /\ ~heard =>
    /\ txIdle = SinceTx
    /\ loop = "ready" /\ ~waiting =>
         txIdle < pause + TxTimeout \/ txIdle <= pause + PingTimeout + 2 * MaxPause
    /\ loop = "ready" /\ waiting /\ Answered(Queue) => txIdle <= pause + PingTimeout
    /\ loop = "ready" /\ waiting /\ asked # NotAsked => txIdle <= asked
    /\ loop = "ready" /\ waiting /\ peer = "dead" /\ ~Answered(Queue) =>
         \/ txIdle <= pause
         \/ pause <= SincePing /\ SincePing - pause <= PingTimeout /\ txIdle <= SincePing + MaxPause
    /\ loop = "handling" => txIdle <= pause + PingTimeout + MaxPause

IInv == TypesOK /\ QueueFits /\ SilenceFits /\ TxFits /\ LivePeerKept

-----------------------------------------------------------------------------
(* The parts of a step                                                     *)

LEMMA Members ==
  ASSUME TypesOK
  PROVE  /\ Queue \in Seq(Packets) /\ Len(Queue) \in Nat
         /\ SinceRx \in Instants /\ SincePing \in Instants /\ SinceTx \in Instants
         /\ SinceRx \in Nat /\ SincePing \in Nat /\ SinceTx \in Nat
         /\ SinceRx < Modulus /\ SincePing < Modulus /\ SinceTx < Modulus
         /\ asked \in Nat /\ pause \in Nat /\ pause <= MaxPause /\ asked <= MaxAnswer + 1
         /\ txIdle \in Nat /\ quiet \in Nat /\ txIdle <= Long /\ quiet <= Long
<1>1. Queue \in Seq(Packets) /\ Len(Queue) \in Nat
  BY QueueIs DEF TypesOK, Queue
<1>2. SinceRx \in Instants /\ SincePing \in Instants /\ SinceTx \in Instants
  BY Distance DEF TypesOK, SinceRx, SincePing, SinceTx
<1>3. /\ SinceRx \in Nat /\ SincePing \in Nat /\ SinceTx \in Nat
      /\ SinceRx < Modulus /\ SincePing < Modulus /\ SinceTx < Modulus
  BY <1>2, Constants DEF Instants
<1>4. /\ asked \in Nat /\ pause \in Nat /\ pause <= MaxPause /\ asked <= MaxAnswer + 1
      /\ txIdle \in Nat /\ quiet \in Nat /\ txIdle <= Long /\ quiet <= Long
  BY Constants DEF TypesOK, NotAsked, Long
<1> QED BY <1>1, <1>2, <1>3, <1>4

LEMMA InitIInv == Init => IInv
<1> SUFFICES ASSUME Init PROVE IInv
  OBVIOUS
<1>1. now \in Instants /\ 0 \in Instants /\ now \in Nat
  BY Constants DEF Init, Instants
<1>2. ElapsedTime(now, now) = 0 /\ 0 <= ElapsedTime(now, 0)
  BY <1>1, DistanceZero, Distance, Constants DEF Instants
<1>3. Queue = << >>
  BY DEF Init, Queue
<1>4. TypesOK
  <2>1. 0 \in 0 .. MaxPause /\ 0 \in 0 .. Long /\ NotAsked \in 0 .. NotAsked
    BY Constants DEF NotAsked, Long
  <2>2. << >> \in Seq(Packets)
    OBVIOUS
  <2> QED BY <1>1, <2>1, <2>2, Zenon DEF Init, TypesOK, Running
<1>5. QueueFits
  BY <1>3, EmptyQueue, Constants DEF Init, QueueFits
<1>6. SilenceFits
  BY DEF Init, SilenceFits
<1>7. TxFits
  BY <1>2, Constants DEF Init, TxFits, SinceTx
<1>8. LivePeerKept
  BY DEF Init, LivePeerKept
<1> QED BY <1>4, <1>5, <1>6, <1>7, <1>8 DEF IInv

LEMMA TickKeepsIInv ==
  ASSUME IInv, Tick
  PROVE  IInv'
<1>1. TypesOK /\ QueueFits /\ SilenceFits /\ TxFits /\ LivePeerKept
  BY DEF IInv
<1>2. /\ loop \in Running /\ pause < MaxPause /\ asked # MaxAnswer
      /\ now' = (now + 1) % Modulus /\ pause' = pause + 1
      /\ asked' = IF asked = NotAsked THEN asked ELSE asked + 1
      /\ txIdle' = Longer(txIdle) /\ quiet' = Longer(quiet)
      /\ UNCHANGED <<lastTx, lastRx, pingAt, waiting, buffer, loop, peer, wire, heard>>
  BY DEF Tick, clientVars
<1>3. Queue' = Queue
  BY <1>2 DEF Queue
<1>4. now' \in Instants /\ SinceRx' = (IF SinceRx = Modulus - 1 THEN 0 ELSE SinceRx + 1)
      /\ SincePing' = (IF SincePing = Modulus - 1 THEN 0 ELSE SincePing + 1)
      /\ SinceTx' = (IF SinceTx = Modulus - 1 THEN 0 ELSE SinceTx + 1)
  BY <1>1, <1>2, DistanceTicks DEF TypesOK, SinceRx, SincePing, SinceTx
<1>5. NotAsked = MaxAnswer + 1 /\ Long = TxTimeout + RxTimeout + PingTimeout + 4 * MaxPause
      /\ BeforePing = RxTimeout - 1 + 2 * MaxPause
  BY DEF NotAsked, Long, BeforePing
<1> USE Constants
<1>num. /\ asked \in Nat /\ pause \in Nat /\ pause <= MaxPause /\ asked <= MaxAnswer + 1
      /\ txIdle \in Nat /\ quiet \in Nat /\ txIdle <= Long /\ quiet <= Long
      /\ SinceRx \in Nat /\ SincePing \in Nat /\ SinceTx \in Nat
  BY <1>1, Members
<1>6. /\ asked' \in Nat /\ asked' <= NotAsked /\ (asked' = NotAsked <=> asked = NotAsked)
      /\ pause' \in Nat /\ pause' <= MaxPause
      /\ txIdle' \in Nat /\ quiet' \in Nat /\ txIdle' <= Long /\ quiet' <= Long
      /\ (txIdle < Long => txIdle' = txIdle + 1) /\ (quiet < Long => quiet' = quiet + 1)
  BY <1>1, <1>2, <1>5, <1>num DEF Longer
<1>7. TypesOK'
  <2>1. asked' \in 0 .. NotAsked /\ pause' \in 0 .. MaxPause /\ txIdle' \in 0 .. Long /\ quiet' \in 0 .. Long
    BY <1>5, <1>6, Constants
  <2> QED BY <1>1, <1>2, <1>4, <2>1, Zenon DEF TypesOK
<1>8. QueueFits'
  <2>1. asked # NotAsked => asked' # NotAsked /\ SincePing' = asked' /\ pause' <= asked'
    BY <1>1, <1>2, <1>4, <1>5, <1>num DEF QueueFits
  <2> QED BY <1>1, <1>2, <1>3, <1>6, <2>1 DEF QueueFits
<1>9. SilenceFits'
  <2>1. loop = "ready" /\ ~waiting =>
       \/ quiet' = pause'
       \/ pause' <= SinceRx' /\ SinceRx' - pause' < RxTimeout /\ quiet' <= SinceRx' + MaxPause
    BY <1>1, <1>2, <1>4, <1>5, <1>6, <1>num DEF SilenceFits
  <2>2. loop = "ready" /\ waiting =>
       \/ quiet' = pause'
       \/ pause' <= SincePing' /\ SincePing' - pause' <= PingTimeout /\ quiet' <= SincePing' + BeforePing
    BY <1>1, <1>2, <1>4, <1>5, <1>6, <1>num DEF SilenceFits
  <2>3. loop = "handling" => quiet' <= pause' + BeforePing + PingTimeout + MaxPause
    BY <1>1, <1>2, <1>4, <1>5, <1>6, <1>num DEF SilenceFits
  <2> QED BY <1>2, <2>1, <2>2, <2>3 DEF SilenceFits, BeforePing
<1>10. TxFits'
  <2> SUFFICES ASSUME TxTimeout # 0, ~heard PROVE TxFits'
    BY <1>2 DEF TxFits
  <2>1. txIdle' = SinceTx' /\ txIdle' = txIdle + 1
    BY <1>1, <1>2, <1>4, <1>5, <1>6, <1>num DEF TxFits, QueueFits, TypesOK, Running
  <2>2. loop = "ready" /\ ~waiting =>
          txIdle' < pause' + TxTimeout \/ txIdle' <= pause' + PingTimeout + 2 * MaxPause
    BY <1>1, <1>2, <2>1, <1>num DEF TxFits
  <2>3. loop = "ready" /\ waiting /\ Answered(Queue) => txIdle' <= pause' + PingTimeout
    BY <1>1, <1>2, <2>1, <1>num DEF TxFits
  <2>4. loop = "ready" /\ waiting /\ asked # NotAsked => txIdle' <= asked'
    BY <1>1, <1>2, <2>1, <1>num DEF TxFits
  <2>5. loop = "ready" /\ waiting /\ peer = "dead" /\ ~Answered(Queue) =>
         \/ txIdle' <= pause'
         \/ pause' <= SincePing' /\ SincePing' - pause' <= PingTimeout /\ txIdle' <= SincePing' + MaxPause
    BY <1>1, <1>2, <1>4, <2>1, <1>num DEF TxFits
  <2>6. loop = "handling" => txIdle' <= pause' + PingTimeout + MaxPause
    BY <1>1, <1>2, <2>1, <1>num DEF TxFits
  <2> QED BY <1>2, <1>3, <1>6, <2>1, <2>2, <2>3, <2>4, <2>5, <2>6 DEF TxFits
<1>11. LivePeerKept'
  BY <1>2 DEF LivePeerKept, Running
<1> QED BY <1>7, <1>8, <1>9, <1>10, <1>11 DEF IInv

(* Where no time passes and the loop stays ready or where it is, only what *)
(* is sent and received can disturb the invariant.                         *)
LEMMA PeerKeepsIInv ==
  ASSUME IInv, PeerAnswers \/ PeerSends \/ PeerDies
  PROVE  IInv'
<1> USE Constants
<1>1. TypesOK /\ QueueFits /\ SilenceFits /\ TxFits /\ LivePeerKept
  BY DEF IInv
<1>2. UNCHANGED <<now, lastTx, lastRx, pingAt, waiting, buffer, loop, pause, txIdle, quiet>>
  BY DEF PeerAnswers, PeerSends, PeerDies, clientVars
<1>3. SinceRx' = SinceRx /\ SincePing' = SincePing /\ SinceTx' = SinceTx
  BY <1>2 DEF SinceRx, SincePing, SinceTx
<1>4. SilenceFits'
  BY <1>1, <1>2, <1>3 DEF SilenceFits
<1>num. /\ asked \in Nat /\ pause \in Nat /\ pause <= MaxPause /\ asked <= MaxAnswer + 1
      /\ txIdle \in Nat /\ SincePing \in Nat /\ Len(Queue) \in Nat /\ Queue \in Seq(Packets)
      /\ NotAsked = MaxAnswer + 1 /\ NotAsked \in 0 .. NotAsked
      /\ "PINGRESP" \in Packets /\ "other" \in Packets /\ "PINGRESP" # "other"
  BY <1>1, Members DEF NotAsked, Packets
<1>5. CASE PeerAnswers
  <2>1. /\ asked # NotAsked /\ asked' = NotAsked /\ wire' = Append(wire, "PINGRESP")
        /\ UNCHANGED <<peer, heard>>
    BY <1>5 DEF PeerAnswers
  <2>2. Queue' = Append(Queue, "PINGRESP") /\ wire' \in Seq(Packets)
    BY <1>1, <1>2, <1>num, <2>1, QueueIs DEF TypesOK, Queue
  <2>3. ~Answered(Queue)
    BY <1>1, <2>1 DEF QueueFits
  <2>4. /\ Answered(Queue') /\ OneAnswer(Queue') /\ Len(Queue') = Len(Queue) + 1
        /\ ~Incoming(Queue) => ~Incoming(Queue')
    BY <1>1, <1>num, <2>2, <2>3, AppendQueue DEF QueueFits
  <2>5. TypesOK'
    BY <1>1, <1>2, <1>num, <2>1, <2>2, Zenon DEF TypesOK
  <2>6. QueueFits'
    BY <1>1, <1>2, <1>num, <2>1, <2>3, <2>4 DEF QueueFits
  <2>7. TxFits'
    BY <1>1, <1>2, <1>3, <1>num, <2>1, <2>3, <2>4 DEF TxFits, QueueFits
  <2>8. LivePeerKept'
    BY <1>1, <1>2, <2>1 DEF LivePeerKept
  <2> QED BY <1>4, <2>5, <2>6, <2>7, <2>8 DEF IInv
<1>6. CASE PeerSends
  <2>1. /\ peer = "alive" /\ Len(wire) + Len(buffer) < MaxPackets
        /\ wire' = Append(wire, "other") /\ heard' = TRUE /\ loop \in Running
        /\ UNCHANGED <<peer, asked>>
    BY <1>6 DEF PeerSends
  <2>2. /\ Queue' = Append(Queue, "other") /\ wire' \in Seq(Packets)
        /\ Len(Queue) = Len(buffer) + Len(wire) /\ Len(buffer) \in Nat /\ Len(wire) \in Nat
    BY <1>1, <1>2, <1>num, <2>1, QueueIs DEF TypesOK, Queue
  <2>3. /\ Answered(Queue') <=> Answered(Queue)
        /\ OneAnswer(Queue') /\ Len(Queue') = Len(Queue) + 1
    BY <1>1, <1>num, <2>2, AppendQueue DEF QueueFits
  <2>4. TypesOK'
    BY <1>1, <1>2, <2>1, <2>2, Zenon DEF TypesOK
  <2>5. QueueFits'
    BY <1>1, <1>2, <1>3, <1>num, <2>1, <2>2, <2>3 DEF QueueFits
  <2>6. TxFits'
    BY <2>1 DEF TxFits
  <2>7. LivePeerKept'
    BY <1>2, <2>1 DEF LivePeerKept, Running
  <2> QED BY <1>4, <2>4, <2>5, <2>6, <2>7 DEF IInv
<1>7. CASE PeerDies
  <2>1. /\ peer = "alive" /\ peer' = "dead" /\ asked' = NotAsked /\ loop \in Running
        /\ UNCHANGED <<wire, heard>>
    BY <1>7 DEF PeerDies
  <2>2. Queue' = Queue
    BY <1>2, <2>1 DEF Queue
  <2>3. TypesOK'
    BY <1>1, <1>2, <1>num, <2>1, Zenon DEF TypesOK
  <2>4. QueueFits'
    BY <1>1, <1>2, <1>3, <1>num, <2>1, <2>2 DEF QueueFits
  <2>5. TxFits'
    <3>1. waiting /\ ~Answered(Queue) => asked # NotAsked /\ SincePing = asked /\ pause <= asked
      BY <1>1, <2>1 DEF QueueFits
    <3>2. TxTimeout # 0 /\ ~heard /\ loop = "ready" /\ waiting /\ ~Answered(Queue) =>
            pause <= SincePing /\ SincePing - pause <= PingTimeout /\ txIdle <= SincePing + MaxPause
      BY <1>1, <1>num, <2>1, <3>1 DEF TxFits
    <3> QED BY <1>1, <1>2, <1>3, <2>1, <2>2, <3>2 DEF TxFits
  <2>6. LivePeerKept'
    BY <1>2, <2>1 DEF LivePeerKept, Running
  <2> QED BY <1>4, <2>3, <2>4, <2>5, <2>6 DEF IInv
<1> QED BY <1>5, <1>6, <1>7

LEMMA SendKeepsIInv ==
  ASSUME IInv, SendPacket
  PROVE  IInv'
<1> USE Constants
<1>1. TypesOK /\ QueueFits /\ SilenceFits /\ TxFits /\ LivePeerKept
  BY DEF IInv
<1>2. /\ loop = "ready" /\ lastTx' = now /\ txIdle' = 0 /\ heard' = Incoming(Queue)
      /\ UNCHANGED <<now, lastRx, pingAt, waiting, buffer, loop, peer, wire, asked, pause, quiet>>
  BY DEF SendPacket, peerVars, Queue
<1>3. SinceRx' = SinceRx /\ SincePing' = SincePing /\ SinceTx' = 0 /\ Queue' = Queue
  BY <1>1, <1>2, DistanceZero DEF TypesOK, SinceRx, SincePing, SinceTx, Queue
<1>num. asked \in Nat /\ pause \in Nat /\ SincePing \in Nat /\ 0 \in 0 .. Long
  BY <1>1, Members DEF Long
<1>4. TypesOK'
  <2>1. heard' \in BOOLEAN
    BY <1>2, Zenon DEF Incoming
  <2> QED BY <1>1, <1>2, <1>num, <2>1, Zenon DEF TypesOK
<1>5. QueueFits'
  BY <1>1, <1>2, <1>3 DEF QueueFits
<1>6. SilenceFits'
  BY <1>1, <1>2, <1>3 DEF SilenceFits
<1>7. TxFits'
  BY <1>2, <1>3, <1>num DEF TxFits
<1>8. LivePeerKept'
  BY <1>2 DEF LivePeerKept
<1> QED BY <1>4, <1>5, <1>6, <1>7, <1>8 DEF IInv

LEMMA ReconnectKeepsIInv ==
  ASSUME IInv, Reconnect
  PROVE  IInv'
<1> USE Constants
<1>1. TypesOK
  BY DEF IInv
<1>2. /\ now' \in Instants /\ lastTx' = now' /\ pingAt' = 0 /\ waiting' = FALSE
      /\ buffer' = << >> /\ loop' = "ready" /\ peer' = "alive" /\ wire' = << >>
      /\ asked' = NotAsked /\ pause' = 0 /\ txIdle' = 0 /\ heard' = FALSE /\ quiet' = 0
      /\ UNCHANGED lastRx
  BY DEF Reconnect, Instants
<1>3. Queue' = << >> /\ SinceTx' = 0 /\ 0 \in Instants
  BY <1>2, DistanceZero DEF Queue, SinceTx, Instants
<1>4. TypesOK'
  <2>1. 0 \in 0 .. MaxPause /\ 0 \in 0 .. Long /\ NotAsked \in 0 .. NotAsked
    BY DEF NotAsked, Long
  <2>2. << >> \in Seq(Packets)
    OBVIOUS
  <2> QED BY <1>1, <1>2, <1>3, <2>1, <2>2, Zenon DEF TypesOK, Running
<1>5. QueueFits'
  BY <1>2, <1>3, EmptyQueue DEF QueueFits
<1>6. SilenceFits'
  BY <1>2 DEF SilenceFits
<1>7. TxFits'
  BY <1>2, <1>3 DEF TxFits
<1>8. LivePeerKept'
  BY <1>2 DEF LivePeerKept
<1> QED BY <1>4, <1>5, <1>6, <1>7, <1>8 DEF IInv

(* The keep-alive is judged: what was silent since the last look is judged *)
(* silent for less than its timeout, or a PINGREQ is sent, or the PINGRESP *)
(* is not yet due, or the connection is given up.                          *)
LEMMA ReceiveNothingKeepsIInv ==
  ASSUME IInv, ReceiveNothing
  PROVE  IInv'
<1> USE Constants
<1>1. TypesOK /\ QueueFits /\ SilenceFits /\ TxFits /\ LivePeerKept
  BY DEF IInv
<1>2. /\ loop = "ready" /\ wire = << >> /\ HandleKeepAlive(AfterKeepAlive) /\ pause' = 0
      /\ UNCHANGED <<now, lastRx, buffer, peer, wire, quiet>>
  BY DEF ReceiveNothing
<1>3. Queue' = Queue /\ Queue = buffer /\ SinceRx' = SinceRx
  BY <1>1, <1>2, QueueIs DEF TypesOK, Queue, SinceRx
<1>4. /\ AfterKeepAlive \in Running
      /\ AfterKeepAlive = "handling" <=> buffer # << >>
      /\ AfterKeepAlive = "ready" <=> buffer = << >>
  BY DEF AfterKeepAlive, Running
<1>5. buffer # << >> => Answered(Queue) \/ Incoming(Queue)
  BY <1>1, <1>3, SomePacket DEF TypesOK
<1>6. buffer = << >> => ~Answered(Queue)
  BY <1>3, EmptyQueue
<1>num. /\ asked \in Nat /\ pause \in Nat /\ pause <= MaxPause /\ asked <= MaxAnswer + 1
        /\ txIdle \in Nat /\ quiet \in Nat
        /\ SinceRx \in Nat /\ SincePing \in Nat /\ SinceTx \in Nat
        /\ NotAsked = MaxAnswer + 1 /\ BeforePing = RxTimeout - 1 + 2 * MaxPause
  BY <1>1, Members DEF NotAsked, BeforePing
<1>7. 0 \in 0 .. MaxPause /\ 0 \in 0 .. Long /\ 0 \in 0 .. NotAsked
  BY DEF Long, NotAsked
<1>8. loop' \in Ended => SilenceFits' /\ TxFits'
  BY DEF SilenceFits, TxFits, Ended, Running
<1>9. CASE waiting /\ UNCHANGED <<lastTx, pingAt, waiting, txIdle, heard, asked>>
           /\ loop' = IF SincePing > PingTimeout THEN "timedOut" ELSE AfterKeepAlive
  <2>1. SincePing' = SincePing /\ SinceTx' = SinceTx
    BY <1>2, <1>9 DEF SincePing, SinceTx
  <2>2. TypesOK'
    <3>1. loop' \in Running \cup Ended /\ (loop' = "handling" => buffer # << >>)
      BY <1>4, <1>9 DEF Ended
    <3> QED BY <1>1, <1>2, <1>7, <1>9, <3>1, Zenon DEF TypesOK
  <2>3. QueueFits'
    BY <1>1, <1>2, <1>3, <1>9, <1>num, <2>1 DEF QueueFits
  <2>4. SilenceFits'
    BY <1>1, <1>2, <1>4, <1>8, <1>9, <1>num, <2>1 DEF SilenceFits, Ended
  <2>5. TxFits'
    <3> SUFFICES ASSUME SincePing <= PingTimeout, TxTimeout # 0, ~heard PROVE TxFits'
      BY <1>8, <1>9, <1>num DEF Ended, TxFits
    <3>1. loop' = AfterKeepAlive /\ ~Incoming(Queue)
      BY <1>1, <1>9, <1>num DEF QueueFits
    <3>2. txIdle = SinceTx
      BY <1>1, <1>2 DEF TxFits, Running
    <3>3. CASE buffer = << >>
      BY <1>1, <1>2, <1>3, <1>4, <1>6, <1>9, <1>num, <2>1, <3>1, <3>2, <3>3 DEF TxFits, Running
    <3>4. CASE buffer # << >>
      BY <1>1, <1>2, <1>3, <1>4, <1>5, <1>9, <1>num, <2>1, <3>1, <3>2, <3>4 DEF TxFits, Running
    <3> QED BY <3>3, <3>4
  <2>6. LivePeerKept'
    <3> SUFFICES ASSUME SincePing > PingTimeout, peer = "alive" PROVE Answered(buffer)
      <4>1. AfterKeepAlive # "timedOut"
        BY <1>4 DEF Running
      <4> QED BY <1>1, <1>2, <1>9, <4>1 DEF LivePeerKept, Answered, TypesOK
    <3>1. asked = NotAsked
      BY <1>1, <1>num DEF QueueFits
    <3> QED BY <1>1, <1>3, <1>9, <3>1 DEF QueueFits
  <2> QED BY <2>2, <2>3, <2>4, <2>5, <2>6 DEF IInv
<1>10. CASE ~waiting /\ Ping(AfterKeepAlive)
  <2>1. ~Answered(Queue) /\ asked = NotAsked
    BY <1>1, <1>10 DEF QueueFits
  <2>2. CASE /\ lastTx' = now /\ pingAt' = now /\ waiting' = TRUE /\ txIdle' = 0
             /\ heard' = Incoming(buffer)
             /\ asked' = IF peer = "alive" THEN 0 ELSE asked
             /\ loop' = AfterKeepAlive
    <3>1. SincePing' = 0 /\ SinceTx' = 0
      BY <1>1, <1>2, <2>2, DistanceZero DEF TypesOK, SincePing, SinceTx
    <3>2. TypesOK'
      <4>1. heard' \in BOOLEAN
        BY <2>2, Zenon DEF Incoming
      <4>2. loop' \in Running \cup Ended /\ (loop' = "handling" => buffer # << >>)
        BY <1>4, <2>2
      <4>3. asked' \in 0 .. NotAsked
        BY <1>1, <1>7, <2>2 DEF TypesOK
      <4> QED BY <1>1, <1>2, <1>7, <2>2, <4>1, <4>2, <4>3, Zenon DEF TypesOK
    <3>3. QueueFits'
      <4>1. (peer = "alive" => asked' = 0) /\ (peer # "alive" => asked' = NotAsked)
        BY <2>1, <2>2
      <4>2. 0 # NotAsked
        BY <1>num
      <4> QED BY <1>1, <1>2, <1>3, <2>1, <2>2, <3>1, <4>1, <4>2 DEF QueueFits
    <3>4. SilenceFits'
      BY <1>1, <1>2, <1>10, <1>num, <2>2, <3>1 DEF SilenceFits
    <3>5. TxFits'
      <4>1. asked' \in Nat
        BY <1>num, <2>2
      <4> QED BY <1>2, <1>3, <2>1, <2>2, <3>1, <4>1 DEF TxFits
    <3>6. LivePeerKept'
      BY <1>4, <2>2 DEF LivePeerKept, Running
    <3> QED BY <3>2, <3>3, <3>4, <3>5, <3>6 DEF IInv
  <2>3. CASE /\ peer = "dead" /\ loop' = "sendFailed"
             /\ UNCHANGED <<lastTx, pingAt, waiting, txIdle, heard, asked>>
    <3>1. SincePing' = SincePing
      BY <1>2, <2>3 DEF SincePing
    <3>2. TypesOK'
      BY <1>1, <1>2, <1>7, <2>3, Zenon DEF TypesOK, Ended
    <3>3. QueueFits'
      BY <1>1, <1>2, <1>3, <2>1, <2>3, <3>1 DEF QueueFits
    <3>4. SilenceFits' /\ TxFits'
      BY <1>8, <2>3 DEF Ended
    <3>5. LivePeerKept'
      BY <2>3 DEF LivePeerKept
    <3> QED BY <3>2, <3>3, <3>4, <3>5 DEF IInv
  <2> QED BY <1>10, <2>2, <2>3 DEF Ping
<1>11. CASE ~waiting /\ ~PingDue /\ loop' = AfterKeepAlive
            /\ UNCHANGED <<lastTx, pingAt, waiting, txIdle, heard, asked>>
  <2>1. SincePing' = SincePing /\ SinceTx' = SinceTx
    BY <1>2, <1>11 DEF SincePing, SinceTx
  <2>2. SinceRx < RxTimeout /\ (TxTimeout # 0 => SinceTx < TxTimeout)
    BY <1>11, <1>num DEF PingDue, SinceRx, SinceTx
  <2>3. TypesOK'
    <3>1. loop' \in Running \cup Ended /\ (loop' = "handling" => buffer # << >>)
      BY <1>4, <1>11
    <3> QED BY <1>1, <1>2, <1>7, <1>11, <3>1, Zenon DEF TypesOK
  <2>4. QueueFits'
    BY <1>1, <1>2, <1>3, <1>11, <1>num, <2>1 DEF QueueFits
  <2>5. SilenceFits'
    BY <1>1, <1>2, <1>3, <1>4, <1>11, <1>num, <2>2 DEF SilenceFits
  <2>6. TxFits'
    <3> SUFFICES ASSUME TxTimeout # 0, ~heard PROVE TxFits'
      BY <1>11 DEF TxFits
    <3>1. ~Incoming(Queue) /\ ~Answered(Queue)
      BY <1>1, <1>11 DEF QueueFits
    <3>2. loop' = "ready"
      BY <1>4, <1>5, <1>11, <3>1
    <3>3. txIdle = SinceTx /\ SinceTx < TxTimeout
      BY <1>1, <1>2, <2>2 DEF TxFits, Running
    <3> QED BY <1>2, <1>11, <1>num, <2>1, <3>2, <3>3 DEF TxFits
  <2>7. LivePeerKept'
    BY <1>4, <1>11 DEF LivePeerKept, Running
  <2> QED BY <2>3, <2>4, <2>5, <2>6, <2>7 DEF IInv
<1> QED BY <1>2, <1>9, <1>10, <1>11 DEF HandleKeepAlive, SincePing

LEMMA ReceivePacketsKeepsIInv ==
  ASSUME IInv, ReceivePackets
  PROVE  IInv'
<1> USE Constants
<1>1. TypesOK /\ QueueFits /\ SilenceFits /\ TxFits /\ LivePeerKept
  BY DEF IInv
<1>2. /\ loop = "ready" /\ loop' = "handling" /\ pause' = 0
      /\ UNCHANGED <<now, lastTx, lastRx, pingAt, waiting, peer, asked, txIdle, heard, quiet>>
  BY DEF ReceivePackets
<1>3. PICK n \in 1 .. Len(wire) : /\ buffer' = buffer \o SubSeq(wire, 1, n)
                                  /\ wire' = SubSeq(wire, n + 1, Len(wire))
  BY DEF ReceivePackets
<1>4. /\ Queue' = Queue /\ buffer' \in Seq(Packets) /\ wire' \in Seq(Packets)
      /\ buffer' # << >> /\ Queue # << >>
  <2>1. /\ buffer \in Seq(Packets) /\ wire \in Seq(Packets)
        /\ SubSeq(wire, 1, n) \in Seq(Packets) /\ SubSeq(wire, n + 1, Len(wire)) \in Seq(Packets)
        /\ buffer \o SubSeq(wire, 1, n) # << >>
        /\ (buffer \o SubSeq(wire, 1, n)) \o SubSeq(wire, n + 1, Len(wire)) = buffer \o wire
    <3>1. buffer \in Seq(Packets) /\ wire \in Seq(Packets)
      BY <1>1 DEF TypesOK
    <3> QED BY <3>1, ReadingKeepsQueue
  <2>2. buffer' \in Seq(Packets) /\ wire' \in Seq(Packets) /\ buffer' # << >> /\ Queue' = Queue
    <3>1. buffer \o SubSeq(wire, 1, n) \in Seq(Packets)
      BY <2>1, QueueIs
    <3> QED BY <1>3, <2>1, <3>1, Zenon DEF Queue
  <2>3. Queue' # << >>
    BY <2>2, QueueIs DEF Queue
  <2> QED BY <2>2, <2>3
<1>5. SinceRx' = SinceRx /\ SincePing' = SincePing /\ SinceTx' = SinceTx
  BY <1>2 DEF SinceRx, SincePing, SinceTx
<1>num. /\ asked \in Nat /\ pause \in Nat /\ pause <= MaxPause
        /\ txIdle \in Nat /\ quiet \in Nat
        /\ SinceRx \in Nat /\ SincePing \in Nat
        /\ BeforePing = RxTimeout - 1 + 2 * MaxPause /\ 0 \in 0 .. MaxPause
  BY <1>1, Members DEF BeforePing
<1>6. TypesOK'
  BY <1>1, <1>2, <1>4, <1>num, Zenon DEF TypesOK, Running
<1>7. QueueFits'
  BY <1>1, <1>2, <1>4, <1>5, <1>num DEF QueueFits
<1>8. SilenceFits'
  BY <1>1, <1>2, <1>num DEF SilenceFits
<1>9. TxFits'
  <2> SUFFICES ASSUME TxTimeout # 0, ~heard PROVE TxFits'
    BY <1>2 DEF TxFits
  <2>1. Answered(Queue) /\ waiting
    BY <1>1, <1>4, Members, SomePacket DEF QueueFits
  <2>2. txIdle = SinceTx /\ txIdle <= pause + PingTimeout
    BY <1>1, <1>2, <2>1 DEF TxFits, Running
  <2> QED BY <1>2, <1>5, <1>num, <2>2 DEF TxFits
<1>10. LivePeerKept'
  BY <1>2 DEF LivePeerKept
<1> QED BY <1>6, <1>7, <1>8, <1>9, <1>10 DEF IInv

LEMMA HandlePacketKeepsIInv ==
  ASSUME IInv, NEW acked \in BOOLEAN, HandlePacket(acked)
  PROVE  IInv'
<1> USE Constants
<1>1. TypesOK /\ QueueFits /\ SilenceFits /\ TxFits /\ LivePeerKept
  BY DEF IInv
<1>2. /\ loop = "handling" /\ (acked => Head(buffer) = "other") /\ buffer' = Tail(buffer)
      /\ waiting' = StillWaiting /\ pause' = 0
      /\ UNCHANGED <<now, pingAt, peer, wire, asked>>
  BY DEF HandlePacket, peerVars
<1>3. /\ buffer # << >> /\ Queue # << >> /\ Queue' = Tail(Queue) /\ Head(Queue) = Head(buffer)
      /\ buffer' \in Seq(Packets)
  <2>1. buffer # << >> /\ buffer \in Seq(Packets) /\ wire \in Seq(Packets)
    BY <1>1, <1>2 DEF TypesOK
  <2>2. Queue # << >> /\ Tail(buffer) \o wire = Tail(Queue) /\ Head(Queue) = Head(buffer)
    BY <2>1, QueueIs DEF Queue
  <2>3. Queue' = Tail(Queue)
    BY <1>2, <2>2 DEF Queue
  <2> QED BY <1>2, <2>1, <2>2, <2>3
<1>4. /\ OneAnswer(Queue') /\ Len(Queue') = Len(Queue) - 1
      /\ Answered(Queue') <=> Answered(Queue) /\ Head(buffer) # "PINGRESP"
      /\ Incoming(Queue') => Incoming(Queue)
      /\ Head(buffer) \in Packets
      /\ Head(buffer) = "PINGRESP" => Answered(Queue)
      /\ Head(buffer) = "other" => Incoming(Queue)
  BY <1>1, <1>3, Members, TailQueue DEF QueueFits
<1>5. waiting' <=> waiting /\ Head(buffer) # "PINGRESP"
  BY <1>2 DEF StillWaiting
<1>6. \/ acked /\ lastTx' = now /\ txIdle' = 0 /\ heard' = Incoming(Queue')
      \/ ~acked /\ UNCHANGED <<lastTx, txIdle, heard>>
  BY <1>2 DEF HandlePacket, Queue
<1>7. \/ loop' = "ready" /\ lastRx' = now /\ quiet' = 0
      \/ loop' = "sendFailed" /\ UNCHANGED <<lastRx, quiet>>
  BY DEF HandlePacket
<1>num. /\ asked \in Nat /\ pause \in Nat /\ pause <= MaxPause
        /\ txIdle \in Nat /\ quiet \in Nat
        /\ SincePing \in Nat /\ Len(Queue) \in Nat
        /\ 0 \in 0 .. MaxPause /\ 0 \in 0 .. Long
  BY <1>1, Members DEF Long
<1>8. SincePing' = SincePing
  BY <1>2 DEF SincePing
<1>9. TypesOK'
  <2>1. waiting' \in BOOLEAN /\ heard' \in BOOLEAN
    BY <1>1, <1>2, <1>6, Zenon DEF StillWaiting, Incoming, TypesOK
  <2>2. lastTx' \in Instants /\ lastRx' \in Instants /\ txIdle' \in 0 .. Long /\ quiet' \in 0 .. Long
    BY <1>1, <1>6, <1>7, <1>num, Zenon DEF TypesOK
  <2>3. loop' \in Running \cup Ended /\ loop' # "handling"
    BY <1>7 DEF Running, Ended
  <2> QED BY <1>1, <1>2, <1>3, <1>num, <2>1, <2>2, <2>3, Zenon DEF TypesOK
<1>10. QueueFits'
  BY <1>1, <1>2, <1>4, <1>5, <1>6, <1>8, <1>num DEF QueueFits, Packets
<1>11. SilenceFits'
  BY <1>2, <1>7 DEF SilenceFits
<1>12. TxFits'
  <2> SUFFICES ASSUME TxTimeout # 0, loop' = "ready", ~heard' PROVE TxFits'
    BY <1>7 DEF TxFits, Running
  <2>1. CASE acked
    <3>1. txIdle' = 0 /\ SinceTx' = 0
      BY <1>1, <1>2, <1>6, <2>1, DistanceZero DEF TypesOK, SinceTx
    <3> QED BY <1>2, <1>num, <3>1 DEF TxFits
  <2>2. CASE ~acked
    <3>1. ~heard /\ txIdle' = txIdle /\ SinceTx' = SinceTx
      BY <1>2, <1>6, <2>2 DEF SinceTx
    <3>2. Head(buffer) = "PINGRESP"
      BY <1>1, <1>4, <3>1 DEF QueueFits, Packets
    <3>3. txIdle = SinceTx /\ txIdle <= pause + PingTimeout + MaxPause
      BY <1>1, <1>2, <3>1 DEF TxFits, Running
    <3> QED BY <1>2, <1>5, <1>num, <3>1, <3>2, <3>3 DEF TxFits
  <2> QED BY <2>1, <2>2
<1>13. LivePeerKept'
  BY <1>7 DEF LivePeerKept
<1> QED BY <1>9, <1>10, <1>11, <1>12, <1>13 DEF IInv

LEMMA NextKeepsIInv == IInv /\ [Next]_vars => IInv'
<1> SUFFICES ASSUME IInv, [Next]_vars PROVE IInv'
  OBVIOUS
<1>1. CASE ReceiveNothing
  BY <1>1, ReceiveNothingKeepsIInv
<1>2. CASE ReceivePackets
  BY <1>2, ReceivePacketsKeepsIInv
<1>3. CASE \E acked \in BOOLEAN : HandlePacket(acked)
  BY <1>3, HandlePacketKeepsIInv
<1>4. CASE SendPacket
  BY <1>4, SendKeepsIInv
<1>5. CASE Reconnect
  BY <1>5, ReconnectKeepsIInv
<1>6. CASE PeerAnswers \/ PeerSends \/ PeerDies
  BY <1>6, PeerKeepsIInv
<1>7. CASE Tick
  BY <1>7, TickKeepsIInv
<1>8. CASE UNCHANGED vars
  BY <1>8 DEF vars, clientVars, peerVars, IInv, TypesOK, QueueFits, SilenceFits, TxFits,
              LivePeerKept, Queue, SinceRx, SincePing, SinceTx
<1> QED BY <1>1, <1>2, <1>3, <1>4, <1>5, <1>6, <1>7, <1>8 DEF Next

-----------------------------------------------------------------------------
(* Theorems                                                                *)

(* One PINGRESP is owed or on its way while it is waited for, and at every *)
(* point of the process loop the silence of either side is bounded by what *)
(* the last look at the keep-alive has found.                              *)
THEOREM Invariance == Spec => []IInv
<1> QED BY InitIInv, NextKeepsIInv, PTL DEF Spec

(* handleKeepAlive gives up a connection on which nothing arrives, with    *)
(* any timeouts, wherever the clock wraps, and whatever lastPacketRxTime   *)
(* was before; and every variable has its type.                            *)
THEOREM SilenceBound == Spec => []SilenceIsBounded
<1>1. IInv => SilenceIsBounded
  <2> SUFFICES ASSUME IInv PROVE SilenceIsBounded
    OBVIOUS
  <2> USE Constants
  <2>1. TypesOK /\ QueueFits /\ SilenceFits
    BY DEF IInv
  <2>num. /\ pause \in Nat /\ pause <= MaxPause /\ quiet \in Nat
          /\ SinceRx \in Nat /\ SincePing \in Nat
          /\ BeforePing = RxTimeout - 1 + 2 * MaxPause
    BY <2>1, Members DEF BeforePing
  <2>2. \A s \in {buffer, wire} : Len(s) <= MaxPackets + 1 /\ \A n \in DOMAIN s : s[n] \in Packets
    <3>1. buffer \in Seq(Packets) /\ wire \in Seq(Packets)
      BY <2>1 DEF TypesOK
    <3>2. Len(buffer) + Len(wire) <= MaxPackets + 1
      BY <2>1, <3>1, QueueIs DEF QueueFits, Queue
    <3>3. Len(buffer) \in Nat /\ Len(wire) \in Nat
      BY <3>1
    <3> QED BY <3>1, <3>2, <3>3
  <2>3. TypeOK
    BY <2>1, <2>2, Zenon DEF TypesOK, TypeOK, Instants
  <2>4. loop \in Running => quiet < RxTimeout + PingTimeout + 4 * MaxPause
    BY <2>1, <2>num DEF SilenceFits, Running, TypesOK
  <2> QED BY <2>3, <2>4 DEF SilenceIsBounded
<1> QED BY <1>1, Invariance, PTL

(* While the peer only answers, handleKeepAlive sends a PINGREQ before     *)
(* the client has been silent for longer than the timeout and a pause, or  *)
(* than a PINGRESP in between takes.                                       *)
THEOREM TxIdleBound == Spec => []TxIdleIsBounded
<1>1. IInv => TxIdleIsBounded
  <2> SUFFICES ASSUME IInv, TxTimeout # 0, loop \in Running, ~heard
               PROVE  txIdle < TxTimeout + MaxPause \/ txIdle <= PingTimeout + 3 * MaxPause
    BY DEF TxIdleIsBounded
  <2> USE Constants
  <2>1. TypesOK /\ QueueFits /\ TxFits
    BY DEF IInv
  <2>num. /\ pause \in Nat /\ pause <= MaxPause /\ txIdle \in Nat /\ SincePing \in Nat
          /\ asked \in Nat /\ asked <= MaxAnswer + 1 /\ NotAsked = MaxAnswer + 1
    BY <2>1, Members DEF NotAsked
  <2>2. CASE loop = "handling"
    BY <2>1, <2>2, <2>num DEF TxFits
  <2>3. CASE loop = "ready" /\ ~waiting
    BY <2>1, <2>3, <2>num DEF TxFits
  <2>4. CASE loop = "ready" /\ waiting
    <3>1. CASE Answered(Queue)
      BY <2>1, <2>4, <2>num, <3>1 DEF TxFits
    <3>2. CASE asked # NotAsked
      BY <2>1, <2>4, <2>num, <3>2 DEF TxFits
    <3>3. CASE ~Answered(Queue) /\ asked = NotAsked
      <4>1. peer = "dead"
        BY <2>1, <2>4, <3>3 DEF QueueFits, TypesOK
      <4> QED BY <2>1, <2>4, <2>num, <3>3, <4>1 DEF TxFits
    <3> QED BY <3>1, <3>2, <3>3
  <2> QED BY <2>2, <2>3, <2>4 DEF Running
<1> QED BY <1>1, Invariance, PTL

(* handleKeepAlive gives up a live peer only when its PINGRESP is already  *)
(* in the buffer, behind another packet.                                   *)
THEOREM PeerKept == Spec => []LivePeerKept
<1>1. IInv => LivePeerKept
  BY DEF IInv
<1> QED BY <1>1, Invariance, PTL
=============================================================================
