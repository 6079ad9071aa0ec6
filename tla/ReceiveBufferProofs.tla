------------------------- MODULE ReceiveBufferProofs -------------------------
(***************************************************************************)
(* What is proved of ReceiveBuffer, for a buffer of any size, packets of   *)
(* any lengths and a transport that returns any pieces of them: the front  *)
(* of the buffer is the front of a packet, each packet is done with once   *)
(* and in its turn, and there is room to receive.                          *)
(***************************************************************************)
EXTENDS ReceiveBuffer, SequenceTheorems, TLAPS

-----------------------------------------------------------------------------
(* Bytes that follow each other                                            *)

LEMMA UpTo ==
  ASSUME NEW k \in Nat, NEW l \in Nat, k <= l
  PROVE  k < l \/ k = l
OBVIOUS

(* A packet of l bytes after byte f, in a buffer of size places b of which *)
(* are in use, with s bytes to come: what is missing, and what is left.    *)
LEMMA Missing ==
  ASSUME NEW f \in Nat, NEW b \in Nat, NEW s \in Nat, NEW l \in Nat, NEW size \in Nat,
         b <= size, l > size
  PROVE  l - b \in Nat /\ l - b >= 1 /\ (f + b + s) - s + (l - b) = f + l
OBVIOUS

LEMMA Remaining ==
  ASSUME NEW f \in Nat, NEW b \in Nat, NEW s \in Nat, NEW l \in Nat, NEW size \in Nat,
         b <= size, l <= b, l >= 2
  PROVE  b - l \in Nat /\ b - l < size /\ b - l <= size /\ (f + l) + (b - l) + s = f + b + s
OBVIOUS

(* The bytes of s are those after byte a, without a gap.                   *)
Follows(s, a) == s \in Seq(Nat) /\ \A k \in DOMAIN s : s[k] = a + k

LEMMA FollowsNothing ==
  ASSUME NEW a
  PROVE  Follows(<< >>, a)
BY DEF Follows

LEMMA FollowsSame ==
  ASSUME NEW s, NEW t, NEW a, Follows(s, a), Follows(t, a), Len(s) = Len(t)
  PROVE  s = t
<1>1. s \in Seq(Nat) /\ t \in Seq(Nat) /\ DOMAIN s = 1 .. Len(s) /\ DOMAIN t = 1 .. Len(s)
  BY DEF Follows
<1>2. \A k \in 1 .. Len(s) : s[k] = t[k]
  BY <1>1 DEF Follows
<1> QED BY <1>1, <1>2, SeqEqual

LEMMA FollowsConcat ==
  ASSUME NEW s, NEW t, NEW a \in Nat, Follows(s, a), Follows(t, a + Len(s))
  PROVE  Follows(s \o t, a) /\ Len(s \o t) = Len(s) + Len(t)
<1>1. s \in Seq(Nat) /\ t \in Seq(Nat) /\ Len(s) \in Nat /\ Len(t) \in Nat
      /\ DOMAIN s = 1 .. Len(s) /\ DOMAIN t = 1 .. Len(t)
  BY DEF Follows
<1> PICK u : u = s \o t
  OBVIOUS
<1>2. /\ u \in Seq(Nat) /\ Len(u) = Len(s) + Len(t) /\ DOMAIN u = 1 .. Len(s) + Len(t)
      /\ \A k \in 1 .. Len(s) + Len(t) : u[k] = IF k <= Len(s) THEN s[k] ELSE t[k - Len(s)]
  BY <1>1, ConcatProperties
<1>3. ASSUME NEW k \in 1 .. Len(s) + Len(t)
      PROVE  u[k] = a + k
  <2>1. CASE k <= Len(s)
    <3>1. k \in DOMAIN s /\ u[k] = s[k]
      BY <1>1, <1>2, <2>1
    <3> QED BY <3>1 DEF Follows
  <2>2. CASE k > Len(s)
    <3>1. k - Len(s) \in 1 .. Len(t) /\ u[k] = t[k - Len(s)]
      BY <1>1, <1>2, <2>2
    <3>2. t[k - Len(s)] = (a + Len(s)) + (k - Len(s))
      BY <1>1, <3>1 DEF Follows
    <3> QED BY <1>1, <3>1, <3>2
  <2> QED BY <1>1, <2>1, <2>2
<1> QED BY <1>2, <1>3 DEF Follows

(* What is cut off at the front, and what is left.                         *)
LEMMA FollowsCut ==
  ASSUME NEW s, NEW a \in Nat, Follows(s, a), NEW n \in 0 .. Len(s)
  PROVE  /\ Follows(SubSeq(s, 1, n), a) /\ Len(SubSeq(s, 1, n)) = n
         /\ Follows(SubSeq(s, n + 1, Len(s)), a + n) /\ Len(SubSeq(s, n + 1, Len(s))) = Len(s) - n
<1>1. s \in Seq(Nat) /\ Len(s) \in Nat /\ DOMAIN s = 1 .. Len(s) /\ n \in Nat /\ n <= Len(s)
  BY DEF Follows
<1>2. PICK u : u = SubSeq(s, 1, n)
  OBVIOUS
<1>3. PICK v : v = SubSeq(s, n + 1, Len(s))
  OBVIOUS
<1>4. u \in Seq(Nat) /\ Len(u) = n /\ DOMAIN u = 1 .. n /\ \A k \in 1 .. n : u[k] = s[k]
  BY <1>1, <1>2
<1>5. v \in Seq(Nat) /\ Len(v) = Len(s) - n /\ DOMAIN v = 1 .. Len(s) - n
      /\ \A k \in 1 .. Len(s) - n : v[k] = s[n + k]
  <2>1. PICK m : m = n + 1
    OBVIOUS
  <2>2. PICK l : l = Len(s)
    OBVIOUS
  <2>3. m \in Int /\ l \in Int /\ \A i \in m .. l : s[i] \in Nat
    <3>1. \A i \in m .. l : i \in DOMAIN s
      BY <1>1, <2>1, <2>2
    <3> QED BY <1>1, <2>1, <2>2, <3>1
  <2>4. /\ v \in Seq(Nat) /\ Len(v) = IF m <= l THEN l - m + 1 ELSE 0
        /\ \A k \in 1 .. l - m + 1 : v[k] = s[m + k - 1]
    BY <1>3, <2>1, <2>2, <2>3, SubSeqProperties
  <2>5. l - m + 1 = Len(s) - n /\ Len(v) = Len(s) - n
    <3>1. l - m + 1 = Len(s) - n /\ (m <= l <=> n < Len(s))
      BY <1>1, <2>1, <2>2
    <3>2. CASE n < l
      BY <1>1, <2>2, <2>4, <3>1, <3>2
    <3>3. CASE n = l
      BY <1>1, <2>2, <2>4, <3>1, <3>3
    <3>4. n < l \/ n = l
      BY <1>1, <2>2, UpTo, Zenon
    <3> QED BY <3>1, <3>2, <3>3, <3>4
  <2>6. ASSUME NEW k \in 1 .. Len(s) - n PROVE v[k] = s[n + k]
    <3>1. m + k - 1 = n + k
      BY <1>1, <2>1
    <3> QED BY <2>4, <2>5, <3>1
  <2> QED BY <2>4, <2>5, <2>6
<1>6. Follows(u, a)
  BY <1>1, <1>4 DEF Follows
<1>7. Follows(v, a + n)
  <2>1. ASSUME NEW k \in 1 .. Len(s) - n PROVE v[k] = (a + n) + k
    <3>1. n + k \in DOMAIN s /\ v[k] = s[n + k]
      BY <1>1, <1>5
    <3> QED BY <1>1, <3>1 DEF Follows
  <2> QED BY <1>5, <2>1 DEF Follows
<1> QED BY <1>2, <1>3, <1>4, <1>5, <1>6, <1>7

-----------------------------------------------------------------------------
(* The packets of a connection                                             *)

LastByte == EndOf(Len(Ends))

LEMMA EndsAscend ==
  /\ Size \in Nat /\ Size >= 1 /\ Len(Ends) \in Nat /\ DOMAIN Ends = 1 .. Len(Ends)
  /\ \A n \in 0 .. Len(Ends) : EndOf(n) \in Nat /\ EndOf(n) <= LastByte
  /\ \A n \in DOMAIN Ends : /\ n - 1 \in 0 .. Len(Ends) /\ EndOf(n) = Ends[n]
                            /\ LengthOf(n) \in Nat /\ LengthOf(n) >= 2
                            /\ EndOf(n) = EndOf(n - 1) + LengthOf(n)
                            /\ Header[n] \in Nat /\ Header[n] >= 2 /\ Header[n] <= Size
<1>1. /\ Size \in Nat /\ Size >= 1 /\ Ends \in Seq(Nat) /\ Len(Ends) \in Nat /\ DOMAIN Ends = 1 .. Len(Ends)
  BY BufferAssumption
<1>2. \A n \in DOMAIN Ends : Ends[n] \in Nat
  BY <1>1
<1>3. \A m, n \in DOMAIN Ends : m < n => Ends[m] < Ends[n]
  BY BufferAssumption
<1>4. \A n \in 0 .. Len(Ends) : EndOf(n) \in Nat /\ EndOf(n) <= LastByte
  <2> SUFFICES ASSUME NEW n \in 0 .. Len(Ends) PROVE EndOf(n) \in Nat /\ EndOf(n) <= LastByte
    OBVIOUS
  <2>1. CASE n = 0
    <3>1. EndOf(n) = 0 /\ LastByte \in Nat
      BY <1>1, <1>2, <2>1 DEF LastByte, EndOf
    <3> QED BY <3>1
  <2>2. CASE n # 0
    <3>1. n \in DOMAIN Ends /\ Len(Ends) \in DOMAIN Ends /\ (n < Len(Ends) \/ n = Len(Ends))
      <4>1. n \in Nat /\ n >= 1 /\ n <= Len(Ends)
        BY <1>1, <2>2
      <4>2. n \in 1 .. Len(Ends) /\ Len(Ends) \in 1 .. Len(Ends)
        BY <1>1, <4>1
      <4>3. PICK l : l = Len(Ends)
        OBVIOUS
      <4>4. n < l \/ n = l
        BY <1>1, <4>1, <4>3, UpTo, Zenon
      <4> QED BY <1>1, <4>2, <4>3, <4>4, Zenon
    <3>2. EndOf(n) = Ends[n] /\ LastByte = Ends[Len(Ends)]
      BY <1>1, <2>2 DEF LastByte, EndOf
    <3>3. Ends[n] \in Nat /\ Ends[n] <= Ends[Len(Ends)]
      BY <1>1, <1>2, <1>3, <3>1
    <3> QED BY <3>2, <3>3
  <2> QED BY <2>1, <2>2
<1>5. \A n \in DOMAIN Ends : Header[n] \in 2 .. 5 /\ Header[n] <= LengthOf(n) /\ Header[n] <= Size
  BY BufferAssumption
<1>6. ASSUME NEW n \in DOMAIN Ends
      PROVE  /\ n - 1 \in 0 .. Len(Ends) /\ EndOf(n) = Ends[n]
             /\ LengthOf(n) \in Nat /\ LengthOf(n) >= 2
             /\ EndOf(n) = EndOf(n - 1) + LengthOf(n)
             /\ Header[n] \in Nat /\ Header[n] >= 2 /\ Header[n] <= Size
  <2>1. n - 1 \in 0 .. Len(Ends) /\ n \in 0 .. Len(Ends) /\ EndOf(n) = Ends[n]
    BY <1>1 DEF EndOf
  <2>2. EndOf(n) \in Nat /\ EndOf(n - 1) \in Nat
    BY <1>4, <2>1
  <2>3. Header[n] \in Nat /\ Header[n] >= 2 /\ Header[n] <= Size /\ Header[n] <= LengthOf(n)
    BY <1>1, <1>5
  <2>4. LengthOf(n) = EndOf(n) - EndOf(n - 1)
    BY DEF LengthOf
  <2> QED BY <2>1, <2>2, <2>3, <2>4
<1> QED BY <1>1, <1>4, <1>6

(* The first byte of a packet tells which it is.                           *)
LEMMA FirstPacketIs ==
  ASSUME NEW b \in Seq(Nat), NEW n \in DOMAIN Ends, Head(b) = EndOf(n - 1) + 1
  PROVE  FirstPacket(b) = n
<1> DEFINE Holds(m) == Head(b) \in EndOf(m - 1) + 1 .. Ends[m]
<1>1. Holds(n)
  BY EndsAscend
<1>2. ASSUME NEW m \in DOMAIN Ends, Holds(m) PROVE m = n
  <2>1. /\ m \in 1 .. Len(Ends) /\ n \in 1 .. Len(Ends) /\ Len(Ends) \in Nat
        /\ EndOf(m - 1) \in Nat /\ EndOf(n - 1) \in Nat /\ EndOf(m) = Ends[m] /\ EndOf(n) = Ends[n]
        /\ EndOf(n) \in Nat /\ EndOf(m) \in Nat
    BY EndsAscend
  <2>2. \A j, k \in DOMAIN Ends : j < k => Ends[j] < Ends[k]
    BY BufferAssumption
  <2>3. EndOf(m - 1) < EndOf(n - 1) + 1 /\ EndOf(n - 1) + 1 <= EndOf(m)
    BY <1>2, <2>1
  <2>4. ~(m < n)
    <3> SUFFICES ASSUME m < n PROVE FALSE
      OBVIOUS
    <3>1. n - 1 \in DOMAIN Ends /\ EndOf(n - 1) = Ends[n - 1] /\ (m < n - 1 \/ m = n - 1)
      BY <2>1, EndsAscend DEF EndOf
    <3> QED BY <2>1, <2>2, <2>3, <3>1
  <2>5. ~(n < m)
    <3> SUFFICES ASSUME n < m PROVE FALSE
      OBVIOUS
    <3>1. m - 1 \in DOMAIN Ends /\ EndOf(m - 1) = Ends[m - 1] /\ (n < m - 1 \/ n = m - 1)
      BY <2>1, EndsAscend DEF EndOf
    <3>2. EndOf(n) > EndOf(n - 1)
      BY <2>1, EndsAscend
    <3> QED BY <2>1, <2>2, <2>3, <3>1, <3>2
  <2> QED BY <2>1, <2>4, <2>5
<1> HIDE DEF Holds
<1>3. (CHOOSE m \in DOMAIN Ends : Holds(m)) = n
  BY <1>1, <1>2
<1> QED BY <1>3 DEF FirstPacket, Holds

LEMMA StreamFollows == Follows(Stream, 0) /\ Len(Stream) = LastByte
<1>1. LastByte \in Nat
  BY EndsAscend DEF LastByte
<1>2. Stream = [k \in 1 .. LastByte |-> k]
  BY DEF Stream, LastByte
<1> QED BY <1>1, <1>2 DEF Follows

-----------------------------------------------------------------------------
(* The invariant                                                           *)

Doings == [packet : DOMAIN Ends, how : {"handled", "garbled", "discarded"}]

(* Where the packets done with end.                                        *)
DoneEnd == EndOf(Len(done))

TypesOK ==
  /\ ready \in 0 .. Len(stream)
  /\ Len(buffer) <= Size
  /\ discard \in Nat
  /\ loop \in {"running", "discarding", "failed"}
  /\ done \in Seq(Doings) /\ Len(done) <= Len(Ends)

(* The bytes to come are the last of the stream, those in the buffer the   *)
(* first of a packet that is not done with; what is discarded is the rest  *)
(* of a packet that is larger than the buffer.                             *)
BytesFit ==
  /\ Len(stream) <= LastByte /\ Follows(stream, LastByte - Len(stream))
  /\ Follows(buffer, DoneEnd)
  /\ loop = "running" => DoneEnd + Len(buffer) + Len(stream) = LastByte
  /\ loop = "discarding" =>
       /\ Len(done) < Len(Ends) /\ LengthOf(Len(done) + 1) > Size
       /\ buffer # << >>
       /\ discard >= 1 /\ LastByte - Len(stream) + discard = EndOf(Len(done) + 1)

IInv == TypesOK /\ BytesFit /\ DoneInTurn /\ RoomToReceive

-----------------------------------------------------------------------------
(* The parts of a step                                                     *)

LEMMA Members ==
  ASSUME IInv
  PROVE  /\ stream \in Seq(Nat) /\ buffer \in Seq(Nat) /\ done \in Seq(Doings)
         /\ Len(stream) \in Nat /\ Len(buffer) \in Nat /\ Len(done) \in Nat
         /\ Len(done) \in 0 .. Len(Ends) /\ DoneEnd \in Nat /\ LastByte \in Nat /\ DoneEnd <= LastByte
         /\ ready \in Nat /\ ready <= Len(stream)
         /\ discard \in Nat /\ Size \in Nat /\ Size >= 1
<1>1. stream \in Seq(Nat) /\ buffer \in Seq(Nat) /\ done \in Seq(Doings)
  BY DEF IInv, TypesOK, BytesFit, Follows
<1>2. Len(stream) \in Nat /\ Len(buffer) \in Nat /\ Len(done) \in Nat
  BY <1>1
<1>3. Len(done) \in 0 .. Len(Ends) /\ Len(Ends) \in 0 .. Len(Ends)
  BY <1>2, EndsAscend DEF IInv, TypesOK
<1>4. DoneEnd \in Nat /\ LastByte \in Nat /\ DoneEnd <= LastByte
  BY <1>3, EndsAscend DEF DoneEnd, LastByte
<1>5. ready \in Nat /\ ready <= Len(stream) /\ discard \in Nat /\ Size \in Nat /\ Size >= 1
  BY <1>2, EndsAscend DEF IInv, TypesOK
<1> QED BY <1>1, <1>2, <1>3, <1>4, <1>5

(* A connection starts at the front of the first packet.                   *)
LEMMA InitIInv == Init => IInv
<1> SUFFICES ASSUME Init PROVE IInv
  OBVIOUS
<1>1. LastByte \in Nat /\ Size \in Nat /\ Size >= 1 /\ 0 \in 0 .. LastByte /\ Len(Ends) \in Nat
  BY EndsAscend DEF LastByte
<1>2. DoneEnd = 0 /\ Len(stream) = LastByte /\ Len(buffer) = 0 /\ Len(done) = 0
  BY StreamFollows DEF DoneEnd, EndOf, Init
<1>3. TypesOK
  <2>1. << >> \in Seq(Doings)
    OBVIOUS
  <2> QED BY <1>1, <1>2, <2>1 DEF TypesOK, Init
<1>4. Follows(stream, LastByte - Len(stream)) /\ Follows(buffer, DoneEnd)
  BY <1>1, <1>2, StreamFollows, FollowsNothing DEF Init
<1>5. BytesFit
  BY <1>1, <1>2, <1>4 DEF BytesFit, Init
<1>6. DoneInTurn /\ RoomToReceive
  BY <1>1, <1>2 DEF DoneInTurn, RoomToReceive, Init
<1> QED BY <1>3, <1>5, <1>6 DEF IInv

(* Reading leaves the end of the stream.                                   *)
LEMMA ReceiveFits ==
  ASSUME IInv, NEW n \in 0 .. ready, Receive(n)
  PROVE  /\ Len(stream') = Len(stream) - n /\ Len(stream') \in Nat /\ Len(stream') <= LastByte
         /\ ready' \in 0 .. Len(stream')
         /\ Follows(stream', LastByte - Len(stream'))
<1>1. /\ Len(stream) \in Nat /\ LastByte \in Nat /\ Len(stream) <= LastByte /\ ready \in Nat /\ ready <= Len(stream)
      /\ Follows(stream, LastByte - Len(stream))
  BY Members DEF IInv, BytesFit
<1>2. stream' = SubSeq(stream, n + 1, Len(stream)) /\ ready' = ready - n
  BY DEF Receive
<1>3. PICK a : a = LastByte - Len(stream)
  OBVIOUS
<1>4. a \in Nat /\ n \in 0 .. Len(stream) /\ n \in Nat /\ n <= ready
  BY <1>1, <1>3
<1>5. Follows(stream', a + n) /\ Len(stream') = Len(stream) - n
  BY <1>1, <1>2, <1>3, <1>4, FollowsCut
<1>6. a + n = LastByte - Len(stream') /\ Len(stream') \in Nat /\ Len(stream') <= LastByte
  BY <1>1, <1>3, <1>4, <1>5
<1>7. ready' \in 0 .. Len(stream')
  BY <1>1, <1>2, <1>4, <1>5
<1> QED BY <1>5, <1>6, <1>7

(* A packet that is done with in its turn.                                 *)
LEMMA DoneWith ==
  ASSUME IInv, Len(done) < Len(Ends), NEW how,
         how = IF LengthOf(Len(done) + 1) > Size THEN "discarded" ELSE "handled",
         done' = Append(done, [packet |-> Len(done) + 1, how |-> how])
  PROVE  /\ done' \in Seq(Doings) /\ Len(done') = Len(done) + 1 /\ Len(done') <= Len(Ends)
         /\ DoneEnd' = EndOf(Len(done) + 1)
         /\ DoneInTurn'
<1>1. done \in Seq(Doings) /\ Len(done) \in Nat /\ DOMAIN done = 1 .. Len(done) /\ Len(Ends) \in Nat
  BY Members, EndsAscend
<1>2. PICK n : n = Len(done) + 1
  OBVIOUS
<1>3. n \in DOMAIN Ends /\ n \in Nat
  BY <1>1, <1>2, EndsAscend
<1>4. PICK r : r = [packet |-> n, how |-> how]
  OBVIOUS
<1>5. r \in Doings
  BY <1>2, <1>3, <1>4 DEF Doings
<1>6. done' = Append(done, r)
  BY <1>2, <1>4
<1>7. /\ done' \in Seq(Doings) /\ Len(done') = n /\ DOMAIN done' = 1 .. n /\ done'[n] = r
      /\ \A k \in 1 .. Len(done) : done'[k] = done[k]
  BY <1>1, <1>2, <1>5, <1>6
<1>8. DoneEnd' = EndOf(n)
  BY <1>7 DEF DoneEnd
<1>9. DoneInTurn'
  <2>1. ASSUME NEW k \in DOMAIN done'
        PROVE  done'[k] = [packet |-> k, how |-> IF LengthOf(k) > Size THEN "discarded" ELSE "handled"]
    <3>1. CASE k = n
      BY <1>2, <1>4, <1>7, <3>1
    <3>2. CASE k # n
      <4>1. k \in DOMAIN done /\ done'[k] = done[k]
        BY <1>1, <1>2, <1>7, <3>2
      <4> QED BY <4>1 DEF IInv, DoneInTurn
    <3> QED BY <3>1, <3>2
  <2> QED BY <2>1 DEF DoneInTurn
<1> QED BY <1>1, <1>2, <1>7, <1>8, <1>9

(* The bytes in the buffer and those just read follow each other.          *)
LEMMA BytesRead ==
  ASSUME IInv, loop = "running", NEW n \in 0 .. ready, n <= Size - Len(buffer),
         NEW b, b = buffer \o SubSeq(stream, 1, n)
  PROVE  /\ b \in Seq(Nat) /\ Follows(b, DoneEnd) /\ Len(b) \in Nat
         /\ Len(b) = Len(buffer) + n /\ Len(b) <= Size
         /\ DoneEnd + Len(b) + (Len(stream) - n) = LastByte
<1>1. /\ stream \in Seq(Nat) /\ buffer \in Seq(Nat)
      /\ Len(stream) \in Nat /\ Len(buffer) \in Nat /\ Len(done) \in Nat
      /\ Len(done) \in 0 .. Len(Ends) /\ DoneEnd \in Nat /\ LastByte \in Nat
      /\ ready \in Nat /\ ready <= Len(stream) /\ Size \in Nat
  BY Members
<1>2. /\ Len(stream) <= LastByte /\ Follows(stream, LastByte - Len(stream)) /\ Follows(buffer, DoneEnd)
      /\ DoneEnd + Len(buffer) + Len(stream) = LastByte
  BY DEF IInv, BytesFit
<1>3. PICK c : c = SubSeq(stream, 1, n)
  OBVIOUS
<1>4. PICK a : a = LastByte - Len(stream)
  OBVIOUS
<1>5. a \in Nat /\ a = DoneEnd + Len(buffer) /\ n \in 0 .. Len(stream) /\ n \in Nat /\ n <= Len(stream)
  <2>1. PICK f : f = DoneEnd + Len(buffer)
    OBVIOUS
  <2>2. f \in Nat /\ f + Len(stream) = LastByte
    BY <1>1, <1>2, <2>1
  <2>3. a = f
    BY <1>1, <1>4, <2>2
  <2>4. n \in Nat /\ n <= Len(stream)
    BY <1>1
  <2> QED BY <1>1, <2>1, <2>2, <2>3, <2>4
<1>6. Follows(c, a) /\ Len(c) = n
  BY <1>2, <1>3, <1>4, <1>5, FollowsCut
<1>7. Follows(b, DoneEnd) /\ Len(b) = Len(buffer) + n
  BY <1>1, <1>2, <1>3, <1>5, <1>6, FollowsConcat
<1>8. b \in Seq(Nat)
  BY <1>7 DEF Follows
<1>9. Len(b) \in Nat /\ Len(b) <= Size /\ DoneEnd + Len(b) + (Len(stream) - n) = LastByte
  <2>1. PICK m : m = Len(buffer)
    OBVIOUS
  <2>2. PICK s : s = Len(stream)
    OBVIOUS
  <2>3. PICK f : f = DoneEnd
    OBVIOUS
  <2>4. m \in Nat /\ s \in Nat /\ f \in Nat /\ Size \in Nat /\ n \in Nat
    BY <1>1, <1>5, <2>1, <2>2, <2>3, Zenon
  <2>5. n <= s /\ n <= Size - m
    BY <1>5, <2>1, <2>2, Zenon
  <2>6. m + n \in Nat /\ m + n <= Size /\ f + (m + n) + (s - n) = f + m + s
    BY <2>4, <2>5
  <2>7. Len(b) = m + n /\ f + m + s = LastByte
    BY <1>2, <1>7, <2>1, <2>2, <2>3, Zenon
  <2> QED BY <2>2, <2>3, <2>6, <2>7, Zenon
<1> QED BY <1>7, <1>8, <1>9

(* The packet at their front is the one that is due.                       *)
LEMMA FrontIsDue ==
  ASSUME IInv, NEW b \in Seq(Nat), Follows(b, DoneEnd), b # << >>, DoneEnd + Len(b) <= LastByte
  PROVE  /\ Len(done) < Len(Ends) /\ Len(done) + 1 \in DOMAIN Ends
         /\ FirstPacket(b) = Len(done) + 1
<1>0. /\ Len(done) \in Nat /\ Len(done) \in 0 .. Len(Ends) /\ DoneEnd \in Nat /\ LastByte \in Nat
      /\ Len(b) \in Nat
  BY Members
<1>1. Len(b) >= 1 /\ DoneEnd < LastByte /\ Head(b) = b[1] /\ 1 \in DOMAIN b
  <2>1. Len(b) >= 1 /\ Head(b) = b[1] /\ 1 \in DOMAIN b
    OBVIOUS
  <2> QED BY <1>0, <2>1
<1>2. Len(done) # Len(Ends)
  BY <1>0, <1>1 DEF DoneEnd, LastByte
<1>3. Len(Ends) \in Nat /\ DOMAIN Ends = 1 .. Len(Ends) /\ Len(done) <= Len(Ends)
  BY <1>0, EndsAscend
<1>4. PICK p : p = Len(done) + 1
  OBVIOUS
<1>5. Len(done) < Len(Ends)
  BY <1>0, <1>2, <1>3, UpTo
<1>6. p \in DOMAIN Ends /\ p - 1 = Len(done)
  BY <1>0, <1>3, <1>4, <1>5
<1>7. Head(b) = DoneEnd + 1
  BY <1>0, <1>1 DEF Follows
<1>8. Head(b) = EndOf(p - 1) + 1
  BY <1>6, <1>7 DEF DoneEnd
<1>9. FirstPacket(b) = p
  BY <1>0, <1>6, <1>8, FirstPacketIs
<1> QED BY <1>4, <1>5, <1>6, <1>9

LEMMA IterateKeepsIInv ==
  ASSUME IInv, NEW n \in 0 .. Size, Iterate(n)
  PROVE  IInv'
<1>1. /\ loop = "running" /\ n \in 0 .. ready /\ n <= Size - Len(buffer) /\ Receive(n)
  BY DEF Iterate
<1>2. PICK b : b = buffer \o SubSeq(stream, 1, n)
  OBVIOUS
<1>3. PICK p : p = Len(done) + 1
  OBVIOUS
<1>num. /\ Len(stream) \in Nat /\ Len(buffer) \in Nat /\ Len(done) \in Nat /\ Len(done) <= Len(Ends)
        /\ DoneEnd \in Nat /\ LastByte \in Nat /\ discard \in Nat /\ Size \in Nat /\ Size >= 1 /\ n \in Nat
  BY <1>1, Members DEF IInv, TypesOK
<1>4. /\ b \in Seq(Nat) /\ Follows(b, DoneEnd) /\ Len(b) \in Nat /\ Len(b) <= Size
      /\ DoneEnd + Len(b) + Len(stream') = LastByte
      /\ Len(stream') \in Nat /\ Len(stream') <= LastByte /\ ready' \in 0 .. Len(stream')
      /\ Follows(stream', LastByte - Len(stream'))
  <2>1. /\ b \in Seq(Nat) /\ Follows(b, DoneEnd) /\ Len(b) \in Nat /\ Len(b) <= Size
        /\ DoneEnd + Len(b) + (Len(stream) - n) = LastByte
    BY <1>1, <1>2, BytesRead
  <2>2. /\ Len(stream') = Len(stream) - n /\ Len(stream') \in Nat /\ Len(stream') <= LastByte
        /\ ready' \in 0 .. Len(stream') /\ Follows(stream', LastByte - Len(stream'))
    BY <1>1, ReceiveFits
  <2> QED BY <2>1, <2>2
<1>front. b # << >> => /\ Len(done) < Len(Ends) /\ Len(done) + 1 \in DOMAIN Ends
                       /\ FirstPacket(b) = Len(done) + 1
  <2>1. DoneEnd + Len(b) <= LastByte
    BY <1>4, <1>num
  <2> QED BY <1>4, <2>1, FrontIsDue
<1>5. b # << >> => /\ Len(done) < Len(Ends) /\ FirstPacket(b) = p
                   /\ LengthOf(p) \in Nat /\ LengthOf(p) >= 2 /\ EndOf(p) = DoneEnd + LengthOf(p)
                   /\ Header[p] \in Nat /\ Header[p] <= Size
  <2> SUFFICES ASSUME b # << >>
               PROVE  /\ Len(done) < Len(Ends) /\ FirstPacket(b) = p
                      /\ LengthOf(p) \in Nat /\ LengthOf(p) >= 2 /\ EndOf(p) = DoneEnd + LengthOf(p)
                      /\ Header[p] \in Nat /\ Header[p] <= Size
    OBVIOUS
  <2>1. Len(done) < Len(Ends) /\ p \in DOMAIN Ends /\ FirstPacket(b) = p
    BY <1>3, <1>front, Zenon
  <2>2. p - 1 = Len(done)
    BY <1>3, <1>num
  <2>3. EndOf(p) = EndOf(p - 1) + LengthOf(p) /\ LengthOf(p) \in Nat /\ LengthOf(p) >= 2
        /\ Header[p] \in Nat /\ Header[p] <= Size
    BY <2>1, EndsAscend
  <2> QED BY <2>1, <2>2, <2>3 DEF DoneEnd
<1>6. CASE Oversized(b) /\ loop' = "discarding" /\ discard' = LeftToDiscard(b) /\ buffer' = b /\ UNCHANGED done
  <2>1. b # << >> /\ LengthOf(p) > Size
    BY <1>5, <1>6 DEF Oversized, LengthKnown
  <2>2. /\ DoneEnd' = DoneEnd /\ discard' = LengthOf(p) - Len(b)
    BY <1>5, <1>6, <2>1 DEF LeftToDiscard, DoneEnd
  <2>3. discard' \in Nat /\ discard' >= 1 /\ LastByte - Len(stream') + discard' = EndOf(p)
    <3>1. PICK l : l = LengthOf(p)
      OBVIOUS
    <3>2. PICK len : len = Len(b)
      OBVIOUS
    <3>3. PICK rest : rest = Len(stream')
      OBVIOUS
    <3>4. /\ l \in Nat /\ l > Size /\ len \in Nat /\ len <= Size /\ rest \in Nat
          /\ DoneEnd + len + rest = LastByte
      BY <1>4, <1>5, <2>1, <3>1, <3>2, <3>3
    <3>5. l - len \in Nat /\ l - len >= 1 /\ (DoneEnd + len + rest) - rest + (l - len) = DoneEnd + l
      BY <1>num, <3>4, Missing
    <3>6. discard' = l - len /\ EndOf(p) = DoneEnd + l
      BY <1>5, <2>1, <2>2, <3>1, <3>2
    <3> QED BY <3>3, <3>4, <3>5, <3>6, Zenon
  <2>4. TypesOK'
    BY <1>4, <1>6, <2>3 DEF IInv, TypesOK
  <2>5. BytesFit'
    BY <1>3, <1>4, <1>5, <1>6, <2>1, <2>2, <2>3 DEF BytesFit
  <2>6. DoneInTurn' /\ RoomToReceive'
    BY <1>6 DEF IInv, DoneInTurn, RoomToReceive
  <2> QED BY <2>4, <2>5, <2>6 DEF IInv
<1>7. CASE /\ Complete(b) /\ done' = Append(done, Handled(b))
           /\ buffer' = SubSeq(b, LengthOf(FirstPacket(b)) + 1, Len(b))
           /\ loop' \in {"running", "failed"} /\ UNCHANGED discard
  <2>1. b # << >> /\ LengthOf(p) <= Size /\ LengthOf(p) <= Len(b)
    BY <1>4, <1>5, <1>7, <1>num DEF Complete, Oversized, LengthKnown
  <2>2. Handled(b) = [packet |-> p, how |-> "handled"]
    <3>1. PICK l : l = LengthOf(p)
      OBVIOUS
    <3>2. l \in Nat /\ l \in 0 .. Len(b)
      BY <1>4, <1>5, <2>1, <3>1
    <3>3. Follows(SubSeq(b, 1, l), DoneEnd) /\ Len(SubSeq(b, 1, l)) = l
      BY <1>4, <1>num, <3>2, FollowsCut
    <3>4. BytesOf(p) = [k \in 1 .. l |-> DoneEnd + k]
      <4>1. p - 1 = Len(done)
        BY <1>3, <1>num
      <4> QED BY <3>1, <4>1 DEF BytesOf, DoneEnd
    <3>5. Follows(BytesOf(p), DoneEnd) /\ Len(BytesOf(p)) = l /\ BytesOf(p) \in Seq(Nat)
      BY <1>num, <3>2, <3>4 DEF Follows
    <3>6. SubSeq(b, 1, l) = BytesOf(p)
      BY <3>3, <3>5, FollowsSame
    <3>7. SubSeq(BytesOf(p), 1, l) = BytesOf(p)
      <4>1. l \in 0 .. Len(BytesOf(p))
        BY <3>2, <3>5
      <4>2. Follows(SubSeq(BytesOf(p), 1, l), DoneEnd) /\ Len(SubSeq(BytesOf(p), 1, l)) = l
        BY <1>num, <3>5, <4>1, FollowsCut
      <4> QED BY <3>5, <4>2, FollowsSame
    <3>8. IsPrefix(BytesOf(p), b)
      BY <3>1, <3>5, <3>6, <3>7, <2>1 DEF IsPrefix
    <3> QED BY <1>5, <2>1, <3>8 DEF Handled
  <2>3. /\ done' \in Seq(Doings) /\ Len(done') = p /\ Len(done') <= Len(Ends)
        /\ DoneEnd' = EndOf(p) /\ DoneInTurn'
    <3>1. PICK how : how = "handled"
      OBVIOUS
    <3>2. how = IF LengthOf(Len(done) + 1) > Size THEN "discarded" ELSE "handled"
      BY <1>3, <1>5, <1>num, <2>1, <3>1
    <3>3. done' = Append(done, [packet |-> Len(done) + 1, how |-> how])
      BY <1>3, <1>7, <2>2, <3>1
    <3> QED BY <1>3, <1>5, <2>1, <3>2, <3>3, DoneWith
  <2>4. /\ Follows(buffer', DoneEnd') /\ Len(buffer') = Len(b) - LengthOf(p)
    <3>1. PICK l : l = LengthOf(p)
      OBVIOUS
    <3>2. l \in Nat /\ l \in 0 .. Len(b)
      BY <1>4, <1>5, <2>1, <3>1
    <3>3. buffer' = SubSeq(b, l + 1, Len(b))
      BY <1>5, <1>7, <2>1, <3>1
    <3>4. Follows(buffer', DoneEnd + l) /\ Len(buffer') = Len(b) - l
      BY <1>4, <1>num, <3>2, <3>3, FollowsCut
    <3> QED BY <1>5, <2>1, <2>3, <3>1, <3>4
  <2>5. /\ Len(buffer') \in Nat /\ Len(buffer') < Size
        /\ DoneEnd' + Len(buffer') + Len(stream') = LastByte
    <3>1. PICK l : l = LengthOf(p)
      OBVIOUS
    <3>2. PICK len : len = Len(b)
      OBVIOUS
    <3>3. PICK rest : rest = Len(stream')
      OBVIOUS
    <3>4. /\ l \in Nat /\ l >= 2 /\ len \in Nat /\ len <= Size /\ l <= len /\ rest \in Nat
          /\ DoneEnd + len + rest = LastByte
      BY <1>4, <1>5, <2>1, <3>1, <3>2, <3>3
    <3>5. /\ len - l \in Nat /\ len - l < Size /\ (DoneEnd + l) + (len - l) + rest = DoneEnd + len + rest
      BY <1>num, <3>4, Remaining
    <3>6. DoneEnd' = DoneEnd + l /\ Len(buffer') = len - l
      BY <1>5, <2>1, <2>3, <2>4, <3>1, <3>2
    <3>7. Len(buffer') \in Nat /\ Len(buffer') < Size
      BY <3>5, <3>6
    <3>8. DoneEnd' + Len(buffer') + Len(stream') = (DoneEnd + l) + (len - l) + rest
      BY <3>3, <3>6
    <3> QED BY <3>4, <3>5, <3>7, <3>8, Zenon
  <2>6. TypesOK'
    <3>1. Len(buffer') <= Size
      BY <1>num, <2>5
    <3>2. loop' \in {"running", "discarding", "failed"} /\ discard' \in Nat
      BY <1>7, <1>num
    <3> QED BY <1>4, <2>3, <3>1, <3>2, Zenon DEF TypesOK
  <2>7. BytesFit'
    BY <1>4, <1>7, <2>4, <2>5 DEF BytesFit
  <2>8. RoomToReceive'
    BY <2>5 DEF RoomToReceive
  <2> QED BY <2>3, <2>6, <2>7, <2>8 DEF IInv
<1>8. CASE ~Oversized(b) /\ ~Complete(b) /\ buffer' = b /\ UNCHANGED <<discard, loop, done>>
  <2>1. Len(b) < Size
    <3> SUFFICES ASSUME Len(b) = Size PROVE FALSE
      BY <1>4, <1>num, UpTo
    <3>1. b # << >>
      <4>1. Len(b) # 0
        BY <1>num
      <4> QED BY <4>1
    <3>2. LengthKnown(b)
      BY <1>4, <1>5, <1>num, <3>1 DEF LengthKnown
    <3>3. ~(LengthOf(p) > Size) /\ ~(LengthOf(p) <= Len(b))
      BY <1>5, <1>8, <3>1, <3>2 DEF Oversized, Complete
    <3> QED BY <1>4, <1>5, <1>num, <3>1, <3>3
  <2>2. DoneEnd' = DoneEnd
    BY <1>8 DEF DoneEnd
  <2>3. TypesOK'
    BY <1>1, <1>4, <1>8, <1>num DEF IInv, TypesOK
  <2>4. BytesFit'
    BY <1>1, <1>4, <1>8, <2>2 DEF BytesFit
  <2>5. DoneInTurn' /\ RoomToReceive'
    BY <1>8, <2>1 DEF IInv, DoneInTurn, RoomToReceive
  <2> QED BY <2>3, <2>4, <2>5 DEF IInv
<1> QED BY <1>2, <1>6, <1>7, <1>8 DEF Iterate

LEMMA DiscardKeepsIInv ==
  ASSUME IInv, NEW n \in 1 .. Size, Discard(n)
  PROVE  IInv'
<1>1. loop = "discarding" /\ n \in 1 .. ready /\ n <= discard /\ Receive(n) /\ discard' = discard - n
  BY DEF Discard
<1>num. /\ Len(stream) \in Nat /\ Len(done) \in Nat /\ Len(done) \in 0 .. Len(Ends)
        /\ DoneEnd \in Nat /\ LastByte \in Nat /\ discard \in Nat /\ Size \in Nat /\ Size >= 1
        /\ n \in Nat /\ n >= 1 /\ ready \in Nat /\ n \in 0 .. ready
        /\ Len(buffer) \in Nat /\ buffer \in Seq(Nat) /\ Len(Ends) \in Nat
  BY <1>1, Members, EndsAscend
<1>2. /\ Len(stream') = Len(stream) - n /\ Len(stream') \in Nat /\ Len(stream') <= LastByte
      /\ ready' \in 0 .. Len(stream') /\ Follows(stream', LastByte - Len(stream'))
  BY <1>1, <1>num, ReceiveFits
<1>3. PICK p : p = Len(done) + 1
  OBVIOUS
<1>4. /\ Len(done) < Len(Ends) /\ LengthOf(p) > Size /\ buffer # << >> /\ Follows(buffer, DoneEnd)
      /\ discard >= 1 /\ LastByte - Len(stream) + discard = EndOf(p)
  BY <1>1, <1>3 DEF IInv, BytesFit
<1>5. p \in DOMAIN Ends /\ p - 1 = Len(done) /\ EndOf(p) \in Nat
  <2>1. p \in 1 .. Len(Ends) /\ p \in 0 .. Len(Ends) /\ p - 1 = Len(done)
    BY <1>3, <1>4, <1>num
  <2> QED BY <2>1, EndsAscend
<1>6. FirstPacket(buffer) = p
  <2>1. Head(buffer) = buffer[1] /\ 1 \in DOMAIN buffer
    BY <1>4, <1>num
  <2>2. Head(buffer) = EndOf(p - 1) + 1
    BY <1>4, <1>5, <2>1 DEF Follows, DoneEnd
  <2> QED BY <1>5, <1>num, <2>2, FirstPacketIs
<1>7. CASE /\ discard = n
           /\ done' = Append(done, [packet |-> FirstPacket(buffer), how |-> "discarded"])
           /\ buffer' = << >> /\ loop' = "running"
  <2>1. /\ done' \in Seq(Doings) /\ Len(done') = p /\ Len(done') <= Len(Ends)
        /\ DoneEnd' = EndOf(p) /\ DoneInTurn'
    <3>1. PICK how : how = "discarded"
      OBVIOUS
    <3>2. how = IF LengthOf(Len(done) + 1) > Size THEN "discarded" ELSE "handled"
      BY <1>3, <1>4, <3>1
    <3>3. done' = Append(done, [packet |-> Len(done) + 1, how |-> how])
      BY <1>3, <1>6, <1>7, <3>1
    <3> QED BY <1>3, <1>4, <3>2, <3>3, DoneWith
  <2>2. Len(buffer') = 0 /\ Follows(buffer', DoneEnd')
    BY <1>7, FollowsNothing
  <2>3. DoneEnd' + Len(buffer') + Len(stream') = LastByte
    BY <1>2, <1>4, <1>5, <1>7, <1>num, <2>1, <2>2
  <2>4. TypesOK'
    <3>1. discard' \in Nat /\ Len(buffer') <= Size
      BY <1>1, <1>7, <1>num, <2>2
    <3> QED BY <1>2, <1>7, <2>1, <3>1 DEF TypesOK
  <2>5. BytesFit'
    BY <1>2, <1>7, <2>2, <2>3 DEF BytesFit
  <2>6. RoomToReceive'
    BY <1>num, <2>2 DEF RoomToReceive
  <2> QED BY <2>1, <2>4, <2>5, <2>6 DEF IInv
<1>8. CASE discard # n /\ UNCHANGED <<buffer, loop, done>>
  <2>1. DoneEnd' = DoneEnd
    BY <1>8 DEF DoneEnd
  <2>2. discard' \in Nat /\ discard' >= 1 /\ LastByte - Len(stream') + discard' = EndOf(p)
    BY <1>1, <1>2, <1>4, <1>8, <1>num
  <2>3. TypesOK'
    BY <1>2, <1>8, <2>2 DEF IInv, TypesOK
  <2>4. BytesFit'
    BY <1>1, <1>2, <1>3, <1>4, <1>8, <2>1, <2>2 DEF BytesFit
  <2>5. DoneInTurn' /\ RoomToReceive'
    BY <1>8 DEF IInv, DoneInTurn, RoomToReceive
  <2> QED BY <2>3, <2>4, <2>5 DEF IInv
<1> QED BY <1>7, <1>8 DEF Discard

(* Failures leave the bytes where they are; discardStoredPacket also drops *)
(* what it had in the buffer.                                              *)
LEMMA FailureKeepsIInv ==
  ASSUME IInv, ReceiveFails \/ DiscardFails
  PROVE  IInv'
<1>1. /\ loop' = "failed" /\ UNCHANGED <<stream, ready, done>>
      /\ \/ UNCHANGED <<buffer, discard>>
         \/ discard' = 0 /\ buffer' = << >>
  BY DEF ReceiveFails, DiscardFails
<1>2. DoneEnd' = DoneEnd
  BY <1>1 DEF DoneEnd
<1>3. Follows(buffer', DoneEnd')
  BY <1>1, <1>2, FollowsNothing DEF IInv, BytesFit
<1>4. TypesOK'
  <2>1. Len(buffer') <= Size /\ discard' \in Nat
    <3>1. Len(<< >>) <= Size
      BY Members
    <3> QED BY <1>1, <3>1 DEF IInv, TypesOK
  <2> QED BY <1>1, <2>1 DEF IInv, TypesOK
<1>5. BytesFit'
  BY <1>1, <1>3 DEF IInv, BytesFit
<1>6. DoneInTurn' /\ RoomToReceive'
  BY <1>1 DEF IInv, DoneInTurn, RoomToReceive
<1> QED BY <1>4, <1>5, <1>6 DEF IInv

LEMMA BytesArriveKeepsIInv ==
  ASSUME IInv, BytesArrive
  PROVE  IInv'
<1>1. UNCHANGED <<stream, buffer, discard, loop, done>> /\ ready' \in ready + 1 .. Len(stream)
  BY DEF BytesArrive
<1>2. ready' \in 0 .. Len(stream')
  BY <1>1, Members
<1>3. TypesOK'
  BY <1>1, <1>2 DEF IInv, TypesOK
<1>4. BytesFit'
  BY <1>1 DEF IInv, BytesFit, DoneEnd
<1>5. DoneInTurn' /\ RoomToReceive'
  BY <1>1 DEF IInv, DoneInTurn, RoomToReceive
<1> QED BY <1>3, <1>4, <1>5 DEF IInv

(* MQTT_Connect starts afresh.                                             *)
LEMMA ReconnectKeepsIInv == Reconnect => IInv'
<1>1. Reconnect => Init'
  BY DEF Reconnect, Init, BufferAfterConnect
<1>2. Init' => IInv'
  BY InitIInv, PTL
<1> QED BY <1>1, <1>2

LEMMA NextKeepsIInv == IInv /\ [Next]_vars => IInv'
<1> SUFFICES ASSUME IInv, [Next]_vars PROVE IInv'
  OBVIOUS
<1>1. CASE BytesArrive
  BY <1>1, BytesArriveKeepsIInv
<1>2. CASE \E n \in 0 .. Size : Iterate(n)
  BY <1>2, IterateKeepsIInv
<1>3. CASE ReceiveFails \/ DiscardFails
  BY <1>3, FailureKeepsIInv
<1>4. CASE \E n \in 1 .. Size : Discard(n)
  BY <1>4, DiscardKeepsIInv
<1>5. CASE Reconnect
  BY <1>5, ReconnectKeepsIInv
<1>6. CASE UNCHANGED vars
  BY <1>6 DEF vars, IInv, TypesOK, BytesFit, DoneInTurn, RoomToReceive, DoneEnd
<1> QED BY <1>1, <1>2, <1>3, <1>4, <1>5, <1>6 DEF Next

-----------------------------------------------------------------------------
(* Theorems                                                                *)

(* The bytes in the buffer and those to come are where the packets done    *)
(* with end, and what is discarded ends where its packet ends.             *)
THEOREM Invariance == Spec => []IInv
<1> QED BY InitIInv, NextKeepsIInv, PTL DEF Spec

(* receiveSingleIteration always has room to receive.                      *)
THEOREM RoomHolds == Spec => []RoomToReceive
<1>1. IInv => RoomToReceive
  BY DEF IInv
<1> QED BY <1>1, Invariance, PTL

(* receiveSingleIteration handles each packet once, in its turn and from   *)
(* its own bytes, and discards it just if it does not fit the buffer.      *)
THEOREM TurnsHold == Spec => []DoneInTurn
<1>1. IInv => DoneInTurn
  BY DEF IInv
<1> QED BY <1>1, Invariance, PTL

(* The front of the buffer is the front of a packet, in whatever pieces    *)
(* the transport returns the stream.                                       *)
THEOREM FramingHolds == Spec => []FramingOK
<1>1. IInv => FramingOK
  <2> SUFFICES ASSUME IInv, loop = "running"
               PROVE  /\ Len(done) <= Len(Ends)
                      /\ buffer \o stream = SubSeq(Stream, DoneEnd + 1, Len(Stream))
    BY DEF FramingOK, DoneEnd
  <2>1. Len(done) <= Len(Ends)
    BY DEF IInv, TypesOK
  <2>num. /\ Len(stream) \in Nat /\ Len(buffer) \in Nat /\ DoneEnd \in Nat /\ LastByte \in Nat
          /\ DoneEnd \in 0 .. LastByte
    BY Members
  <2>2. /\ Follows(buffer, DoneEnd) /\ Follows(stream, LastByte - Len(stream))
        /\ DoneEnd + Len(buffer) + Len(stream) = LastByte
    BY DEF IInv, BytesFit
  <2>3. LastByte - Len(stream) = DoneEnd + Len(buffer)
    BY <2>2, <2>num
  <2>4. Follows(buffer \o stream, DoneEnd) /\ Len(buffer \o stream) = Len(buffer) + Len(stream)
    BY <2>2, <2>3, <2>num, FollowsConcat
  <2>5. /\ Follows(SubSeq(Stream, DoneEnd + 1, Len(Stream)), 0 + DoneEnd)
        /\ Len(SubSeq(Stream, DoneEnd + 1, Len(Stream))) = Len(Stream) - DoneEnd
    BY <2>num, StreamFollows, FollowsCut
  <2>6. 0 + DoneEnd = DoneEnd /\ Len(Stream) - DoneEnd = Len(buffer) + Len(stream)
    BY <2>2, <2>num, StreamFollows
  <2> QED BY <2>1, <2>4, <2>5, <2>6, FollowsSame
<1> QED BY <1>1, Invariance, PTL

(* Every variable has its type; the bytes to come are the end of the       *)
(* stream.                                                                 *)
THEOREM TypeCorrect == Spec => []TypeOK
<1>1. IInv => TypeOK
  <2> SUFFICES ASSUME IInv PROVE TypeOK
    OBVIOUS
  <2>num. Len(stream) \in Nat /\ stream \in Seq(Nat) /\ LastByte \in Nat
    BY Members
  <2>1. Len(stream) <= LastByte /\ Follows(stream, LastByte - Len(stream))
    BY DEF IInv, BytesFit
  <2>2. Stream \in Seq(Nat) /\ Len(Stream) = LastByte /\ \A k \in 1 .. LastByte : Stream[k] = k
    BY <2>num DEF Stream, LastByte
  <2>3. PICK s : s = Reverse(stream)
    OBVIOUS
  <2>4. PICK t : t = Reverse(Stream)
    OBVIOUS
  <2>5. PICK l : l = Len(stream)
    OBVIOUS
  <2>6. s \in Seq(Nat) /\ Len(s) = l /\ \A k \in 1 .. l : s[k] = LastByte - k + 1
    <3>1. s = [k \in 1 .. l |-> stream[(l - k) + 1]]
      BY <2>3, <2>5 DEF Reverse
    <3>2. ASSUME NEW k \in 1 .. l
          PROVE  stream[(l - k) + 1] = LastByte - k + 1 /\ LastByte - k + 1 \in Nat
      <4>1. (l - k) + 1 \in DOMAIN stream
        BY <2>5, <2>num
      <4>2. stream[(l - k) + 1] = (LastByte - l) + ((l - k) + 1)
        BY <2>1, <2>5, <4>1 DEF Follows
      <4> QED BY <2>1, <2>5, <2>num, <4>2
    <3> QED BY <2>5, <2>num, <3>1, <3>2
  <2>7. t \in Seq(Nat) /\ Len(t) = LastByte /\ \A k \in 1 .. LastByte : t[k] = LastByte - k + 1
    <3>1. t = [k \in 1 .. LastByte |-> Stream[(LastByte - k) + 1]]
      BY <2>2, <2>4 DEF Reverse
    <3>2. ASSUME NEW k \in 1 .. LastByte
          PROVE  Stream[(LastByte - k) + 1] = LastByte - k + 1 /\ LastByte - k + 1 \in Nat
      BY <2>2, <2>num
    <3> QED BY <2>num, <3>1, <3>2
  <2>8. IsSuffix(stream, Stream)
    <3>1. l \in Nat /\ l <= LastByte
      BY <2>1, <2>5, <2>num
    <3>2. SubSeq(s, 1, l) = SubSeq(t, 1, l)
      BY <2>6, <2>7, <2>num, <3>1
    <3> QED BY <2>3, <2>4, <2>6, <2>7, <3>1, <3>2 DEF IsSuffix, IsPrefix
  <2>9. \A k \in DOMAIN done : done[k] \in Doings
    BY Members
  <2> QED BY <2>8, <2>9 DEF IInv, TypesOK, TypeOK, Doings
<1> QED BY <1>1, Invariance, PTL

-----------------------------------------------------------------------------
(* The remaining length                                                    *)

LEMMA Divided ==
  ASSUME NEW n \in Nat
  PROVE  /\ n \div 128 \in Nat /\ n % 128 \in 0 .. 127 /\ n = (n \div 128) * 128 + (n % 128)
         /\ n < 128 <=> n \div 128 = 0
         /\ n < 16384 <=> n \div 128 < 128
         /\ n < 2097152 <=> n \div 128 < 16384
         /\ n < 268435456 <=> n \div 128 < 2097152
BY SMT

(* The bytes of a length of one, two, three and four bytes.                *)
One(n) == <<n>>
Two(n) == <<128 + (n % 128), n \div 128>>
Three(n) == <<128 + (n % 128), 128 + ((n \div 128) % 128), (n \div 128) \div 128>>
Four(n) == <<128 + (n % 128), 128 + ((n \div 128) % 128), 128 + (((n \div 128) \div 128) % 128),
             ((n \div 128) \div 128) \div 128>>
Bytes(n) == IF EncodedSize(n) = 1 THEN One(n) ELSE IF EncodedSize(n) = 2 THEN Two(n)
            ELSE IF EncodedSize(n) = 3 THEN Three(n) ELSE Four(n)

LEMMA MaxIsNat == MaxRemainingLength \in Nat
BY SMT DEF MaxRemainingLength

LEMMA FourBytes ==
  ASSUME NEW n \in Nat, n <= MaxRemainingLength
  PROVE  n < 268435456
BY SMT DEF MaxRemainingLength

LEMMA SizeOf ==
  ASSUME NEW n \in Nat, n <= MaxRemainingLength
  PROVE  /\ EncodedSize(n) \in 1 .. 4
         /\ EncodedSize(n) = 1 <=> n < 128
         /\ n \div 128 \in Nat /\ n \div 128 <= MaxRemainingLength
         /\ n >= 128 => EncodedSize(n \div 128) = EncodedSize(n) - 1
BY Divided, SMT DEF EncodedSize, MaxRemainingLength

LEMMA BytesStep ==
  ASSUME NEW n \in Nat, n <= MaxRemainingLength, n >= 128
  PROVE  Bytes(n) = <<128 + (n % 128)>> \o Bytes(n \div 128)
<1>1. CASE EncodedSize(n) = 2
  <2>1. EncodedSize(n \div 128) = 1
    BY <1>1, SizeOf, SMT
  <2> QED BY <1>1, <2>1 DEF Bytes, One, Two
<1>2. CASE EncodedSize(n) = 3
  <2>1. EncodedSize(n \div 128) = 2
    BY <1>2, SizeOf, SMT
  <2> QED BY <1>2, <2>1 DEF Bytes, Three, Two
<1>3. CASE EncodedSize(n) = 4
  <2>1. EncodedSize(n \div 128) = 3
    BY <1>3, SizeOf, SMT
  <2> QED BY <1>3, <2>1 DEF Bytes, Three, Four
<1> QED BY <1>1, <1>2, <1>3, SizeOf, SMT

LEMMA EncodeIs ==
  Encode = [length \in 0 .. MaxRemainingLength |->
              IF length < 128 THEN <<length>> ELSE <<128 + (length % 128)>> \o Encode[length \div 128]]
<1> DEFINE f == [n \in 0 .. MaxRemainingLength |-> Bytes(n)]
<1>0. MaxRemainingLength \in Nat
  BY MaxIsNat
<1>1. ASSUME NEW n \in 0 .. MaxRemainingLength
      PROVE  f[n] = IF n < 128 THEN <<n>> ELSE <<128 + (n % 128)>> \o f[n \div 128]
  <2>1. n \in Nat /\ n <= MaxRemainingLength /\ f[n] = Bytes(n)
    BY <1>0, SMT
  <2>2. CASE n < 128
    BY <2>1, <2>2, SizeOf, SMT DEF Bytes, One
  <2>3. CASE n >= 128
    <3>1. n \div 128 \in 0 .. MaxRemainingLength
      BY <1>0, <2>1, SizeOf, SMT
    <3>2. f[n \div 128] = Bytes(n \div 128)
      BY <3>1, Zenon
    <3> HIDE DEF f
    <3>3. f[n] = <<128 + (n % 128)>> \o f[n \div 128]
      BY <2>1, <2>3, <3>2, BytesStep, Zenon
    <3> QED BY <2>1, <2>3, <3>3, SMT
  <2> QED BY <2>1, <2>2, <2>3, SMT
<1>2. f = [n \in 0 .. MaxRemainingLength |->
             IF n < 128 THEN <<n>> ELSE <<128 + (n % 128)>> \o f[n \div 128]]
  <2> DEFINE g == [n \in 0 .. MaxRemainingLength |->
             IF n < 128 THEN <<n>> ELSE <<128 + (n % 128)>> \o f[n \div 128]]
  <2>1. \A n \in 0 .. MaxRemainingLength : f[n] = g[n]
    <3> HIDE DEF f
    <3> QED BY <1>1, Zenon
  <2> QED BY <2>1, Zenon
<1> HIDE DEF f
<1> QED BY <1>2, Zenon DEF Encode

LEMMA EncodeBytes ==
  ASSUME NEW n \in 0 .. MaxRemainingLength
  PROVE  Encode[n] = Bytes(n)
<1>0. MaxRemainingLength \in Nat
  BY MaxIsNat
<1>1. ASSUME NEW k \in 0 .. MaxRemainingLength
      PROVE  /\ k \in Nat /\ k <= MaxRemainingLength /\ k \div 128 \in 0 .. MaxRemainingLength
             /\ k < 128 => Encode[k] = <<k>>
             /\ k >= 128 => Encode[k] = <<128 + (k % 128)>> \o Encode[k \div 128]
  <2>1. k \in Nat /\ k <= MaxRemainingLength /\ k \div 128 \in 0 .. MaxRemainingLength
    BY <1>0, SizeOf, SMT
  <2>2. Encode[k] = IF k < 128 THEN <<k>> ELSE <<128 + (k % 128)>> \o Encode[k \div 128]
    BY EncodeIs, Zenon
  <2>3. CASE k < 128
    BY <2>1, <2>2, <2>3, SMT
  <2>4. CASE k >= 128
    <3>1. ~(k < 128)
      BY <2>1, <2>4, SMT
    <3> QED BY <2>1, <2>2, <3>1, Zenon
  <2> QED BY <2>1, <2>3, <2>4, SMT
<1>2. ASSUME NEW k \in 0 .. MaxRemainingLength, EncodedSize(k) = 1
      PROVE  Encode[k] = Bytes(k)
  <2>1. k < 128
    BY <1>1, <1>2, SizeOf, SMT
  <2>2. Bytes(k) = <<k>>
    BY <1>2, SMT DEF Bytes, One
  <2> QED BY <1>1, <2>1, <2>2, Zenon
<1>3. ASSUME NEW k \in 0 .. MaxRemainingLength, NEW l \in 1 .. 3, EncodedSize(k) = l + 1,
             \A j \in 0 .. MaxRemainingLength : EncodedSize(j) = l => Encode[j] = Bytes(j)
      PROVE  Encode[k] = Bytes(k)
  <2>1. k >= 128
    BY <1>1, <1>3, SizeOf, SMT
  <2>2. EncodedSize(k \div 128) = l
    BY <1>1, <1>3, <2>1, SizeOf, SMT
  <2>3. Encode[k \div 128] = Bytes(k \div 128)
    BY <1>1, <1>3, <2>2, Zenon
  <2> QED BY <1>1, <2>1, <2>3, BytesStep, Zenon
<1>4. \A k \in 0 .. MaxRemainingLength : EncodedSize(k) = 2 => Encode[k] = Bytes(k)
  BY <1>2, <1>3, SMT
<1>5. \A k \in 0 .. MaxRemainingLength : EncodedSize(k) = 3 => Encode[k] = Bytes(k)
  BY <1>4, <1>3, SMT
<1>6. \A k \in 0 .. MaxRemainingLength : EncodedSize(k) = 4 => Encode[k] = Bytes(k)
  BY <1>5, <1>3, SMT
<1> QED BY <1>1, <1>2, <1>4, <1>5, <1>6, SizeOf, SMT

(* One turn of the loop of processRemainingLength.                         *)
Turn(bytes, d, s, g) ==
  IF d = 4 THEN BadResponse
  ELSE IF d = Len(bytes) THEN NeedMoreBytes
  ELSE LET byte == bytes[d + 1]
           length == s + (byte % 128) * Multiplier[d + 1]
       IN IF byte >= 128 THEN g[d + 1][length]
          ELSE IF EncodedSize(length) = d + 1 THEN Found(length, d + 1) ELSE BadResponse

LEMMA TurnReads ==
  ASSUME NEW bytes, NEW d \in 0 .. 4, NEW s, NEW g, NEW h, d # 4 => g[d + 1] = h[d + 1]
  PROVE  Turn(bytes, d, s, g) = Turn(bytes, d, s, h)
<1>1. CASE d = 4
  BY <1>1, Zenon DEF Turn
<1>2. CASE d # 4
  <2>1. g[d + 1] = h[d + 1]
    BY <1>2
  <2> QED BY <2>1, Zenon DEF Turn
<1> QED BY <1>1, <1>2

Row(bytes, d, g) == [s \in Nat |-> Turn(bytes, d, s, g)]

LEMMA RowReads ==
  ASSUME NEW bytes, NEW d \in 0 .. 4, NEW g, NEW h, d # 4 => g[d + 1] = h[d + 1]
  PROVE  Row(bytes, d, g) = Row(bytes, d, h)
<1>1. ASSUME NEW s \in Nat PROVE Turn(bytes, d, s, g) = Turn(bytes, d, s, h)
  BY TurnReads
<1> QED BY <1>1, Zenon DEF Row

(* g does so from the turn d on.                                           *)
Solves(bytes, g, d) == \A k \in d .. 4 : g[k] = Row(bytes, k, g)

LEMMA SolvedOneMore ==
  ASSUME NEW bytes, NEW g, NEW d \in 0 .. 3, Solves(bytes, g, d + 1)
  PROVE  \E h : Solves(bytes, h, d)
<1> DEFINE h == [k \in 0 .. 4 |-> IF k = d THEN Row(bytes, d, g) ELSE g[k]]
<1>1. h[d] = Row(bytes, d, g)
  <2>1. d \in 0 .. 4
    BY SMT
  <2> QED BY <2>1, Zenon
<1>2. \A k \in d + 1 .. 4 : h[k] = g[k]
  <2>1. \A k \in d + 1 .. 4 : k \in 0 .. 4 /\ k # d
    BY SMT
  <2> QED BY <2>1, Zenon
<1> HIDE DEF h
<1>3. ASSUME NEW k \in d .. 4 PROVE h[k] = Row(bytes, k, h)
  <2>1. k \in 0 .. 4 /\ (k # 4 => k + 1 \in d + 1 .. 4)
    BY SMT
  <2>2. Row(bytes, k, g) = Row(bytes, k, h)
    BY <1>2, <2>1, RowReads
  <2>3. h[k] = Row(bytes, k, g)
    <3>1. CASE k = d
      BY <1>1, <3>1
    <3>2. CASE k # d
      <4>1. k \in d + 1 .. 4
        BY <3>2, SMT
      <4> QED BY <1>2, <4>1 DEF Solves
    <3> QED BY <3>1, <3>2
  <2> QED BY <2>2, <2>3
<1> QED BY <1>3 DEF Solves

LEMMA DecodeIs ==
  ASSUME NEW bytes
  PROVE  \E g : /\ \A d \in 0 .. 4, s \in Nat : g[d][s] = Turn(bytes, d, s, g)
                /\ ProcessRemainingLength(bytes) = g[0][0]
<1>1. \E h : Solves(bytes, h, 4)
  <2> DEFINE h == [k \in 4 .. 4 |-> [s \in Nat |-> BadResponse]]
  <2>1. ASSUME NEW k \in 4 .. 4 PROVE h[k] = Row(bytes, k, h)
    <3>1. k = 4
      BY SMT
    <3>2. h[k] = [s \in Nat |-> BadResponse]
      BY Zenon
    <3> HIDE DEF h
    <3>3. \A s \in Nat : Turn(bytes, k, s, h) = BadResponse
      BY <3>1, Zenon DEF Turn
    <3> QED BY <3>2, <3>3, Zenon DEF Row
  <2> QED BY <2>1 DEF Solves
<1>2. \E h : Solves(bytes, h, 3)
  <2>1. 3 \in 0 .. 3 /\ 3 + 1 = 4
    BY SMT
  <2> QED BY <1>1, <2>1, SolvedOneMore
<1>3. \E h : Solves(bytes, h, 2)
  <2>1. 2 \in 0 .. 3 /\ 2 + 1 = 3
    BY SMT
  <2> QED BY <1>2, <2>1, SolvedOneMore
<1>4. \E h : Solves(bytes, h, 1)
  <2>1. 1 \in 0 .. 3 /\ 1 + 1 = 2
    BY SMT
  <2> QED BY <1>3, <2>1, SolvedOneMore
<1>5. PICK h : Solves(bytes, h, 0)
  <2>1. 0 \in 0 .. 3 /\ 0 + 1 = 1
    BY SMT
  <2> QED BY <1>4, <2>1, SolvedOneMore
<1> DEFINE f == [d \in 0 .. 4 |-> h[d]]
<1>6. \A d \in 0 .. 4 : f[d] = h[d]
  BY Zenon
<1> HIDE DEF f
<1>8. ASSUME NEW d \in 0 .. 4 PROVE h[d] = Row(bytes, d, f)
  <2>1. d # 4 => d + 1 \in 0 .. 4
    BY SMT
  <2>2. Row(bytes, d, h) = Row(bytes, d, f)
    BY <1>6, <2>1, RowReads
  <2> QED BY <1>5, <2>2 DEF Solves
<1>9. f = [d \in 0 .. 4 |-> Row(bytes, d, f)]
  <2> DEFINE g == [d \in 0 .. 4 |-> Row(bytes, d, f)]
  <2>1. \A d \in 0 .. 4 : h[d] = g[d]
    BY <1>8, Zenon
  <2> HIDE DEF g
  <2>2. f = [d \in 0 .. 4 |-> g[d]]
    BY <2>1, Zenon DEF f
  <2> QED BY <2>2, Zenon DEF g
<1>10. PICK g : /\ g = [d \in 0 .. 4 |-> [s \in Nat |-> Turn(bytes, d, s, g)]]
                /\ ProcessRemainingLength(bytes) = g[0][0]
  BY <1>9, Zenon DEF ProcessRemainingLength, Turn, Row
<1>11. ASSUME NEW d \in 0 .. 4, NEW s \in Nat PROVE g[d][s] = Turn(bytes, d, s, g)
  <2>1. g[d] = [z \in Nat |-> Turn(bytes, d, z, g)]
    BY <1>10, Zenon
  <2> QED BY <2>1, Zenon
<1> QED BY <1>10, <1>11

LEMMA Multipliers ==
  Multiplier[1] = 1 /\ Multiplier[2] = 128 /\ Multiplier[3] = 16384 /\ Multiplier[4] = 2097152
BY SMT DEF Multiplier

(* What the first k bytes add up to.                                       *)
Sum(b, k) ==
  IF k = 0 THEN 0
  ELSE IF k = 1 THEN b[1] % 128
  ELSE IF k = 2 THEN (b[1] % 128) + (b[2] % 128) * 128
  ELSE IF k = 3 THEN (b[1] % 128) + (b[2] % 128) * 128 + (b[3] % 128) * 16384
  ELSE (b[1] % 128) + (b[2] % 128) * 128 + (b[3] % 128) * 16384 + (b[4] % 128) * 2097152

LEMMA SumStep ==
  ASSUME NEW b \in Seq(0 .. 255), NEW k \in 0 .. 3, k < Len(b)
  PROVE  /\ k + 1 \in DOMAIN b /\ b[k + 1] \in 0 .. 255
         /\ Sum(b, k) \in Nat
         /\ Sum(b, k + 1) = Sum(b, k) + (b[k + 1] % 128) * Multiplier[k + 1]
         /\ Sum(b, k + 1) \in Nat
<1>1. Len(b) \in Nat /\ DOMAIN b = 1 .. Len(b)
  OBVIOUS
<1>2. \A i \in 1 .. k + 1 : i \in DOMAIN b
  BY <1>1, SMT
<1>3. \A i \in 1 .. k + 1 : b[i] \in 0 .. 255 /\ b[i] % 128 \in Nat
  <2>1. \A i \in 1 .. k + 1 : b[i] \in 0 .. 255
    BY <1>1, <1>2, ElementOfSeq
  <2>2. \A x \in 0 .. 255 : x % 128 \in Nat
    BY SMT
  <2> QED BY <2>1, <2>2, Zenon
<1>4. CASE k = 0
  BY <1>2, <1>3, <1>4, Multipliers, SMT DEF Sum
<1>5. CASE k = 1
  BY <1>2, <1>3, <1>5, Multipliers, SMT DEF Sum
<1>6. CASE k = 2
  BY <1>2, <1>3, <1>6, Multipliers, SMT DEF Sum
<1>7. CASE k = 3
  <2>1. PICK x1 \in Nat, x2 \in Nat, x3 \in Nat, x4 \in Nat :
          x1 = b[1] % 128 /\ x2 = b[2] % 128 /\ x3 = b[3] % 128 /\ x4 = b[4] % 128
    BY <1>3, <1>7, SMT
  <2>2. Sum(b, 3) = x1 + x2 * 128 + x3 * 16384
    BY <2>1, SMT DEF Sum
  <2>3. Sum(b, 4) = x1 + x2 * 128 + x3 * 16384 + x4 * 2097152
    BY <2>1, SMT DEF Sum
  <2>4. Sum(b, 3) \in Nat /\ Sum(b, 4) \in Nat /\ Sum(b, 4) = Sum(b, 3) + x4 * 2097152
    BY <2>2, <2>3, SMT
  <2>5. k + 1 = 4 /\ 4 \in 1 .. k + 1
    BY <1>7, SMT
  <2>6. 4 \in DOMAIN b /\ b[4] \in 0 .. 255 /\ x4 = b[4] % 128 /\ Multiplier[4] = 2097152
    BY <1>2, <1>3, <2>1, <2>5, Multipliers
  <2>7. Sum(b, 4) = Sum(b, 3) + (b[4] % 128) * Multiplier[4]
    BY <2>4, <2>6, SMT
  <2> QED BY <1>7, <2>4, <2>5, <2>6, <2>7, SMT
<1> QED BY <1>4, <1>5, <1>6, <1>7, SMT

(* What is read, once k bytes that say that more follow have been read.    *)
ReadAt(bytes, k) ==
  IF k = 4 THEN BadResponse
  ELSE IF k = Len(bytes) THEN NeedMoreBytes
  ELSE IF EncodedSize(Sum(bytes, k + 1)) = k + 1 THEN Found(Sum(bytes, k + 1), k + 1) ELSE BadResponse

LEMMA ReadIs ==
  ASSUME NEW bytes \in Seq(0 .. 255), NEW k \in 0 .. 4, k <= Len(bytes),
         \A i \in 1 .. k : bytes[i] >= 128,
         k < 4 /\ k < Len(bytes) => bytes[k + 1] < 128
  PROVE  ProcessRemainingLength(bytes) = ReadAt(bytes, k)
<1>1. PICK g : /\ \A d \in 0 .. 4, s \in Nat : g[d][s] = Turn(bytes, d, s, g)
               /\ ProcessRemainingLength(bytes) = g[0][0]
  BY DecodeIs
<1>2. Len(bytes) \in Nat
  OBVIOUS
<1>3. ASSUME NEW d \in 0 .. 3, d < k
      PROVE  g[d][Sum(bytes, d)] = g[d + 1][Sum(bytes, d + 1)]
  <2>1. d < Len(bytes) /\ d \in 0 .. 4 /\ d # 4 /\ d # Len(bytes) /\ d + 1 \in 1 .. k
    BY <1>2, <1>3, SMT
  <2>2. bytes[d + 1] >= 128
    BY <2>1
  <2>3. /\ Sum(bytes, d) \in Nat
        /\ Sum(bytes, d + 1) = Sum(bytes, d) + (bytes[d + 1] % 128) * Multiplier[d + 1]
    BY <2>1, SumStep
  <2>4. g[d][Sum(bytes, d)] = Turn(bytes, d, Sum(bytes, d), g)
    BY <1>1, <2>1, <2>3
  <2> QED BY <2>1, <2>2, <2>3, <2>4, Zenon DEF Turn
<1>4. Sum(bytes, 0) = 0
  BY SMT DEF Sum
<1>5. g[0][0] = g[k][Sum(bytes, k)]
  <2>1. CASE k = 0
    BY <1>4, <2>1
  <2>2. 0 < k => g[0][0] = g[1][Sum(bytes, 1)]
    BY <1>3, <1>4, SMT
  <2>3. 1 < k => g[1][Sum(bytes, 1)] = g[2][Sum(bytes, 2)]
    BY <1>3, SMT
  <2>4. 2 < k => g[2][Sum(bytes, 2)] = g[3][Sum(bytes, 3)]
    BY <1>3, SMT
  <2>5. 3 < k => g[3][Sum(bytes, 3)] = g[4][Sum(bytes, 4)]
    BY <1>3, SMT
  <2> QED BY <2>1, <2>2, <2>3, <2>4, <2>5, SMT
<1>6. CASE k = 4
  <2>1. Sum(bytes, 4) \in Nat
    <3>1. 3 \in 0 .. 3 /\ 3 < Len(bytes) /\ 3 + 1 = 4
      BY <1>2, <1>6, SMT
    <3> QED BY <3>1, SumStep
  <2>2. g[4][Sum(bytes, 4)] = Turn(bytes, 4, Sum(bytes, 4), g)
    BY <1>1, <2>1, SMT
  <2> QED BY <1>1, <1>5, <1>6, <2>2, Zenon DEF Turn, ReadAt
<1>7. CASE k # 4
  <2>1. k \in 0 .. 3 /\ k < 4
    BY <1>7, SMT
  <2>2. CASE k = Len(bytes)
    <3>1. Sum(bytes, k) \in Nat
      <4>1. CASE k = 0
        BY <1>4, <4>1, SMT
      <4>2. CASE k # 0
        <5>1. k - 1 \in 0 .. 3 /\ k - 1 < Len(bytes) /\ (k - 1) + 1 = k
          BY <2>1, <2>2, <4>2, SMT
        <5> QED BY <5>1, SumStep
      <4> QED BY <4>1, <4>2
    <3>2. g[k][Sum(bytes, k)] = Turn(bytes, k, Sum(bytes, k), g)
      BY <1>1, <3>1
    <3> QED BY <1>1, <1>5, <1>7, <2>2, <3>2, Zenon DEF Turn, ReadAt
  <2>3. CASE k # Len(bytes)
    <3>1. k < Len(bytes)
      BY <1>2, <2>1, <2>3, SMT
    <3>2. /\ Sum(bytes, k) \in Nat /\ bytes[k + 1] \in 0 .. 255
          /\ Sum(bytes, k + 1) = Sum(bytes, k) + (bytes[k + 1] % 128) * Multiplier[k + 1]
      BY <2>1, <3>1, SumStep
    <3>3. ~(bytes[k + 1] >= 128)
      <4>1. bytes[k + 1] < 128
        BY <2>1, <3>1
      <4>2. \A x \in 0 .. 255 : x < 128 => ~(x >= 128)
        BY SMT
      <4> QED BY <3>2, <4>1, <4>2, Zenon
    <3>4. g[k][Sum(bytes, k)] = Turn(bytes, k, Sum(bytes, k), g)
      BY <1>1, <3>2
    <3> QED BY <1>1, <1>5, <1>7, <2>3, <3>2, <3>3, <3>4, Zenon DEF Turn, ReadAt
  <2> QED BY <2>2, <2>3
<1> QED BY <1>6, <1>7

(* The bytes of n say that more follow, but for the last of them, and add  *)
(* up to n.                                                                *)
LEMMA BytesAre ==
  ASSUME NEW n \in 0 .. MaxRemainingLength
  PROVE  /\ Bytes(n) \in Seq(0 .. 255)
         /\ Len(Bytes(n)) = EncodedSize(n)
         /\ \A i \in 1 .. EncodedSize(n) - 1 : Bytes(n)[i] >= 128
         /\ Bytes(n)[EncodedSize(n)] < 128
         /\ Sum(Bytes(n), EncodedSize(n)) = n
<1>1. n \in Nat /\ n <= MaxRemainingLength /\ EncodedSize(n) \in 1 .. 4
  BY MaxIsNat, SizeOf, SMT
<1>2. CASE EncodedSize(n) = 1
  <2>1. n < 128 /\ Bytes(n) = <<n>>
    BY <1>1, <1>2, SizeOf, SMT DEF Bytes, One
  <2> QED BY <1>1, <1>2, <2>1, SMT DEF Sum
<1>3. CASE EncodedSize(n) = 2
  <2>1. n < 16384 /\ Bytes(n) = <<128 + (n % 128), n \div 128>>
    BY <1>1, <1>3, SMT DEF Bytes, Two, EncodedSize
  <2> QED BY <1>1, <1>3, <2>1, SMT DEF Sum
<1>4. CASE EncodedSize(n) = 3
  <2>1. n < 2097152 /\ Bytes(n) = <<128 + (n % 128), 128 + ((n \div 128) % 128), (n \div 128) \div 128>>
    BY <1>1, <1>4, SMT DEF Bytes, Three, EncodedSize
  <2> QED BY <1>1, <1>4, <2>1, SMT DEF Sum
<1>5. CASE EncodedSize(n) = 4
  <2>0. n < 268435456
    BY <1>1, FourBytes
  <2>1. Bytes(n) = <<128 + (n % 128), 128 + ((n \div 128) % 128), 128 + (((n \div 128) \div 128) % 128),
             ((n \div 128) \div 128) \div 128>>
    BY <1>1, <1>5, SMT DEF Bytes, Four
  <2> QED BY <1>1, <1>5, <2>0, <2>1, SMT DEF Sum
<1> QED BY <1>1, <1>2, <1>3, <1>4, <1>5, SMT

(* Any length is written so that it is read back.                          *)
LEMMA RoundTrip ==
  ASSUME NEW n \in 0 .. MaxRemainingLength
  PROVE  /\ Len(Encode[n]) = EncodedSize(n)
         /\ ProcessRemainingLength(Encode[n]) = Found(n, Len(Encode[n]))
         /\ \A k \in 0 .. Len(Encode[n]) - 1 :
              ProcessRemainingLength(SubSeq(Encode[n], 1, k)) = NeedMoreBytes
<1>1. PICK c : c = Encode[n]
  OBVIOUS
<1>2. PICK m : m = EncodedSize(n)
  OBVIOUS
<1>3. /\ c \in Seq(0 .. 255) /\ Len(c) = m /\ Sum(c, m) = n /\ c[m] < 128
      /\ \A i \in 1 .. m - 1 : c[i] >= 128
  BY <1>1, <1>2, BytesAre, EncodeBytes, Zenon
<1>4. m \in 1 .. 4
  BY <1>2, MaxIsNat, SizeOf, SMT
<1>5. ProcessRemainingLength(c) = Found(n, m)
  <2>1. PICK k : k = m - 1
    OBVIOUS
  <2>2. k \in 0 .. 4 /\ k # 4 /\ k <= Len(c) /\ k # Len(c) /\ k + 1 = m
    BY <1>3, <1>4, <2>1, SMT
  <2>3. ProcessRemainingLength(c) = ReadAt(c, k)
    BY <1>3, <2>1, <2>2, ReadIs
  <2> QED BY <1>2, <1>3, <2>2, <2>3, Zenon DEF ReadAt
<1>6. ASSUME NEW k \in 0 .. m - 1
      PROVE  ProcessRemainingLength(SubSeq(c, 1, k)) = NeedMoreBytes
  <2>1. PICK p : p = SubSeq(c, 1, k)
    OBVIOUS
  <2>2. k \in 0 .. 4 /\ k # 4 /\ k <= m - 1 /\ k <= Len(c) /\ k \in Nat
    BY <1>3, <1>4, SMT
  <2>3. p \in Seq(0 .. 255) /\ Len(p) = k /\ \A i \in 1 .. k : p[i] = c[i]
    <3>1. \A i \in 1 .. k : c[i] \in 0 .. 255
      <4>1. \A i \in 1 .. k : i \in 1 .. Len(c)
        BY <1>3, <1>4, <2>2, SMT
      <4> QED BY <1>3, <4>1, ElementOfSeq
    <3>2. 1 \in Int /\ k \in Int /\ (IF 1 <= k THEN k - 1 + 1 ELSE 0) = k /\ k - 1 + 1 = k
      BY <2>2, SMT
    <3>3. /\ p \in Seq(0 .. 255) /\ Len(p) = IF 1 <= k THEN k - 1 + 1 ELSE 0
          /\ \A i \in 1 .. k - 1 + 1 : p[i] = c[1 + i - 1]
      BY <2>1, <3>1, <3>2, SubSeqProperties
    <3>4. \A i \in 1 .. k : 1 + i - 1 = i
      BY <2>2, SMT
    <3> QED BY <3>2, <3>3, <3>4, Zenon
  <2>4. \A i \in 1 .. k : i \in 1 .. m - 1
    BY <1>4, <2>2, SMT
  <2>5. \A i \in 1 .. k : p[i] >= 128
    BY <1>3, <2>3, <2>4
  <2>6. k <= Len(p) /\ ~(k < Len(p))
    BY <2>2, <2>3, SMT
  <2>7. ProcessRemainingLength(p) = ReadAt(p, k)
    BY <2>2, <2>3, <2>5, <2>6, ReadIs, Zenon
  <2> QED BY <2>1, <2>2, <2>3, <2>7, Zenon DEF ReadAt
<1>7. Len(Encode[n]) = m
  BY <1>1, <1>3, Zenon
<1> QED BY <1>1, <1>2, <1>3, <1>5, <1>6, <1>7, Zenon

(* A length by its groups of seven bits.                                   *)
Of2(x1, x2) == x1 + x2 * 128
Of3(x1, x2, x3) == x1 + x2 * 128 + x3 * 16384
Of4(x1, x2, x3, x4) == x1 + x2 * 128 + x3 * 16384 + x4 * 2097152

LEMMA Digit ==
  ASSUME NEW x \in Nat, NEW q \in Nat, x < 128, NEW n, n = x + q * 128
  PROVE  n \in Nat /\ n % 128 = x /\ n \div 128 = q
BY SMT

LEMMA Digits3 ==
  ASSUME NEW x1 \in Nat, NEW x2 \in Nat, NEW x3 \in Nat, x1 < 128, x2 < 128, x3 < 128,
         NEW n, n = Of3(x1, x2, x3)
  PROVE  n % 128 = x1 /\ (n \div 128) % 128 = x2 /\ (n \div 128) \div 128 = x3
<1>1. PICK q \in Nat : q = x2 + x3 * 128
  BY SMT
<1>2. n = x1 + q * 128
  BY <1>1, SMT DEF Of3
<1> QED BY <1>1, <1>2, Digit, SMT

LEMMA Digits4 ==
  ASSUME NEW x1 \in Nat, NEW x2 \in Nat, NEW x3 \in Nat, NEW x4 \in Nat,
         x1 < 128, x2 < 128, x3 < 128, x4 < 128,
         NEW n, n = Of4(x1, x2, x3, x4)
  PROVE  /\ n % 128 = x1 /\ (n \div 128) % 128 = x2
         /\ ((n \div 128) \div 128) % 128 = x3 /\ ((n \div 128) \div 128) \div 128 = x4
<1>1. PICK q \in Nat : q = Of3(x2, x3, x4)
  BY SMT DEF Of3
<1>2. n = x1 + q * 128
  BY <1>1, SMT DEF Of3, Of4
<1>3. n % 128 = x1 /\ n \div 128 = q
  BY <1>2, Digit, SMT
<1>4. q % 128 = x2 /\ (q \div 128) % 128 = x3 /\ (q \div 128) \div 128 = x4
  BY <1>1, Digits3, SMT
<1> QED BY <1>3, <1>4, SMT

LEMMA LowBits ==
  ASSUME NEW x \in Nat, x < 256
  PROVE  /\ x % 128 \in Nat /\ x % 128 < 128
         /\ x < 128 => x = x % 128
         /\ x >= 128 => x = 128 + (x % 128)
BY SMT

LEMMA LargestSum ==
  ASSUME NEW x1 \in Nat, NEW x2 \in Nat, NEW x3 \in Nat, NEW x4 \in Nat,
         x1 < 128, x2 < 128, x3 < 128, x4 < 128
  PROVE  /\ x1 <= MaxRemainingLength /\ Of2(x1, x2) <= MaxRemainingLength
         /\ Of3(x1, x2, x3) <= MaxRemainingLength
         /\ Of4(x1, x2, x3, x4) <= MaxRemainingLength
BY SMT DEF MaxRemainingLength, Of2, Of3, Of4

(* The bytes that are read as n are the bytes of n.                        *)
LEMMA SumIsWritten ==
  ASSUME NEW b \in Seq(0 .. 255), NEW m \in 1 .. 4, m <= Len(b),
         \A i \in 1 .. m - 1 : b[i] >= 128, b[m] < 128,
         EncodedSize(Sum(b, m)) = m
  PROVE  Sum(b, m) \in 0 .. MaxRemainingLength /\ SubSeq(b, 1, m) = Encode[Sum(b, m)]
<1>1. \A i \in 1 .. m : i \in 1 .. Len(b)
  BY SMT
<1>2. \A i \in 1 .. m : b[i] \in Nat /\ b[i] < 256
  <2>1. \A i \in 1 .. m : b[i] \in 0 .. 255
    BY <1>1, ElementOfSeq
  <2>2. \A y \in 0 .. 255 : y \in Nat /\ y < 256
    BY SMT
  <2> QED BY <2>1, <2>2, Zenon
<1>3. PICK n : n = Sum(b, m)
  OBVIOUS
<1>4. PICK x \in [1 .. 4 -> Nat] :
        /\ \A i \in 1 .. 4 : x[i] < 128
        /\ \A i \in 1 .. m : x[i] = b[i] % 128
        /\ \A i \in 1 .. m - 1 : b[i] = 128 + x[i]
        /\ b[m] = x[m]
  <2> DEFINE x == [i \in 1 .. 4 |-> IF i \in 1 .. m THEN b[i] % 128 ELSE 0]
  <2>1. \A i \in 1 .. m : i \in 1 .. 4 /\ b[i] % 128 \in Nat /\ b[i] % 128 < 128
    BY <1>2, LowBits, SMT
  <2>2. \A i \in 1 .. m : x[i] = b[i] % 128
    BY <2>1, Zenon
  <2>3. \A i \in 1 .. 4 : i \notin 1 .. m => x[i] = 0
    BY Zenon
  <2>4. x \in [1 .. 4 -> Nat]
    <3>1. \A i \in 1 .. 4 : (IF i \in 1 .. m THEN b[i] % 128 ELSE 0) \in Nat
      BY <2>1, SMT
    <3> QED BY <3>1, Zenon
  <2> HIDE DEF x
  <2>5. \A i \in 1 .. 4 : x[i] < 128
    <3>1. 0 < 128
      BY SMT
    <3> QED BY <2>1, <2>2, <2>3, <3>1, Zenon
  <2>6. \A i \in 1 .. m - 1 : i \in 1 .. m
    BY SMT
  <2>7. ASSUME NEW i \in 1 .. m - 1 PROVE b[i] = 128 + x[i]
    <3>1. b[i] \in Nat /\ b[i] < 256 /\ b[i] >= 128 /\ x[i] = b[i] % 128
      BY <1>2, <2>2, <2>6
    <3>2. b[i] = 128 + (b[i] % 128)
      BY <3>1, LowBits, Zenon
    <3> QED BY <3>1, <3>2, Zenon
  <2>9. b[m] = x[m]
    <3>1. m \in 1 .. m
      BY SMT
    <3>2. b[m] \in Nat /\ b[m] < 256 /\ x[m] = b[m] % 128
      BY <1>2, <2>2, <3>1
    <3>3. b[m] = b[m] % 128
      BY <3>2, LowBits, Zenon
    <3> QED BY <3>2, <3>3, Zenon
  <2> QED BY <2>2, <2>4, <2>5, <2>7, <2>9
<1>5. PICK x1 \in Nat, x2 \in Nat, x3 \in Nat, x4 \in Nat :
        /\ x1 = x[1] /\ x2 = x[2] /\ x3 = x[3] /\ x4 = x[4]
        /\ x1 < 128 /\ x2 < 128 /\ x3 < 128 /\ x4 < 128
  <2>1. 1 \in 1 .. 4 /\ 2 \in 1 .. 4 /\ 3 \in 1 .. 4 /\ 4 \in 1 .. 4
    BY SMT
  <2> QED BY <1>4, <2>1
<1>6. /\ m = 1 => n = x1
      /\ m = 2 => n = Of2(x1, x2)
      /\ m = 3 => n = Of3(x1, x2, x3)
      /\ m = 4 => n = Of4(x1, x2, x3, x4)
  <2>1. CASE m = 1
    BY <1>3, <1>4, <1>5, <2>1, SMT DEF Sum
  <2>2. CASE m = 2
    BY <1>3, <1>4, <1>5, <2>2, SMT DEF Sum, Of2
  <2>3. CASE m = 3
    BY <1>3, <1>4, <1>5, <2>3, SMT DEF Sum, Of3
  <2>4. CASE m = 4
    BY <1>3, <1>4, <1>5, <2>4, SMT DEF Sum, Of4
  <2> QED BY <2>1, <2>2, <2>3, <2>4, SMT
<1>7. n \in 0 .. MaxRemainingLength
  <2>1. n \in Nat
    BY <1>6, SMT DEF Of2, Of3, Of4
  <2>2. n <= MaxRemainingLength
    <3>1. /\ x1 <= MaxRemainingLength /\ Of2(x1, x2) <= MaxRemainingLength
          /\ Of3(x1, x2, x3) <= MaxRemainingLength
          /\ Of4(x1, x2, x3, x4) <= MaxRemainingLength
      BY <1>5, LargestSum, Zenon
    <3>2. m = 1 \/ m = 2 \/ m = 3 \/ m = 4
      BY SMT
    <3> QED BY <1>6, <3>1, <3>2, SMT
  <2> QED BY <2>1, <2>2, MaxIsNat, SMT
<1>8. PICK p : p = SubSeq(b, 1, m)
  OBVIOUS
<1>9. p \in Seq(0 .. 255) /\ Len(p) = m /\ \A i \in 1 .. m : p[i] = b[i]
  <2>1. \A i \in 1 .. m : b[i] \in 0 .. 255
    BY <1>1, ElementOfSeq
  <2>2. 1 \in Int /\ m \in Int /\ (IF 1 <= m THEN m - 1 + 1 ELSE 0) = m /\ m - 1 + 1 = m
    BY SMT
  <2>3. /\ p \in Seq(0 .. 255) /\ Len(p) = IF 1 <= m THEN m - 1 + 1 ELSE 0
        /\ \A i \in 1 .. m - 1 + 1 : p[i] = b[1 + i - 1]
    BY <1>8, <2>1, <2>2, SubSeqProperties
  <2>4. \A i \in 1 .. m : 1 + i - 1 = i
    BY SMT
  <2> QED BY <2>2, <2>3, <2>4, Zenon
<1>10. EncodedSize(n) = m
  BY <1>3
<1>11. \A i \in 1 .. m : b[i] = Bytes(n)[i]
  <2>1. CASE m = 1
    <3>1. Bytes(n) = <<n>> /\ n = x1
      BY <1>6, <1>10, <2>1, SMT DEF Bytes, One
    <3>2. b[1] = x1
      BY <1>4, <1>5, <2>1
    <3> QED BY <2>1, <3>1, <3>2, SMT
  <2>2. CASE m = 2
    <3>1. n % 128 = x1 /\ n \div 128 = x2
      BY <1>5, <1>6, <2>2, Digit, SMT DEF Of2
    <3>2. Bytes(n) = <<128 + x1, x2>>
      BY <1>10, <2>2, <3>1, SMT DEF Bytes, Two
    <3>3. b[1] = 128 + x1 /\ b[2] = x2
      BY <1>4, <1>5, <2>2, SMT
    <3> QED BY <2>2, <3>2, <3>3, SMT
  <2>3. CASE m = 3
    <3>1. n = Of3(x1, x2, x3)
      BY <1>6, <2>3
    <3>4. n % 128 = x1 /\ (n \div 128) % 128 = x2 /\ (n \div 128) \div 128 = x3
      BY <1>5, <3>1, Digits3
    <3>5. Bytes(n) = <<128 + x1, 128 + x2, x3>>
      <4>1. Bytes(n) = Three(n)
        BY <1>10, <2>3, SMT DEF Bytes
      <4> QED BY <3>4, <4>1, Zenon DEF Three
    <3>6. b[1] = 128 + x1 /\ b[2] = 128 + x2 /\ b[3] = x3
      BY <1>4, <1>5, <2>3, SMT
    <3> QED BY <2>3, <3>5, <3>6, SMT
  <2>4. CASE m = 4
    <3>1. n = Of4(x1, x2, x3, x4)
      BY <1>6, <2>4
    <3>6. /\ n % 128 = x1 /\ (n \div 128) % 128 = x2
          /\ ((n \div 128) \div 128) % 128 = x3 /\ ((n \div 128) \div 128) \div 128 = x4
      BY <1>5, <3>1, Digits4
    <3>7. Bytes(n) = <<128 + x1, 128 + x2, 128 + x3, x4>>
      <4>1. Bytes(n) = Four(n)
        BY <1>10, <2>4, SMT DEF Bytes
      <4> QED BY <3>6, <4>1, Zenon DEF Four
    <3>8. b[1] = 128 + x1 /\ b[2] = 128 + x2 /\ b[3] = 128 + x3 /\ b[4] = x4
      BY <1>4, <1>5, <2>4, SMT
    <3> QED BY <2>4, <3>7, <3>8, SMT
  <2> QED BY <2>1, <2>2, <2>3, <2>4, SMT
<1>12. Len(Bytes(n)) = m /\ Bytes(n) \in Seq(0 .. 255)
  BY <1>7, <1>10, BytesAre, Zenon
<1>13. p = Bytes(n)
  <2>1. \A i \in 1 .. Len(p) : p[i] = Bytes(n)[i]
    BY <1>9, <1>11, Zenon
  <2> QED BY <1>9, <1>12, <2>1, SeqEqual
<1> QED BY <1>3, <1>7, <1>8, <1>13, EncodeBytes, Zenon

(* How far the loop gets.                                                  *)
LEMMA Reached ==
  ASSUME NEW b \in Seq(0 .. 255)
  PROVE  \E k \in 0 .. 4 : /\ k <= Len(b)
                           /\ \A i \in 1 .. k : b[i] >= 128
                           /\ k < 4 /\ k < Len(b) => b[k + 1] < 128
<1> DEFINE P(k) == k <= Len(b) /\ \A i \in 1 .. k : b[i] >= 128
<1>1. Len(b) \in Nat
  OBVIOUS
<1>2. P(0)
  BY <1>1, SMT
<1>3. ASSUME NEW k \in 0 .. 3, P(k), ~P(k + 1)
      PROVE  k < Len(b) => b[k + 1] < 128
  <2>1. SUFFICES ASSUME k < Len(b) PROVE b[k + 1] < 128
    OBVIOUS
  <2>2. k + 1 \in 1 .. Len(b) /\ k + 1 <= Len(b)
    BY <1>1, <2>1, SMT
  <2>3. b[k + 1] \in 0 .. 255
    BY <2>2, ElementOfSeq
  <2>4. ~(b[k + 1] >= 128)
    <3>1. SUFFICES ASSUME b[k + 1] >= 128 PROVE P(k + 1)
      BY <1>3
    <3>2. \A i \in 1 .. k + 1 : i \in 1 .. k \/ i = k + 1
      BY SMT
    <3> QED BY <1>3, <2>2, <3>1, <3>2
  <2>5. \A x \in 0 .. 255 : ~(x >= 128) => x < 128
    BY SMT
  <2> QED BY <2>3, <2>4, <2>5
<1>4. PICK k \in 0 .. 4 : P(k) /\ (k < 4 => ~P(k + 1))
  <2> HIDE DEF P
  <2>1. CASE P(4)
    BY <2>1, SMT
  <2>2. CASE ~P(4)
    <3>1. (P(0) /\ ~P(1)) \/ (P(1) /\ ~P(2)) \/ (P(2) /\ ~P(3)) \/ (P(3) /\ ~P(4))
      BY <1>2, <2>2, Zenon
    <3> QED BY <3>1, SMT
  <2> QED BY <2>1, <2>2
<1>5. k < 4 => k \in 0 .. 3
  BY SMT
<1> QED BY <1>3, <1>4, <1>5

(* No other coding of a length is read.                                    *)
LEMMA OnlyWrittenIsRead ==
  ASSUME NEW b \in Seq(0 .. 255), ProcessRemainingLength(b).status = "Success"
  PROVE  StartsWith(b, ProcessRemainingLength(b).remainingLength)
<1>1. PICK k \in 0 .. 4 : /\ k <= Len(b)
                          /\ \A i \in 1 .. k : b[i] >= 128
                          /\ k < 4 /\ k < Len(b) => b[k + 1] < 128
  BY Reached
<1>2. ProcessRemainingLength(b) = ReadAt(b, k)
  BY <1>1, ReadIs
<1>3. BadResponse.status # "Success" /\ NeedMoreBytes.status # "Success"
  BY SMT DEF BadResponse, NeedMoreBytes
<1>4. /\ k # 4 /\ k # Len(b) /\ EncodedSize(Sum(b, k + 1)) = k + 1
      /\ ReadAt(b, k) = Found(Sum(b, k + 1), k + 1)
  BY <1>2, <1>3, Zenon DEF ReadAt
<1>5. ProcessRemainingLength(b).remainingLength = Sum(b, k + 1)
  <2>1. Found(Sum(b, k + 1), k + 1).remainingLength = Sum(b, k + 1)
    BY SMT DEF Found
  <2> QED BY <1>2, <1>4, <2>1, Zenon
<1>6. PICK m : m = k + 1
  OBVIOUS
<1>7. Len(b) \in Nat /\ DOMAIN b = 1 .. Len(b)
  OBVIOUS
<1>8. m \in 1 .. 4 /\ m <= Len(b) /\ m - 1 = k /\ m \in DOMAIN b /\ k < 4 /\ k < Len(b)
  <2>1. PICK l \in Nat : l = Len(b)
    BY <1>7
  <2>2. k <= l /\ k # l /\ k # 4
    BY <1>1, <1>4, <2>1
  <2>3. m \in 1 .. 4 /\ m <= l /\ m - 1 = k /\ m \in 1 .. l /\ k < 4 /\ k < l
    BY <1>6, <2>2, SMT
  <2> QED BY <1>7, <2>1, <2>3, Zenon
<1>9. SubSeq(b, 1, m) = Encode[Sum(b, m)]
  BY <1>1, <1>4, <1>6, <1>8, SumIsWritten
<1> QED BY <1>5, <1>6, <1>8, <1>9, Zenon DEF StartsWith

(* The limit of calculatePublishPacketSize, for a header of f bytes and a  *)
(* length that takes e.                                                    *)
LEMMA Limit ==
  ASSUME NEW max \in Nat, NEW f \in Nat, NEW payload \in Nat, NEW e \in 1 .. 4
  PROVE  IF payload <= max - f - 1 /\ payload <= max - f - 1 - e
         THEN f + payload <= max
         ELSE f + payload > max - 5
BY SMT

(* The size of a publish that is accepted is what is sent for it.          *)
LEMMA PublishFits ==
  ASSUME NEW topic \in 0 .. MaxTopicLength, NEW qos \in 0 .. 2, NEW payload \in Nat
  PROVE  LET packet == PublishPacketSize(topic, qos, payload)
             sent == topic + payload + IF qos > 0 THEN 4 ELSE 2
         IN IF packet.ok
            THEN /\ ProcessRemainingLength(Encode[packet.remainingLength]).status = "Success"
                 /\ packet.remainingLength = sent
                 /\ packet.size = sent + 1 + Len(Encode[sent])
            ELSE sent > MaxRemainingLength - 5
<1>1. PICK packet : packet = PublishPacketSize(topic, qos, payload)
  OBVIOUS
<1>2. PICK sent : sent = topic + payload + IF qos > 0 THEN 4 ELSE 2
  OBVIOUS
<1>3. PICK f : f = PublishHeaderSize(topic, qos)
  OBVIOUS
<1>4. f \in Nat /\ sent \in Nat /\ sent = f + payload
  <2>1. topic \in Nat
    BY SMT DEF MaxTopicLength
  <2> QED BY <1>2, <1>3, <2>1, SMT DEF PublishHeaderSize
<1>5. PICK e : e = EncodedSize(sent)
  OBVIOUS
<1>6. e \in 1 .. 4
  BY <1>4, <1>5, SMT DEF EncodedSize
<1>7. packet = IF payload <= MaxRemainingLength - f - 1 /\ payload <= MaxRemainingLength - f - 1 - e
               THEN [ok |-> TRUE, remainingLength |-> sent, size |-> sent + 1 + e]
               ELSE [ok |-> FALSE, remainingLength |-> 0, size |-> 0]
  BY <1>1, <1>3, <1>4, <1>5, Zenon DEF PublishPacketSize
<1>8. IF packet.ok
      THEN /\ ProcessRemainingLength(Encode[packet.remainingLength]).status = "Success"
           /\ packet.remainingLength = sent
           /\ packet.size = sent + 1 + Len(Encode[sent])
      ELSE sent > MaxRemainingLength - 5
  <2>1. CASE payload <= MaxRemainingLength - f - 1 /\ payload <= MaxRemainingLength - f - 1 - e
    <3>1. packet.ok = TRUE /\ packet.remainingLength = sent /\ packet.size = sent + 1 + e
      BY <1>7, <2>1, SMT
    <3>2. sent <= MaxRemainingLength
      BY <1>4, <1>6, <2>1, Limit, MaxIsNat, Zenon
    <3>3. sent \in 0 .. MaxRemainingLength
      BY <1>4, <3>2, MaxIsNat, SMT
    <3>4. /\ Len(Encode[sent]) = EncodedSize(sent)
          /\ ProcessRemainingLength(Encode[sent]) = Found(sent, Len(Encode[sent]))
      BY <3>3, RoundTrip, Zenon
    <3>5. Found(sent, Len(Encode[sent])).status = "Success"
      BY SMT DEF Found
    <3> QED BY <1>5, <3>1, <3>4, <3>5, Zenon
  <2>2. CASE ~(payload <= MaxRemainingLength - f - 1 /\ payload <= MaxRemainingLength - f - 1 - e)
    <3>1. packet.ok = FALSE
      BY <1>7, <2>2, SMT
    <3>2. sent > MaxRemainingLength - 5
      BY <1>4, <1>6, <2>2, Limit, MaxIsNat, Zenon
    <3> QED BY <3>1, <3>2, Zenon
  <2> QED BY <2>1, <2>2
<1> QED BY <1>1, <1>2, <1>8, Zenon

(* For all lengths and codings there are: what is written is read, only    *)
(* what is written is read, and a publish is sent just with such a length. *)
LEMMA LengthsAgree == PublishSizesFit /\ WrittenIsRead /\ ReadIsWritten
<1>1. WrittenIsRead
  <2>1. \A n \in Lengths : n \in 0 .. MaxRemainingLength
    BY LengthsAssumption, Zenon
  <2> QED BY <2>1, RoundTrip, Zenon DEF WrittenIsRead
<1>2. ReadIsWritten
  <2>1. \A b \in Codings : b \in Seq(0 .. 255)
    BY LengthsAssumption, Zenon
  <2> QED BY <2>1, OnlyWrittenIsRead, Zenon DEF ReadIsWritten
<1>3. PublishSizesFit
  <2>1. \A t \in TopicLengths : t \in 0 .. MaxTopicLength
    BY LengthsAssumption, Zenon
  <2>2. \A p \in PayloadLengths : p \in Nat
    BY LengthsAssumption, Zenon
  <2> QED BY <2>1, <2>2, PublishFits, Zenon DEF PublishSizesFit
<1> QED BY <1>1, <1>2, <1>3

(* encodeRemainingLength and processRemainingLength agree on every length  *)
(* and on every bytes, and calculatePublishPacketSize with both.           *)
THEOREM LengthsHold == Spec => []LengthsReadAsWritten
<1>1. LengthsReadAsWritten
  BY LengthsAgree, Zenon DEF LengthsReadAsWritten
<1> QED BY <1>1, PTL
=============================================================================
