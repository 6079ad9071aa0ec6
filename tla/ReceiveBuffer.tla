---------------------------- MODULE ReceiveBuffer ----------------------------
(***************************************************************************)
(* How receiveSingleIteration of core_mqtt.c finds the packets of a        *)
(* connection in the pieces the transport returns: networkBuffer, whose    *)
(* first index bytes are in use, and discardStoredPacket for the packets   *)
(* that are larger than it.                                                *)
(*                                                                         *)
(* A byte is known by its number in the stream of a connection.  The       *)
(* buffer is the sequence of its bytes in use, so index is its length.     *)
(***************************************************************************)
EXTENDS SequencesExt, RemainingLength

CONSTANTS
  Size,     \* networkBuffer.size
  Ends,     \* the last bytes of the packets the peer sends on a connection
  Header    \* the lengths of their fixed headers

EndOf(n) == IF n = 0 THEN 0 ELSE Ends[n]
LengthOf(n) == EndOf(n) - EndOf(n - 1)

ASSUME BufferAssumption ==
  /\ Size \in Nat \ {0}
  /\ Ends \in Seq(Nat)
  /\ \A m, n \in DOMAIN Ends : m < n => Ends[m] < Ends[n]
  /\ Header \in [DOMAIN Ends -> 2 .. 5]
  /\ \A n \in DOMAIN Ends : Header[n] <= LengthOf(n) /\ Header[n] <= Size

VARIABLES
  stream,     \* the bytes that are still to come
  ready,      \* how many of them the transport has got
  buffer,     \* networkBuffer, up to index
  discard,    \* bytes of an oversized packet discardStoredPacket has to read
  loop,       \* "running", "discarding", or "failed": the process loop has ended
  done        \* history: what became of the packets of this connection

vars == <<stream, ready, buffer, discard, loop, done>>

Stream == [k \in 1 .. EndOf(Len(Ends)) |-> k]
BytesOf(n) == [k \in 1 .. LengthOf(n) |-> EndOf(n - 1) + k]

-----------------------------------------------------------------------------
Init ==
  /\ stream = Stream
  /\ ready = 0
  /\ buffer = << >>
  /\ discard = 0
  /\ loop = "running"
  /\ done = << >>

BytesArrive ==
  /\ loop # "failed"
  /\ ready' \in ready + 1 .. Len(stream)
  /\ UNCHANGED <<stream, buffer, discard, loop, done>>

(* The transport returns n bytes, and 0 whenever it likes.                 *)
Receive(n) ==
  /\ stream' = SubSeq(stream, n + 1, Len(stream))
  /\ ready' = ready - n

-----------------------------------------------------------------------------
(* The packet at the front of the bytes b. *)

FirstPacket(b) == CHOOSE n \in DOMAIN Ends : Head(b) \in EndOf(n - 1) + 1 .. Ends[n]

(* MQTT_ProcessIncomingPacketTypeAndLength succeeds.                       *)
LengthKnown(b) == b # << >> /\ Len(b) >= Header[FirstPacket(b)]

OversizedByMore(b) == LengthKnown(b) /\ LengthOf(FirstPacket(b)) > Size + 1   \* mutant: off by one
Oversized(b) == LengthKnown(b) /\ LengthOf(FirstPacket(b)) > Size

CompleteButOne(b) ==                                     \* mutant: off by one
  LengthKnown(b) /\ ~Oversized(b) /\ LengthOf(FirstPacket(b)) <= Len(b) + 1
Complete(b) == LengthKnown(b) /\ ~Oversized(b) /\ LengthOf(FirstPacket(b)) <= Len(b)

LeftToDiscardSwapped(b) == Len(b) - LengthOf(FirstPacket(b))   \* mutant: swapped
LeftToDiscard(b) == LengthOf(FirstPacket(b)) - Len(b)

(* A packet that is handled from bytes other than its own is garbled.      *)
Handled(b) ==
  LET n == FirstPacket(b)
  IN [packet |-> n,
      how |-> IF IsPrefix(BytesOf(n), b) THEN "handled" ELSE "garbled"]

-----------------------------------------------------------------------------
IterateOnDataOnly(n) ==                                  \* mutant: a full buffer waits for data
  /\ loop = "running"
  /\ Len(buffer) < Size
  /\ n \in 0 .. ready
  /\ n <= Size - Len(buffer)
  /\ Receive(n)
  /\ LET b == buffer \o SubSeq(stream, 1, n)
     IN \/ /\ n > 0 /\ Oversized(b)
           /\ loop' = "discarding"
           /\ discard' = LeftToDiscard(b)
           /\ buffer' = b
           /\ UNCHANGED done
        \/ /\ n > 0 /\ Complete(b)
           /\ done' = Append(done, Handled(b))
           /\ buffer' = SubSeq(b, LengthOf(FirstPacket(b)) + 1, Len(b))
           /\ loop' \in {"running", "failed"}
           /\ UNCHANGED discard
        \/ /\ n = 0 \/ (~Oversized(b) /\ ~Complete(b))
           /\ buffer' = b
           /\ UNCHANGED <<discard, loop, done>>

(* receiveSingleIteration: it receives, then discards or handles the       *)
(* packet at the front, or needs more bytes.  Handling may fail.           *)
Iterate(n) ==
  /\ loop = "running"
  /\ Len(buffer) < Size
  /\ n \in 0 .. ready
  /\ n <= Size - Len(buffer)
  /\ Receive(n)
  /\ LET b == buffer \o SubSeq(stream, 1, n)
     IN \/ /\ Oversized(b)
           /\ loop' = "discarding"
           /\ discard' = LeftToDiscard(b)
           /\ buffer' = b
           /\ UNCHANGED done
        \/ /\ Complete(b)
           /\ done' = Append(done, Handled(b))
           /\ buffer' = SubSeq(b, LengthOf(FirstPacket(b)) + 1, Len(b))
           /\ loop' \in {"running", "failed"}
           /\ UNCHANGED discard
        \/ /\ ~Oversized(b) /\ ~Complete(b)
           /\ buffer' = b
           /\ UNCHANGED <<discard, loop, done>>

(* The transport fails; TLSRecv does so when asked for 0 bytes.            *)
ReceiveFails ==
  /\ loop = "running"
  /\ loop' = "failed"
  /\ UNCHANGED <<stream, ready, buffer, discard, done>>

(* discardStoredPacket, one successful read of recvExact at a time.        *)
Discard(n) ==
  /\ loop = "discarding"
  /\ n \in 1 .. ready
  /\ n <= discard /\ n <= Size
  /\ Receive(n)
  /\ discard' = discard - n
  /\ IF discard = n
       THEN /\ done' = Append(done, [packet |-> FirstPacket(buffer), how |-> "discarded"])
            /\ buffer' = << >>
            /\ loop' = "running"
       ELSE UNCHANGED <<buffer, loop, done>>

(* recvExact fails, or has got nothing for MQTT_RECV_POLLING_TIMEOUT_MS.   *)
DiscardFails ==
  /\ loop = "discarding"
  /\ loop' = "failed"
  /\ discard' = 0
  /\ buffer' = << >>
  /\ UNCHANGED <<stream, ready, done>>

BufferAfterConnectKept == buffer                         \* mutant: index not reset
BufferAfterConnect == << >>

(* MQTT_Connect on a new connection: handleSessionResumption resets index. *)
Reconnect ==
  /\ loop = "failed"
  /\ stream' = Stream
  /\ ready' = 0
  /\ buffer' = BufferAfterConnect
  /\ discard' = 0
  /\ loop' = "running"
  /\ done' = << >>

-----------------------------------------------------------------------------
Next ==
  \/ BytesArrive
  \/ \E n \in 0 .. Size : Iterate(n)
  \/ ReceiveFails
  \/ \E n \in 1 .. Size : Discard(n)
  \/ DiscardFails
  \/ Reconnect

Spec == Init /\ [][Next]_vars

(* The agent task calls the process loop again and again, and the          *)
(* transport does not keep what it has got for ever.                       *)
FairSpec ==
  /\ Spec
  /\ WF_vars(\E n \in 0 .. Size : (n = 0 => ready = 0) /\ Iterate(n))
  /\ WF_vars(\E n \in 1 .. Size : Discard(n))

-----------------------------------------------------------------------------
(* Properties *)

TypeOK ==
  /\ IsSuffix(stream, Stream)
  /\ ready \in 0 .. Len(stream)
  /\ Len(buffer) <= Size
  /\ discard \in Nat
  /\ loop \in {"running", "discarding", "failed"}
  /\ \A k \in DOMAIN done : done[k] \in
       [packet : DOMAIN Ends, how : {"handled", "garbled", "discarded"}]

(* receiveSingleIteration and discardStoredPacket keep the front of the    *)
(* buffer at the front of a packet: the buffer and the bytes to come are   *)
(* the stream of this connection after the packets done with.              *)
FramingOK ==
  loop = "running" =>
    /\ Len(done) <= Len(Ends)
    /\ buffer \o stream = SubSeq(Stream, EndOf(Len(done)) + 1, Len(Stream))

(* Each packet is handled once, in its turn and from its own bytes, and    *)
(* discarded just if it does not fit the buffer.                           *)
DoneInTurn ==
  \A k \in DOMAIN done :
    done[k] = [packet |-> k, how |-> IF LengthOf(k) > Size THEN "discarded" ELSE "handled"]

(* receiveSingleIteration never asks the transport for 0 bytes, which      *)
(* TLSRecv answers with an error.                                          *)
RoomToReceive == loop = "running" => Len(buffer) < Size

(* Bytes are read as a length exactly if they start with what is written   *)
(* for that length: no shorter start of it is taken for another length,    *)
(* the reader waits for the rest of it, and any other coding is refused.   *)
(* A publish is sent only with a length that can be read so.  It is said   *)
(* of the initial state alone, since it is about functions of no variable. *)
LengthsReadAsWritten == Init => PublishSizesFit /\ WrittenIsRead /\ ReadIsWritten

(* A packet that has arrived is handled or discarded without waiting for   *)
(* more bytes to arrive, unless the connection fails.                      *)
Arrived(n) == Len(Stream) - Len(stream) + ready >= EndOf(n)
EveryPacketIsDone ==
  \A n \in DOMAIN Ends : Arrived(n) ~> (Len(done) >= n \/ loop = "failed")
=============================================================================
