--------------------------- MODULE MCReceiveBuffer ---------------------------
(* ReceiveBuffer instantiated for TLC: packets that are smaller than the   *)
(* buffer, fill it, exceed it by one byte and by more than its size.       *)
EXTENDS ReceiveBuffer

(* They have 3, 2, 6, 5, 11, 2 and 2 bytes.                                *)
SevenPackets == <<3, 5, 11, 16, 27, 29, 31>>
TheirHeaders == [n \in DOMAIN Ends |-> IF n = 5 THEN 3 ELSE 2]

-----------------------------------------------------------------------------
(* The lengths at which the coding takes another byte, and their           *)
(* neighbours; the bytes of which any header is made for the comparison.   *)
Around(n) == {n - 1, n, n + 1}
SomeLengths ==
  {0, 1, 200, 300, MaxRemainingLength} \cup UNION {Around(n) : n \in {128, 16384, 2097152}}
SomeCodings == UNION {[1 .. k -> {0, 1, 127, 128, 129, 255}] : k \in 0 .. 5}
SomePayloads == SomeLengths \cup {MaxRemainingLength - k : k \in 1 .. 20}
=============================================================================
