------------------------ MODULE MCIncomingPublishes ------------------------
(* IncomingPublishes instantiated for TLC. *)
EXTENDS IncomingPublishes

CONSTANTS m1, m2, m3

QosOfEach == [m \in Messages |-> IF m = m1 THEN 1 ELSE 2]
TwoIds == 1 .. 2
=============================================================================
