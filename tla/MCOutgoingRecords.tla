------------------------- MODULE MCOutgoingRecords -------------------------
(* OutgoingRecords instantiated for TLC. *)
EXTENDS OutgoingRecords

FourIds == 1 .. 4
=============================================================================
