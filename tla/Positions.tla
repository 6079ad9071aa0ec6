------------------------------ MODULE Positions ------------------------------
(***************************************************************************)
(* Positions of an array with gaps: which come first and last, and all of  *)
(* them in their order.  The loops of the firmware that walk such an array *)
(* and pick some of its entries are written with these; they are defined   *)
(* by counting, not by recursion, so that facts about them can be proved.  *)
(***************************************************************************)
EXTENDS Naturals, FiniteSets

LastOf(S)  == CHOOSE p \in S : \A q \in S : q <= p
FirstOf(S) == CHOOSE p \in S : \A q \in S : p <= q

\* The how-manieth of the positions p is.
Rank(S, p) == Cardinality({q \in S : q <= p})

\* The positions in ascending order.
InOrder(S) == [k \in 1 .. Cardinality(S) |-> CHOOSE p \in S : Rank(S, p) = k]
=============================================================================
