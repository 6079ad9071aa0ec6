---------------------------- MODULE ResendOrder ----------------------------
(***************************************************************************)
(* What the records of outgoing publishes are for: on a resumed session    *)
(* the PUBLISH packets are to be sent again in the order in which they     *)
(* were first sent, and the PUBREL packets in the order in which the       *)
(* PUBRECs arrived, without one of them missing, and as many publishes can *)
(* be in progress as there is room for.                                    *)
(***************************************************************************)
EXTENDS Naturals, Sequences, SequencesExt

CONSTANTS Ids, Capacity

VARIABLES
  publishes,   \* the packet identifiers whose PUBLISH is to be resent, in order
  pubrels      \* those whose PUBREL is to be resent, in order

Members(s) == {s[p] : p \in 1 .. Len(s)}
Places(s, i) == {p \in 1 .. Len(s) : s[p] = i}

Init == publishes = << >> /\ pubrels = << >>

Reserve(i) ==
  /\ i \notin Members(publishes) \cup Members(pubrels)
  /\ Len(publishes) + Len(pubrels) < Capacity
  /\ publishes' = Append(publishes, i)
  /\ UNCHANGED pubrels

\* PUBACK, or a publish that is given up.
EndPublish(i) ==
  /\ \E p \in Places(publishes, i) : publishes' = RemoveAt(publishes, p)
  /\ UNCHANGED pubrels

\* PUBREC
Release(i) ==
  /\ \E p \in Places(publishes, i) : publishes' = RemoveAt(publishes, p)
  /\ pubrels' = Append(pubrels, i)

\* PUBCOMP, or a publish that is given up.
EndPubrel(i) ==
  /\ \E p \in Places(pubrels, i) : pubrels' = RemoveAt(pubrels, p)
  /\ UNCHANGED publishes

Forget == publishes' = << >> /\ pubrels' = << >>

Next == \/ \E i \in Ids : Reserve(i) \/ EndPublish(i) \/ Release(i) \/ EndPubrel(i)
        \/ Forget

Spec == Init /\ [][Next]_<<publishes, pubrels>>
=============================================================================
