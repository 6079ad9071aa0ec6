----------------------------- MODULE TopicMatch -----------------------------
(***************************************************************************)
(* Matching of topic names against topic filters: MQTT_MatchTopic of       *)
(* core_mqtt.c, and the definition of MQTT 3.1.1 (section 4.7) it is       *)
(* compared with.  Names and filters are sequences of characters; the      *)
(* characters that matter are the separator, the two wildcards and "$".    *)
(* Positions count from 1 where the code counts from 0.                    *)
(***************************************************************************)
EXTENDS Positions, Sequences

Wildcards == {"+", "#"}

MatchEndWithoutParent(filter, f) ==                               \* mutant
  f = Len(filter) - 1 /\ filter[f] = "/" /\ filter[Len(filter)] \in Wildcards

(***************************************************************************)
(* The name has been used up at position f of the filter: what is left of  *)
(* the filter may still be "/#", or "+" or "#" behind the separator.       *)
(***************************************************************************)
MatchEndWildcardsSpecialCases(filter, f) ==
  LET end == Len(filter) IN
  \/ f = end - 2 /\ filter[f + 1] = "/" /\ filter[end] = "#"
  \/ f = end - 1 /\ filter[f] = "/" /\ filter[end] \in Wildcards

\* A wildcard counts as one only at the start of a level.
LocationIsValidForWildcard(filter, f) == f = 1 \/ filter[f - 1] = "/"

\* Where the level of the name ends that position n belongs to: at the next
\* separator, or behind the last character.
EndOfLevel(name, n) ==
  FirstOf({i \in n..Len(name) : name[i] = "/"} \cup {Len(name) + 1})

(***************************************************************************)
(* The two positions move along name and filter together; "+" moves the    *)
(* position in the name to the end of its level.  Before the end of both   *)
(* is reached, the walk may be stopped by a mismatch, by "#", or by one of *)
(* the special cases.                                                      *)
(***************************************************************************)
MatchTopicFilter(name, filter) ==
  LET Walk[n \in Nat] == [f \in Nat |->
        IF n > Len(name) \/ f > Len(filter) THEN n > Len(name) /\ f > Len(filter)
        ELSE IF name[n] = filter[f]
          THEN \/ n = Len(name) /\ MatchEndWildcardsSpecialCases(filter, f)
               \/ Walk[n + 1][f + 1]
        ELSE /\ LocationIsValidForWildcard(filter, f)
             /\ \/ filter[f] = "#" /\ f = Len(filter)
                \/ /\ filter[f] = "+"
                   /\ LET next == EndOfLevel(name, n) IN
                      IF next > Len(name) THEN Walk[next][f + 1]
                      ELSE f < Len(filter) /\ filter[f + 1] = "/" /\ Walk[next + 1][f + 2]]
  IN Walk[1][1]

MatchTopic(name, filter) ==
  \/ name = filter
  \/ /\ ~(name[1] = "$" /\ filter[1] \in Wildcards)
     /\ MatchTopicFilter(name, filter)

-----------------------------------------------------------------------------
(***************************************************************************)
(* The reference: level by level, as the standard defines it.              *)
(***************************************************************************)

(* A level ends at a separator or behind the last character.               *)
Cuts(s) == {i \in DOMAIN s : s[i] = "/"} \cup {Len(s) + 1}
Depth(s) == Cardinality(Cuts(s))
Cut(s, k) == InOrder(Cuts(s))[k]
Start(s, k) == IF k = 1 THEN 1 ELSE Cut(s, k - 1) + 1
Levels(s) == [k \in 1 .. Depth(s) |-> SubSeq(s, Start(s, k), Cut(s, k) - 1)]

Empty == <<>>
Single == <<"+">>
Multi == <<"#">>

Word(s) == s \in Seq({s[i] : i \in DOMAIN s}) \ {<<>>}
HasWildcard(s) == \E i \in DOMAIN s : s[i] \in Wildcards

ValidName(name) == Word(name) /\ ~HasWildcard(name)
ValidFilter(filter) ==
  LET pattern == Levels(filter) IN
  /\ Word(filter)
  /\ \A k \in DOMAIN pattern :
       HasWildcard(pattern[k]) => pattern[k] = Single \/ (pattern[k] = Multi /\ k = Len(pattern))

StandardMatch(name, filter) ==
  LET levels == Levels(name)
      pattern == Levels(filter)
      last == Len(pattern)
      Fits(k) == pattern[k] \in {Single, levels[k]}
  IN /\ ~(name[1] = "$" /\ filter[1] \in Wildcards)
     /\ IF pattern[last] = Multi
        THEN Len(levels) >= last - 1 /\ \A k \in 1..(last - 1) : Fits(k)
        ELSE Len(levels) = last /\ \A k \in 1..last : Fits(k)

(***************************************************************************)
(* The pairs the walk loses.  Where "+" takes a level, the name may have   *)
(* been used up by the jump, its last separator included, and the special  *)
(* cases are looked at only after a comparison of characters: "+/#" does   *)
(* not match its parent level, nor "+/+", "+/#" and "+//#" an empty level. *)
(***************************************************************************)
LostByPlus(name, filter) ==
  LET levels == Levels(name)
      pattern == Levels(filter)
      After(s, k) == SubSeq(s, k + 1, Len(s))
  IN \E k \in DOMAIN pattern \cap DOMAIN levels :
       /\ pattern[k] = Single
       /\ \/ After(levels, k) = <<>> /\ After(pattern, k) = <<Multi>>
          \/ /\ After(levels, k) = <<Empty>>
             /\ After(pattern, k) \in {<<Single>>, <<Multi>>, <<Empty, Multi>>}
=============================================================================
