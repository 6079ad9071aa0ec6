------------------------------ MODULE Delivery ------------------------------
(***************************************************************************)
(* What QoS 1 and QoS 2 promise about the messages of a broker to a        *)
(* device, without packets, identifiers, records or connections: a message *)
(* reaches the application only between the moment the broker first sends  *)
(* it and the moment the broker is done with it or forgets it, one with    *)
(* QoS 2 once at most, and the broker is not done with it before it has    *)
(* reached the application, unless there is a doubt: an acknowledgment     *)
(* that the device had to take for lost, in the same session.              *)
(***************************************************************************)
EXTENDS Naturals

CONSTANTS
  Messages,
  ExactlyOnce,  \* those of QoS 2
  Often         \* stands for any number from there on

VARIABLES
  fate,         \* what the broker knows of each message
  deliveries,   \* how often each message has reached the application
  doubt         \* whether there has been a doubt in this session

vars == <<fate, deliveries, doubt>>

Init ==
  /\ fate = [m \in Messages |-> "unsent"]
  /\ deliveries = [m \in Messages |-> 0]
  /\ doubt = FALSE

Send(m) ==
  /\ fate[m] = "unsent"
  /\ fate' = [fate EXCEPT ![m] = "inFlight"]
  /\ UNCHANGED <<deliveries, doubt>>

\* The acknowledgment of what has just been delivered may be the doubtful one.
Deliver(m) ==
  /\ fate[m] = "inFlight"
  /\ m \in ExactlyOnce => deliveries[m] = 0
  /\ deliveries' = [deliveries EXCEPT ![m] = IF @ = Often THEN @ ELSE @ + 1]
  /\ doubt' \in BOOLEAN /\ (doubt => doubt')
  /\ UNCHANGED fate

Finish(m) ==
  /\ fate[m] = "inFlight"
  /\ deliveries[m] > 0 \/ doubt
  /\ fate' = [fate EXCEPT ![m] = "done"]
  /\ UNCHANGED <<deliveries, doubt>>

\* The broker has lost the session, and with it what there was to doubt.
Forget ==
  /\ fate' = [m \in Messages |-> IF fate[m] = "inFlight" THEN "forgotten" ELSE fate[m]]
  /\ doubt' = FALSE
  /\ UNCHANGED deliveries

Doubt == doubt' = TRUE /\ UNCHANGED <<fate, deliveries>>

Next == \/ \E m \in Messages : Send(m) \/ Deliver(m) \/ Finish(m)
        \/ Forget \/ Doubt

Spec == Init /\ [][Next]_vars
=============================================================================
