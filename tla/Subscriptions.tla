---------------------------- MODULE Subscriptions ----------------------------
(***************************************************************************)
(* The subscription list of the firmware (subscription_manager.c), what    *)
(* the agent task does with it when a publish arrives, and how the         *)
(* subscriptions are renewed when a reconnection finds that the broker has *)
(* lost the session (prvHandleResubscribe and its completion callback).    *)
(*                                                                         *)
(* The list has no lock: every step here is one of the agent task, except  *)
(* the broker's and the failure of the link.  The application's part, its  *)
(* own SUBSCRIBE and UNSUBSCRIBE and the callbacks it registers, is not in *)
(* the repository; it is modelled from the interface.                      *)
(***************************************************************************)
EXTENDS TopicMatch, SequencesExt

CONSTANTS
  Filters,     \* topic filters, as sequences of characters
  Topics,      \* topic names of incoming publishes
  Names,       \* the names and
  Patterns,    \* filters that matching is compared with the standard on
  Callbacks,   \* incoming publish callbacks, each with its context
  MaxPlaces,   \* SUBSCRIPTION_MANAGER_MAX_SUBSCRIPTIONS
  MaxRenewals  \* bound: renewals posted and not yet concluded

(* MQTT_MatchTopic assumes a valid topic name, without wildcards, and says *)
(* so (core_mqtt.h:884); a broker grants no other filters than valid ones. *)
ASSUME SubscriptionsAssumption ==
  /\ \A f \in Filters \cup Patterns : ValidFilter(f)
  /\ \A t \in Topics \cup Names : ValidName(t)
  /\ MaxPlaces \in Nat \ {0}
  /\ MaxRenewals \in Nat \ {0}

VARIABLES
  list,        \* xGlobalSubscriptionList
  dispatch,    \* the publish handleIncomingPublishes has in hand
  linked,      \* the command loop runs over a connection
  persistent,  \* the connection was made with cleanSession = false
  commands,    \* SUBSCRIBE commands of prvHandleResubscribe still queued
  subArgs,     \* the filters of its static xSubInfo
  requests,    \* those sent and awaiting their SUBACK, with the broker's answer
  broker,      \* the filters of the session at the broker
  unrenewed    \* history: a renewal was given up and none was posted after it

agentVars == <<list, dispatch>>
renewalVars == <<commands, subArgs, requests, unrenewed>>
linkVars == <<linked, persistent, broker>>
vars == <<agentVars, renewalVars, linkVars>>

Places == 1 .. MaxPlaces
Registrations == [filter : Filters, callback : Callbacks]
Registration(f, c) == [filter |-> f, callback |-> c]
Free == [filter |-> <<>>, callback |-> "none"]    \* an entry of zero length

Listed == Range(list) \ {Free}
ListedFilters == {r.filter : r \in Listed}

NoAnswer == <<>>
Idle == [topic |-> <<>>, place |-> 0, inCallback |-> FALSE,
         calls |-> [r \in Registrations |-> 0], kept |-> {}]
Renewing == commands > 0 \/ requests # <<>>

Init ==
  /\ list = [p \in Places |-> Free]
  /\ dispatch = Idle
  /\ linked = TRUE
  /\ persistent = FALSE      \* prvMQTTConnect( true )
  /\ commands = 0
  /\ subArgs = <<>>
  /\ requests = <<>>
  /\ broker = {}
  /\ unrenewed = FALSE

-----------------------------------------------------------------------------
(* The subscription manager *)

FreePlaces(l) == {p \in Places : l[p] = Free}

AddDespiteDuplicate(l, r) ==                                      \* mutant
  IF FreePlaces(l) = {} THEN l
  ELSE [l EXCEPT ![FirstOf(FreePlaces(l))] = r]

\* addSubscription: a registration that is there already, or for which there
\* is no room, leaves the list as it is.
AddSubscription(l, r) ==
  IF r \in Range(l) \/ FreePlaces(l) = {} THEN l
  ELSE [l EXCEPT ![FirstOf(FreePlaces(l))] = r]

RemoveAndCloseUp(l, f) ==                                         \* mutant
  LET kept == SelectSeq(l, LAMBDA r : r # Free /\ r.filter # f)
  IN [p \in Places |-> IF p <= Len(kept) THEN kept[p] ELSE Free]

\* removeSubscription: every registration of the filter, whoever made it.
RemoveSubscription(l, f) ==
  [p \in Places |-> IF l[p].filter = f THEN Free ELSE l[p]]

RemoveAll(l, F) ==
  [p \in Places |-> IF l[p].filter \in F THEN Free ELSE l[p]]

\* The application's SUBSCRIBE was answered and its completion callback adds
\* the registration; an UNSUBSCRIBE likewise.
Subscribed(r) ==
  /\ linked /\ dispatch = Idle
  /\ list' = AddSubscription(list, r)
  /\ broker' = broker \cup {r.filter}
  /\ UNCHANGED <<dispatch, renewalVars, linked, persistent>>

Unsubscribed(f) ==
  /\ linked /\ dispatch = Idle
  /\ f \in broker \cup ListedFilters
  /\ list' = RemoveSubscription(list, f)
  /\ broker' = broker \ {f}
  /\ UNCHANGED <<dispatch, renewalVars, linked, persistent>>

-----------------------------------------------------------------------------
(* handleIncomingPublishes: the list is walked from its start, and every   *)
(* matching registration called where it stands.                           *)

PublishArrives(topic) ==
  /\ linked /\ dispatch = Idle
  /\ dispatch' = [Idle EXCEPT !.topic = topic, !.place = 1, !.kept = Listed]
  /\ UNCHANGED <<list, renewalVars, linkVars>>

AtPlace ==
  /\ dispatch.place \in Places
  /\ ~dispatch.inCallback

MatchingPlaces ==
  {p \in Places : list[p] # Free /\ MatchTopic(dispatch.topic, list[p].filter)}

CallPlace ==
  /\ AtPlace
  /\ dispatch.place \in MatchingPlaces
  /\ dispatch' = [dispatch EXCEPT !.inCallback = TRUE,
                                  !.calls[list[dispatch.place]] = @ + 1]
  /\ UNCHANGED <<list, renewalVars, linkVars>>

PassPlace ==
  /\ AtPlace
  /\ dispatch.place \notin MatchingPlaces
  /\ dispatch' = [dispatch EXCEPT !.place = @ + 1]
  /\ UNCHANGED <<list, renewalVars, linkVars>>

\* The callback may register another callback for a filter that is listed, ...
CallbackAdds(r) ==
  /\ dispatch.inCallback
  /\ r.filter \in ListedFilters
  /\ list' = AddSubscription(list, r)
  /\ UNCHANGED <<dispatch, renewalVars, linkVars>>

\* ... or remove a filter, its own among them.
CallbackRemoves(f) ==
  /\ dispatch.inCallback
  /\ f \in ListedFilters
  /\ list' = RemoveSubscription(list, f)
  /\ dispatch' = [dispatch EXCEPT !.kept = {r \in @ : r.filter # f}]
  /\ UNCHANGED <<renewalVars, linkVars>>

CallbackReturns ==
  /\ dispatch.inCallback
  /\ dispatch' = [dispatch EXCEPT !.inCallback = FALSE, !.place = @ + 1]
  /\ UNCHANGED <<list, renewalVars, linkVars>>

\* prvIncomingPublishCallback returns to the command loop.
Dispatched == dispatch.place = MaxPlaces + 1

PublishHandled ==
  /\ Dispatched
  /\ dispatch' = Idle
  /\ UNCHANGED <<list, renewalVars, linkVars>>

-----------------------------------------------------------------------------
(* Reconnection and renewal *)

LinkFails ==
  /\ linked /\ dispatch = Idle
  /\ linked' = FALSE
  /\ UNCHANGED <<agentVars, renewalVars, persistent, broker>>

SnapshotToFirstFree ==                                            \* mutant
  LET end == IF FreePlaces(list) = {} THEN MaxPlaces ELSE FirstOf(FreePlaces(list)) - 1
  IN [p \in 1 .. end |-> list[p].filter]

SnapshotOfAllPlaces == [p \in Places |-> list[p].filter]          \* mutant

\* The filters prvHandleResubscribe collects, in the order of the list and
\* without a look at duplicates.
Snapshot ==
  LET taken == InOrder({p \in Places : list[p] # Free})
  IN [i \in DOMAIN taken |-> list[taken[i]].filter]

\* prvSubscriptionCommandCallback for a command that failed without a SUBACK:
\* there are no codes, and it compares whatever lies at the addresses from 0.
ConcludedWithoutCodes(l) ==
  {RemoveAll(l, {subArgs[i] : i \in S}) : S \in SUBSET DOMAIN subArgs}

ReconnectKeepingRequests(present) ==                              \* mutant
  /\ ~linked
  /\ IF present THEN persistent ELSE commands < MaxRenewals
  /\ linked' = TRUE
  /\ persistent' = TRUE
  /\ \/ present /\ UNCHANGED <<commands, subArgs, broker>>
     \/ /\ ~present
        /\ broker' = {}
        /\ IF Listed # {} THEN commands' = commands + 1 /\ subArgs' = Snapshot
                          ELSE UNCHANGED <<commands, subArgs>>
  /\ UNCHANGED <<agentVars, requests, unrenewed>>

(***************************************************************************)
(* prvMQTTConnect( false ): MQTTAgent_ResumeSession concludes the requests *)
(* awaiting an acknowledgment; after that, and only if the broker has lost *)
(* the session, the list is copied and a renewal posted.                   *)
(***************************************************************************)
Reconnect(present) ==
  /\ ~linked
  /\ IF present THEN persistent ELSE commands < MaxRenewals
  /\ linked' = TRUE
  /\ persistent' = TRUE
  /\ requests' = <<>>
  /\ IF requests = <<>> THEN UNCHANGED list
                        ELSE list' \in ConcludedWithoutCodes(list)
  /\ \/ /\ present
        /\ unrenewed' = (unrenewed \/ requests # <<>>)
        /\ UNCHANGED <<commands, subArgs, broker>>
     \/ /\ ~present
        /\ unrenewed' = FALSE
        /\ broker' = {}
        /\ IF Listed' # {} THEN commands' = commands + 1 /\ subArgs' = Snapshot'
                           ELSE UNCHANGED <<commands, subArgs>>
  /\ UNCHANGED dispatch

\* The command loop runs a queued renewal: MQTT_Subscribe serializes what the
\* static array holds now.
SendSubscribe ==
  /\ linked /\ dispatch = Idle
  /\ commands > 0
  /\ commands' = commands - 1
  /\ requests' = Append(requests, [asked |-> subArgs, codes |-> NoAnswer])
  /\ UNCHANGED <<agentVars, subArgs, unrenewed, linkVars>>

\* The send fails: the command is concluded at once, and the loop ends.
SubscribeFails ==
  /\ linked /\ dispatch = Idle
  /\ commands > 0
  /\ commands' = commands - 1
  /\ list' \in ConcludedWithoutCodes(list)
  /\ unrenewed' = TRUE
  /\ linked' = FALSE
  /\ UNCHANGED <<dispatch, subArgs, requests, persistent, broker>>

\* The broker takes the oldest request it has not answered, and accepts or
\* refuses each filter of it.  It may do so after the link has failed.
BrokerAnswers ==
  \E k \in DOMAIN requests :
    LET request == requests[k] IN
    /\ request.codes = NoAnswer
    /\ \A j \in 1 .. (k - 1) : requests[j].codes # NoAnswer
    /\ \E codes \in [DOMAIN request.asked -> BOOLEAN] :
         /\ requests' = [requests EXCEPT ![k].codes = codes]
         /\ broker' = broker \cup {request.asked[i] : i \in {n \in DOMAIN codes : codes[n]}}
    /\ UNCHANGED <<agentVars, commands, subArgs, unrenewed, linked, persistent>>

Refused(codes) == {i \in DOMAIN codes : ~codes[i]}

SubAckByPlace ==                                                  \* mutant
  /\ linked /\ dispatch = Idle
  /\ requests # <<>> /\ Head(requests).codes # NoAnswer
  /\ list' = [p \in Places |-> IF p \in Refused(Head(requests).codes) THEN Free ELSE list[p]]
  /\ requests' = Tail(requests)
  /\ UNCHANGED <<dispatch, commands, subArgs, unrenewed, linkVars>>

\* prvSubscriptionCommandCallback for a SUBACK: a filter the broker refused is
\* removed; the codes are read against the static array.
SubAckArrives ==
  /\ linked /\ dispatch = Idle
  /\ requests # <<>> /\ Head(requests).codes # NoAnswer
  /\ list' = RemoveAll(list, {subArgs[i] : i \in Refused(Head(requests).codes)})
  /\ requests' = Tail(requests)
  /\ UNCHANGED <<dispatch, commands, subArgs, unrenewed, linkVars>>

-----------------------------------------------------------------------------
Next ==
  \/ \E r \in Registrations : Subscribed(r) \/ CallbackAdds(r)
  \/ \E f \in Filters : Unsubscribed(f) \/ CallbackRemoves(f)
  \/ \E t \in Topics : PublishArrives(t)
  \/ CallPlace \/ PassPlace \/ CallbackReturns \/ PublishHandled
  \/ LinkFails
  \/ \E present \in BOOLEAN : Reconnect(present)
  \/ SendSubscribe \/ SubscribeFails \/ BrokerAnswers \/ SubAckArrives

Spec == Init /\ [][Next]_vars

-----------------------------------------------------------------------------
(* Properties *)

(* Every variable has its type; a renewal asks for no more than the list   *)
(* can hold.                                                               *)
TypeOK ==
  /\ list \in [Places -> Registrations \cup {Free}]
  /\ dispatch.topic \in Topics \cup {<<>>}
  /\ dispatch.place \in 0 .. MaxPlaces + 1
  /\ dispatch.inCallback \in BOOLEAN
  /\ dispatch.calls \in [Registrations -> Nat]
  /\ dispatch.kept \subseteq Registrations
  /\ {linked, persistent, unrenewed} \subseteq BOOLEAN
  /\ commands \in 0 .. MaxRenewals
  /\ subArgs \in BoundedSeq(Filters, MaxPlaces)
  /\ \A k \in DOMAIN requests :
       /\ requests[k].asked \in BoundedSeq(Filters, MaxPlaces)
       /\ requests[k].codes # NoAnswer =>
            requests[k].codes \in [DOMAIN requests[k].asked -> BOOLEAN]
  /\ broker \subseteq Filters

(* When a publish has been handed out, a registration that was listed when *)
(* it arrived and that no callback removed meanwhile was called exactly    *)
(* once if its filter matches by the rules of MQTT (or is one of the pairs *)
(* that "+" loses), and never otherwise, whatever the callbacks did to the *)
(* rest of the list.                                                       *)
DispatchReachesEach ==
  Dispatched =>
    \A r \in dispatch.kept :
      dispatch.calls[r] =
        IF /\ StandardMatch(dispatch.topic, r.filter)
           /\ ~LostByPlus(dispatch.topic, r.filter) THEN 1 ELSE 0

(* MQTT_MatchTopic decides as section 4.7 of MQTT 3.1.1 does, which it     *)
(* says it follows, except for the pairs it loses behind a "+".  It is     *)
(* said of the initial state alone, as it is about a function of no        *)
(* variable.                                                               *)
MatchIsStandardButForPlus == Init =>
  \A name \in Names, filter \in Patterns :
    MatchTopic(name, filter) <=> StandardMatch(name, filter) /\ ~LostByPlus(name, filter)

(* While a renewal awaits its SUBACK the static array still holds the      *)
(* filters that were sent: the codes, which carry no filter, are read      *)
(* against the right ones (prvHandleResubscribe: "these variables need to  *)
(* stay in scope until command completes").                                *)
ArgsAreTheRequest ==
  \A k \in DOMAIN requests : requests[k].asked = subArgs

(* Over a connection, once the renewals are through, the broker has every  *)
(* filter that is listed, unless a renewal was given up: then the task     *)
(* waits for publishes that never come, since a resumed session is not     *)
(* asked for the filters again.                                            *)
ListedIsSubscribed ==
  linked /\ ~Renewing /\ ~unrenewed => ListedFilters \subseteq broker

(* A SUBACK delists the filters the broker refused in the request it       *)
(* answers, and no other.                                                  *)
SubAckDelistsTheRefused ==
  [][ LET answered == Head(requests) IN
      linked /\ linked' /\ Len(requests') < Len(requests) =>
        Listed' = {r \in Listed :
                     r.filter \notin {answered.asked[i] : i \in Refused(answered.codes)}}
    ]_vars
=============================================================================
