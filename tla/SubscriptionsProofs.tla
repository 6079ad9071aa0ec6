------------------------- MODULE SubscriptionsProofs -------------------------
(***************************************************************************)
(* What is proved of Subscriptions: that the walk over the list reaches    *)
(* each registration once whatever the callbacks do, that a SUBACK is read *)
(* against the filters it answers, that the broker has what is listed, and *)
(* that matchTopic is the matching of the standard but for what "+" loses. *)
(* The last is shown along the levels of the filter, from the last level   *)
(* that the name reaches back to the first: DecidesEarlier is the step.    *)
(***************************************************************************)
EXTENDS Subscriptions, PublishRecordsProofs, SequenceTheorems

Args == BoundedSeq(Filters, MaxPlaces)
RequestValues == [asked : Args, codes : Seq(BOOLEAN)]
DispatchValues == [topic : Topics \cup {<<>>}, place : 0 .. MaxPlaces + 1, inCallback : BOOLEAN,
                   calls : [Registrations -> Nat], kept : SUBSET Registrations]

ListOK(l) ==
  /\ l \in [Places -> Registrations \cup {Free}]
  /\ \A p, q \in Places : l[p] = l[q] /\ l[p] # Free => p = q

RequestsOK ==
  /\ subArgs \in Args
  /\ requests \in Seq(RequestValues)
  /\ \A k \in DOMAIN requests :
       /\ requests[k].asked = subArgs
       /\ requests[k].codes # NoAnswer => DOMAIN requests[k].codes = DOMAIN subArgs

ScalarsOK ==
  /\ {linked, persistent, unrenewed} \subseteq BOOLEAN
  /\ commands \in 0 .. MaxRenewals
  /\ broker \subseteq Filters

(* A registration that was listed when the publish arrived and that no     *)
(* callback removed keeps its place, and has been called there if the walk *)
(* has come past it.                                                       *)
PassedBy(p) == p < dispatch.place \/ (p = dispatch.place /\ dispatch.inCallback)
WalkOK ==
  /\ dispatch \in DispatchValues
  /\ dispatch.place = 0 => dispatch = Idle
  /\ dispatch.place # 0 => dispatch.topic \in Topics
  /\ dispatch.place # 0 => linked
  /\ dispatch.inCallback => dispatch.place \in Places
  /\ \A r \in dispatch.kept :
       \E p \in Places :
         /\ list[p] = r
         /\ dispatch.calls[r] =
              IF MatchTopic(dispatch.topic, r.filter) /\ PassedBy(p) THEN 1 ELSE 0

(* What is listed is at the broker, or a renewal that is not through asks  *)
(* for it; or the broker has refused it and the SUBACK is still to come.   *)
Open(k, i) ==
  requests[k].codes = NoAnswer \/ ~requests[k].codes[i]
AskedFor(f) ==
  \E i \in DOMAIN subArgs :
    /\ subArgs[i] = f
    /\ commands > 0 \/ \E k \in DOMAIN requests : Open(k, i)
RenewalOK == ~unrenewed => \A f \in ListedFilters \ broker : AskedFor(f)

IInv == ListOK(list) /\ RequestsOK /\ ScalarsOK /\ WalkOK /\ RenewalOK

-----------------------------------------------------------------------------
(* The list *)

LEMMA FreeApart ==
  /\ Free \notin Registrations /\ <<>> \notin Filters /\ Free.filter = <<>>
  /\ \A r \in Registrations : r # Free /\ r.filter \in Filters
  /\ MaxPlaces \in Nat \ {0} /\ MaxRenewals \in Nat \ {0}
<1>1. \A f \in Filters : f # <<>>
  BY SubscriptionsAssumption DEF ValidFilter, Word
<1> QED BY <1>1, SubscriptionsAssumption DEF Registrations, Free

(* addSubscription never moves a registration, and makes no second copy.   *)
LEMMA AddKeeps ==
  ASSUME NEW l, ListOK(l), NEW r \in Registrations
  PROVE  LET m == AddSubscription(l, r)
         IN  /\ ListOK(m)
             /\ \A p \in Places : l[p] # Free => m[p] = l[p]
             /\ \A p \in Places : m[p] \in {l[p], r}
<1> DEFINE m == AddSubscription(l, r)
           place == FirstOf(FreePlaces(l))
<1>1. CASE r \in Range(l) \/ FreePlaces(l) = {}
  BY <1>1 DEF AddSubscription
<1>2. CASE r \notin Range(l) /\ FreePlaces(l) # {}
  <2>1. m = [l EXCEPT ![place] = r]
    BY <1>2 DEF AddSubscription
  <2>2. place \in Places /\ l[place] = Free
    <3>1. FreePlaces(l) \in SUBSET Nat
      BY DEF FreePlaces, Places
    <3> QED BY <1>2, <3>1, FirstIsMember DEF FreePlaces
  <2>3. \A p \in Places : l[p] # r
    BY <1>2 DEF Range, ListOK
  <2> HIDE DEF m, place
  <2>4. m \in [Places -> Registrations \cup {Free}]
    BY <2>1 DEF ListOK
  <2>5. \A p, q \in Places : m[p] = m[q] /\ m[p] # Free => p = q
    BY <2>1, <2>2, <2>3 DEF ListOK
  <2>6. \A p \in Places : (l[p] # Free => m[p] = l[p]) /\ m[p] \in {l[p], r}
    BY <2>1, <2>2 DEF ListOK
  <2>7. ListOK(m)
    BY <2>4, <2>5 DEF ListOK
  <2> QED BY <2>6, <2>7 DEF m
<1> QED BY <1>1, <1>2

LEMMA RemoveAllKeeps ==
  ASSUME NEW l, ListOK(l), NEW F
  PROVE  LET m == RemoveAll(l, F)
         IN  /\ ListOK(m)
             /\ \A p \in Places : m[p] = IF l[p].filter \in F THEN Free ELSE l[p]
<1> DEFINE m == RemoveAll(l, F)
<1>1. m = [p \in Places |-> IF l[p].filter \in F THEN Free ELSE l[p]]
  BY DEF RemoveAll
<1> HIDE DEF m
<1>2. \A p \in Places : m[p] = IF l[p].filter \in F THEN Free ELSE l[p]
  BY <1>1
<1>3. m \in [Places -> Registrations \cup {Free}]
  BY <1>1 DEF ListOK
<1>4. \A p, q \in Places : m[p] = m[q] /\ m[p] # Free => p = q
  BY <1>2 DEF ListOK
<1>5. ListOK(m)
  BY <1>3, <1>4 DEF ListOK
<1> QED BY <1>2, <1>5 DEF m

LEMMA RemoveIsRemoveAll ==
  ASSUME NEW l, NEW f
  PROVE  RemoveSubscription(l, f) = RemoveAll(l, {f})
BY DEF RemoveSubscription, RemoveAll

LEMMA ListedAre ==
  ASSUME NEW l, ListOK(l)
  PROVE  /\ \A r : r \in Range(l) \ {Free} <=> \E p \in Places : l[p] = r /\ r # Free
         /\ \A f : f \in {r.filter : r \in Range(l) \ {Free}} <=>
                     \E p \in Places : l[p] # Free /\ l[p].filter = f
         /\ {r.filter : r \in Range(l) \ {Free}} \subseteq Filters
<1>1. DOMAIN l = Places /\ \A p \in Places : l[p] \in Registrations \cup {Free}
  BY DEF ListOK
<1>2. \A r : r \in Range(l) \ {Free} <=> \E p \in Places : l[p] = r /\ r # Free
  BY <1>1 DEF Range
<1>3. \A f : f \in {r.filter : r \in Range(l) \ {Free}} <=>
               \E p \in Places : l[p] # Free /\ l[p].filter = f
  BY <1>2
<1>4. {r.filter : r \in Range(l) \ {Free}} \subseteq Filters
  <2>1. \A p \in Places : l[p] # Free => l[p] \in Registrations
    BY <1>1
  <2>2. \A p \in Places : l[p] # Free => l[p].filter \in Filters
    BY <2>1, FreeApart
  <2> QED BY <1>3, <2>2
<1> QED BY <1>2, <1>3, <1>4

(* What prvHandleResubscribe copies: all filters that are listed, no more  *)
(* than there are places.                                                  *)
LEMMA SnapshotLists ==
  ASSUME NEW l, ListOK(l)
  PROVE  LET taken == InOrder({p \in Places : l[p] # Free})
             s == [i \in DOMAIN taken |-> l[taken[i]].filter]
         IN  s \in Args /\ \A p \in Places : l[p] # Free => \E i \in DOMAIN s : s[i] = l[p].filter
<1> DEFINE T == {p \in Places : l[p] # Free}
           taken == InOrder(T)
           s == [i \in DOMAIN taken |-> l[taken[i]].filter]
<1>1. T \in SUBSET (1 .. MaxPlaces) /\ MaxPlaces \in Nat
  BY FreeApart DEF Places
<1>2. Cardinality(T) \in 0 .. MaxPlaces
  BY <1>1, PositionsFinite
<1>3. /\ taken \in [1 .. Cardinality(T) -> T]
      /\ \A p \in T : Rank(T, p) \in 1 .. Cardinality(T) /\ taken[Rank(T, p)] = p
  BY <1>1, InOrderLists, RankIsPlace
<1>4. \A p \in T : l[p].filter \in Filters
  <2>1. \A p \in T : l[p] \in Registrations
    BY DEF ListOK
  <2> QED BY <2>1, FreeApart
<1>5. \A p \in Places : l[p] # Free => p \in T
  OBVIOUS
<1> HIDE DEF T, taken
<1>6. s \in [1 .. Cardinality(T) -> Filters]
  BY <1>3, <1>4
<1>7. s \in Args
  BY <1>2, <1>6 DEF Args, BoundedSeq, SeqOf
<1>8. \A p \in T : \E i \in DOMAIN s : s[i] = l[p].filter
  BY <1>3
<1> QED BY <1>5, <1>7, <1>8 DEF T, taken

-----------------------------------------------------------------------------
(* The renewal *)

(* While commands, arguments and requests stay, nothing is lost from sight *)
(* unless something is listed, or gone at the broker, that was not before. *)
LEMMA SameRenewal ==
  ASSUME RenewalOK, UNCHANGED renewalVars, ListedFilters' \ broker' \subseteq ListedFilters \ broker
  PROVE  RenewalOK'
<1>1. \A f : AskedFor(f)' <=> AskedFor(f)
  BY DEF AskedFor, Open, renewalVars
<1> QED BY <1>1 DEF RenewalOK, renewalVars

(* The application subscribes and unsubscribes, inside and outside of the  *)
(* callbacks.                                                              *)
LEMMA ApplicationKeeps ==
  ASSUME IInv, NEW r, NEW f \in Filters, (r \in Registrations /\ Subscribed(r)) \/ Unsubscribed(f)
  PROVE  IInv'
<1>1. /\ dispatch = Idle /\ UNCHANGED <<dispatch, renewalVars, linked, persistent>>
      /\ \/ r \in Registrations /\ list' = AddSubscription(list, r) /\ broker' = broker \cup {r.filter}
         \/ list' = RemoveAll(list, {f}) /\ broker' = broker \ {f}
  BY RemoveIsRemoveAll DEF Subscribed, Unsubscribed
<1>2. ListOK(list) /\ ListOK(list')
  BY <1>1, AddKeeps, RemoveAllKeeps DEF IInv
<1>3. ListedFilters' \ broker' \subseteq ListedFilters \ broker
  <2> SUFFICES ASSUME NEW g \in ListedFilters', g \notin broker'
               PROVE  g \in ListedFilters /\ g \notin broker
    OBVIOUS
  <2>1. PICK p \in Places : list'[p] # Free /\ list'[p].filter = g
    BY <1>2, ListedAre DEF ListedFilters, Listed
  <2>2. CASE r \in Registrations /\ list' = AddSubscription(list, r) /\ broker' = broker \cup {r.filter}
    <3>1. list'[p] \in {list[p], r} /\ g # r.filter /\ g \notin broker
      BY <1>2, <2>2, AddKeeps
    <3>2. list[p] # Free /\ list[p].filter = g
      BY <2>1, <3>1
    <3> QED BY <1>2, <3>1, <3>2, ListedAre DEF ListedFilters, Listed
  <2>3. CASE list' = RemoveAll(list, {f}) /\ broker' = broker \ {f}
    <3>1. list'[p] = list[p] /\ list[p].filter # f
      BY <1>2, <2>1, <2>3, RemoveAllKeeps
    <3>2. g \in ListedFilters
      BY <1>2, <2>1, <3>1, ListedAre DEF ListedFilters, Listed
    <3> QED BY <2>1, <2>3, <3>1, <3>2
  <2> QED BY <1>1, <2>2, <2>3
<1>4. RenewalOK'
  BY <1>1, <1>3, SameRenewal DEF IInv
<1>5. WalkOK'
  BY <1>1 DEF IInv, WalkOK, Idle
<1>6. broker' \subseteq Filters
  BY <1>1, FreeApart DEF IInv, ScalarsOK
<1> QED BY <1>1, <1>2, <1>4, <1>5, <1>6 DEF IInv, RequestsOK, ScalarsOK, renewalVars

-----------------------------------------------------------------------------
(* The walk *)

(* The steps of the walk that leave the list alone change only the walk.   *)
LEMMA WalkStep ==
  ASSUME IInv, UNCHANGED <<list, renewalVars, linkVars>>, WalkOK'
  PROVE  IInv'
<1>1. RenewalOK'
  BY SameRenewal DEF IInv, ListedFilters, Listed, linkVars
<1> QED BY <1>1 DEF IInv, ListOK, RequestsOK, ScalarsOK, renewalVars, linkVars

LEMMA ArrivalKeeps ==
  ASSUME IInv, NEW t \in Topics, PublishArrives(t) PROVE IInv'
<1>1. /\ dispatch' = [Idle EXCEPT !.topic = t, !.place = 1, !.kept = Listed]
      /\ linked /\ UNCHANGED <<list, renewalVars, linkVars>>
  BY DEF PublishArrives
<1>2. /\ dispatch'.topic = t /\ dispatch'.place = 1 /\ dispatch'.inCallback = FALSE
      /\ dispatch'.calls = [r \in Registrations |-> 0] /\ dispatch'.kept = Listed
  BY <1>1 DEF Idle
<1>3. \A r \in Listed : r \in Registrations /\ \E p \in Places : list[p] = r
  BY ListedAre DEF Listed, IInv, ListOK
<1>4. dispatch' \in DispatchValues
  <2>1. 1 \in 0 .. MaxPlaces + 1
    BY FreeApart
  <2>2. [r \in Registrations |-> 0] \in [Registrations -> Nat] /\ Listed \subseteq Registrations
    BY <1>3
  <2> QED BY <1>1, <2>1, <2>2 DEF DispatchValues, Idle
<1>5. WalkOK'
  <2>1. \A p \in Places : ~PassedBy(p)'
    BY <1>2 DEF PassedBy, Places
  <2>2. ASSUME NEW r \in dispatch'.kept
        PROVE  \E p \in Places :
                 /\ list'[p] = r
                 /\ dispatch'.calls[r] =
                      IF MatchTopic(dispatch'.topic, r.filter) /\ PassedBy(p)' THEN 1 ELSE 0
    BY <1>1, <1>2, <1>3, <2>1, <2>2
  <2> QED BY <1>1, <1>2, <1>4, <2>2 DEF WalkOK, linkVars
<1> QED BY <1>1, <1>5, WalkStep

(* Each place is called when the walk stands at it, or is passed.          *)
LEMMA CallPlaceKeeps ==
  ASSUME IInv, CallPlace PROVE IInv'
<1> DEFINE here == dispatch.place
           called == list[dispatch.place]
<1>1. /\ dispatch' = [dispatch EXCEPT !.inCallback = TRUE, !.calls[called] = @ + 1]
      /\ here \in Places /\ ~dispatch.inCallback /\ here \in MatchingPlaces
      /\ UNCHANGED <<list, renewalVars, linkVars>>
  BY DEF CallPlace, AtPlace
<1>2. dispatch \in DispatchValues
  BY DEF IInv, WalkOK
<1>3. called \in Registrations /\ called # Free /\ MatchTopic(dispatch.topic, called.filter)
  BY <1>1 DEF MatchingPlaces, IInv, ListOK
<1>4. dispatch.calls \in [Registrations -> Nat]
  BY <1>2 DEF DispatchValues
<1>5. /\ dispatch' \in DispatchValues
      /\ dispatch'.topic = dispatch.topic /\ dispatch'.place = here /\ dispatch'.inCallback = TRUE
      /\ dispatch'.calls = [dispatch.calls EXCEPT ![called] = @ + 1]
      /\ dispatch'.kept = dispatch.kept
  <2>1. [dispatch.calls EXCEPT ![called] = @ + 1] \in [Registrations -> Nat]
    BY <1>3, <1>4
  <2>2. dispatch' = [dispatch EXCEPT !.inCallback = TRUE,
                                     !.calls = [dispatch.calls EXCEPT ![called] = @ + 1]]
    BY <1>1, <1>2 DEF DispatchValues
  <2> HIDE DEF called, here
  <2>3. dispatch' \in DispatchValues
    BY <1>2, <2>1, <2>2 DEF DispatchValues
  <2> QED BY <1>2, <2>2, <2>3 DEF DispatchValues, here
<1>6. \A p \in Places : PassedBy(p)' <=> PassedBy(p) \/ p = here
  BY <1>1, <1>5 DEF PassedBy
<1>7. ASSUME NEW r \in dispatch'.kept
      PROVE  \E p \in Places :
               /\ list'[p] = r
               /\ dispatch'.calls[r] =
                    IF MatchTopic(dispatch'.topic, r.filter) /\ PassedBy(p)' THEN 1 ELSE 0
  <2>1. PICK p \in Places :
          /\ list[p] = r
          /\ dispatch.calls[r] =
               IF MatchTopic(dispatch.topic, r.filter) /\ PassedBy(p) THEN 1 ELSE 0
    BY <1>5 DEF IInv, WalkOK
  <2>2. r \in Registrations
    BY <1>2, <1>5 DEF DispatchValues
  <2>3. CASE p = here
    <3>1. r = called /\ ~PassedBy(p)
      BY <1>1, <2>1, <2>3 DEF PassedBy, Places
    <3>2. dispatch'.calls[r] = 0 + 1
      BY <1>4, <1>5, <2>1, <2>2, <3>1
    <3> QED BY <1>1, <1>3, <1>5, <1>6, <2>1, <2>3, <3>1, <3>2
  <2>4. CASE p # here
    <3>1. r # called
      BY <1>1, <1>3, <2>1, <2>4 DEF IInv, ListOK
    <3>2. dispatch'.calls[r] = dispatch.calls[r]
      BY <1>4, <1>5, <2>2, <3>1
    <3>3. PassedBy(p)' <=> PassedBy(p)
      BY <1>6, <2>4
    <3> QED BY <1>1, <1>5, <2>1, <3>2, <3>3
  <2> QED BY <2>3, <2>4
<1>8. WalkOK'
  BY <1>1, <1>5, <1>7 DEF IInv, WalkOK, linkVars, Places
<1> QED BY <1>1, <1>8, WalkStep

(* A place is passed when it does not match, or when its callback returns. *)
LEMMA AdvanceKeeps ==
  ASSUME IInv, PassPlace \/ CallbackReturns PROVE IInv'
<1> DEFINE here == dispatch.place
<1>1. /\ here \in Places
      /\ \/ dispatch' = [dispatch EXCEPT !.place = @ + 1] /\ ~dispatch.inCallback
            /\ here \notin MatchingPlaces
         \/ dispatch' = [dispatch EXCEPT !.inCallback = FALSE, !.place = @ + 1]
            /\ dispatch.inCallback
      /\ UNCHANGED <<list, renewalVars, linkVars>>
  BY DEF PassPlace, CallbackReturns, AtPlace, IInv, WalkOK
<1>2. dispatch \in DispatchValues
  BY DEF IInv, WalkOK
<1>3. here + 1 \in 0 .. MaxPlaces + 1 /\ here + 1 # 0 /\ here # 0 /\ here \in Nat
  BY <1>1, FreeApart DEF Places
<1>4. /\ dispatch' \in DispatchValues
      /\ dispatch'.topic = dispatch.topic /\ dispatch'.place = here + 1
      /\ dispatch'.inCallback = FALSE
      /\ dispatch'.calls = dispatch.calls /\ dispatch'.kept = dispatch.kept
  <2>1. CASE dispatch.inCallback
    BY <1>1, <1>2, <1>3, <2>1 DEF DispatchValues
  <2>2. CASE ~dispatch.inCallback
    <3>1. dispatch' = [dispatch EXCEPT !.place = @ + 1] /\ dispatch.inCallback = FALSE
      BY <1>1, <1>2, <2>2 DEF DispatchValues
    <3> QED BY <1>2, <1>3, <3>1 DEF DispatchValues
  <2> QED BY <2>1, <2>2
<1>5. \A p \in Places : PassedBy(p)' <=> PassedBy(p) \/ p = here
  BY <1>3, <1>4 DEF PassedBy, Places
<1>6. ASSUME NEW r \in dispatch'.kept
      PROVE  \E p \in Places :
               /\ list'[p] = r
               /\ dispatch'.calls[r] =
                    IF MatchTopic(dispatch'.topic, r.filter) /\ PassedBy(p)' THEN 1 ELSE 0
  <2>1. PICK p \in Places :
          /\ list[p] = r
          /\ dispatch.calls[r] =
               IF MatchTopic(dispatch.topic, r.filter) /\ PassedBy(p) THEN 1 ELSE 0
    BY <1>4 DEF IInv, WalkOK
  <2>2. r \in Registrations /\ r # Free
    BY <1>2, <1>4, FreeApart DEF DispatchValues
  <2>3. CASE p = here /\ ~dispatch.inCallback
    <3>1. ~MatchTopic(dispatch.topic, r.filter)
      BY <1>1, <2>1, <2>2, <2>3 DEF MatchingPlaces
    <3> QED BY <1>1, <1>4, <2>1, <3>1
  <2>4. CASE p = here /\ dispatch.inCallback
    <3>1. PassedBy(p)
      BY <2>4 DEF PassedBy
    <3> QED BY <1>1, <1>4, <1>5, <2>1, <3>1
  <2>5. CASE p # here
    BY <1>1, <1>4, <1>5, <2>1, <2>5
  <2> QED BY <2>3, <2>4, <2>5
<1>7. WalkOK'
  BY <1>1, <1>3, <1>4, <1>6 DEF IInv, WalkOK, linkVars
<1> QED BY <1>1, <1>7, WalkStep

LEMMA HandledKeeps ==
  ASSUME IInv, PublishHandled PROVE IInv'
<1>1. dispatch' = Idle /\ UNCHANGED <<list, renewalVars, linkVars>>
  BY DEF PublishHandled
<1>2. Idle \in DispatchValues
  BY FreeApart DEF Idle, DispatchValues
<1>3. WalkOK'
  BY <1>1, <1>2 DEF WalkOK, Idle
<1> QED BY <1>1, <1>3, WalkStep

(* A callback adds behind or before the walk: nobody's place changes.      *)
LEMMA CallbackAddsKeeps ==
  ASSUME IInv, NEW r \in Registrations, CallbackAdds(r) PROVE IInv'
<1>1. /\ list' = AddSubscription(list, r) /\ r.filter \in ListedFilters
      /\ UNCHANGED <<dispatch, renewalVars, linkVars>>
  BY DEF CallbackAdds
<1>2. /\ ListOK(list) /\ ListOK(list')
      /\ \A p \in Places : (list[p] # Free => list'[p] = list[p]) /\ list'[p] \in {list[p], r}
  BY <1>1, AddKeeps DEF IInv
<1>3. ListedFilters' \subseteq ListedFilters
  <2> SUFFICES ASSUME NEW g \in ListedFilters' PROVE g \in ListedFilters
    OBVIOUS
  <2>1. PICK p \in Places : list'[p] # Free /\ list'[p].filter = g
    BY <1>2, ListedAre DEF ListedFilters, Listed
  <2>2. CASE list'[p] = r
    BY <1>1, <2>1, <2>2
  <2>3. CASE list'[p] = list[p]
    BY <1>2, <2>1, <2>3, ListedAre DEF ListedFilters, Listed
  <2> QED BY <1>2, <2>2, <2>3
<1>4. RenewalOK'
  <2>1. ListedFilters' \ broker' \subseteq ListedFilters \ broker
    BY <1>1, <1>3 DEF linkVars
  <2> QED BY <1>1, <2>1, SameRenewal DEF IInv
<1>5. WalkOK'
  <2>1. ASSUME NEW s \in dispatch.kept
        PROVE  \E p \in Places :
                 /\ list'[p] = s
                 /\ dispatch.calls[s] =
                      IF MatchTopic(dispatch.topic, s.filter) /\ PassedBy(p) THEN 1 ELSE 0
    <3>1. PICK p \in Places :
            /\ list[p] = s
            /\ dispatch.calls[s] =
                 IF MatchTopic(dispatch.topic, s.filter) /\ PassedBy(p) THEN 1 ELSE 0
      BY DEF IInv, WalkOK
    <3>2. s # Free
      BY FreeApart DEF IInv, WalkOK, DispatchValues
    <3> QED BY <1>2, <3>1, <3>2
  <2>2. \A p : PassedBy(p)' <=> PassedBy(p)
    BY <1>1 DEF PassedBy
  <2> QED BY <1>1, <2>1, <2>2 DEF IInv, WalkOK, linkVars
<1> QED BY <1>1, <1>2, <1>4, <1>5 DEF IInv, RequestsOK, ScalarsOK, renewalVars, linkVars

(* ... and a removal forgets only registrations of the filter removed.     *)
LEMMA CallbackRemovesKeeps ==
  ASSUME IInv, NEW f \in Filters, CallbackRemoves(f) PROVE IInv'
<1>1. /\ list' = RemoveAll(list, {f})
      /\ dispatch' = [dispatch EXCEPT !.kept = {r \in @ : r.filter # f}]
      /\ UNCHANGED <<renewalVars, linkVars>>
  BY RemoveIsRemoveAll DEF CallbackRemoves
<1>2. /\ ListOK(list) /\ ListOK(list')
      /\ \A p \in Places : list'[p] = IF list[p].filter \in {f} THEN Free ELSE list[p]
  BY <1>1, RemoveAllKeeps DEF IInv
<1>3. dispatch \in DispatchValues
  BY DEF IInv, WalkOK
<1>4. /\ dispatch' \in DispatchValues
      /\ dispatch'.topic = dispatch.topic /\ dispatch'.place = dispatch.place
      /\ dispatch'.inCallback = dispatch.inCallback /\ dispatch'.calls = dispatch.calls
      /\ dispatch'.kept = {r \in dispatch.kept : r.filter # f}
  BY <1>1, <1>3 DEF DispatchValues
<1>5. RenewalOK'
  <2>1. ListedFilters' \subseteq ListedFilters
    <3> SUFFICES ASSUME NEW g \in ListedFilters' PROVE g \in ListedFilters
      OBVIOUS
    <3>1. PICK p \in Places : list'[p] # Free /\ list'[p].filter = g
      BY <1>2, ListedAre DEF ListedFilters, Listed
    <3>2. list'[p] = list[p]
      BY <1>2, <3>1
    <3> QED BY <1>2, <3>1, <3>2, ListedAre DEF ListedFilters, Listed
  <2>2. ListedFilters' \ broker' \subseteq ListedFilters \ broker
    BY <1>1, <2>1 DEF linkVars
  <2> QED BY <1>1, <2>2, SameRenewal DEF IInv
<1>6. WalkOK'
  <2>1. ASSUME NEW s \in dispatch'.kept
        PROVE  \E p \in Places :
                 /\ list'[p] = s
                 /\ dispatch'.calls[s] =
                      IF MatchTopic(dispatch'.topic, s.filter) /\ PassedBy(p)' THEN 1 ELSE 0
    <3>1. s \in dispatch.kept /\ s.filter # f
      BY <1>4
    <3>2. PICK p \in Places :
            /\ list[p] = s
            /\ dispatch.calls[s] =
                 IF MatchTopic(dispatch.topic, s.filter) /\ PassedBy(p) THEN 1 ELSE 0
      BY <3>1 DEF IInv, WalkOK
    <3>3. list'[p] = s
      BY <1>2, <3>1, <3>2
    <3>4. PassedBy(p)' <=> PassedBy(p)
      BY <1>4 DEF PassedBy
    <3> QED BY <1>4, <3>2, <3>3, <3>4
  <2>2. dispatch.place # 0
    BY FreeApart DEF CallbackRemoves, IInv, WalkOK, Places
  <2> QED BY <1>1, <1>4, <2>1, <2>2 DEF IInv, WalkOK, linkVars
<1> QED BY <1>1, <1>2, <1>5, <1>6 DEF IInv, RequestsOK, ScalarsOK, renewalVars, linkVars

LEMMA LinkFailsKeeps ==
  ASSUME IInv, LinkFails PROVE IInv'
<1>1. /\ dispatch = Idle /\ linked' = FALSE
      /\ UNCHANGED <<agentVars, renewalVars, persistent, broker>>
  BY DEF LinkFails
<1>2. RenewalOK'
  BY <1>1, SameRenewal DEF IInv, ListedFilters, Listed, agentVars
<1>3. WalkOK'
  BY <1>1 DEF IInv, WalkOK, Idle, agentVars
<1>4. {linked, persistent, unrenewed}' \subseteq BOOLEAN
  BY <1>1 DEF IInv, ScalarsOK, renewalVars
<1> QED BY <1>1, <1>2, <1>3, <1>4
        DEF IInv, ListOK, RequestsOK, ScalarsOK, renewalVars, agentVars

-----------------------------------------------------------------------------
(* Reconnection and renewal *)

LEMMA ConcludedKeeps ==
  ASSUME NEW l, ListOK(l), NEW m \in ConcludedWithoutCodes(l)
  PROVE  ListOK(m)
<1>1. PICK S \in SUBSET DOMAIN subArgs : m = RemoveAll(l, {subArgs[i] : i \in S})
  BY DEF ConcludedWithoutCodes
<1> QED BY <1>1, RemoveAllKeeps

(* A lost session is renewed from what is listed now; a resumed one is as  *)
(* it was, unless requests were given up.                                  *)
LEMMA ReconnectKeeps ==
  ASSUME IInv, NEW present \in BOOLEAN, Reconnect(present) PROVE IInv'
<1>1. /\ ~linked /\ linked' = TRUE /\ persistent' = TRUE /\ requests' = <<>>
      /\ IF requests = <<>> THEN UNCHANGED list ELSE list' \in ConcludedWithoutCodes(list)
      /\ UNCHANGED dispatch
  BY DEF Reconnect
<1>2. ListOK(list')
  BY <1>1, ConcludedKeeps DEF IInv
<1>3. Snapshot' \in Args /\ \A f \in ListedFilters' : \E i \in DOMAIN Snapshot' : Snapshot'[i] = f
  <2> DEFINE taken == InOrder({p \in Places : list'[p] # Free})
             s == [i \in DOMAIN taken |-> list'[taken[i]].filter]
  <2>1. s \in Args /\ \A p \in Places : list'[p] # Free => \E i \in DOMAIN s : s[i] = list'[p].filter
    BY <1>2, SnapshotLists
  <2>2. Snapshot' = s
    BY DEF Snapshot
  <2> HIDE DEF s
  <2> QED BY <1>2, <2>1, <2>2, ListedAre DEF ListedFilters, Listed
<1>4. WalkOK'
  <2>1. dispatch = Idle
    BY <1>1 DEF IInv, WalkOK
  <2> QED BY <1>1, <2>1 DEF IInv, WalkOK, Idle
<1>5. <<>> \in Seq(RequestValues) /\ DOMAIN requests' = {}
  BY <1>1, EmptySeq
<1>6. CASE present
  <2>1. unrenewed' = (unrenewed \/ requests # <<>>) /\ UNCHANGED <<commands, subArgs, broker>>
    BY <1>6 DEF Reconnect
  <2>2. RenewalOK'
    <3> SUFFICES ASSUME ~unrenewed' PROVE \A f \in ListedFilters' \ broker' : AskedFor(f)'
      BY DEF RenewalOK
    <3>1. ~unrenewed /\ requests = <<>> /\ list' = list /\ requests' = requests
      BY <1>1, <2>1
    <3>2. ListedFilters' \ broker' = ListedFilters \ broker
      BY <2>1, <3>1 DEF ListedFilters, Listed
    <3>3. \A f : AskedFor(f)' <=> AskedFor(f)
      BY <2>1, <3>1 DEF AskedFor, Open
    <3> QED BY <3>1, <3>2, <3>3 DEF IInv, RenewalOK
  <2>3. RequestsOK'
    BY <1>1, <1>5, <2>1 DEF IInv, RequestsOK
  <2>4. {linked, persistent, unrenewed}' \subseteq BOOLEAN
    BY <1>1, <2>1 DEF IInv, ScalarsOK
  <2> QED BY <1>2, <1>4, <2>1, <2>2, <2>3, <2>4 DEF IInv, ScalarsOK
<1>7. CASE ~present
  <2>1. /\ commands < MaxRenewals /\ unrenewed' = FALSE /\ broker' = {}
        /\ IF Listed' # {} THEN commands' = commands + 1 /\ subArgs' = Snapshot'
                           ELSE UNCHANGED <<commands, subArgs>>
    BY <1>7 DEF Reconnect
  <2>2. commands \in Nat /\ commands' \in 0 .. MaxRenewals
    BY <2>1, FreeApart DEF IInv, ScalarsOK
  <2>3. RenewalOK'
    <3>1. CASE Listed' # {}
      <4>1. commands' > 0 /\ subArgs' = Snapshot'
        BY <2>1, <2>2, <3>1
      <4> QED BY <1>3, <4>1 DEF RenewalOK, AskedFor
    <3>2. CASE Listed' = {}
      BY <3>2 DEF RenewalOK, ListedFilters
    <3> QED BY <3>1, <3>2
  <2>4. RequestsOK'
    <3>1. subArgs' \in Args
      BY <1>3, <2>1 DEF IInv, RequestsOK
    <3> QED BY <1>1, <1>5, <3>1 DEF RequestsOK
  <2>5. {linked, persistent, unrenewed}' \subseteq BOOLEAN
    BY <1>1, <2>1
  <2> QED BY <1>2, <1>4, <2>1, <2>2, <2>3, <2>4, <2>5 DEF IInv, ScalarsOK
<1> QED BY <1>6, <1>7

LEMMA RequestTypes ==
  ASSUME RequestsOK
  PROVE  /\ DOMAIN requests = 1 .. Len(requests) /\ Len(requests) \in Nat
         /\ \A k \in DOMAIN requests : requests[k] \in RequestValues
<1>1. requests \in Seq(RequestValues)
  BY DEF RequestsOK
<1> QED BY <1>1, LenProperties, ElementOfSeq

(* The request that is sent asks for the filters of the static array.      *)
LEMMA SendKeeps ==
  ASSUME IInv, SendSubscribe PROVE IInv'
<1> DEFINE request == [asked |-> subArgs, codes |-> NoAnswer]
<1>1. /\ commands > 0 /\ commands' = commands - 1
      /\ requests' = Append(requests, request)
      /\ UNCHANGED <<agentVars, subArgs, unrenewed, linkVars>>
  BY DEF SendSubscribe
<1>2. request \in RequestValues
  BY EmptySeq DEF NoAnswer, RequestValues, IInv, RequestsOK
<1> HIDE DEF request
<1>3. /\ requests' \in Seq(RequestValues) /\ Len(requests') = Len(requests) + 1
      /\ \A k \in 1 .. Len(requests) : requests'[k] = requests[k]
      /\ requests'[Len(requests) + 1] = request
      /\ DOMAIN requests = 1 .. Len(requests) /\ Len(requests) \in Nat
      /\ DOMAIN requests' = 1 .. Len(requests) + 1
  <2>1. requests \in Seq(RequestValues)
    BY DEF IInv, RequestsOK
  <2>2. /\ requests' \in Seq(RequestValues) /\ Len(requests') = Len(requests) + 1
        /\ \A k \in 1 .. Len(requests) : requests'[k] = requests[k]
        /\ requests'[Len(requests) + 1] = request
    BY <1>1, <1>2, <2>1, AppendProperties
  <2> QED BY <2>1, <2>2, LenProperties
<1>4. RequestsOK'
  <2>1. ASSUME NEW k \in DOMAIN requests'
        PROVE  /\ requests'[k].asked = subArgs
               /\ requests'[k].codes # NoAnswer => DOMAIN requests'[k].codes = DOMAIN subArgs
    <3>1. CASE k \in DOMAIN requests
      BY <1>3, <3>1 DEF IInv, RequestsOK
    <3>2. CASE k = Len(requests) + 1
      BY <1>3, <3>2 DEF request
    <3> QED BY <1>3, <3>1, <3>2
  <2> QED BY <1>1, <1>3, <2>1 DEF IInv, RequestsOK
<1>5. RenewalOK'
  <2> SUFFICES ASSUME ~unrenewed', NEW f \in ListedFilters' \ broker' PROVE AskedFor(f)'
    BY DEF RenewalOK
  <2>1. ~unrenewed /\ f \in ListedFilters \ broker
    BY <1>1 DEF agentVars, linkVars, ListedFilters, Listed
  <2>2. PICK i \in DOMAIN subArgs : subArgs[i] = f
    BY <2>1 DEF IInv, RenewalOK, AskedFor
  <2>3. PICK last : last = Len(requests) + 1
    OBVIOUS
  <2>4. last \in DOMAIN requests' /\ requests'[last].codes = NoAnswer
    BY <1>3, <2>3 DEF request
  <2> QED BY <1>1, <2>2, <2>4 DEF AskedFor, Open
<1>6. ScalarsOK'
  BY <1>1, FreeApart DEF IInv, ScalarsOK, linkVars
<1>7. WalkOK' /\ ListOK(list)'
  <2>1. \A p : PassedBy(p)' <=> PassedBy(p)
    BY <1>1 DEF PassedBy, agentVars
  <2> QED BY <1>1, <2>1 DEF IInv, WalkOK, ListOK, agentVars, linkVars
<1> QED BY <1>4, <1>5, <1>6, <1>7 DEF IInv

LEMMA SendFailsKeeps ==
  ASSUME IInv, SubscribeFails PROVE IInv'
<1>1. /\ dispatch = Idle /\ commands > 0 /\ commands' = commands - 1
      /\ list' \in ConcludedWithoutCodes(list) /\ unrenewed' = TRUE /\ linked' = FALSE
      /\ UNCHANGED <<dispatch, subArgs, requests, persistent, broker>>
  BY DEF SubscribeFails
<1>2. ListOK(list')
  BY <1>1, ConcludedKeeps DEF IInv
<1>3. RenewalOK'
  BY <1>1 DEF RenewalOK
<1>4. RequestsOK'
  BY <1>1 DEF IInv, RequestsOK
<1>5. WalkOK'
  BY <1>1 DEF IInv, WalkOK, Idle
<1>6. {linked, persistent, unrenewed}' \subseteq BOOLEAN
  BY <1>1 DEF IInv, ScalarsOK
<1>7. ScalarsOK'
  BY <1>1, <1>6, FreeApart DEF IInv, ScalarsOK
<1> QED BY <1>2, <1>3, <1>4, <1>5, <1>7 DEF IInv

(* What the broker does not accept stays asked for until the SUBACK comes. *)
LEMMA AnswerKeeps ==
  ASSUME IInv, BrokerAnswers PROVE IInv'
<1> PICK n \in DOMAIN requests :
      /\ requests[n].codes = NoAnswer
      /\ \E codes \in [DOMAIN requests[n].asked -> BOOLEAN] :
           /\ requests' = [requests EXCEPT ![n].codes = codes]
           /\ broker' = broker \cup {requests[n].asked[i] : i \in {m \in DOMAIN codes : codes[m]}}
      /\ UNCHANGED <<agentVars, commands, subArgs, unrenewed, linked, persistent>>
  BY DEF BrokerAnswers
<1> PICK codes \in [DOMAIN requests[n].asked -> BOOLEAN] :
      /\ requests' = [requests EXCEPT ![n].codes = codes]
      /\ broker' = broker \cup {requests[n].asked[i] : i \in {m \in DOMAIN codes : codes[m]}}
  OBVIOUS
<1>1. /\ DOMAIN requests = 1 .. Len(requests) /\ Len(requests) \in Nat
      /\ requests[n] \in RequestValues /\ requests[n].asked = subArgs
      /\ requests \in Seq(RequestValues)
  BY RequestTypes DEF IInv, RequestsOK
<1>2. PICK m \in 0 .. MaxPlaces : subArgs \in [1 .. m -> Filters]
  BY DEF IInv, RequestsOK, Args, BoundedSeq, SeqOf
<1>3. codes \in Seq(BOOLEAN) /\ DOMAIN codes = DOMAIN subArgs
  <2>1. codes \in [1 .. m -> BOOLEAN] /\ m \in Nat
    BY <1>1, <1>2, FreeApart
  <2> QED BY <1>2, <2>1, SeqDef
<1> DEFINE answered == [requests[n] EXCEPT !.codes = codes]
<1>4. answered \in RequestValues /\ answered.asked = subArgs /\ answered.codes = codes
  BY <1>1, <1>3 DEF RequestValues
<1> HIDE DEF answered
<1>5. requests' = [requests EXCEPT ![n] = answered]
  BY DEF answered
<1>6. /\ requests' \in Seq(RequestValues) /\ Len(requests') = Len(requests)
      /\ DOMAIN requests' = DOMAIN requests
      /\ \A k \in DOMAIN requests : requests'[k] = IF k = n THEN answered ELSE requests[k]
  BY <1>1, <1>4, <1>5, ExceptSeq
<1>7. RequestsOK'
  BY <1>3, <1>4, <1>6 DEF IInv, RequestsOK
<1>8. broker' = broker \cup {subArgs[i] : i \in {j \in DOMAIN codes : codes[j]}}
  BY <1>1
<1>9. RenewalOK'
  <2> SUFFICES ASSUME ~unrenewed', NEW f \in ListedFilters' \ broker' PROVE AskedFor(f)'
    BY DEF RenewalOK
  <2>1. ~unrenewed /\ f \in ListedFilters \ broker /\ f \notin broker'
    BY <1>8 DEF agentVars, ListedFilters, Listed
  <2>2. PICK i \in DOMAIN subArgs :
          subArgs[i] = f /\ (commands > 0 \/ \E k \in DOMAIN requests : Open(k, i))
    BY <2>1 DEF IInv, RenewalOK, AskedFor
  <2>3. ~codes[i]
    BY <1>3, <1>8, <2>1, <2>2
  <2>4. ASSUME NEW k \in DOMAIN requests, Open(k, i) PROVE Open(k, i)'
    BY <1>4, <1>6, <2>3, <2>4 DEF Open
  <2> QED BY <1>6, <2>2, <2>4 DEF AskedFor
<1>10. ScalarsOK'
  <2>1. \A i \in DOMAIN codes : subArgs[i] \in Filters
    BY <1>2, <1>3
  <2> QED BY <1>8, <2>1 DEF IInv, ScalarsOK
<1>11. WalkOK' /\ ListOK(list)'
  <2>1. \A p : PassedBy(p)' <=> PassedBy(p)
    BY DEF PassedBy, agentVars
  <2> QED BY <2>1 DEF IInv, WalkOK, ListOK, agentVars
<1> QED BY <1>7, <1>9, <1>10, <1>11 DEF IInv

(* The SUBACK delists what the broker refused, by the static array, which  *)
(* still holds the filters of the request.                                 *)
LEMMA SubAckRemoves ==
  ASSUME IInv, SubAckArrives
  PROVE  /\ ListOK(list')
         /\ \A p \in Places :
              list'[p] = IF list[p].filter \in {subArgs[i] : i \in Refused(requests[1].codes)}
                           THEN Free ELSE list[p]
         /\ Head(requests) = requests[1] /\ 1 \in DOMAIN requests
         /\ Head(requests).asked = subArgs
BY RemoveAllKeeps, RequestTypes, EmptySeq DEF SubAckArrives, IInv, RequestsOK

LEMMA SubAckKeeps ==
  ASSUME IInv, SubAckArrives PROVE IInv'
<1> DEFINE F == {subArgs[i] : i \in Refused(requests[1].codes)}
<1>1. /\ dispatch = Idle /\ requests # <<>> /\ Head(requests).codes # NoAnswer
      /\ requests' = Tail(requests)
      /\ UNCHANGED <<dispatch, commands, subArgs, unrenewed, linkVars>>
  BY DEF SubAckArrives
<1>2. /\ ListOK(list') /\ ListOK(list)
      /\ \A p \in Places : list'[p] = IF list[p].filter \in F THEN Free ELSE list[p]
      /\ Head(requests) = requests[1] /\ 1 \in DOMAIN requests
  BY SubAckRemoves DEF IInv
<1>3. /\ requests \in Seq(RequestValues) /\ requests' \in Seq(RequestValues)
      /\ DOMAIN requests = 1 .. Len(requests) /\ Len(requests) \in Nat
      /\ DOMAIN requests' = 1 .. Len(requests) - 1
      /\ \A k \in DOMAIN requests' : requests'[k] = requests[k + 1] /\ k + 1 \in DOMAIN requests
  <2>1. requests \in Seq(RequestValues)
    BY DEF IInv, RequestsOK
  <2>2. /\ requests' \in Seq(RequestValues) /\ Len(requests') = Len(requests) - 1
        /\ \A k \in 1 .. Len(requests') : requests'[k] = requests[k + 1]
    BY <1>1, <2>1, HeadTailProperties
  <2>3. /\ DOMAIN requests = 1 .. Len(requests) /\ Len(requests) \in Nat
        /\ DOMAIN requests' = 1 .. Len(requests')
    BY <2>1, <2>2, LenProperties
  <2> QED BY <2>1, <2>2, <2>3
<1>4. RequestsOK'
  BY <1>1, <1>3 DEF IInv, RequestsOK
<1>5. RenewalOK'
  <2> SUFFICES ASSUME ~unrenewed', NEW f \in ListedFilters' \ broker' PROVE AskedFor(f)'
    BY DEF RenewalOK
  <2>1. PICK p \in Places : list'[p] # Free /\ list'[p].filter = f
    BY <1>2, ListedAre DEF ListedFilters, Listed
  <2>2. list'[p] = list[p] /\ f \notin F
    BY <1>2, <2>1
  <2>3. f \in ListedFilters \ broker /\ ~unrenewed
    BY <1>1, <1>2, <2>1, <2>2, ListedAre DEF ListedFilters, Listed, linkVars
  <2>4. PICK i \in DOMAIN subArgs :
          subArgs[i] = f /\ (commands > 0 \/ \E k \in DOMAIN requests : Open(k, i))
    BY <2>3 DEF IInv, RenewalOK, AskedFor
  <2>5. ~Open(1, i)
    <3>1. requests[1].codes # NoAnswer /\ DOMAIN requests[1].codes = DOMAIN subArgs
      BY <1>1, <1>2 DEF IInv, RequestsOK
    <3>2. i \notin Refused(requests[1].codes)
      BY <2>2, <2>4
    <3> QED BY <2>4, <3>1, <3>2 DEF Open, Refused
  <2>6. ASSUME NEW k \in DOMAIN requests, Open(k, i)
        PROVE  k - 1 \in DOMAIN requests' /\ Open(k - 1, i)'
    <3>1. k # 1
      BY <2>5, <2>6
    <3>2. k - 1 \in DOMAIN requests' /\ (k - 1) + 1 = k
      BY <1>3, <3>1
    <3> QED BY <1>3, <2>6, <3>2 DEF Open
  <2> QED BY <1>1, <2>4, <2>6 DEF AskedFor
<1>6. WalkOK'
  BY <1>1 DEF IInv, WalkOK, Idle, linkVars
<1> QED BY <1>1, <1>2, <1>4, <1>5, <1>6 DEF IInv, ScalarsOK, linkVars

-----------------------------------------------------------------------------
(* Matching: the walk                                                      *)

LEMMA EndOfLevelIs ==
  ASSUME NEW name, Len(name) \in Nat, NEW n \in Nat, n <= Len(name) + 1
  PROVE  /\ EndOfLevel(name, n) \in Nat
         /\ EndOfLevel(name, n) >= n /\ EndOfLevel(name, n) <= Len(name) + 1
         /\ EndOfLevel(name, n) <= Len(name) => name[EndOfLevel(name, n)] = "/"
         /\ \A i \in n .. Len(name) : name[i] = "/" => EndOfLevel(name, n) <= i
<1> DEFINE S == {i \in n .. Len(name) : name[i] = "/"} \cup {Len(name) + 1}
<1>1. S \in SUBSET Nat /\ S # {}
  OBVIOUS
<1>2. FirstOf(S) \in S /\ \A q \in S : FirstOf(S) <= q
  BY <1>1, FirstIsMember
<1>3. EndOfLevel(name, n) = FirstOf(S)
  BY DEF EndOfLevel
<1>4. PICK e : e = FirstOf(S)
  OBVIOUS
<1>5. e \in Nat /\ e >= n /\ e <= Len(name) + 1 /\ (e <= Len(name) => name[e] = "/")
  <2>1. e \in S
    BY <1>2, <1>4
  <2>2. CASE e = Len(name) + 1
    BY <2>2
  <2>3. CASE e \in n .. Len(name) /\ name[e] = "/"
    BY <2>3
  <2> QED BY <2>1, <2>2, <2>3
<1>6. \A i \in n .. Len(name) : name[i] = "/" => e <= i
  BY <1>2, <1>4
<1> QED BY <1>3, <1>4, <1>5, <1>6

(* One comparison of the loop of matchTopicFilter.                         *)
Compare(name, filter, n, f, g) ==
  IF n > Len(name) \/ f > Len(filter) THEN n > Len(name) /\ f > Len(filter)
  ELSE IF name[n] = filter[f]
    THEN \/ n = Len(name) /\ MatchEndWildcardsSpecialCases(filter, f)
         \/ g[n + 1][f + 1]
  ELSE /\ LocationIsValidForWildcard(filter, f)
       /\ \/ filter[f] = "#" /\ f = Len(filter)
          \/ /\ filter[f] = "+"
             /\ LET next == EndOfLevel(name, n) IN
                IF next > Len(name) THEN g[next][f + 1]
                ELSE f < Len(filter) /\ filter[f + 1] = "/" /\ g[next + 1][f + 2]

Comparisons(name, filter, n, g) == [f \in Nat |-> Compare(name, filter, n, f, g)]

(* It leaves the rest of the match to later characters of the name.        *)
LEMMA ComparisonsRead ==
  ASSUME NEW name, Len(name) \in Nat, NEW filter, NEW n \in Nat, NEW g, NEW h,
         \A m \in Nat : m > n => g[m] = h[m]
  PROVE  Comparisons(name, filter, n, g) = Comparisons(name, filter, n, h)
<1>1. ASSUME NEW f \in Nat PROVE Compare(name, filter, n, f, g) = Compare(name, filter, n, f, h)
  <2>1. CASE n > Len(name)
    BY <2>1, Zenon DEF Compare
  <2>2. CASE ~(n > Len(name))
    <3>1. n <= Len(name) /\ n <= Len(name) + 1
      BY <2>2, SMT
    <3>2. PICK e : e = EndOfLevel(name, n)
      OBVIOUS
    <3>3. e \in Nat /\ e >= n
      BY <3>1, <3>2, EndOfLevelIs
    <3>4. e > Len(name) => e > n
      BY <3>1, <3>3, SMT
    <3>5. g[n + 1] = h[n + 1] /\ g[e + 1] = h[e + 1] /\ (e > Len(name) => g[e] = h[e])
      <4>1. n + 1 \in Nat /\ n + 1 > n /\ e + 1 \in Nat /\ e + 1 > n
        BY <3>3, SMT
      <4> QED BY <3>3, <3>4, <4>1
    <3> QED BY <3>2, <3>5, Zenon DEF Compare
  <2> QED BY <2>1, <2>2
<1> QED BY <1>1, Zenon DEF Comparisons

(* g makes them from the position n of the name on.                        *)
Walks(name, filter, g, n) ==
  \A m \in Nat : m >= n => g[m] = Comparisons(name, filter, m, g)

LEMMA WalksEarlier ==
  ASSUME NEW name, Len(name) \in Nat, NEW filter, NEW g, NEW n \in Nat,
         Walks(name, filter, g, n + 1)
  PROVE  \E h : Walks(name, filter, h, n)
<1> DEFINE h == [m \in Nat |-> IF m = n THEN Comparisons(name, filter, n, g) ELSE g[m]]
<1>1. h[n] = Comparisons(name, filter, n, g) /\ \A m \in Nat : m # n => h[m] = g[m]
  BY Zenon
<1> HIDE DEF h
<1>2. ASSUME NEW m \in Nat, m >= n PROVE h[m] = Comparisons(name, filter, m, h)
  <2>1. \A k \in Nat : k > m => g[k] = h[k]
    <3>1. \A k \in Nat : k > m => k # n
      BY <1>2, SMT
    <3> QED BY <1>1, <3>1
  <2>2. Comparisons(name, filter, m, g) = Comparisons(name, filter, m, h)
    BY <2>1, ComparisonsRead
  <2>3. h[m] = Comparisons(name, filter, m, g)
    <3>1. CASE m = n
      BY <1>1, <3>1
    <3>2. CASE m # n
      <4>1. m >= n + 1
        BY <1>2, <3>2, SMT
      <4> QED BY <1>1, <3>2, <4>1 DEF Walks
    <3> QED BY <3>1, <3>2
  <2> QED BY <2>2, <2>3
<1> QED BY <1>2 DEF Walks

LEMMA WalkExists ==
  ASSUME NEW name, Len(name) \in Nat, NEW filter
  PROVE  \E g : Walks(name, filter, g, 0)
<1> DEFINE L == Len(name) + 1
           Missed == {d \in 0 .. L : ~ \E g : Walks(name, filter, g, L - d)}
<1>1. SUFFICES Missed = {}
  <2>1. L \in 0 .. L /\ L - L = 0
    OBVIOUS
  <2> QED BY <2>1
<1>2. SUFFICES ASSUME Missed # {} PROVE FALSE
  OBVIOUS
<1> DEFINE d == FirstOf(Missed)
<1>3. Missed \in SUBSET Nat
  OBVIOUS
<1>4. d \in Missed /\ \A e \in Missed : d <= e
  BY <1>2, <1>3, FirstIsMember
<1> HIDE DEF d
<1>5. d \in 0 .. L /\ ~ \E g : Walks(name, filter, g, L - d)
  BY <1>4
<1>6. CASE d = 0
  <2> DEFINE h == [m \in Nat |-> Comparisons(name, filter, m, <<>>)]
  <2>1. ASSUME NEW m \in Nat, m >= L PROVE h[m] = Comparisons(name, filter, m, h)
    <3>1. m > Len(name)
      BY <2>1
    <3> HIDE DEF h
    <3>2. \A f \in Nat : Compare(name, filter, m, f, <<>>) = Compare(name, filter, m, f, h)
      BY <3>1, Zenon DEF Compare
    <3>3. Comparisons(name, filter, m, <<>>) = Comparisons(name, filter, m, h)
      BY <3>2, Zenon DEF Comparisons
    <3> QED BY <3>3, Zenon DEF h
  <2> HIDE DEF h
  <2>2. L - d = L
    BY <1>6
  <2> QED BY <1>5, <2>1, <2>2 DEF Walks
<1>7. CASE d # 0
  <2>1. d - 1 \in 0 .. L /\ L - d \in Nat /\ (L - d) + 1 = L - (d - 1) /\ ~(d <= d - 1)
    BY <1>5, <1>7
  <2>2. \E g : Walks(name, filter, g, L - (d - 1))
    BY <1>4, <2>1
  <2>3. \E g : Walks(name, filter, g, (L - d) + 1)
    BY <2>1, <2>2
  <2> QED BY <1>5, <2>1, <2>3, WalksEarlier
<1> QED BY <1>6, <1>7

(* What matchTopicFilter finds is what its comparisons find, made in any   *)
(* place of the name and the filter.                                       *)
LEMMA WalkIs ==
  ASSUME NEW name, Len(name) \in Nat, NEW filter
  PROVE  \E g : /\ \A n, f \in Nat : g[n][f] = Compare(name, filter, n, f, g)
                /\ MatchTopicFilter(name, filter) = g[1][1]
<1>1. PICK h : Walks(name, filter, h, 0)
  BY WalkExists
<1>2. \A n \in Nat : h[n] = Comparisons(name, filter, n, h)
  <2>1. \A n \in Nat : n >= 0
    BY SMT
  <2> QED BY <1>1, <2>1 DEF Walks
<1> DEFINE w == [n \in Nat |-> h[n]]
<1>3. \A n \in Nat : w[n] = h[n]
  BY Zenon
<1> HIDE DEF w
<1>4. ASSUME NEW n \in Nat PROVE h[n] = Comparisons(name, filter, n, w)
  <2>1. Comparisons(name, filter, n, h) = Comparisons(name, filter, n, w)
    BY <1>3, ComparisonsRead
  <2> QED BY <1>2, <2>1
<1>5. w = [n \in Nat |-> Comparisons(name, filter, n, w)]
  <2> DEFINE v == [n \in Nat |-> Comparisons(name, filter, n, w)]
  <2>1. \A n \in Nat : h[n] = v[n]
    BY <1>4, Zenon
  <2> HIDE DEF v
  <2>2. w = [n \in Nat |-> v[n]]
    BY <2>1, Zenon DEF w
  <2> QED BY <2>2, Zenon DEF v
<1>6. PICK g : /\ g = [n \in Nat |-> [f \in Nat |-> Compare(name, filter, n, f, g)]]
               /\ MatchTopicFilter(name, filter) = g[1][1]
  BY <1>5, Zenon DEF MatchTopicFilter, Compare, Comparisons
<1>7. ASSUME NEW n \in Nat, NEW f \in Nat PROVE g[n][f] = Compare(name, filter, n, f, g)
  <2>1. g[n] = [x \in Nat |-> Compare(name, filter, n, x, g)]
    BY <1>6, Zenon
  <2> QED BY <2>1, Zenon
<1> QED BY <1>6, <1>7

-----------------------------------------------------------------------------
(* Matching: the levels                                                    *)

LEMMA WordIs ==
  ASSUME NEW s, Word(s)
  PROVE  /\ Len(s) \in Nat /\ Len(s) >= 1 /\ DOMAIN s = 1 .. Len(s)
         /\ \A i \in 1 .. Len(s) : i \in DOMAIN s
         /\ \E S : s \in Seq(S)
<1>1. PICK S : s \in Seq(S) /\ s # <<>>
  BY DEF Word
<1>2. Len(s) \in Nat /\ DOMAIN s = 1 .. Len(s)
  BY <1>1
<1>3. Len(s) # 0
  BY <1>1
<1> QED BY <1>1, <1>2, <1>3

LEMMA CutsAre ==
  ASSUME NEW s, Word(s)
  PROVE  /\ Len(s) + 1 \in Nat /\ Cuts(s) \in SUBSET (1 .. Len(s) + 1)
         /\ Len(s) + 1 \in Cuts(s)
         /\ \A i \in Cuts(s) : i # Len(s) + 1 => i \in 1 .. Len(s) /\ s[i] = "/"
         /\ \A i \in 1 .. Len(s) : s[i] = "/" => i \in Cuts(s)
BY WordIs DEF Cuts

LEMMA CutIs ==
  ASSUME NEW s, Word(s)
  PROVE  /\ Depth(s) \in Nat /\ Depth(s) >= 1
         /\ \A k \in 1 .. Depth(s) : Cut(s, k) \in Cuts(s) /\ Cut(s, k) \in Nat
         /\ \A j, k \in 1 .. Depth(s) : j < k => Cut(s, j) < Cut(s, k)
         /\ \A i \in Cuts(s) : \E k \in 1 .. Depth(s) : Cut(s, k) = i
<1> DEFINE n == Len(s) + 1
           C == Cuts(s)
<1>1. n \in Nat /\ C \in SUBSET (1 .. n) /\ n \in C
  BY CutsAre
<1> HIDE DEF n, C
<1>2. IsFiniteSet(C) /\ Cardinality(C) \in 0 .. n
  BY <1>1, PositionsFinite
<1>3. Cardinality(C) # 0
  BY <1>1, <1>2, FS_EmptySet
<1>4. InOrder(C) \in [1 .. Cardinality(C) -> C] /\ \A p \in C : InOrder(C)[Rank(C, p)] = p
  BY <1>1, InOrderLists
<1>5. \A p \in C : Rank(C, p) \in 1 .. Cardinality(C)
  BY <1>1, RankIsPlace
<1>6. \A j, k \in 1 .. Cardinality(C) : j < k => InOrder(C)[j] < InOrder(C)[k]
  BY <1>1, InOrderAscends
<1>7. \A k \in 1 .. Cardinality(C) : InOrder(C)[k] \in C /\ InOrder(C)[k] \in Nat
  <2>1. \A k \in 1 .. Cardinality(C) : InOrder(C)[k] \in C
    BY <1>4
  <2>2. \A p \in C : p \in Nat
    BY <1>1
  <2> QED BY <2>1, <2>2
<1>8. \A i \in C : \E k \in 1 .. Cardinality(C) : InOrder(C)[k] = i
  BY <1>4, <1>5
<1>9. Cardinality(C) \in Nat /\ Cardinality(C) >= 1
  BY <1>1, <1>2, <1>3
<1> QED BY <1>6, <1>7, <1>8, <1>9 DEF C, Depth, Cut

(* Where the levels start and end.                                         *)
LEMMA LevelsAre ==
  ASSUME NEW s, Word(s), NEW k \in 1 .. Depth(s)
  PROVE  /\ k \in Nat /\ k >= 1 /\ k <= Depth(s)
         /\ Start(s, k) \in Nat /\ Start(s, k) >= 1 /\ Start(s, k) <= Cut(s, k)
         /\ Cut(s, k) \in Nat /\ Cut(s, k) <= Len(s) + 1
         /\ k = Depth(s) => Cut(s, k) = Len(s) + 1
         /\ k < Depth(s) => /\ Cut(s, k) <= Len(s) /\ s[Cut(s, k)] = "/"
                            /\ k + 1 \in 1 .. Depth(s) /\ Start(s, k + 1) = Cut(s, k) + 1
         /\ \A i \in Start(s, k) .. Cut(s, k) - 1 : i \in 1 .. Len(s) /\ s[i] # "/"
         /\ k # 1 => s[Start(s, k) - 1] = "/"
<1> DEFINE n == Len(s) + 1
           D == Depth(s)
<1>1. D \in Nat /\ k \in Nat /\ k >= 1 /\ k <= D /\ n \in Nat
  <2>1. D \in Nat /\ n \in Nat
    BY CutIs, CutsAre
  <2> HIDE DEF D, n
  <2> QED BY <2>1 DEF D
<1>2. \A j \in 1 .. D : Cut(s, j) \in Nat /\ Cut(s, j) >= 1 /\ Cut(s, j) <= n
  <2>1. \A i \in Cuts(s) : i \in Nat /\ i >= 1 /\ i <= n
    BY CutsAre
  <2> QED BY <2>1, CutIs
<1>3. Cut(s, D) = n
  <2>1. PICK j \in 1 .. D : Cut(s, j) = n
    BY CutsAre, CutIs
  <2>2. ~(Cut(s, j) < Cut(s, D))
    BY <1>1, <1>2, <2>1
  <2>3. ~(j < D) /\ j \in Nat /\ D \in 1 .. D /\ j <= D
    BY <1>1, <2>2, CutIs
  <2>4. j = D
    BY <1>1, <2>3
  <2> QED BY <2>1, <2>4
<1>4. \A j \in 1 .. D : j < D => Cut(s, j) < n
  <2>1. D \in 1 .. D
    BY <1>1
  <2> QED BY <1>3, <2>1, CutIs
<1>5. \A j \in 1 .. D : j < D => Cut(s, j) \in 1 .. Len(s) /\ s[Cut(s, j)] = "/"
  <2> SUFFICES ASSUME NEW j \in 1 .. D, j < D
               PROVE  Cut(s, j) \in 1 .. Len(s) /\ s[Cut(s, j)] = "/"
    OBVIOUS
  <2>1. Cut(s, j) # n /\ Cut(s, j) \in Cuts(s)
    BY <1>2, <1>4, CutIs, CutsAre
  <2> QED BY <2>1, CutsAre
<1>6. CASE k = 1
  <2>1. Start(s, k) = 1
    BY <1>6 DEF Start
  <2>2. ASSUME NEW i \in 1 .. Cut(s, k) - 1 PROVE i \in 1 .. Len(s) /\ s[i] # "/"
    <3>1. i \in Nat /\ i >= 1 /\ i < Cut(s, k) /\ i \in 1 .. Len(s)
      BY <1>2, WordIs
    <3>2. SUFFICES ASSUME s[i] = "/" PROVE FALSE
      BY <3>1
    <3>3. PICK j \in 1 .. D : Cut(s, j) = i
      BY <3>1, <3>2, CutsAre, CutIs
    <3>4. k = j \/ k < j
      BY <1>1, <1>6
    <3>5. i = Cut(s, k) \/ Cut(s, k) < i
      BY <3>3, <3>4, CutIs
    <3> QED BY <1>2, <3>1, <3>5
  <2>3. k < D => k + 1 \in 1 .. D /\ Start(s, k + 1) = Cut(s, k) + 1
    BY <1>1, <1>6 DEF Start
  <2>4. 1 <= Cut(s, k)
    BY <1>2
  <2>5. k < D => Cut(s, k) <= Len(s) /\ s[Cut(s, k)] = "/"
    BY <1>2, <1>5, WordIs
  <2> HIDE DEF D, n
  <2> QED BY <1>1, <1>2, <1>3, <1>6, <2>1, <2>2, <2>3, <2>4, <2>5 DEF D, n
<1>7. CASE k # 1
  <2>1. Start(s, k) = Cut(s, k - 1) + 1
    BY <1>7 DEF Start
  <2>2. k - 1 \in 1 .. D /\ k - 1 < k /\ k - 1 < D
    BY <1>1, <1>7
  <2>3. Cut(s, k - 1) < Cut(s, k) /\ Cut(s, k - 1) \in Nat /\ Cut(s, k - 1) >= 1
    BY <1>2, <2>2, CutIs
  <2>4. Start(s, k) - 1 = Cut(s, k - 1) /\ s[Cut(s, k - 1)] = "/"
    BY <1>5, <2>1, <2>2, <2>3
  <2>5. ASSUME NEW i \in Cut(s, k - 1) + 1 .. Cut(s, k) - 1 PROVE i \in 1 .. Len(s) /\ s[i] # "/"
    <3>1. i \in Nat /\ i >= 1 /\ Cut(s, k - 1) < i /\ i < Cut(s, k) /\ i \in 1 .. Len(s)
      BY <1>2, <2>3, WordIs
    <3>2. SUFFICES ASSUME s[i] = "/" PROVE FALSE
      BY <3>1
    <3>3. PICK j \in 1 .. D : Cut(s, j) = i
      BY <3>1, <3>2, CutsAre, CutIs
    <3>4. k = j \/ k < j \/ k - 1 = j \/ j < k - 1
      BY <1>1, <1>7
    <3>5. i = Cut(s, k) \/ Cut(s, k) < i \/ i = Cut(s, k - 1) \/ i < Cut(s, k - 1)
      BY <2>2, <3>3, <3>4, CutIs
    <3> QED BY <1>2, <2>3, <3>1, <3>5
  <2>6. k < D => k + 1 \in 1 .. D /\ Start(s, k + 1) = Cut(s, k) + 1
    BY <1>1, <1>7 DEF Start
  <2>7. Start(s, k) \in Nat /\ Start(s, k) >= 1 /\ Start(s, k) <= Cut(s, k)
    BY <1>2, <2>1, <2>3
  <2>8. k < D => Cut(s, k) <= Len(s) /\ s[Cut(s, k)] = "/"
    BY <1>2, <1>5, WordIs
  <2> HIDE DEF D, n
  <2> QED BY <1>1, <1>2, <1>3, <1>7, <2>1, <2>4, <2>5, <2>6, <2>7, <2>8 DEF D, n
<1> QED BY <1>6, <1>7

Width(s, k) == Cut(s, k) - Start(s, k)

LEMMA LevelIs ==
  ASSUME NEW s, Word(s), NEW k \in 1 .. Depth(s)
  PROVE  /\ Len(Levels(s)) = Depth(s) /\ DOMAIN Levels(s) = 1 .. Depth(s)
         /\ \E S : Levels(s)[k] \in Seq(S)
         /\ Width(s, k) \in Nat /\ Len(Levels(s)[k]) = Width(s, k)
         /\ DOMAIN Levels(s)[k] = 1 .. Width(s, k)
         /\ \A i \in 1 .. Width(s, k) : Levels(s)[k][i] = s[Start(s, k) + i - 1]
<1>1. Depth(s) \in Nat
  BY CutIs
<1>2. Levels(s) = [j \in 1 .. Depth(s) |-> SubSeq(s, Start(s, j), Cut(s, j) - 1)]
  BY DEF Levels
<1>3. DOMAIN Levels(s) = 1 .. Depth(s) /\ Levels(s)[k] = SubSeq(s, Start(s, k), Cut(s, k) - 1)
  BY <1>2
<1>4. Len(Levels(s)) = Depth(s)
  BY <1>1, <1>3, LenProperties, <1>2
<1>5. PICK S : s \in Seq(S)
  BY WordIs
<1>6. PICK a : a = Start(s, k)
  OBVIOUS
<1>7. PICK c : c = Cut(s, k)
  OBVIOUS
<1>8. a \in Nat /\ c \in Nat /\ a >= 1 /\ a <= c /\ \A i \in a .. c - 1 : i \in 1 .. Len(s)
  BY <1>6, <1>7, LevelsAre
<1>9. PICK t : t = SubSeq(s, a, c - 1)
  OBVIOUS
<1>10. t \in Seq(S) /\ Len(t) = c - a /\ \A i \in 1 .. c - a : t[i] = s[a + i - 1]
  <2>1. \A i \in a .. c - 1 : s[i] \in S
    BY <1>5, <1>8, ElementOfSeq
  <2>2. a \in Int /\ c - 1 \in Int /\ (IF a <= c - 1 THEN c - 1 - a + 1 ELSE 0) = c - a
        /\ c - 1 - a + 1 = c - a
    BY <1>8
  <2>3. /\ t \in Seq(S) /\ Len(t) = IF a <= c - 1 THEN c - 1 - a + 1 ELSE 0
        /\ \A i \in 1 .. c - 1 - a + 1 : t[i] = s[a + i - 1]
    BY <1>9, <2>1, <2>2, SubSeqProperties
  <2> QED BY <2>2, <2>3
<1>11. DOMAIN t = 1 .. c - a /\ c - a \in Nat
  BY <1>8, <1>10
<1>12. Levels(s)[k] = t /\ Width(s, k) = c - a
  BY <1>3, <1>6, <1>7, <1>9 DEF Width
<1> QED BY <1>3, <1>4, <1>6, <1>10, <1>11, <1>12

(* Levels by their characters.                                             *)
LEMMA SameLevel ==
  ASSUME NEW s, Word(s), NEW k \in 1 .. Depth(s), NEW t, Word(t), NEW l \in 1 .. Depth(t)
  PROVE  Levels(s)[k] = Levels(t)[l] <=>
           /\ Width(s, k) = Width(t, l)
           /\ \A d \in 0 .. Width(s, k) - 1 : s[Start(s, k) + d] = t[Start(t, l) + d]
<1>1. PICK u : u = Levels(s)[k]
  OBVIOUS
<1>2. PICK v : v = Levels(t)[l]
  OBVIOUS
<1>3. PICK w : w = Width(s, k)
  OBVIOUS
<1>4. PICK x : x = Width(t, l)
  OBVIOUS
<1>5. PICK a : a = Start(s, k)
  OBVIOUS
<1>6. PICK b : b = Start(t, l)
  OBVIOUS
<1>7. /\ w \in Nat /\ Len(u) = w /\ \A i \in 1 .. w : u[i] = s[a + i - 1]
      /\ \E S : u \in Seq(S)
  BY <1>1, <1>3, <1>5, LevelIs
<1>8. /\ x \in Nat /\ Len(v) = x /\ \A i \in 1 .. x : v[i] = t[b + i - 1]
      /\ \E S : v \in Seq(S)
  BY <1>2, <1>4, <1>6, LevelIs
<1>9. a \in Nat /\ b \in Nat
  BY <1>5, <1>6, LevelsAre
<1>10. ASSUME u = v
       PROVE  w = x /\ \A d \in 0 .. w - 1 : s[a + d] = t[b + d]
  <2>1. w = x
    BY <1>7, <1>8, <1>10
  <2>2. ASSUME NEW d \in 0 .. w - 1 PROVE s[a + d] = t[b + d]
    <3>1. d + 1 \in 1 .. w /\ a + (d + 1) - 1 = a + d /\ b + (d + 1) - 1 = b + d
      BY <1>7, <1>9
    <3>2. u[d + 1] = s[a + d] /\ v[d + 1] = t[b + d]
      BY <1>7, <1>8, <2>1, <3>1
    <3> QED BY <1>10, <3>2
  <2> QED BY <2>1, <2>2
<1>11. ASSUME w = x, \A d \in 0 .. w - 1 : s[a + d] = t[b + d]
       PROVE  u = v
  <2>1. ASSUME NEW i \in 1 .. w PROVE u[i] = v[i]
    <3>1. i - 1 \in 0 .. w - 1 /\ a + (i - 1) = a + i - 1 /\ b + (i - 1) = b + i - 1
      BY <1>7, <1>9
    <3> QED BY <1>7, <1>8, <1>11, <3>1
  <2>2. PICK S : u \in Seq(S)
    BY <1>7
  <2>3. PICK T : v \in Seq(T)
    BY <1>8
  <2> QED BY <1>7, <1>8, <1>11, <2>1, <2>2, <2>3, SeqEqual
<1> QED BY <1>1, <1>2, <1>3, <1>4, <1>5, <1>6, <1>10, <1>11

LEMMA ShortLevel ==
  ASSUME NEW s, Word(s), NEW k \in 1 .. Depth(s)
  PROVE  /\ Levels(s)[k] = Empty <=> Cut(s, k) = Start(s, k)
         /\ \A c : Levels(s)[k] = <<c>> <=> Cut(s, k) = Start(s, k) + 1 /\ s[Start(s, k)] = c
<1>1. PICK u : u = Levels(s)[k]
  OBVIOUS
<1>2. PICK w : w = Width(s, k)
  OBVIOUS
<1>3. PICK a : a = Start(s, k)
  OBVIOUS
<1>4. PICK S : u \in Seq(S)
  BY <1>1, LevelIs
<1>5. /\ w \in Nat /\ Len(u) = w /\ \A i \in 1 .. w : u[i] = s[a + i - 1]
  BY <1>1, <1>2, <1>3, LevelIs
<1>6. a \in Nat /\ Cut(s, k) \in Nat
  BY <1>3, LevelsAre
<1>7. Cut(s, k) = a + w
  BY <1>2, <1>3, <1>5, <1>6 DEF Width
<1>8. u = Empty <=> w = 0
  BY <1>4, <1>5, EmptySeq DEF Empty
<1>9. ASSUME NEW c PROVE u = <<c>> <=> w = 1 /\ s[a] = c
  <2>1. ASSUME u = <<c>> PROVE w = 1 /\ s[a] = c
    <3>1. Len(u) = 1 /\ u[1] = c
      BY <2>1
    <3>2. 1 \in 1 .. 1 /\ a + 1 - 1 = a
      BY <1>6
    <3> QED BY <1>5, <3>1, <3>2
  <2>2. ASSUME w = 1, s[a] = c PROVE u = <<c>>
    <3>1. 1 \in 1 .. 1 /\ a + 1 - 1 = a
      BY <1>6
    <3>2. u[1] = c
      BY <1>5, <2>2, <3>1
    <3>3. Len(u) = 1
      BY <1>5, <2>2
    <3> QED BY <1>4, <3>2, <3>3
  <2> QED BY <2>1, <2>2
<1>10. (w = 0 <=> Cut(s, k) = a) /\ (w = 1 <=> Cut(s, k) = a + 1)
  BY <1>5, <1>6, <1>7
<1> QED BY <1>1, <1>3, <1>8, <1>9, <1>10

-----------------------------------------------------------------------------
(* Matching: the ends of a filter                                          *)

(* A level of a valid filter is a wildcard or has none.                    *)
LEMMA FilterLevel ==
  ASSUME NEW filter, ValidFilter(filter), NEW k \in 1 .. Depth(filter)
  PROVE  /\ Word(filter)
         /\ Levels(filter)[k] = Multi => k = Depth(filter)
         /\ \/ Levels(filter)[k] \in {Single, Multi}
            \/ \A i \in Start(filter, k) .. Cut(filter, k) - 1 : filter[i] \notin Wildcards
<1>1. Word(filter)
  BY DEF ValidFilter
<1>2. PICK u : u = Levels(filter)[k]
  OBVIOUS
<1>3. HasWildcard(u) => u = Single \/ (u = Multi /\ k = Depth(filter))
  BY <1>1, <1>2, LevelIs DEF ValidFilter
<1>4. u = Multi => k = Depth(filter)
  <2> SUFFICES ASSUME u = Multi PROVE k = Depth(filter)
    OBVIOUS
  <2>1. 1 \in DOMAIN Multi /\ Multi[1] \in Wildcards /\ Multi # Single
    BY DEF Multi, Single, Wildcards
  <2> QED BY <1>3, <2>1 DEF HasWildcard
<1>5. ASSUME ~HasWildcard(u)
      PROVE  \A i \in Start(filter, k) .. Cut(filter, k) - 1 : filter[i] \notin Wildcards
  <2> SUFFICES ASSUME NEW i \in Start(filter, k) .. Cut(filter, k) - 1
               PROVE  filter[i] \notin Wildcards
    OBVIOUS
  <2>1. PICK a : a = Start(filter, k)
    OBVIOUS
  <2>2. PICK c : c = Cut(filter, k)
    OBVIOUS
  <2>3. a \in Nat /\ c \in Nat /\ i \in a .. c - 1
    BY <1>1, <2>1, <2>2, LevelsAre
  <2>4. (i - a) + 1 \in 1 .. c - a /\ a + ((i - a) + 1) - 1 = i
    BY <2>3
  <2>5. DOMAIN u = 1 .. c - a /\ \A j \in 1 .. c - a : u[j] = filter[a + j - 1]
    BY <1>1, <1>2, <2>1, <2>2, LevelIs DEF Width
  <2>6. u[(i - a) + 1] = filter[i]
    BY <2>4, <2>5
  <2> QED BY <1>5, <2>4, <2>5, <2>6 DEF HasWildcard
<1> QED BY <1>1, <1>2, <1>3, <1>4, <1>5

(* The end of the filter, by its last levels.                              *)
LEMMA FilterEnds ==
  ASSUME NEW s, Word(s), NEW k \in 1 .. Depth(s), NEW c, c # "/"
  PROVE  /\ Start(s, k) > Len(s) <=> k = Depth(s) /\ Levels(s)[k] = Empty
         /\ Start(s, k) = Len(s) /\ s[Len(s)] = c <=> k = Depth(s) /\ Levels(s)[k] = <<c>>
         /\ (Start(s, k) = Len(s) - 1 /\ s[Start(s, k)] = "/" /\ s[Len(s)] = c) <=>
              Depth(s) = k + 1 /\ Levels(s)[k] = Empty /\ Levels(s)[k + 1] = <<c>>
<1>1. PICK L : L = Len(s)
  OBVIOUS
<1>2. PICK D : D = Depth(s)
  OBVIOUS
<1>3. PICK p : p = Start(s, k)
  OBVIOUS
<1>4. PICK e : e = Cut(s, k)
  OBVIOUS
<1>5. /\ L \in Nat /\ D \in Nat /\ k \in Nat /\ k >= 1 /\ k <= D
      /\ p \in Nat /\ e \in Nat /\ p >= 1 /\ p <= e /\ e <= L + 1
      /\ k = D => e = L + 1
      /\ k < D => e <= L /\ s[e] = "/" /\ k + 1 \in 1 .. D /\ Start(s, k + 1) = e + 1
      /\ \A i \in p .. e - 1 : s[i] # "/"
  BY <1>1, <1>2, <1>3, <1>4, LevelsAre, WordIs, CutIs
<1>6. /\ Levels(s)[k] = Empty <=> e = p
      /\ Levels(s)[k] = <<c>> <=> e = p + 1 /\ s[p] = c
  BY <1>3, <1>4, ShortLevel
<1>7. p > L <=> k = D /\ Levels(s)[k] = Empty
  BY <1>5, <1>6
<1>8. p = L /\ s[L] = c <=> k = D /\ Levels(s)[k] = <<c>>
  <2>1. ASSUME p = L, s[L] = c PROVE k = D /\ e = p + 1
    <3>1. e # p \/ k = D
      BY <1>5, <2>1
    <3>2. k = D
      BY <1>5, <2>1
    <3> QED BY <1>5, <2>1, <3>2
  <2>2. ASSUME k = D, e = p + 1 PROVE p = L
    BY <1>5, <2>2
  <2> QED BY <1>6, <2>1, <2>2
<1>9. p = L - 1 /\ s[p] = "/" /\ s[L] = c <=>
        D = k + 1 /\ Levels(s)[k] = Empty /\ Levels(s)[k + 1] = <<c>>
  <2>1. ASSUME NEW q, q = Start(s, k + 1), NEW f, f = Cut(s, k + 1), k < D
        PROVE  /\ k + 1 <= D /\ q \in Nat /\ f \in Nat /\ q <= f /\ f <= L + 1 /\ q = e + 1
               /\ k + 1 = D => f = L + 1
               /\ k + 1 < D => f <= L /\ s[f] = "/"
               /\ Levels(s)[k + 1] = <<c>> <=> f = q + 1 /\ s[q] = c
    <3>1. k + 1 \in 1 .. Depth(s) /\ q = e + 1
      BY <1>2, <1>5, <2>1
    <3>2. PICK j \in 1 .. Depth(s) : j = k + 1
      BY <3>1
    <3>3. /\ j <= D /\ q \in Nat /\ f \in Nat /\ q <= f /\ f <= L + 1
          /\ j = D => f = L + 1
          /\ j < D => f <= L /\ s[f] = "/"
      BY <1>1, <1>2, <2>1, <3>2, LevelsAre
    <3>4. Levels(s)[j] = <<c>> <=> f = q + 1 /\ s[q] = c
      BY <2>1, <3>2, ShortLevel
    <3> QED BY <3>1, <3>2, <3>3, <3>4
  <2>2. ASSUME p = L - 1, s[p] = "/", s[L] = c
        PROVE  D = k + 1 /\ Levels(s)[k] = Empty /\ Levels(s)[k + 1] = <<c>>
    <3>1. e = p
      BY <1>5, <2>2
    <3>2. k < D
      BY <1>5, <2>2, <3>1
    <3>3. PICK q, f : q = Start(s, k + 1) /\ f = Cut(s, k + 1)
      OBVIOUS
    <3>4. /\ k + 1 <= D /\ q \in Nat /\ f \in Nat /\ q <= f /\ f <= L + 1 /\ q = e + 1
          /\ k + 1 = D => f = L + 1
          /\ k + 1 < D => f <= L /\ s[f] = "/"
          /\ Levels(s)[k + 1] = <<c>> <=> f = q + 1 /\ s[q] = c
      BY <2>1, <3>2, <3>3
    <3>5. q = L
      BY <1>5, <2>2, <3>1, <3>4
    <3>6. f # L
      <4>1. SUFFICES ASSUME f = L PROVE FALSE
        OBVIOUS
      <4>2. k + 1 < D
        BY <1>5, <3>4, <4>1
      <4> QED BY <2>2, <3>4, <4>1, <4>2
    <3>7. f = q + 1
      BY <1>5, <3>4, <3>5, <3>6
    <3>8. D = k + 1
      BY <1>5, <3>4, <3>5, <3>7
    <3> QED BY <1>6, <2>2, <3>1, <3>4, <3>5, <3>7, <3>8
  <2>3. ASSUME D = k + 1, Levels(s)[k] = Empty, Levels(s)[k + 1] = <<c>>
        PROVE  p = L - 1 /\ s[p] = "/" /\ s[L] = c
    <3>1. e = p /\ k < D
      BY <1>5, <1>6, <2>3
    <3>2. PICK q, f : q = Start(s, k + 1) /\ f = Cut(s, k + 1)
      OBVIOUS
    <3>3. f = L + 1 /\ f = q + 1 /\ s[q] = c /\ q = e + 1 /\ q \in Nat /\ s[e] = "/"
      BY <1>5, <2>1, <2>3, <3>1, <3>2
    <3>4. q = L /\ e = L - 1
      BY <1>5, <3>3
    <3> QED BY <3>1, <3>3, <3>4
  <2> QED BY <2>2, <2>3
<1> QED BY <1>1, <1>2, <1>3, <1>7, <1>8, <1>9

-----------------------------------------------------------------------------
(* Matching: a level without wildcards                                     *)

Walking(name, filter, g) ==
  \A n, f \in Nat : g[n][f] <=> Compare(name, filter, n, f, g)

(* The name ends with its level k, and the filter goes on with "/#".       *)
ParentLevel(name, filter, k) ==
  k = Depth(name) /\ Depth(filter) = k + 1 /\ Levels(filter)[k + 1] = Multi

(* Within a level only "/#" can follow the end of the name.                *)
LEMMA EndWithinLevel ==
  ASSUME NEW name, Word(name), NEW filter, Word(filter),
         NEW k \in 1 .. Depth(name), k \in 1 .. Depth(filter),
         NEW n \in Nat, Start(name, k) <= n, n < Cut(name, k),
         NEW f \in Nat, Start(filter, k) <= f, f < Cut(filter, k)
  PROVE  n = Len(name) /\ MatchEndWildcardsSpecialCases(filter, f) <=>
           n + 1 = Cut(name, k) /\ f + 1 = Cut(filter, k) /\ ParentLevel(name, filter, k)
<1>1. PICK e : e = Len(filter)
  OBVIOUS
<1>2. PICK c : c = Cut(filter, k)
  OBVIOUS
<1>3. PICK a : a = Cut(name, k)
  OBVIOUS
<1>4. PICK p : p = Start(filter, k)
  OBVIOUS
<1>5. /\ a \in Nat /\ a <= Len(name) + 1 /\ Len(name) \in Nat
      /\ k = Depth(name) => a = Len(name) + 1
      /\ k < Depth(name) => a <= Len(name)
      /\ k <= Depth(name) /\ Depth(name) \in Nat /\ k \in Nat
  BY <1>3, LevelsAre, WordIs, CutIs
<1>6. /\ e \in Nat /\ c \in Nat /\ p \in Nat /\ c <= e + 1 /\ k <= Depth(filter) /\ Depth(filter) \in Nat
      /\ k = Depth(filter) => c = e + 1
      /\ k < Depth(filter) => c <= e /\ filter[c] = "/" /\ k + 1 \in 1 .. Depth(filter)
                              /\ Start(filter, k + 1) = c + 1
      /\ \A i \in p .. c - 1 : filter[i] # "/"
  BY <1>1, <1>2, <1>4, LevelsAre, WordIs, CutIs
<1>7. k < Depth(filter) =>
        (Start(filter, k + 1) = e /\ filter[e] = "#" <=> k + 1 = Depth(filter) /\ Levels(filter)[k + 1] = Multi)
  <2> SUFFICES ASSUME k < Depth(filter)
               PROVE  Start(filter, k + 1) = e /\ filter[e] = "#"
                        <=> k + 1 = Depth(filter) /\ Levels(filter)[k + 1] = Multi
    OBVIOUS
  <2>1. PICK j \in 1 .. Depth(filter) : j = k + 1
    BY <1>6
  <2>2. PICK h : h = "#" /\ h # "/"
    OBVIOUS
  <2>3. Start(filter, j) = Len(filter) /\ filter[Len(filter)] = h <=>
          j = Depth(filter) /\ Levels(filter)[j] = <<h>>
    BY <2>2, FilterEnds
  <2>4. Multi = <<h>>
    BY <2>2 DEF Multi
  <2> QED BY <1>1, <2>1, <2>2, <2>3, <2>4
<1>8. ASSUME n = Len(name), MatchEndWildcardsSpecialCases(filter, f)
      PROVE  n + 1 = a /\ f + 1 = c /\ ParentLevel(name, filter, k)
  <2>1. n + 1 = a /\ k = Depth(name)
    BY <1>3, <1>5, <1>8
  <2>2. filter[f] # "/"
    BY <1>2, <1>4, <1>6
  <2>3. f = e - 2 /\ filter[f + 1] = "/" /\ filter[e] = "#"
    BY <1>1, <1>8, <2>2, Zenon DEF MatchEndWildcardsSpecialCases
  <2>4. f + 1 = c
    <3>1. f + 1 \notin p .. c - 1
      BY <1>6, <2>3
    <3> QED BY <1>2, <1>4, <1>6, <3>1
  <2>5. k < Depth(filter) /\ Start(filter, k + 1) = e
    BY <1>6, <2>3, <2>4
  <2>6. k + 1 = Depth(filter) /\ Levels(filter)[k + 1] = Multi
    BY <1>7, <2>3, <2>5
  <2> QED BY <2>1, <2>4, <2>6 DEF ParentLevel
<1>9. ASSUME n + 1 = a, f + 1 = c, ParentLevel(name, filter, k)
      PROVE  n = Len(name) /\ MatchEndWildcardsSpecialCases(filter, f)
  <2>1. k = Depth(name) /\ Depth(filter) = k + 1 /\ Levels(filter)[k + 1] = Multi
    BY <1>9 DEF ParentLevel
  <2>2. n = Len(name)
    BY <1>5, <1>9, <2>1
  <2>3. k < Depth(filter)
    BY <1>5, <2>1
  <2>4. Start(filter, k + 1) = e /\ filter[e] = "#" /\ filter[c] = "/" /\ Start(filter, k + 1) = c + 1
    BY <1>6, <1>7, <2>1, <2>3
  <2>5. f = e - 2
    BY <1>6, <1>9, <2>4
  <2> QED BY <1>1, <1>9, <2>2, <2>4, <2>5, Zenon DEF MatchEndWildcardsSpecialCases
<1> QED BY <1>2, <1>3, <1>8, <1>9

(* What the walk finds in a level whose filter has no wildcard.            *)
LEMMA LevelWalked ==
  ASSUME NEW name, Word(name), NEW filter, ValidFilter(filter), NEW g, Walking(name, filter, g),
         NEW k \in 1 .. Depth(name), k \in 1 .. Depth(filter),
         Levels(filter)[k] \notin {Single, Multi}, Start(name, k) <= Len(name)
  PROVE  g[Start(name, k)][Start(filter, k)] <=>
           /\ Levels(filter)[k] = Levels(name)[k]
           /\ ParentLevel(name, filter, k) \/ g[Cut(name, k)][Cut(filter, k)]
<1>1. PICK a, b : a = Cut(name, k) /\ b = Cut(filter, k)
  OBVIOUS
<1>2. PICK p, q : p = Start(name, k) /\ q = Start(filter, k)
  OBVIOUS
<1>3. PICK v, w : v = Width(name, k) /\ w = Width(filter, k)
  OBVIOUS
<1>4. /\ a \in Nat /\ p \in Nat /\ p >= 1 /\ a = p + v /\ v \in Nat /\ a <= Len(name) + 1 /\ Len(name) \in Nat
      /\ k = Depth(name) => a = Len(name) + 1
      /\ a = Len(name) + 1 \/ (a <= Len(name) /\ name[a] = "/")
      /\ \A i \in p .. a - 1 : name[i] # "/"
  <2>1. k = Depth(name) \/ k < Depth(name)
    BY CutIs
  <2> QED BY <1>1, <1>2, <1>3, <2>1, LevelsAre, WordIs DEF Width
<1>w. Word(filter)
  BY DEF ValidFilter
<1>5. /\ b \in Nat /\ q \in Nat /\ q >= 1 /\ b = q + w /\ w \in Nat /\ b <= Len(filter) + 1 /\ Len(filter) \in Nat
      /\ b = Len(filter) + 1 \/ (b <= Len(filter) /\ filter[b] = "/")
      /\ \A i \in q .. b - 1 : filter[i] # "/" /\ filter[i] \notin Wildcards
  <2>1. k = Depth(filter) \/ k < Depth(filter)
    BY <1>w, CutIs
  <2>2. \A i \in q .. b - 1 : filter[i] \notin Wildcards
    BY <1>1, <1>2, FilterLevel
  <2> QED BY <1>w, <1>1, <1>2, <1>3, <2>1, <2>2, LevelsAre, WordIs DEF Width
<1>6. PICK m \in Nat : m = IF v <= w THEN v ELSE w
  BY <1>4, <1>5
<1>7. m <= v /\ m <= w /\ (m = v \/ m = w)
  BY <1>4, <1>5, <1>6
<1> DEFINE Same(d) == \A i \in d .. m - 1 : name[p + i] = filter[q + i]
           Holds(d) == g[p + d][q + d] <=>
                         v = w /\ Same(d) /\ ((ParentLevel(name, filter, k) /\ d < m) \/ g[a][b])
<1>8. \A n, f \in Nat : g[n][f] <=> Compare(name, filter, n, f, g)
  BY DEF Walking
<1>9. Holds(m)
  <2>1. CASE v = w
    <3>1. p + m = a /\ q + m = b /\ ~(m < m) /\ m .. m - 1 = {}
      BY <1>4, <1>5, <1>7, <2>1
    <3>2. Same(m)
      BY <3>1
    <3> QED BY <2>1, <3>1, <3>2
  <2>2. CASE v < w
    <3>1. p + m = a /\ q + m \in q .. b - 1 /\ q + m \in Nat /\ q + m <= Len(filter) /\ v # w
      BY <1>4, <1>5, <1>6, <2>2
    <3>2. PICK f : f = q + m
      OBVIOUS
    <3>3. filter[f] # "/" /\ filter[f] \notin Wildcards /\ f \in Nat /\ f <= Len(filter)
      BY <1>5, <3>1, <3>2
    <3>4. filter[f] # "#" /\ filter[f] # "+" /\ ~(f > Len(filter))
      BY <1>5, <3>3 DEF Wildcards
    <3>5. ~Compare(name, filter, a, f, g)
      <4>1. CASE a = Len(name) + 1
        <5>1. a > Len(name)
          BY <1>4, <4>1
        <5> QED BY <3>4, <5>1, Zenon DEF Compare
      <4>2. CASE a <= Len(name) /\ name[a] = "/"
        <5>1. ~(a > Len(name)) /\ name[a] # filter[f]
          BY <1>4, <3>3, <4>2
        <5> QED BY <3>4, <5>1, Zenon DEF Compare
      <4> QED BY <1>4, <4>1, <4>2
    <3>6. ~g[a][f]
      BY <1>4, <1>8, <3>3, <3>5
    <3> QED BY <3>1, <3>2, <3>6
  <2>3. CASE w < v
    <3>1. q + m = b /\ p + m \in p .. a - 1 /\ p + m \in Nat /\ p + m <= Len(name) /\ v # w
      BY <1>4, <1>5, <1>6, <2>3
    <3>2. PICK n : n = p + m
      OBVIOUS
    <3>3. name[n] # "/" /\ n \in Nat /\ n <= Len(name) /\ ~(n > Len(name))
      BY <1>4, <3>1, <3>2
    <3>4. ~Compare(name, filter, n, b, g)
      <4>1. CASE b = Len(filter) + 1
        <5>1. b > Len(filter)
          BY <1>5, <4>1
        <5> QED BY <3>3, <5>1, Zenon DEF Compare
      <4>2. CASE b <= Len(filter) /\ filter[b] = "/"
        <5>1. ~(b > Len(filter)) /\ name[n] # filter[b]
          BY <1>5, <3>3, <4>2
        <5>2. filter[b] # "#" /\ filter[b] # "+"
          BY <4>2
        <5> QED BY <3>3, <5>1, <5>2, Zenon DEF Compare
      <4> QED BY <1>5, <4>1, <4>2
    <3>5. ~g[n][b]
      BY <1>5, <1>8, <3>3, <3>4
    <3> QED BY <3>1, <3>2, <3>5
  <2> QED BY <1>4, <1>5, <2>1, <2>2, <2>3
<1>10. ASSUME NEW d \in Nat, d < m, Holds(d + 1)
       PROVE  Holds(d)
  <2>1. PICK n, f : n = p + d /\ f = q + d
    OBVIOUS
  <2>2. /\ n \in Nat /\ f \in Nat /\ p <= n /\ n < a /\ q <= f /\ f < b
        /\ n \in p .. a - 1 /\ f \in q .. b - 1 /\ n <= Len(name) /\ f <= Len(filter)
        /\ n + 1 = p + (d + 1) /\ f + 1 = q + (d + 1)
        /\ n + 1 = a <=> d + 1 = v
        /\ f + 1 = b <=> d + 1 = w
    BY <1>4, <1>5, <1>7, <1>10, <2>1
  <2>3. ~(n > Len(name)) /\ ~(f > Len(filter))
    BY <1>4, <1>5, <2>2
  <2>4. filter[f] # "#" /\ filter[f] # "+"
    BY <1>5, <2>2 DEF Wildcards
  <2>5. (\A i \in d .. m - 1 : name[p + i] = filter[q + i]) <=>
          name[n] = filter[f] /\ \A i \in d + 1 .. m - 1 : name[p + i] = filter[q + i]
    <3>1. \A i : i \in d .. m - 1 <=> i = d \/ i \in d + 1 .. m - 1
      BY <1>10
    <3> QED BY <2>1, <3>1
  <2>6. g[n][f] <=> Compare(name, filter, n, f, g)
    BY <1>8, <2>2
  <2>7. CASE name[n] # filter[f]
    <3>1. ~g[n][f]
      BY <2>3, <2>4, <2>6, <2>7, Zenon DEF Compare
    <3> QED BY <2>1, <2>5, <2>7, <3>1
  <2>8. CASE name[n] = filter[f]
    <3>1. g[n][f] <=> (n = Len(name) /\ MatchEndWildcardsSpecialCases(filter, f)) \/ g[n + 1][f + 1]
      BY <2>3, <2>6, <2>8, Zenon DEF Compare
    <3>2. n = Len(name) /\ MatchEndWildcardsSpecialCases(filter, f) <=>
            d + 1 = v /\ d + 1 = w /\ ParentLevel(name, filter, k)
      BY <1>w, <1>1, <1>2, <2>2, EndWithinLevel
    <3>3. g[n + 1][f + 1] <=>
            v = w /\ Same(d + 1) /\ ((ParentLevel(name, filter, k) /\ d + 1 < m) \/ g[a][b])
      BY <1>10, <2>2
    <3>4. Same(d) <=> Same(d + 1)
      BY <2>5, <2>8
    <3>5. CASE d + 1 < m
      <4>1. d + 1 # v \/ d + 1 # w
        BY <1>7, <3>5
      <4> HIDE DEF Same
      <4> QED BY <1>10, <2>1, <3>1, <3>2, <3>3, <3>4, <3>5, <4>1
    <3>6. CASE ~(d + 1 < m)
      <4>1. d + 1 = m
        BY <1>10, <3>6
      <4>2. (d + 1 = v /\ d + 1 = w) <=> v = w
        BY <1>7, <4>1
      <4>3. Same(d + 1)
        <5>1. d + 1 .. m - 1 = {}
          BY <4>1
        <5> QED BY <5>1
      <4> HIDE DEF Same
      <4> QED BY <1>10, <2>1, <3>1, <3>2, <3>3, <3>4, <3>6, <4>2, <4>3
    <3> QED BY <3>5, <3>6
  <2> QED BY <2>7, <2>8
<1>11. Holds(0)
  <2> HIDE DEF Holds
  <2> DEFINE Wrong == {e \in 0 .. m : ~Holds(m - e)}
             e == FirstOf(Wrong)
  <2>1. SUFFICES ASSUME Wrong # {} PROVE FALSE
    <3>1. m \in 0 .. m /\ m - m = 0
      OBVIOUS
    <3> QED BY <2>1, <3>1
  <2>2. Wrong \in SUBSET Nat
    OBVIOUS
  <2>3. e \in Wrong /\ \A y \in Wrong : e <= y
    BY <2>1, <2>2, FirstIsMember
  <2> HIDE DEF e
  <2>4. e \in 0 .. m /\ ~Holds(m - e)
    BY <2>3
  <2>5. e # 0
    <3>1. m - 0 = m
      OBVIOUS
    <3> QED BY <1>9, <2>4, <3>1
  <2>6. e - 1 \in 0 .. m /\ ~(e <= e - 1) /\ m - e \in Nat /\ m - e < m /\ (m - e) + 1 = m - (e - 1)
    BY <2>4, <2>5
  <2>7. Holds(m - (e - 1))
    BY <2>3, <2>6
  <2>8. Holds((m - e) + 1)
    BY <2>6, <2>7
  <2> QED BY <1>10, <2>4, <2>6, <2>8
<1>12. Levels(filter)[k] = Levels(name)[k] <=> v = w /\ Same(0)
  <2>1. Levels(name)[k] = Levels(filter)[k] <=> v = w /\ \A d \in 0 .. v - 1 : name[p + d] = filter[q + d]
    BY <1>w, <1>2, <1>3, SameLevel
  <2>2. v = w => m = v
    BY <1>7
  <2> QED BY <2>1, <2>2
<1>13. v = w /\ ParentLevel(name, filter, k) => 0 < m
  <2>1. k = Depth(name) => v # 0
    BY <1>2, <1>4
  <2> QED BY <1>4, <1>7, <2>1 DEF ParentLevel
<1>14. p + 0 = p /\ q + 0 = q
  BY <1>4, <1>5
<1>15. g[p][q] <=> v = w /\ Same(0) /\ ((ParentLevel(name, filter, k) /\ 0 < m) \/ g[a][b])
  BY <1>11, <1>14
<1> HIDE DEF Same
<1> QED BY <1>1, <1>2, <1>12, <1>13, <1>15

-----------------------------------------------------------------------------
(* Matching: what is asked of the levels                                   *)

(* What is asked of the levels from the level k on: c levels n of a name,  *)
(* e levels p of a filter.                                                 *)
Fits(n, p, k) == p[k] \in {Single, n[k]}
FitFrom(n, c, p, e, k) ==
  IF p[e] = Multi THEN c >= e - 1 /\ \A j \in k .. e - 1 : Fits(n, p, j)
  ELSE c = e /\ \A j \in k .. e : Fits(n, p, j)
LostAt(n, c, p, e, k) ==
  /\ p[k] = Single
  /\ \/ c = k /\ e = k + 1 /\ p[e] = Multi
     \/ /\ c = k + 1 /\ n[c] = Empty
        /\ \/ e = k + 1 /\ p[e] \in {Single, Multi}
           \/ e = k + 2 /\ p[k + 1] = Empty /\ p[e] = Multi
LostFrom(n, c, p, e, k) == \E j \in k .. e : j <= c /\ LostAt(n, c, p, e, j)
Taken(n, c, p, e, k) == FitFrom(n, c, p, e, k) /\ ~LostFrom(n, c, p, e, k)

LEMMA Kinds == Single # Multi /\ Single # Empty /\ Multi # Empty
BY DEF Single, Multi, Empty

(* "#" takes what there is.                                                *)
LEMMA TakenByMulti ==
  ASSUME NEW n, NEW p, NEW c \in Nat, NEW e \in Nat, NEW k \in 1 .. e, k <= c,
         p[k] = Multi, k = e
  PROVE  Taken(n, c, p, e, k)
<1>1. FitFrom(n, c, p, e, k)
  BY DEF FitFrom
<1>2. \A j \in k .. e : j = k
  OBVIOUS
<1>3. ~LostFrom(n, c, p, e, k)
  BY <1>2, Kinds DEF LostFrom, LostAt
<1> QED BY <1>1, <1>3 DEF Taken

LEMMA NotTaken ==
  ASSUME NEW n, NEW p, NEW c \in Nat, NEW e \in Nat, NEW k \in 1 .. e, k <= c,
         p[k] = Multi => k = e, p[k] # Multi, ~Fits(n, p, k) \/ (k = e /\ k < c)
  PROVE  ~Taken(n, c, p, e, k)
<1>1. CASE ~Fits(n, p, k)
  <2>1. p[e] = Multi => k \in k .. e - 1
    OBVIOUS
  <2>2. k \in k .. e
    OBVIOUS
  <2> QED BY <1>1, <2>1, <2>2 DEF Taken, FitFrom
<1>2. CASE k = e /\ k < c
  <2>1. p[e] # Multi /\ c # e
    BY <1>2
  <2> QED BY <2>1 DEF Taken, FitFrom
<1> QED BY <1>1, <1>2

(* A level that fits leaves it to the next ones, ...                       *)
LEMMA TakenFurther ==
  ASSUME NEW n, NEW p, NEW c \in Nat, NEW e \in Nat, NEW k \in 1 .. e, k <= c,
         Fits(n, p, k), k < e, ~LostAt(n, c, p, e, k)
  PROVE  Taken(n, c, p, e, k) <=> Taken(n, c, p, e, k + 1)
<1>1. /\ \A j : j \in k .. e - 1 <=> j = k \/ j \in k + 1 .. e - 1
      /\ \A j : j \in k .. e <=> j = k \/ j \in k + 1 .. e
  OBVIOUS
<1>2. FitFrom(n, c, p, e, k) <=> FitFrom(n, c, p, e, k + 1)
  BY <1>1, Zenon DEF FitFrom
<1>3. LostFrom(n, c, p, e, k) <=> LostFrom(n, c, p, e, k + 1)
  BY <1>1, Zenon DEF LostFrom
<1> QED BY <1>2, <1>3 DEF Taken

(* ... the last of the name to the end of the filter, ...                  *)
LEMMA TakenLast ==
  ASSUME NEW n, NEW p, NEW c \in Nat, NEW e \in Nat, NEW k \in 1 .. e, k = c,
         \A j \in 1 .. e : p[j] = Multi => j = e, p[k] # Multi, Fits(n, p, k)
  PROVE  Taken(n, c, p, e, k) <=> k = e \/ (e = k + 1 /\ p[e] = Multi /\ p[k] # Single)
<1>1. \A j \in k .. e : j <= c <=> j = k
  OBVIOUS
<1>2. LostFrom(n, c, p, e, k) <=> LostAt(n, c, p, e, k)
  <2>1. k \in k .. e
    OBVIOUS
  <2> QED BY <1>1, <2>1 DEF LostFrom
<1>3. LostAt(n, c, p, e, k) <=> e = k + 1 /\ p[e] = Multi /\ p[k] = Single
  BY DEF LostAt
<1>4. FitFrom(n, c, p, e, k) <=> k = e \/ (e = k + 1 /\ p[e] = Multi)
  <2>1. CASE k = e
    <3>1. \A j \in k .. e : j = k
      BY <2>1
    <3> QED BY <2>1, <3>1 DEF FitFrom
  <2>2. CASE e = k + 1
    <3>1. \A j \in k .. e - 1 : j = k
      BY <2>2
    <3> QED BY <2>2, <3>1 DEF FitFrom
  <2>3. CASE e # k /\ e # k + 1
    <3>1. ~(c >= e - 1)
      BY <2>3
    <3> QED BY <2>3, <3>1 DEF FitFrom
  <2> QED BY <2>1, <2>2, <2>3
<1>5. k = e => e # k + 1
  OBVIOUS
<1> QED BY <1>2, <1>3, <1>4, <1>5 DEF Taken

(* ... and the one before an empty last one.                               *)
SpecialEnd(p, e, k) ==
  \/ e = k + 1 /\ p[e] \in {Single, Multi}
  \/ e = k + 2 /\ p[k + 1] = Empty /\ p[e] = Multi

LEMMA TakenLastButEmpty ==
  ASSUME NEW n, NEW p, NEW c \in Nat, NEW e \in Nat, NEW k \in 1 .. e,
         c = k + 1, n[c] = Empty, k < e,
         \A j \in 1 .. e : p[j] = Multi => j = e, Fits(n, p, k)
  PROVE  Taken(n, c, p, e, k) <=>
           (e = k + 1 /\ p[e] = Empty) \/ (p[k] # Single /\ SpecialEnd(p, e, k))
<1>1. \A j \in k .. e : j <= c <=> j = k \/ j = k + 1
  OBVIOUS
<1>2. k \in k .. e /\ k + 1 \in k .. e
  OBVIOUS
<1>3. LostFrom(n, c, p, e, k) <=> LostAt(n, c, p, e, k) \/ LostAt(n, c, p, e, k + 1)
  BY <1>1, <1>2 DEF LostFrom
<1>4. /\ c # k /\ (k + 1) + 1 = k + 2 /\ c # (k + 1) + 1 /\ c = k + 1
      /\ e = k + 1 => e # k + 2
  OBVIOUS
<1>5. LostAt(n, c, p, e, k) <=>
        p[k] = Single /\ \/ e = k + 1 /\ p[e] \in {Single, Multi}
                         \/ e = k + 2 /\ p[k + 1] = Empty /\ p[e] = Multi
  BY <1>4 DEF LostAt
<1>6. LostAt(n, c, p, e, k + 1) <=> p[k + 1] = Single /\ e = k + 2 /\ p[e] = Multi
  BY <1>4 DEF LostAt
<1>7. p[k] # Multi
  OBVIOUS
<1>8. FitFrom(n, c, p, e, k) <=>
        \/ e = k + 1 /\ p[e] \in {Empty, Single, Multi}
        \/ e = k + 2 /\ p[k + 1] \in {Empty, Single} /\ p[e] = Multi
  <2>1. CASE e = k + 1
    <3>1. \A j : (j \in k .. e - 1 <=> j = k) /\ (j \in k .. e <=> j = k \/ j = k + 1)
      BY <2>1
    <3>2. Fits(n, p, k + 1) <=> p[e] \in {Single, Empty}
      BY <2>1 DEF Fits
    <3>3. c >= e - 1
      BY <2>1
    <3> QED BY <2>1, <1>4, <3>1, <3>2, <3>3, Kinds DEF FitFrom
  <2>2. CASE e = k + 2
    <3>1. \A j : j \in k .. e - 1 <=> j = k \/ j = k + 1
      BY <2>2
    <3>2. Fits(n, p, k + 1) <=> p[k + 1] \in {Single, Empty}
      BY DEF Fits
    <3>3. c >= e - 1 /\ c # e /\ e # k + 1
      BY <2>2
    <3> QED BY <2>2, <3>1, <3>2, <3>3 DEF FitFrom
  <2>3. CASE e # k + 1 /\ e # k + 2
    <3>1. ~(c >= e - 1) /\ c # e
      BY <2>3
    <3> QED BY <2>3, <3>1 DEF FitFrom
  <2> QED BY <2>1, <2>2, <2>3
<1> QED BY <1>3, <1>4, <1>5, <1>6, <1>8, Kinds DEF Taken, SpecialEnd

-----------------------------------------------------------------------------
(* Matching: the kinds of levels                                           *)

(* The name ends with a separator: an empty level is left of it.           *)
LEMMA UsedUp ==
  ASSUME NEW name, Word(name), NEW filter, Word(filter), NEW g, Walking(name, filter, g),
         NEW n \in Nat, n > Len(name), NEW f \in Nat
  PROVE  g[n][f] <=> f > Len(filter)
<1>1. g[n][f] <=> Compare(name, filter, n, f, g)
  BY DEF Walking
<1>2. Compare(name, filter, n, f, g) <=> f > Len(filter)
  BY Zenon DEF Compare
<1> QED BY <1>1, <1>2

LEMMA EmptyLast ==
  ASSUME NEW s, Word(s), NEW k \in 1 .. Depth(s)
  PROVE  Start(s, k) > Len(s) <=> k = Depth(s) /\ Levels(s)[k] = Empty
<1>1. PICK p, e, l : p = Start(s, k) /\ e = Cut(s, k) /\ l = Len(s)
  OBVIOUS
<1>2. /\ l \in Nat /\ p \in Nat /\ e \in Nat /\ p <= e /\ e <= l + 1 /\ k <= Depth(s)
      /\ k = Depth(s) => e = l + 1
      /\ k < Depth(s) => e <= l
      /\ k \in Nat /\ Depth(s) \in Nat
  BY <1>1, LevelsAre, WordIs, CutIs
<1>3. Levels(s)[k] = Empty <=> e = p
  BY <1>1, ShortLevel
<1> QED BY <1>1, <1>2, <1>3

(* Where the last separator of the name meets one of the filter.           *)
LEMMA EndAtSeparator ==
  ASSUME NEW filter, Word(filter), NEW k \in 1 .. Depth(filter), k < Depth(filter),
         NEW p, NEW e, p = Levels(filter), e = Depth(filter)
  PROVE  MatchEndWildcardsSpecialCases(filter, Cut(filter, k)) <=> SpecialEnd(p, e, k)
<1>1. PICK l : l = Len(filter)
  OBVIOUS
<1>2. PICK b : b = Cut(filter, k)
  OBVIOUS
<1>3. /\ l \in Nat /\ b \in Nat /\ filter[b] = "/" /\ k + 1 \in 1 .. e /\ Start(filter, k + 1) = b + 1
      /\ k \in Nat /\ e \in Nat
  BY <1>1, <1>2, LevelsAre, WordIs, CutIs
<1>4. PICK j \in 1 .. Depth(filter) : j = k + 1
  BY <1>3
<1>5. PICK plus : plus = "+" /\ plus # "/" /\ Single = <<plus>>
  BY DEF Single
<1>6. PICK hash : hash = "#" /\ hash # "/" /\ Multi = <<hash>>
  BY DEF Multi
<1>7. Start(filter, j) = l /\ filter[l] = plus <=> j = e /\ p[j] = Single
  BY <1>1, <1>5, FilterEnds
<1>8. /\ Start(filter, j) = l /\ filter[l] = hash <=> j = e /\ p[j] = Multi
      /\ Start(filter, j) = l - 1 /\ filter[Start(filter, j)] = "/" /\ filter[l] = hash
           <=> e = j + 1 /\ p[j] = Empty /\ p[j + 1] = Multi
  BY <1>1, <1>6, FilterEnds
<1>9. (b = l - 1 <=> Start(filter, j) = l) /\ (b = l - 2 <=> Start(filter, j) = l - 1)
      /\ Start(filter, j) = b + 1
  BY <1>3, <1>4
<1>10. MatchEndWildcardsSpecialCases(filter, b) <=>
         \/ b = l - 2 /\ filter[b + 1] = "/" /\ filter[l] = hash
         \/ b = l - 1 /\ filter[l] \in {plus, hash}
  BY <1>1, <1>3, <1>5, <1>6, Zenon DEF MatchEndWildcardsSpecialCases, Wildcards
<1>11. j + 1 = k + 2 /\ (j = e => p[j] = p[e]) /\ (e = j + 1 => p[j + 1] = p[e])
  BY <1>3, <1>4
<1> QED BY <1>2, <1>4, <1>7, <1>8, <1>9, <1>10, <1>11 DEF SpecialEnd

(* "+" takes the level up to its end.                                      *)
LEMMA LevelEnds ==
  ASSUME NEW name, Word(name), NEW k \in 1 .. Depth(name)
  PROVE  EndOfLevel(name, Start(name, k)) = Cut(name, k)
<1>1. PICK a, p, l : a = Cut(name, k) /\ p = Start(name, k) /\ l = Len(name)
  OBVIOUS
<1>2. PICK e : e = EndOfLevel(name, p)
  OBVIOUS
<1>3. /\ a \in Nat /\ p \in Nat /\ l \in Nat /\ p <= a /\ a <= l + 1
      /\ a = l + 1 \/ (a <= l /\ name[a] = "/")
      /\ \A i \in p .. a - 1 : name[i] # "/"
  <2>1. k = Depth(name) \/ k < Depth(name)
    BY CutIs
  <2> QED BY <1>1, <2>1, LevelsAre, WordIs
<1>4. /\ e \in Nat /\ e >= p /\ e <= l + 1 /\ (e <= l => name[e] = "/")
      /\ \A i \in p .. l : name[i] = "/" => e <= i
  <2>1. p <= Len(name) + 1 /\ Len(name) \in Nat
    BY <1>1, <1>3
  <2> QED BY <1>1, <1>2, <1>3, <2>1, EndOfLevelIs
<1>5. e <= a
  <2>1. a <= l => a \in p .. l
    BY <1>3
  <2> QED BY <1>3, <1>4, <2>1
<1>6. ~(e < a)
  <2>1. SUFFICES ASSUME e < a PROVE FALSE
    OBVIOUS
  <2>2. e \in p .. a - 1 /\ e <= l
    BY <1>3, <1>4, <2>1
  <2> QED BY <1>3, <1>4, <2>2
<1>7. e = a
  BY <1>3, <1>4, <1>5, <1>6
<1> QED BY <1>1, <1>2, <1>7

(* The three kinds of levels of a filter, each walked.                     *)
LEMMA MultiWalked ==
  ASSUME NEW name, ValidName(name), NEW filter, ValidFilter(filter), NEW g, Walking(name, filter, g),
         NEW k \in 1 .. Depth(name), k \in 1 .. Depth(filter),
         Levels(filter)[k] = Multi, Start(name, k) <= Len(name)
  PROVE  g[Start(name, k)][Start(filter, k)]
<1>1. Word(name) /\ Word(filter) /\ k = Depth(filter)
  BY FilterLevel DEF ValidName
<1>2. PICK n, f : n = Start(name, k) /\ f = Start(filter, k)
  OBVIOUS
<1>3. n \in Nat /\ n >= 1 /\ f \in Nat /\ f >= 1 /\ n <= Len(name) /\ Len(name) \in Nat /\ Len(filter) \in Nat
  BY <1>1, <1>2, LevelsAre, WordIs
<1>4. f = Len(filter) /\ filter[f] = "#"
  <2>1. PICK hash : hash = "#" /\ hash # "/" /\ Multi = <<hash>>
    BY DEF Multi
  <2>2. Start(filter, k) = Len(filter) /\ filter[Len(filter)] = hash
    BY <1>1, <2>1, FilterEnds
  <2> QED BY <1>2, <2>1, <2>2
<1>5. name[n] # filter[f]
  <2>1. n \in DOMAIN name
    BY <1>1, <1>3, WordIs
  <2> QED BY <1>4, <2>1 DEF ValidName, HasWildcard, Wildcards
<1>6. LocationIsValidForWildcard(filter, f)
  <2>1. k # 1 => filter[f - 1] = "/"
    BY <1>1, <1>2, LevelsAre
  <2>2. k = 1 => f = 1
    BY <1>2 DEF Start
  <2> QED BY <2>1, <2>2 DEF LocationIsValidForWildcard
<1>7. ~(n > Len(name)) /\ ~(f > Len(filter))
  BY <1>3, <1>4
<1>8. Compare(name, filter, n, f, g)
  BY <1>4, <1>5, <1>6, <1>7, Zenon DEF Compare
<1> QED BY <1>2, <1>3, <1>8 DEF Walking

LEMMA SingleWalked ==
  ASSUME NEW name, ValidName(name), NEW filter, ValidFilter(filter), NEW g, Walking(name, filter, g),
         NEW k \in 1 .. Depth(name), k \in 1 .. Depth(filter),
         Levels(filter)[k] = Single, Start(name, k) <= Len(name)
  PROVE  g[Start(name, k)][Start(filter, k)] <=>
           IF k = Depth(name) THEN k = Depth(filter)
           ELSE k < Depth(filter) /\ g[Start(name, k + 1)][Start(filter, k + 1)]
<1>1. Word(name) /\ Word(filter)
  BY DEF ValidName, ValidFilter
<1>2. PICK n, f : n = Start(name, k) /\ f = Start(filter, k)
  OBVIOUS
<1>3. PICK a, b : a = Cut(name, k) /\ b = Cut(filter, k)
  OBVIOUS
<1>4. /\ n \in Nat /\ n >= 1 /\ n <= Len(name) /\ Len(name) \in Nat /\ a \in Nat
      /\ k \in Nat /\ Depth(name) \in Nat /\ k <= Depth(name)
      /\ k = Depth(name) => a = Len(name) + 1
      /\ k < Depth(name) => a <= Len(name) /\ Start(name, k + 1) = a + 1
  BY <1>1, <1>2, <1>3, LevelsAre, WordIs, CutIs
<1>5. /\ f \in Nat /\ f >= 1 /\ Len(filter) \in Nat /\ b \in Nat /\ b <= Len(filter) + 1
      /\ Depth(filter) \in Nat /\ k <= Depth(filter)
      /\ k = Depth(filter) => b = Len(filter) + 1
      /\ k < Depth(filter) => b <= Len(filter) /\ filter[b] = "/" /\ Start(filter, k + 1) = b + 1
  BY <1>1, <1>2, <1>3, LevelsAre, WordIs, CutIs
<1>6. b = f + 1 /\ filter[f] = "+"
  <2>1. Levels(filter)[k] = <<"+">>
    BY DEF Single
  <2> QED BY <1>1, <1>2, <1>3, <2>1, ShortLevel
<1>7. name[n] # filter[f]
  <2>1. n \in DOMAIN name
    BY <1>1, <1>4, WordIs
  <2> QED BY <1>6, <2>1 DEF ValidName, HasWildcard, Wildcards
<1>8. LocationIsValidForWildcard(filter, f)
  <2>1. k # 1 => filter[f - 1] = "/"
    BY <1>1, <1>2, LevelsAre
  <2>2. k = 1 => f = 1
    BY <1>2 DEF Start
  <2> QED BY <2>1, <2>2 DEF LocationIsValidForWildcard
<1>9. EndOfLevel(name, n) = a
  BY <1>1, <1>2, <1>3, LevelEnds
<1>10. ~(n > Len(name)) /\ ~(f > Len(filter))
  BY <1>4, <1>5, <1>6
<1>11. filter[f] # "#"
  BY <1>6
<1>12. g[n][f] <=> IF a > Len(name) THEN g[a][f + 1]
                   ELSE f < Len(filter) /\ filter[f + 1] = "/" /\ g[a + 1][f + 2]
  <2>1. g[n][f] <=> Compare(name, filter, n, f, g)
    BY <1>4, <1>5 DEF Walking
  <2> QED BY <2>1, <1>6, <1>7, <1>8, <1>9, <1>10, <1>11, Zenon DEF Compare
<1>13. CASE k = Depth(name)
  <2>1. a > Len(name) /\ f + 1 \in Nat
    BY <1>4, <1>5, <1>13
  <2>2. g[a][f + 1] <=> f + 1 > Len(filter)
    BY <1>1, <1>4, <2>1, UsedUp
  <2>3. f + 1 > Len(filter) <=> k = Depth(filter)
    BY <1>5, <1>6
  <2> QED BY <1>2, <1>12, <1>13, <2>1, <2>2, <2>3
<1>14. CASE k # Depth(name)
  <2>1. k < Depth(name) /\ ~(a > Len(name)) /\ Start(name, k + 1) = a + 1
    BY <1>4, <1>14
  <2>2. f < Len(filter) /\ filter[f + 1] = "/" <=> k < Depth(filter)
    BY <1>5, <1>6
  <2>3. k < Depth(filter) => Start(filter, k + 1) = f + 2
    BY <1>5, <1>6
  <2> QED BY <1>2, <1>12, <1>14, <2>1, <2>2, <2>3
<1> QED BY <1>13, <1>14

LEMMA PlainWalked ==
  ASSUME NEW name, ValidName(name), NEW filter, ValidFilter(filter), NEW g, Walking(name, filter, g),
         NEW k \in 1 .. Depth(name), k \in 1 .. Depth(filter),
         Levels(filter)[k] \notin {Single, Multi}, Start(name, k) <= Len(name)
  PROVE  g[Start(name, k)][Start(filter, k)] <=>
           /\ Levels(filter)[k] = Levels(name)[k]
           /\ IF k = Depth(name) THEN k = Depth(filter) \/ ParentLevel(name, filter, k)
              ELSE /\ k < Depth(filter)
                   /\ \/ Cut(name, k) = Len(name) /\ MatchEndWildcardsSpecialCases(filter, Cut(filter, k))
                      \/ g[Start(name, k + 1)][Start(filter, k + 1)]
<1>1. Word(name) /\ Word(filter)
  BY DEF ValidName, ValidFilter
<1>2. PICK a, b : a = Cut(name, k) /\ b = Cut(filter, k)
  OBVIOUS
<1>3. /\ Len(name) \in Nat /\ a \in Nat /\ k \in Nat /\ Depth(name) \in Nat /\ k <= Depth(name)
      /\ k = Depth(name) => a = Len(name) + 1
      /\ k < Depth(name) => a <= Len(name) /\ name[a] = "/" /\ Start(name, k + 1) = a + 1
  BY <1>1, <1>2, LevelsAre, WordIs, CutIs
<1>4. /\ Len(filter) \in Nat /\ b \in Nat /\ Depth(filter) \in Nat /\ k <= Depth(filter)
      /\ k = Depth(filter) => b = Len(filter) + 1
      /\ k < Depth(filter) => b <= Len(filter) /\ filter[b] = "/" /\ Start(filter, k + 1) = b + 1
  BY <1>1, <1>2, LevelsAre, WordIs, CutIs
<1>5. g[Start(name, k)][Start(filter, k)] <=>
        Levels(filter)[k] = Levels(name)[k] /\ (ParentLevel(name, filter, k) \/ g[a][b])
  BY <1>1, <1>2, LevelWalked
<1>6. CASE k = Depth(name)
  <2>1. g[a][b] <=> b > Len(filter)
    <3>1. a > Len(name)
      BY <1>3, <1>6
    <3> QED BY <1>1, <1>3, <1>4, <3>1, UsedUp
  <2>2. b > Len(filter) <=> k = Depth(filter)
    BY <1>4
  <2> QED BY <1>5, <1>6, <2>1, <2>2
<1>7. CASE k # Depth(name)
  <2>1. k < Depth(name) /\ ~(a > Len(name)) /\ ~ParentLevel(name, filter, k)
    BY <1>3, <1>7 DEF ParentLevel
  <2>2. g[a][b] <=> Compare(name, filter, a, b, g)
    BY <1>3, <1>4 DEF Walking
  <2>3. CASE k < Depth(filter)
    <3>1. ~(b > Len(filter)) /\ name[a] = filter[b] /\ Start(name, k + 1) = a + 1 /\ Start(filter, k + 1) = b + 1
      BY <1>3, <1>4, <2>1, <2>3
    <3>2. g[a][b] <=> (a = Len(name) /\ MatchEndWildcardsSpecialCases(filter, b)) \/ g[a + 1][b + 1]
      BY <2>1, <2>2, <3>1, Zenon DEF Compare
    <3> QED BY <1>2, <1>5, <1>7, <2>1, <2>3, <3>1, <3>2
  <2>4. CASE k = Depth(filter)
    <3>1. b > Len(filter) /\ ~(k < Depth(filter))
      BY <1>4, <2>4
    <3>2. ~g[a][b]
      BY <2>1, <2>2, <3>1, Zenon DEF Compare
    <3> QED BY <1>5, <1>7, <2>1, <3>1, <3>2
  <2> QED BY <1>4, <2>3, <2>4
<1> QED BY <1>6, <1>7

-----------------------------------------------------------------------------
(* Matching: level by level                                                *)

(* The walk decides from each level on as the levels do.                   *)
Decides(name, filter, g, k) ==
  g[Start(name, k)][Start(filter, k)] <=>
    Taken(Levels(name), Depth(name), Levels(filter), Depth(filter), k)

LEMMA DecidesEarlier ==
  ASSUME NEW name, ValidName(name), NEW filter, ValidFilter(filter), NEW g, Walking(name, filter, g),
         NEW k \in 1 .. Depth(name), k \in 1 .. Depth(filter), Start(name, k) <= Len(name),
         k < Depth(name) /\ k < Depth(filter) /\ Start(name, k + 1) <= Len(name)
           => Decides(name, filter, g, k + 1)
  PROVE  Decides(name, filter, g, k)
<1>1. PICK n : n = Levels(name)
  OBVIOUS
<1>2. PICK p : p = Levels(filter)
  OBVIOUS
<1>3. Word(name) /\ Word(filter)
  BY DEF ValidName, ValidFilter
<1>4. PICK c \in Nat : c = Depth(name)
  BY <1>3, CutIs
<1>5. PICK e \in Nat : e = Depth(filter)
  BY <1>3, CutIs
<1>6. k \in 1 .. c /\ k \in 1 .. e /\ k <= c /\ k <= e /\ k \in Nat
  BY <1>4, <1>5
<1>7. \A j \in 1 .. e : p[j] = Multi => j = e
  BY <1>2, <1>5, FilterLevel
<1>8. PICK x : x <=> g[Start(name, k)][Start(filter, k)]
  OBVIOUS
<1>9. PICK y : y <=> g[Start(name, k + 1)][Start(filter, k + 1)]
  OBVIOUS
<1>10. PICK end : end <=> Start(name, k + 1) > Len(name)
  OBVIOUS
<1>11. ASSUME k < c, k < e, ~end
       PROVE  /\ y <=> Taken(n, c, p, e, k + 1)
              /\ ~(c = k + 1 /\ n[c] = Empty)
              /\ Cut(name, k) # Len(name)
  <2>1. Start(name, k + 1) = Cut(name, k) + 1 /\ Cut(name, k) \in Nat /\ Len(name) \in Nat
    BY <1>3, <1>4, <1>11, LevelsAre, WordIs
  <2>2. Start(name, k + 1) <= Len(name) /\ Cut(name, k) # Len(name)
    BY <1>10, <1>11, <2>1
  <2>3. y <=> Taken(n, c, p, e, k + 1)
    BY <1>1, <1>2, <1>4, <1>5, <1>9, <1>11, <2>2 DEF Decides
  <2>4. PICK j \in 1 .. Depth(name) : j = k + 1
    BY <1>4, <1>6, <1>11
  <2>5. Start(name, j) > Len(name) <=> j = Depth(name) /\ Levels(name)[j] = Empty
    BY <1>3, EmptyLast
  <2> QED BY <1>1, <1>4, <1>10, <1>11, <2>2, <2>3, <2>4, <2>5
<1>12. ASSUME k < c, k < e, end
       PROVE  /\ c = k + 1 /\ n[c] = Empty
              /\ y <=> e = k + 1 /\ p[e] = Empty
              /\ Cut(name, k) = Len(name)
  <2>1. /\ Start(name, k + 1) = Cut(name, k) + 1 /\ Cut(name, k) \in Nat /\ Len(name) \in Nat
        /\ Cut(name, k) <= Len(name)
    BY <1>3, <1>4, <1>12, LevelsAre, WordIs
  <2>2. Cut(name, k) = Len(name) /\ Start(name, k + 1) \in Nat /\ Start(name, k + 1) > Len(name)
    BY <1>10, <1>12, <2>1
  <2>3. PICK j \in 1 .. Depth(name) : j = k + 1
    BY <1>4, <1>6, <1>12
  <2>4. j = Depth(name) /\ Levels(name)[j] = Empty
    BY <1>3, <2>2, <2>3, EmptyLast
  <2>5. PICK i \in 1 .. Depth(filter) : i = k + 1
    BY <1>5, <1>6, <1>12
  <2>6. Start(filter, i) > Len(filter) <=> i = Depth(filter) /\ Levels(filter)[i] = Empty
    BY <1>3, EmptyLast
  <2>7. Start(filter, i) \in Nat
    BY <1>3, LevelsAre
  <2>8. y <=> Start(filter, i) > Len(filter)
    BY <1>3, <1>9, <2>2, <2>5, <2>7, UsedUp
  <2> QED BY <1>1, <1>2, <1>4, <1>5, <2>2, <2>3, <2>4, <2>5, <2>6, <2>8
<1>13. x <=> Taken(n, c, p, e, k)
  <2>1. CASE p[k] = Multi
    <3>1. x
      BY <1>2, <1>8, <2>1, MultiWalked
    <3>2. Taken(n, c, p, e, k)
      BY <1>6, <1>7, <2>1, TakenByMulti
    <3> QED BY <3>1, <3>2
  <2>2. CASE p[k] = Single
    <3>1. x <=> IF k = c THEN k = e ELSE k < e /\ y
      BY <1>2, <1>4, <1>5, <1>8, <1>9, <2>2, SingleWalked
    <3>2. Fits(n, p, k) /\ p[k] # Multi
      BY <2>2, Kinds DEF Fits
    <3>3. CASE k = c
      <4>1. Taken(n, c, p, e, k) <=> k = e
        BY <1>6, <1>7, <2>2, <3>2, <3>3, TakenLast
      <4> QED BY <3>1, <3>3, <4>1
    <3>4. CASE k < c /\ k = e
      <4>1. ~Taken(n, c, p, e, k)
        BY <1>6, <3>2, <3>4, NotTaken
      <4>2. ~x
        BY <3>1, <3>4, <1>6
      <4> QED BY <4>1, <4>2
    <3>5. CASE k < c /\ k < e /\ ~end
      <4>1. ~LostAt(n, c, p, e, k)
        BY <1>6, <1>11, <3>5 DEF LostAt
      <4>2. Taken(n, c, p, e, k) <=> Taken(n, c, p, e, k + 1)
        BY <1>6, <3>2, <3>5, <4>1, TakenFurther
      <4>3. x <=> y
        BY <1>6, <3>1, <3>5
      <4> QED BY <1>11, <3>5, <4>2, <4>3
    <3>6. CASE k < c /\ k < e /\ end
      <4>1. c = k + 1 /\ n[c] = Empty
        BY <1>12, <3>6
      <4>2. Taken(n, c, p, e, k) <=> e = k + 1 /\ p[e] = Empty
        BY <1>6, <1>7, <2>2, <3>2, <3>6, <4>1, TakenLastButEmpty
      <4>3. x <=> y
        BY <1>6, <3>1, <3>6
      <4> QED BY <1>12, <3>6, <4>2, <4>3
    <3> QED BY <1>6, <3>3, <3>4, <3>5, <3>6
  <2>3. CASE p[k] \notin {Single, Multi}
    <3>1. PICK special : special <=> MatchEndWildcardsSpecialCases(filter, Cut(filter, k))
      OBVIOUS
    <3>2. PICK parent : parent <=> ParentLevel(name, filter, k)
      OBVIOUS
    <3>3. x <=> /\ p[k] = n[k]
                /\ IF k = c THEN k = e \/ parent
                   ELSE k < e /\ ((Cut(name, k) = Len(name) /\ special) \/ y)
      <4>1. Levels(filter)[k] \notin {Single, Multi}
        BY <1>2, <2>3
      <4> QED BY <1>1, <1>2, <1>4, <1>5, <1>8, <1>9, <3>1, <3>2, <4>1, PlainWalked
    <3>4. CASE p[k] # n[k]
      <4>1. ~Fits(n, p, k) /\ p[k] # Multi
        BY <2>3, <3>4 DEF Fits
      <4>2. ~Taken(n, c, p, e, k)
        BY <1>6, <4>1, NotTaken
      <4> QED BY <3>3, <3>4, <4>2
    <3>5. CASE p[k] = n[k]
      <4>1. Fits(n, p, k) /\ p[k] # Multi /\ p[k] # Single
        BY <2>3, <3>5 DEF Fits
      <4>2. CASE k = c
        <5>1. Taken(n, c, p, e, k) <=> k = e \/ (e = k + 1 /\ p[e] = Multi)
          BY <1>6, <1>7, <4>1, <4>2, TakenLast
        <5>2. parent <=> e = k + 1 /\ p[e] = Multi
          BY <1>2, <1>4, <1>5, <3>2, <4>2 DEF ParentLevel
        <5> QED BY <3>3, <3>5, <4>2, <5>1, <5>2
      <4>3. CASE k < c /\ k = e
        <5>1. ~Taken(n, c, p, e, k)
          BY <1>6, <4>1, <4>3, NotTaken
        <5>2. ~x
          BY <1>6, <3>3, <4>3
        <5> QED BY <5>1, <5>2
      <4>4. CASE k < c /\ k < e /\ ~end
        <5>1. ~LostAt(n, c, p, e, k)
          BY <4>1 DEF LostAt
        <5>2. Taken(n, c, p, e, k) <=> Taken(n, c, p, e, k + 1)
          BY <1>6, <4>1, <4>4, <5>1, TakenFurther
        <5>3. Cut(name, k) # Len(name)
          BY <1>11, <4>4
        <5>4. x <=> y
          BY <1>6, <3>3, <3>5, <4>4, <5>3
        <5> QED BY <1>11, <4>4, <5>2, <5>4
      <4>5. CASE k < c /\ k < e /\ end
        <5>1. c = k + 1 /\ n[c] = Empty /\ Cut(name, k) = Len(name)
          BY <1>12, <4>5
        <5>2. Taken(n, c, p, e, k) <=> (e = k + 1 /\ p[e] = Empty) \/ SpecialEnd(p, e, k)
          BY <1>6, <1>7, <4>1, <4>5, <5>1, TakenLastButEmpty
        <5>3. special <=> SpecialEnd(p, e, k)
          <6>1. k \in 1 .. Depth(filter) /\ k < Depth(filter)
            BY <1>5, <4>5
          <6> QED BY <1>2, <1>3, <1>5, <3>1, <6>1, EndAtSeparator
        <5>4. y <=> e = k + 1 /\ p[e] = Empty
          BY <1>12, <4>5
        <5>5. x <=> special \/ y
          BY <1>6, <3>3, <3>5, <4>5, <5>1
        <5> QED BY <5>2, <5>3, <5>4, <5>5
      <4> QED BY <1>6, <4>2, <4>3, <4>4, <4>5
    <3> QED BY <3>4, <3>5
  <2> QED BY <2>1, <2>2, <2>3
<1> QED BY <1>1, <1>2, <1>4, <1>5, <1>8, <1>13 DEF Decides

LEMMA WalkDecides ==
  ASSUME NEW name, ValidName(name), NEW filter, ValidFilter(filter), NEW g, Walking(name, filter, g)
  PROVE  Decides(name, filter, g, 1)
<1>1. Word(name) /\ Word(filter)
  BY DEF ValidName, ValidFilter
<1>2. PICK c \in Nat : c = Depth(name) /\ c >= 1
  BY <1>1, CutIs
<1>3. PICK e \in Nat : e = Depth(filter) /\ e >= 1
  BY <1>1, CutIs
<1>4. PICK m \in Nat : m = (IF c <= e THEN c ELSE e) /\ m >= 1 /\ m <= c /\ m <= e
  BY <1>2, <1>3
<1> DEFINE Within(k) == Start(name, k) <= Len(name)
           Wrong == {d \in 0 .. m - 1 : Within(m - d) /\ ~Decides(name, filter, g, m - d)}
           d == FirstOf(Wrong)
<1>5. SUFFICES Wrong = {}
  <2>1. m - 1 \in 0 .. m - 1 /\ m - (m - 1) = 1
    BY <1>4
  <2>2. Start(name, 1) = 1 /\ 1 <= Len(name)
    BY <1>1, WordIs DEF Start
  <2> QED BY <2>1, <2>2
<1>6. SUFFICES ASSUME Wrong # {} PROVE FALSE
  OBVIOUS
<1>7. Wrong \in SUBSET Nat
  BY <1>4
<1>8. d \in Wrong /\ \A y \in Wrong : d <= y
  BY <1>6, <1>7, FirstIsMember
<1> HIDE DEF d
<1>9. PICK k : k = m - d
  OBVIOUS
<1>10. d \in 0 .. m - 1 /\ Within(k) /\ ~Decides(name, filter, g, k)
  BY <1>8, <1>9
<1>11. k \in 1 .. Depth(name) /\ k \in 1 .. Depth(filter) /\ k <= m
  BY <1>2, <1>3, <1>4, <1>9, <1>10
<1>12. ASSUME k < Depth(name), k < Depth(filter), Within(k + 1)
       PROVE  Decides(name, filter, g, k + 1)
  <2>1. d # 0
    BY <1>2, <1>3, <1>4, <1>9, <1>12
  <2>2. d - 1 \in 0 .. m - 1 /\ m - (d - 1) = k + 1 /\ ~(d <= d - 1)
    BY <1>4, <1>9, <1>10, <2>1
  <2> QED BY <1>8, <1>12, <2>2
<1>13. Decides(name, filter, g, k)
  BY <1>10, <1>11, <1>12, DecidesEarlier
<1> QED BY <1>10, <1>13

-----------------------------------------------------------------------------
(* Matching: the walk and the standard                                     *)

(* The two ways of saying what is left behind a level.                     *)
After(s, k) == SubSeq(s, k + 1, Len(s))
None(t) == t = <<>>
Only(t, x) == t = <<x>>
Both(t, x, y) == t = <<x, y>>

LEMMA TupleIs ==
  ASSUME NEW S, NEW t \in Seq(S), NEW x, NEW y
  PROVE  /\ None(t) <=> Len(t) = 0
         /\ Only(t, x) <=> Len(t) = 1 /\ t[1] = x
         /\ Both(t, x, y) <=> Len(t) = 2 /\ t[1] = x /\ t[2] = y
<1>1. None(t) <=> Len(t) = 0
  BY EmptySeq DEF None
<1>2. Only(t, x) <=> Len(t) = 1 /\ t[1] = x
  <2>1. ASSUME Len(t) = 1, t[1] = x PROVE t = <<x>>
    BY <2>1
  <2> QED BY <2>1 DEF Only
<1>3. Both(t, x, y) <=> Len(t) = 2 /\ t[1] = x /\ t[2] = y
  <2>1. PICK u : u = <<x, y>>
    OBVIOUS
  <2>2. u \in Seq({x, y}) /\ Len(u) = 2 /\ u[1] = x /\ u[2] = y
    BY <2>1
  <2>3. ASSUME Len(t) = 2, t[1] = x, t[2] = y PROVE t = u
    <3>1. \A i \in 1 .. 2 : t[i] = u[i]
      <4>1. \A i \in 1 .. 2 : i = 1 \/ i = 2
        OBVIOUS
      <4> QED BY <2>2, <2>3, <4>1
    <3> QED BY <2>2, <2>3, <3>1, SeqEqual
  <2> QED BY <2>1, <2>2, <2>3, Zenon DEF Both
<1> QED BY <1>1, <1>2, <1>3

LEMMA AfterIs ==
  ASSUME NEW S, NEW s \in Seq(S), NEW k \in 1 .. Len(s), NEW x, NEW y
  PROVE  /\ None(After(s, k)) <=> Len(s) = k
         /\ Only(After(s, k), x) <=> Len(s) = k + 1 /\ s[k + 1] = x
         /\ Both(After(s, k), x, y) <=> Len(s) = k + 2 /\ s[k + 1] = x /\ s[k + 2] = y
<1>1. PICK l \in Nat : l = Len(s)
  OBVIOUS
<1>2. PICK t : t = After(s, k)
  OBVIOUS
<1>3. t \in Seq(S) /\ Len(t) = l - k /\ \A i \in 1 .. l - k : t[i] = s[k + i]
  <2>1. \A i \in k + 1 .. l : s[i] \in S
    BY <1>1, ElementOfSeq
  <2>2. k + 1 \in Int /\ l \in Int /\ (IF k + 1 <= l THEN l - (k + 1) + 1 ELSE 0) = l - k
        /\ l - (k + 1) + 1 = l - k
    BY <1>1
  <2>3. /\ t \in Seq(S) /\ Len(t) = IF k + 1 <= l THEN l - (k + 1) + 1 ELSE 0
        /\ \A i \in 1 .. l - (k + 1) + 1 : t[i] = s[k + 1 + i - 1]
    BY <1>1, <1>2, <2>1, <2>2, SubSeqProperties DEF After
  <2>4. \A i \in 1 .. l - k : k + 1 + i - 1 = k + i
    BY <1>1
  <2> QED BY <2>2, <2>3, <2>4
<1>4. /\ None(t) <=> Len(t) = 0
      /\ Only(t, x) <=> Len(t) = 1 /\ t[1] = x
      /\ Both(t, x, y) <=> Len(t) = 2 /\ t[1] = x /\ t[2] = y
  BY <1>3, TupleIs
<1>5. /\ Len(t) = 0 <=> l = k
      /\ Len(t) = 1 <=> l = k + 1
      /\ Len(t) = 2 <=> l = k + 2
  BY <1>1, <1>3
<1>6. /\ l = k + 1 => t[1] = s[k + 1]
      /\ l = k + 2 => t[1] = s[k + 1] /\ t[2] = s[k + 2]
  BY <1>1, <1>3
<1> QED BY <1>1, <1>2, <1>4, <1>5, <1>6

LEMMA LevelsSequence ==
  ASSUME NEW s, Word(s)
  PROVE  /\ \E S : Levels(s) \in Seq(S)
         /\ Len(Levels(s)) = Depth(s) /\ DOMAIN Levels(s) = 1 .. Depth(s)
<1>1. Depth(s) \in Nat /\ Depth(s) >= 1
  BY CutIs
<1>2. 1 \in 1 .. Depth(s)
  BY <1>1
<1>3. Len(Levels(s)) = Depth(s) /\ DOMAIN Levels(s) = 1 .. Depth(s)
  BY <1>2, LevelIs
<1> DEFINE S == {Levels(s)[k] : k \in 1 .. Depth(s)}
<1>4. Levels(s) \in [1 .. Depth(s) -> S]
  <2>1. Levels(s) = [k \in 1 .. Depth(s) |-> Levels(s)[k]]
    BY <1>3 DEF Levels
  <2> QED BY <2>1
<1>5. Levels(s) \in Seq(S)
  <2> HIDE DEF S
  <2> QED BY <1>1, <1>4, SeqDef
<1> QED BY <1>3, <1>5

LEMMA StandardIs ==
  ASSUME NEW name, Word(name), NEW filter, Word(filter)
  PROVE  StandardMatch(name, filter) <=>
           /\ ~(name[1] = "$" /\ filter[1] \in Wildcards)
           /\ FitFrom(Levels(name), Depth(name), Levels(filter), Depth(filter), 1)
BY LevelsSequence DEF StandardMatch, FitFrom, Fits

LEMMA LostIs ==
  ASSUME NEW name, Word(name), NEW filter, Word(filter)
  PROVE  LostByPlus(name, filter) <=>
           LostFrom(Levels(name), Depth(name), Levels(filter), Depth(filter), 1)
<1>1. PICK n, N : n = Levels(name) /\ n \in Seq(N)
  BY LevelsSequence
<1>2. PICK p, P : p = Levels(filter) /\ p \in Seq(P)
  BY LevelsSequence
<1>3. PICK c \in Nat : c = Depth(name) /\ Len(n) = c /\ DOMAIN n = 1 .. c
  BY <1>1, LevelsSequence, CutIs
<1>4. PICK e \in Nat : e = Depth(filter) /\ Len(p) = e /\ DOMAIN p = 1 .. e
  BY <1>2, LevelsSequence, CutIs
<1>5. ASSUME NEW k \in 1 .. e, k \in 1 .. c
      PROVE  /\ None(After(n, k)) <=> c = k
             /\ Only(After(n, k), Empty) <=> c = k + 1 /\ n[k + 1] = Empty
             /\ \A x : Only(After(p, k), x) <=> e = k + 1 /\ p[k + 1] = x
             /\ Both(After(p, k), Empty, Multi) <=> e = k + 2 /\ p[k + 1] = Empty /\ p[k + 2] = Multi
  <2>1. k \in 1 .. Len(n) /\ k \in 1 .. Len(p)
    BY <1>3, <1>4, <1>5
  <2>2. /\ None(After(n, k)) <=> Len(n) = k
        /\ Only(After(n, k), Empty) <=> Len(n) = k + 1 /\ n[k + 1] = Empty
    BY <1>1, <2>1, AfterIs
  <2>3. \A x : Only(After(p, k), x) <=> Len(p) = k + 1 /\ p[k + 1] = x
    BY <1>2, <2>1, AfterIs
  <2>4. Both(After(p, k), Empty, Multi) <=> Len(p) = k + 2 /\ p[k + 1] = Empty /\ p[k + 2] = Multi
    BY <1>2, <2>1, AfterIs
  <2> QED BY <1>3, <1>4, <2>2, <2>3, <2>4
<1>6. ASSUME NEW k \in 1 .. e, k \in 1 .. c
      PROVE  LostAt(n, c, p, e, k) <=>
               /\ p[k] = Single
               /\ \/ None(After(n, k)) /\ Only(After(p, k), Multi)
                  \/ /\ Only(After(n, k), Empty)
                     /\ \/ Only(After(p, k), Single) \/ Only(After(p, k), Multi)
                        \/ Both(After(p, k), Empty, Multi)
  <2>1. /\ c = k + 1 => n[k + 1] = n[c]
        /\ e = k + 1 => p[k + 1] = p[e]
        /\ e = k + 2 => p[k + 2] = p[e]
    OBVIOUS
  <2> QED BY <1>5, <1>6, <2>1 DEF LostAt
<1>7. LostFrom(n, c, p, e, 1) <=> \E k \in 1 .. e : k \in 1 .. c /\ LostAt(n, c, p, e, k)
  <2>1. \A k \in 1 .. e : k <= c <=> k \in 1 .. c
    BY <1>3, <1>4
  <2> QED BY <2>1 DEF LostFrom
<1>8. LostByPlus(name, filter) <=>
        \E k \in 1 .. e : /\ k \in 1 .. c
                          /\ p[k] = Single
                          /\ \/ None(After(n, k)) /\ Only(After(p, k), Multi)
                             \/ /\ Only(After(n, k), Empty)
                                /\ \/ Only(After(p, k), Single) \/ Only(After(p, k), Multi)
                                   \/ Both(After(p, k), Empty, Multi)
  BY <1>1, <1>2, <1>3, <1>4, Zenon DEF LostByPlus, None, Only, Both, After
<1>9. LostByPlus(name, filter) <=> LostFrom(n, c, p, e, 1)
  BY <1>6, <1>7, <1>8, Zenon
<1> QED BY <1>1, <1>2, <1>3, <1>4, <1>9

(* A valid name has no wildcards at any level.                             *)
LEMMA NameLevel ==
  ASSUME NEW name, ValidName(name), NEW k \in 1 .. Depth(name)
  PROVE  Levels(name)[k] \notin {Single, Multi}
<1>1. Word(name)
  BY DEF ValidName
<1>2. PICK a, e : a = Start(name, k) /\ e = Cut(name, k)
  OBVIOUS
<1>3. a \in Nat /\ e \in Nat /\ \A i \in a .. e - 1 : i \in 1 .. Len(name)
  BY <1>1, <1>2, LevelsAre
<1>4. ASSUME NEW x \in Wildcards PROVE Levels(name)[k] # <<x>>
  <2>1. SUFFICES ASSUME e = a + 1, name[a] = x PROVE FALSE
    BY <1>1, <1>2, ShortLevel
  <2>2. a \in 1 .. Len(name)
    BY <1>3, <2>1
  <2>3. a \in DOMAIN name
    BY <1>1, <2>2, WordIs
  <2> QED BY <2>1, <2>3 DEF ValidName, HasWildcard
<1>5. PICK x, y : x = "+" /\ y = "#"
  OBVIOUS
<1>6. x \in Wildcards /\ y \in Wildcards /\ Single = <<x>> /\ Multi = <<y>>
  BY <1>5 DEF Wildcards, Single, Multi
<1> QED BY <1>4, <1>6

(* MQTT_MatchTopic decides as the standard does, but for the pairs that    *)
(* "+" loses.                                                              *)
LEMMA MatchIs ==
  ASSUME NEW name, ValidName(name), NEW filter, ValidFilter(filter)
  PROVE  MatchTopic(name, filter) <=>
           StandardMatch(name, filter) /\ ~LostByPlus(name, filter)
<1>1. Word(name) /\ Word(filter)
  BY DEF ValidName, ValidFilter
<1>2. PICK n, p : n = Levels(name) /\ p = Levels(filter)
  OBVIOUS
<1>3. PICK c \in Nat : c = Depth(name) /\ c >= 1
  BY <1>1, CutIs
<1>4. PICK e \in Nat : e = Depth(filter) /\ e >= 1
  BY <1>1, CutIs
<1>5. MatchTopicFilter(name, filter) <=> Taken(n, c, p, e, 1)
  <2>1. PICK g : /\ \A i, f \in Nat : g[i][f] = Compare(name, filter, i, f, g)
                 /\ MatchTopicFilter(name, filter) = g[1][1]
    BY <1>1, WordIs, WalkIs
  <2>2. Walking(name, filter, g)
    BY <2>1 DEF Walking
  <2>3. Decides(name, filter, g, 1)
    BY <2>2, WalkDecides
  <2>4. Start(name, 1) = 1 /\ Start(filter, 1) = 1
    BY DEF Start
  <2> QED BY <1>2, <1>3, <1>4, <2>1, <2>3, <2>4 DEF Decides
<1>6. StandardMatch(name, filter) <=>
        /\ ~(name[1] = "$" /\ filter[1] \in Wildcards)
        /\ FitFrom(n, c, p, e, 1)
  BY <1>1, <1>2, <1>3, <1>4, StandardIs
<1>7. LostByPlus(name, filter) <=> LostFrom(n, c, p, e, 1)
  BY <1>1, <1>2, <1>3, <1>4, LostIs
<1>8. Taken(n, c, p, e, 1) <=> FitFrom(n, c, p, e, 1) /\ ~LostFrom(n, c, p, e, 1)
  BY DEF Taken
<1>9. CASE name # filter
  BY <1>5, <1>6, <1>7, <1>8, <1>9 DEF MatchTopic
<1>10. CASE name = filter
  <2>1. MatchTopic(name, filter)
    BY <1>10 DEF MatchTopic
  <2>2. filter[1] \notin Wildcards
    <3>1. 1 \in DOMAIN name
      BY <1>1, WordIs
    <3> QED BY <1>10, <3>1 DEF ValidName, HasWildcard
  <2>3. \A k \in 1 .. e : p[k] \notin {Single, Multi} /\ p[k] = n[k]
    BY <1>2, <1>4, <1>10, NameLevel
  <2>4. c = e /\ p[e] # Multi
    BY <1>3, <1>4, <1>10, <2>3
  <2>5. FitFrom(n, c, p, e, 1)
    BY <2>3, <2>4 DEF FitFrom, Fits
  <2>6. ~LostFrom(n, c, p, e, 1)
    BY <2>3 DEF LostFrom, LostAt
  <2> QED BY <1>6, <1>7, <2>1, <2>2, <2>5, <2>6
<1> QED BY <1>9, <1>10

-----------------------------------------------------------------------------
(* The invariant, and what follows from it *)

LEMMA InitIInv == Init => IInv
<1> SUFFICES ASSUME Init PROVE IInv
  OBVIOUS
<1> USE DEF Init
<1>1. ListOK(list)
  BY DEF ListOK
<1>2. RequestsOK
  <2>1. <<>> \in Args
    BY FreeApart, EmptySeq DEF Args, BoundedSeq, SeqOf
  <2> QED BY <2>1, EmptySeq DEF RequestsOK
<1>3. ScalarsOK
  <2>1. {linked, persistent, unrenewed} \subseteq BOOLEAN
    OBVIOUS
  <2> QED BY <2>1, FreeApart DEF ScalarsOK
<1>4. WalkOK
  <2>1. Idle \in DispatchValues
    BY FreeApart DEF Idle, DispatchValues
  <2>2. Idle.kept = {} /\ Idle.inCallback = FALSE /\ Idle.place = 0
    BY DEF Idle
  <2> QED BY <2>1, <2>2 DEF WalkOK
<1>5. RenewalOK
  BY DEF RenewalOK, ListedFilters, Listed, Range
<1> QED BY <1>1, <1>2, <1>3, <1>4, <1>5 DEF IInv

LEMMA NextKeepsIInv == IInv /\ [Next]_vars => IInv'
<1> SUFFICES ASSUME IInv, [Next]_vars PROVE IInv'
  OBVIOUS
<1>1. ASSUME NEW r \in Registrations, Subscribed(r) PROVE IInv'
  BY <1>1, FreeApart, ApplicationKeeps
<1>2. ASSUME NEW f \in Filters, Unsubscribed(f) PROVE IInv'
  BY <1>2, ApplicationKeeps
<1>3. ASSUME NEW r \in Registrations, CallbackAdds(r) PROVE IInv'
  BY <1>3, CallbackAddsKeeps
<1>4. ASSUME NEW f \in Filters, CallbackRemoves(f) PROVE IInv'
  BY <1>4, CallbackRemovesKeeps
<1>5. ASSUME NEW t \in Topics, PublishArrives(t) PROVE IInv'
  BY <1>5, ArrivalKeeps
<1>6. CASE UNCHANGED vars
  <2>1. WalkOK' /\ RenewalOK'
    BY <1>6 DEF IInv, WalkOK, PassedBy, RenewalOK, AskedFor, Open, ListedFilters, Listed,
                vars, agentVars, renewalVars, linkVars
  <2> QED BY <1>6, <2>1 DEF IInv, ListOK, RequestsOK, ScalarsOK, vars, agentVars, renewalVars, linkVars
<1> QED BY <1>1, <1>2, <1>3, <1>4, <1>5, <1>6, CallPlaceKeeps, AdvanceKeeps, HandledKeeps,
           LinkFailsKeeps, ReconnectKeeps, SendKeeps, SendFailsKeeps, AnswerKeeps, SubAckKeeps
        DEF Next

(* A request is added at the end, and an answer adds or takes none.        *)
LEMMA SendLengthens ==
  ASSUME RequestsOK, SendSubscribe PROVE Len(requests') = Len(requests) + 1
<1>1. requests \in Seq(RequestValues)
  BY DEF RequestsOK
<1>2. [asked |-> subArgs, codes |-> NoAnswer] \in RequestValues
  BY EmptySeq DEF NoAnswer, RequestValues, RequestsOK
<1> QED BY <1>1, <1>2, AppendProperties DEF SendSubscribe

LEMMA AnswerSameLength ==
  ASSUME RequestsOK, BrokerAnswers PROVE Len(requests') = Len(requests)
<1>1. requests \in Seq(RequestValues)
  BY DEF RequestsOK
<1>2. PICK n, codes : requests' = [requests EXCEPT ![n].codes = codes]
  BY DEF BrokerAnswers
<1>3. DOMAIN requests' = DOMAIN requests
  BY <1>2
<1> QED BY <1>1, <1>2, <1>3, LenProperties DEF RequestsOK

THEOREM Invariance == Spec => []IInv
BY InitIInv, NextKeepsIInv, PTL DEF Spec

(* Every variable has its type: the list never grows past its places, and  *)
(* the codes of a SUBACK are as many as the filters it answers.            *)
THEOREM TypeCorrect == Spec => []TypeOK
<1>1. IInv => TypeOK
  <2> SUFFICES ASSUME IInv PROVE TypeOK
    OBVIOUS
  <2>1. ASSUME NEW k \in DOMAIN requests
        PROVE  /\ requests[k].asked \in Args
               /\ requests[k].codes # NoAnswer =>
                    requests[k].codes \in [DOMAIN requests[k].asked -> BOOLEAN]
    <3>1. requests[k].asked = subArgs /\ requests[k].codes \in Seq(BOOLEAN) /\ subArgs \in Args
      BY RequestTypes DEF IInv, RequestsOK, RequestValues
    <3>2. requests[k].codes # NoAnswer => DOMAIN requests[k].codes = DOMAIN subArgs
      BY DEF IInv, RequestsOK
    <3>3. requests[k].codes \in [DOMAIN requests[k].codes -> BOOLEAN]
      BY <3>1, SeqDef
    <3> QED BY <3>1, <3>2, <3>3
  <2>2. {linked, persistent, unrenewed} \subseteq BOOLEAN /\ dispatch.inCallback \in BOOLEAN
    BY DEF IInv, ScalarsOK, WalkOK, DispatchValues
  <2> QED BY <2>1, <2>2 DEF TypeOK, IInv, ListOK, RequestsOK, ScalarsOK, WalkOK, DispatchValues, Args
<1> QED BY <1>1, Invariance, PTL

(* While renewals are under way, the static array of prvHandleResubscribe  *)
(* holds the filters of every one of them: none is answered by codes read  *)
(* against other filters.                                                  *)
THEOREM ArgsHold == Spec => []ArgsAreTheRequest
<1>1. IInv => ArgsAreTheRequest
  BY DEF IInv, RequestsOK, ArgsAreTheRequest
<1> QED BY <1>1, Invariance, PTL

(* Once the renewals are through, the broker has what is listed, unless    *)
(* one was given up.                                                       *)
THEOREM ListedHolds == Spec => []ListedIsSubscribed
<1>1. IInv => ListedIsSubscribed
  <2> SUFFICES ASSUME IInv, ~Renewing, ~unrenewed, NEW f \in ListedFilters, f \notin broker
               PROVE  FALSE
    BY DEF ListedIsSubscribed
  <2>1. AskedFor(f)
    BY DEF IInv, RenewalOK
  <2>2. DOMAIN requests = {} /\ ~(commands > 0)
    BY EmptySeq DEF Renewing
  <2> QED BY <2>1, <2>2 DEF AskedFor
<1> QED BY <1>1, Invariance, PTL

(* A publish that has been handed out was handed once to each registration *)
(* that was there throughout and that matchTopic finds to match, and to no *)
(* other of them.                                                          *)
THEOREM WalkReachesEach ==
  Spec => [](Dispatched => \A r \in dispatch.kept :
               dispatch.calls[r] = IF MatchTopic(dispatch.topic, r.filter) THEN 1 ELSE 0)
<1> DEFINE Reached == Dispatched => \A r \in dispatch.kept :
               dispatch.calls[r] = IF MatchTopic(dispatch.topic, r.filter) THEN 1 ELSE 0
<1>1. IInv => Reached
  <2> SUFFICES ASSUME IInv, Dispatched, NEW r \in dispatch.kept
               PROVE  dispatch.calls[r] = IF MatchTopic(dispatch.topic, r.filter) THEN 1 ELSE 0
    OBVIOUS
  <2>1. \A p \in Places : PassedBy(p)
    BY FreeApart DEF Dispatched, PassedBy, Places
  <2> QED BY <2>1 DEF IInv, WalkOK
<1> QED BY <1>1, Invariance, PTL

(* MQTT_MatchTopic decides of every name and filter of the instance as the *)
(* standard does, but for the pairs that "+" loses.                        *)
THEOREM MatchingHolds == Spec => []MatchIsStandardButForPlus
<1>1. MatchIsStandardButForPlus
  <2>1. \A name \in Names, filter \in Patterns : ValidName(name) /\ ValidFilter(filter)
    BY SubscriptionsAssumption
  <2> QED BY <2>1, MatchIs DEF MatchIsStandardButForPlus
<1> QED BY <1>1, PTL

(* The walk does what MQTT asks of it, but for those pairs.                *)
THEOREM DispatchHolds == Spec => []DispatchReachesEach
<1> DEFINE Reached == Dispatched => \A r \in dispatch.kept :
               dispatch.calls[r] = IF MatchTopic(dispatch.topic, r.filter) THEN 1 ELSE 0
<1>1. IInv /\ Reached => DispatchReachesEach
  <2> SUFFICES ASSUME IInv, Reached, Dispatched, NEW r \in dispatch.kept
               PROVE  dispatch.calls[r] = IF /\ StandardMatch(dispatch.topic, r.filter)
                                             /\ ~LostByPlus(dispatch.topic, r.filter) THEN 1 ELSE 0
    BY DEF DispatchReachesEach
  <2>1. ValidFilter(r.filter)
    <3>1. r.filter \in Filters
      BY FreeApart DEF IInv, WalkOK, DispatchValues
    <3> QED BY <3>1, SubscriptionsAssumption
  <2>2. ValidName(dispatch.topic)
    <3>1. dispatch.topic \in Topics
      BY FreeApart DEF IInv, WalkOK, Dispatched
    <3> QED BY <3>1, SubscriptionsAssumption
  <2>3. MatchTopic(dispatch.topic, r.filter) <=>
          StandardMatch(dispatch.topic, r.filter) /\ ~LostByPlus(dispatch.topic, r.filter)
    BY <2>1, <2>2, MatchIs
  <2> QED BY <2>3
<1> QED BY <1>1, Invariance, WalkReachesEach, PTL

(* A SUBACK delists exactly the registrations of the filters the broker    *)
(* refused in the request it answers.                                      *)
THEOREM SubAckHolds == Spec => SubAckDelistsTheRefused
<1> DEFINE answered == Head(requests)
           refused == {answered.asked[i] : i \in Refused(answered.codes)}
           Delists == linked /\ linked' /\ Len(requests') < Len(requests) =>
                        Listed' = {r \in Listed : r.filter \notin refused}
<1>1. IInv /\ [Next]_vars => [Delists]_vars
  <2> SUFFICES ASSUME IInv, Next, linked, Len(requests') < Len(requests)
               PROVE  Listed' = {r \in Listed : r.filter \notin refused}
    OBVIOUS
  <2>1. SubAckArrives
    <3>1. Len(requests) \in Nat /\ requests \in Seq(RequestValues)
      BY RequestTypes DEF IInv, RequestsOK
    <3>2. requests' # requests
      BY <3>1
    <3>3. SendSubscribe \/ BrokerAnswers \/ SubAckArrives
      BY <3>2 DEF Next, Subscribed, Unsubscribed, CallbackAdds, CallbackRemoves, PublishArrives,
                  CallPlace, PassPlace, CallbackReturns, PublishHandled, LinkFails, Reconnect,
                  SubscribeFails, renewalVars
    <3>4. ~SendSubscribe
      <4> SUFFICES ASSUME SendSubscribe PROVE FALSE
        OBVIOUS
      <4>1. Len(requests') = Len(requests) + 1
        BY SendLengthens DEF IInv
      <4> QED BY <3>1, <4>1
    <3>5. ~BrokerAnswers
      BY <3>1, AnswerSameLength DEF IInv
    <3> QED BY <3>3, <3>4, <3>5
  <2>2. /\ ListOK(list') /\ ListOK(list)
        /\ \A p \in Places : list'[p] = IF list[p].filter \in refused THEN Free ELSE list[p]
    <3>1. refused = {subArgs[i] : i \in Refused(requests[1].codes)}
      BY <2>1, SubAckRemoves
    <3> HIDE DEF refused
    <3> QED BY <2>1, <3>1, SubAckRemoves DEF IInv
  <2> HIDE DEF refused
  <2>3. \A r : r \in Listed' <=> r \in Listed /\ r.filter \notin refused
    BY <2>2, ListedAre DEF Listed
  <2> QED BY <2>3
<1> QED BY <1>1, Invariance, PTL DEF Spec, SubAckDelistsTheRefused
=============================================================================
