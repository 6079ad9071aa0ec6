--------------------------- MODULE PublishRecords ---------------------------
(***************************************************************************)
(* The arrays of publish records of core_mqtt_state.c and what its         *)
(* functions do to one: where a record is stored, when the array is        *)
(* compacted, which packet may follow which.  A function that returns a    *)
(* status and changes the array is an operator whose value has both.       *)
(***************************************************************************)
EXTENDS Positions

NoId == 0                      \* MQTT_PACKET_ID_INVALID

Acks == {"PUBACK", "PUBREC", "PUBREL", "PUBCOMP"}
Operations == {"SEND", "RECEIVE"}

\* The states of outgoing publishes, by what a resumed session sends again.
SendStatesWithoutPubRec == {"PublishSend", "PubAckPending"}       \* mutant
SendStates == {"PublishSend", "PubAckPending", "PubRecPending"}  \* the PUBLISH
RelStates  == {"PubRelSend", "PubCompPending"}                    \* the PUBREL
ReceiveStates == {"PubAckSend", "PubRecSend", "PubRelPending", "PubCompSend"}

NoRecord == [id |-> NoId, qos |-> 0, state |-> "Null"]
Record(i, qos, state) == [id |-> i, qos |-> qos, state |-> state]
RecordValues(ids) == {NoRecord} \cup
                       [id : ids, qos : {1, 2}, state : SendStates \cup RelStates \cup ReceiveStates]

-----------------------------------------------------------------------------
(* The array *)

Used(a) == {p \in DOMAIN a : a[p].id # NoId}

(* findInRecord, as the set of the positions that match.                   *)
PositionsOf(a, i) == {p \in DOMAIN a : a[p].id = i}

CompactWithoutClearing(a) ==                                   \* mutant
  LET kept == InOrder(Used(a))
  IN [p \in DOMAIN a |-> IF p \in DOMAIN kept THEN a[kept[p]] ELSE a[p]]

(* compactRecords: the records in use move to the front, in their order.   *)
Compact(a) ==
  LET kept == InOrder(Used(a))
  IN [p \in DOMAIN a |-> IF p \in DOMAIN kept THEN a[kept[p]] ELSE NoRecord]

AddRecordUncompacted(a, r) ==                                  \* mutant: never compacts
  LET place == IF Used(a) = {} THEN 1 ELSE LastOf(Used(a)) + 1
  IN IF PositionsOf(a, r.id) # {} THEN [status |-> "StateCollision", records |-> a]
     ELSE IF place \notin DOMAIN a THEN [status |-> "NoMemory", records |-> a]
     ELSE [status |-> "Success", records |-> [a EXCEPT ![place] = r]]

(* addRecord: the array is compacted when its last place is taken, and     *)
(* stays so when the record is then refused; a record is stored behind all *)
(* others.                                                                 *)
AddRecord(a, r) ==
  LET b == IF LastOf(DOMAIN a) \in Used(a) THEN Compact(a) ELSE a
      place == IF Used(b) = {} THEN 1 ELSE LastOf(Used(b)) + 1
  IN IF PositionsOf(b, r.id) # {} THEN [status |-> "StateCollision", records |-> b]
     ELSE IF place \notin DOMAIN b THEN [status |-> "NoMemory", records |-> b]
     ELSE [status |-> "Success", records |-> [b EXCEPT ![place] = r]]

-----------------------------------------------------------------------------
(* The states *)

(* MQTT_CalculateStatePublish, for QoS 1 and 2.                            *)
CalculateStatePublish(op, qos) ==
  CASE op = "SEND"    /\ qos = 1 -> "PubAckPending"
    [] op = "SEND"    /\ qos = 2 -> "PubRecPending"
    [] op = "RECEIVE" /\ qos = 1 -> "PubAckSend"
    [] op = "RECEIVE" /\ qos = 2 -> "PubRecSend"

(* MQTT_CalculateStateAck: an acknowledgment of the other QoS is Null.     *)
CalculateStateAck(ack, op, qos) ==
  CASE ack = "PUBACK"  /\ qos = 1 -> "PublishDone"
    [] ack = "PUBREC"  /\ qos = 2 -> IF op = "SEND" THEN "PubRelPending" ELSE "PubRelSend"
    [] ack = "PUBREL"  /\ qos = 2 -> IF op = "SEND" THEN "PubCompPending" ELSE "PubCompSend"
    [] ack = "PUBCOMP" /\ qos = 2 -> "PublishDone"
    [] OTHER                      -> "Null"

(* validateTransitionPublish for the send operation.                       *)
PublishTransitions(qos) ==
  {<<"PublishSend", CalculateStatePublish("SEND", qos)>>,
   <<"PubAckPending", "PubAckPending">>, <<"PubRecPending", "PubRecPending">>}

AckTransitionsOnce ==                                          \* mutant: nothing sent again
  {<<"PubAckSend", "PublishDone">>, <<"PubAckPending", "PublishDone">>,
   <<"PubRecSend", "PubRelPending">>, <<"PubRelPending", "PubCompSend">>,
   <<"PubCompSend", "PublishDone">>,
   <<"PubRecPending", "PubRelSend">>, <<"PubRelSend", "PubCompPending">>,
   <<"PubCompPending", "PublishDone">>}

(* validateTransitionAck.                                                  *)
AckTransitions ==
  {<<"PubAckSend", "PublishDone">>, <<"PubAckPending", "PublishDone">>,
   <<"PubRecSend", "PubRelPending">>,
   <<"PubRelPending", "PubCompSend">>, <<"PubRelPending", "PubRelPending">>,
   <<"PubCompSend", "PublishDone">>, <<"PubCompSend", "PubCompSend">>,
   <<"PubRecPending", "PubRelSend">>, <<"PubRelSend", "PubCompPending">>,
   <<"PubCompPending", "PublishDone">>, <<"PubCompPending", "PubCompPending">>}

(* isPublishOutgoing: whose acknowledgment this is.                        *)
IsPublishOutgoing(ack, op) == (ack = "PUBREL") <=> (op = "SEND")

-----------------------------------------------------------------------------
(* The functions of the library *)

UpdateStateSentAnyQos(a, i, qos) ==                            \* mutant: foundQoS not compared
  LET P == PositionsOf(a, i)
      p == FirstOf(P)
      new == CalculateStatePublish("SEND", qos)
  IN IF P = {} THEN [status |-> "BadParameter", records |-> a]
     ELSE IF <<a[p].state, new>> \notin PublishTransitions(qos)
       THEN [status |-> "IllegalState", records |-> a]
     ELSE [status |-> "Success", records |-> [a EXCEPT ![p].state = new]]

(* MQTT_UpdateStatePublish for a PUBLISH sent with QoS 1 or 2.             *)
UpdateStateSent(a, i, qos) ==
  LET P == PositionsOf(a, i)
      p == FirstOf(P)
      new == CalculateStatePublish("SEND", qos)
  IN IF P = {} \/ a[p].qos # qos THEN [status |-> "BadParameter", records |-> a]
     ELSE IF <<a[p].state, new>> \notin PublishTransitions(qos)
       THEN [status |-> "IllegalState", records |-> a]
     ELSE [status |-> "Success", records |-> [a EXCEPT ![p].state = new]]

UpdateStateAckInPlace(a, i, ack, op) ==                        \* mutant: PUBREC keeps the place
  LET P == PositionsOf(a, i)
      p == FirstOf(P)
      new == CalculateStateAck(ack, op, a[p].qos)
  IN IF P = {} THEN [status |-> "BadResponse", records |-> a]
     ELSE IF <<a[p].state, new>> \notin AckTransitions
       THEN [status |-> "IllegalState", records |-> a]
     ELSE IF new = "PublishDone"
       THEN [status |-> "Success", records |-> [a EXCEPT ![p] = NoRecord]]
     ELSE [status |-> "Success", records |-> [a EXCEPT ![p].state = new]]

(* MQTT_UpdateStateAck.  After a PUBREC the record is deleted and stored   *)
(* again behind the others, in the order in which PUBRELs are to be sent.  *)
UpdateStateAck(a, i, ack, op) ==
  LET P == PositionsOf(a, i)
      p == FirstOf(P)
      new == CalculateStateAck(ack, op, a[p].qos)
  IN IF P = {} THEN [status |-> "BadResponse", records |-> a]
     ELSE IF <<a[p].state, new>> \notin AckTransitions
       THEN [status |-> "IllegalState", records |-> a]
     ELSE IF new = "PublishDone"
       THEN [status |-> "Success", records |-> [a EXCEPT ![p] = NoRecord]]
     ELSE IF new = "PubRelSend"
       THEN AddRecord([a EXCEPT ![p] = NoRecord], Record(i, 2, "PubRelSend"))
     ELSE [status |-> "Success", records |-> [a EXCEPT ![p].state = new]]

(* MQTT_RemoveStateRecord.                                                 *)
RemoveStateRecord(a, i) ==
  LET P == PositionsOf(a, i)
  IN IF P = {} THEN [status |-> "BadParameter", records |-> a]
     ELSE [status |-> "Success", records |-> [a EXCEPT ![FirstOf(P)] = NoRecord]]
=============================================================================
