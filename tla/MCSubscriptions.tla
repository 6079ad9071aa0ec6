--------------------------- MODULE MCSubscriptions ---------------------------
(* Instance of Subscriptions for TLC. *)
EXTENDS Subscriptions

\* "a/+" and "#", whose matches overlap.
MCFilters == { <<"a", "/", "+">>, <<"#">> }
\* The first filter matches "a/b", the second one both.
MCTopics == { <<"a", "/", "b">>, <<"c">> }

\* Names and filters MQTT_MatchTopic is compared with the standard on.
Words(alphabet, n) == UNION {[1 .. k -> alphabet] : k \in 1 .. n}
MCNames == Words({"a", "/", "$"}, 4)
MCPatterns == {f \in Words({"a", "/", "+", "#"}, 5) : ValidFilter(f)}
=============================================================================
