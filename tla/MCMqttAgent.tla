---------------------------- MODULE MCMqttAgent ----------------------------
(* MqttAgent instantiated for TLC. *)
EXTENDS MqttAgent

QosOps == {"PUBLISH_QOS1", "PUBLISH_QOS2"}
AckOps == {"PUBLISH_QOS2", "SUBSCRIBE"}

(* One type for each action that executes a command; of the publishes with *)
(* an acknowledgment only one, for QoS 2 has more steps but no other ends. *)
MixedOps == {"PUBLISH_QOS0", "PUBLISH_QOS1", "SUBSCRIBE", "PROCESSLOOP", "DISCONNECT", "TERMINATE"}
=============================================================================
