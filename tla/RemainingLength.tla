--------------------------- MODULE RemainingLength ---------------------------
(***************************************************************************)
(* The remaining length of an MQTT packet, as core_mqtt_serializer.c       *)
(* writes it in front of a packet and finds it in a buffer that may hold   *)
(* only part of it, and the size of a PUBLISH packet computed from it.     *)
(***************************************************************************)
EXTENDS Naturals, Sequences

CONSTANTS
  Lengths,          \* the lengths written,
  Codings,          \* the bytes read as a length,
  TopicLengths,     \* and the lengths of topics
  PayloadLengths    \* and payloads of publishes that a coding is looked at for

MaxRemainingLength == 268435455     \* MQTT_MAX_REMAINING_LENGTH
MaxTopicLength == 65535             \* topicNameLength is a uint16_t

ASSUME LengthsAssumption ==
  /\ Lengths \subseteq 0 .. MaxRemainingLength
  /\ Codings \subseteq Seq(0 .. 255)
  /\ TopicLengths \subseteq 0 .. MaxTopicLength
  /\ PayloadLengths \subseteq Nat

SizeOffByOne(length) ==                                           \* mutant
  CASE length <= 128 -> 1
    [] length > 128 /\ length < 16384 -> 2
    [] length >= 16384 /\ length < 2097152 -> 3
    [] OTHER -> 4

\* remainingLengthEncodedSize
EncodedSize(length) ==
  CASE length < 128 -> 1
    [] length >= 128 /\ length < 16384 -> 2
    [] length >= 16384 /\ length < 2097152 -> 3
    [] OTHER -> 4

\* encodeRemainingLength: seven bits a byte, the lowest first; the high bit
\* says that more follow.
Encode[length \in 0 .. MaxRemainingLength] ==
  IF length < 128 THEN <<length>>
  ELSE <<128 + (length % 128)>> \o Encode[length \div 128]

NeedMoreBytes == [status |-> "NeedMoreBytes"]
BadResponse == [status |-> "BadResponse"]
Found(length, bytes) ==
  [status |-> "Success", remainingLength |-> length, headerLength |-> bytes + 1]

Multiplier == <<1, 128, 16384, 2097152>>

(* processRemainingLength on the bytes there are behind the packet type.   *)
ProcessRemainingLength(bytes) ==
  LET Decode[decoded \in 0 .. 4] == [sum \in Nat |->
        IF decoded = 4 THEN BadResponse
        ELSE IF decoded = Len(bytes) THEN NeedMoreBytes
        ELSE LET byte == bytes[decoded + 1]
                 length == sum + (byte % 128) * Multiplier[decoded + 1]
             IN IF byte >= 128 THEN Decode[decoded + 1][length]
                ELSE IF EncodedSize(length) = decoded + 1
                     THEN Found(length, decoded + 1) ELSE BadResponse]
  IN Decode[0][0]

PublishHeaderSize(topic, qos) == topic + 2 + IF qos > 0 THEN 2 ELSE 0

(* calculatePublishPacketSize, from the lengths of topic and payload.  The *)
(* limit counts the fixed header too, which the remaining length does not. *)
PublishPacketSize(topic, qos, payload) ==
  LET fixed == PublishHeaderSize(topic, qos)
      length == fixed + payload
      limit == MaxRemainingLength - fixed - 1
  IN IF payload <= limit /\ payload <= limit - EncodedSize(length)
     THEN [ok |-> TRUE, remainingLength |-> length,
           size |-> length + 1 + EncodedSize(length)]
     ELSE [ok |-> FALSE, remainingLength |-> 0, size |-> 0]
-----------------------------------------------------------------------------
StartsWith(bytes, n) == \E k \in DOMAIN bytes : SubSeq(bytes, 1, k) = Encode[n]

(* A publish that is accepted gets a length the receiver reads back, and   *)
(* the size of its packet is the bytes that are sent; one is refused only  *)
(* for exceeding the largest length or missing it by less than a fixed     *)
(* header.                                                                 *)
PublishSizesFit ==
  \A topic \in TopicLengths, qos \in 0 .. 2, payload \in PayloadLengths :
    LET packet == PublishPacketSize(topic, qos, payload)
        sent == topic + payload + IF qos > 0 THEN 4 ELSE 2
    IN IF packet.ok
       THEN /\ ProcessRemainingLength(Encode[packet.remainingLength]).status = "Success"
            /\ packet.remainingLength = sent
            /\ packet.size = sent + 1 + Len(Encode[sent])
       ELSE sent > MaxRemainingLength - 5

(* What is written for a length is read as this length, and the reader     *)
(* waits for the rest of any shorter start of it.                          *)
WrittenIsRead ==
  \A n \in Lengths :
    /\ Len(Encode[n]) = EncodedSize(n)
    /\ ProcessRemainingLength(Encode[n]) = Found(n, Len(Encode[n]))
    /\ \A k \in 0 .. Len(Encode[n]) - 1 :
         ProcessRemainingLength(SubSeq(Encode[n], 1, k)) = NeedMoreBytes

(* Any other coding of a length is refused.                                *)
ReadIsWritten ==
  \A bytes \in Codings :
    LET read == ProcessRemainingLength(bytes) IN
    read.status = "Success" => StartsWith(bytes, read.remainingLength)
=============================================================================
