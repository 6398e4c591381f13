------------------------------ MODULE Messages ------------------------------
(***************************************************************************)
(* The message classes and how each is laid out in bytes: the members in   *)
(* the order to_bytes writes them, the tag (MessageType or MessageBodyType)*)
(* first, and the dispatch of from_bytes on that tag.                      *)
(***************************************************************************)
EXTENDS Serialization

CONSTANTS
  RSA_SIGNATURE_SIZE,   \* 256 in the code
  Record                \* RecordType, a type of Serialization

\* MessageType
OVERLAY == 0
PING == 1
AGGREGATION == 2
QUERY_REQUEST == 3
SIGNATURE_REQUEST == 4
SIGNATURE_RESPONSE == 5

\* MessageBodyType; OVERLAY is the first of these, too
PATH_OVERLAY == 1
AGREEMENT_VALUE == 2
SIGNED_VALUE == 3
VALUE_CONTRIBUTION == 4
AGGREGATION_VALUE == 5
BYTES == 6

Message == Object("Message")
MessageBody == Object("MessageBody")
SignatureArray == Array(RSA_SIGNATURE_SIZE)

-----------------------------------------------------------------------------
(* The bodies.  The class of a SignedValue or AgreementValue writes the     *)
(* object it wraps first and replaces that object's tag by its own.         *)

\* query_num, destination, is_encrypted, flood, remaining_body with the body
overlay_common == <<Int32, Int32, Bool, Bool, Pointer(MessageBody)>>
OverlayMessage == <<Tag>> \o overlay_common
PathOverlayMessage == <<Tag, List(Int32)>> \o overlay_common

\* query_num, value, proxies
ValueTuple == Tuple(<<Int32, Record, Vector(Int32)>>)
ValueContribution == <<Tag, ValueTuple, SignatureArray>>

\* The map of signatures has its own to_bytes.  It writes sig_map.size(), a
\* size_t; its bytes_size and from_bytes_map take the count to be an int.
SignatureMap == Map(Int32, SignatureArray, SizeT)

SignedValue == ValueContribution \o <<SignatureMap>>
AgreementValue == SignedValue \o <<Int32, SignatureArray>>
AggregationMessageValue == <<Tag, Record>>
ByteBody == <<Tag, Vector(Byte)>>

-----------------------------------------------------------------------------
(* The messages.  All but PingMessage and QueryRequest end with what        *)
(* Message writes, sender_id and body.                                      *)

\* An OverlayTransportMessage carries an OverlayMessage or PathOverlayMessage
\* and nothing else; AggregationMessage, SignatureRequest and
\* SignatureResponse read the one class of body they carry, whatever its tag.
OverlayTransportMessage == <<Tag, Int32, Bool, Int32, Object("OverlayMessage")>>
PingMessage == <<Tag, Int32, Bool>>
AggregationMessage == <<Tag, Int32, Int32, Int32, Tuple(AggregationMessageValue)>>

\* The three opcodes are unsigned; here they stay below 2^31.  The sender is
\* always UTILITY_NODE_ID: the reader has no argument for it.
QueryRequest == <<Tag, Int32, Int32, Int32, Int32, Int32,
                  Vector(Byte), Vector(Byte), Vector(Byte)>>
SignatureRequest == <<Tag, Int32, Tuple(ByteBody)>>
SignatureResponse == <<Tag, Int32, Tuple(ByteBody)>>

-----------------------------------------------------------------------------
in_pieces(members) == [members |-> members, whole |-> FALSE]
in_one_piece(members) == [members |-> members, whole |-> TRUE]

\* The classes from_bytes chooses from, by their tags.
message_class ==
  OVERLAY              :> in_pieces(OverlayTransportMessage)
  @@ PING               :> in_pieces(PingMessage)
  @@ AGGREGATION        :> in_pieces(AggregationMessage)
  @@ QUERY_REQUEST      :> in_pieces(QueryRequest)
  @@ SIGNATURE_REQUEST  :> in_pieces(SignatureRequest)
  @@ SIGNATURE_RESPONSE :> in_pieces(SignatureResponse)

overlay_class ==
  OVERLAY         :> in_one_piece(OverlayMessage)
  @@ PATH_OVERLAY :> in_one_piece(PathOverlayMessage)

body_class ==
  overlay_class
  @@ AGREEMENT_VALUE    :> in_one_piece(AgreementValue)
  @@ SIGNED_VALUE       :> in_one_piece(SignedValue)
  @@ VALUE_CONTRIBUTION :> in_pieces(ValueContribution)
  @@ AGGREGATION_VALUE  :> in_pieces(AggregationMessageValue)
  @@ BYTES              :> in_pieces(ByteBody)

classes ==
  [Message |-> message_class, MessageBody |-> body_class, OverlayMessage |-> overlay_class]

ASSUME ClassAssumption == class = classes
=============================================================================
