------------------------------- MODULE Envelope -------------------------------
(***************************************************************************)
(* Letters: a payload, the base envelope its author made and the envelopes *)
(* the transport services laid over it                                     *)
(* (src/src/message_generator/acl_envelope.cpp and acl_envelope.h), and    *)
(* the two encodings they are sent in: bit-efficient                       *)
(* (src/src/message_generator/format/bitefficient_envelope_format.cpp,     *)
(* src/src/message_parser/grammar/grammar_bitefficient_envelope.h) and XML *)
(* (src/src/message_generator/format/xml_envelope_format.cpp,              *)
(* src/src/message_parser/xml_envelope_parser.cpp).                        *)
(*                                                                         *)
(* An envelope is the set of the fields that were set, mParameters, and a  *)
(* value for every field.  An agent stands for its name, a number for the  *)
(* text of a receipt's id or via, 0 for the empty text: they hold neither  *)
(* blanks nor character references and are read as they were written.      *)
(* The dates and the other optional parts of a received object are left    *)
(* out.                                                                    *)
(***************************************************************************)
EXTENDS Naturals, Sequences, SequencesExt, FiniteSets

CONSTANTS
  NoAgent,         \* the agent of a default-constructed AgentID
  Nobody,          \* the agent with the empty name
  NoPayload,       \* the empty payload
  NoValue,         \* what any other field of a new envelope holds
  HeaderLength,    \* the length of an encoded envelope, which its header
                   \* carries where the reader keeps the payload's length
  NotRead,         \* getACLMessage threw
  AsAttribute,     \* what is read back of a text in an attribute of an XML
                   \* element: character references are replaced
  AsElement,       \* what is read back of a text in an element: the same,
                   \* and blanks are condensed; UnreadableText if it is
                   \* empty or holds nothing but blanks
  UnreadableText

(* The text of an element that has one is not empty.                       *)
ASSUME TextAssumption ==
  /\ UnreadableText \notin DOMAIN AsElement \cup {""}
  /\ Range(AsElement) \subseteq (DOMAIN AsElement \ {""}) \cup {UnreadableText}

Representation == {"UNKNOWN", "BITEFFICIENT", "STRING_REP", "XML"}

Field == {"TO", "FROM", "COMMENTS", "ACL_REPRESENTATION", "PAYLOAD_LENGTH",
          "PAYLOAD_ENCODING", "DATE", "INTENDED_RECEIVERS", "RECEIVED_OBJECT",
          "TRANSPORT_BEHAVIOUR", "USERDEFINED_PARAMETERS"}

NoReceipt == [by |-> Nobody, id |-> 0, via |-> 0]

(* The receipt that stamp makes out.                                       *)
Receipt(agent, id) == [NoReceipt EXCEPT !.by = agent, !.id = id]

(***************************************************************************)
(* ACLBaseEnvelope                                                         *)
(***************************************************************************)
NewEnvelope ==
  [ set |-> {},
    val |-> [f \in Field |->
               CASE f \in {"TO", "INTENDED_RECEIVERS",
                           "USERDEFINED_PARAMETERS"} -> <<>>
                 [] f = "FROM"               -> NoAgent
                 [] f = "ACL_REPRESENTATION" -> "UNKNOWN"
                 [] f = "PAYLOAD_ENCODING"   -> "US-ASCII"
                 [] f = "RECEIVED_OBJECT"    -> NoReceipt
                 [] OTHER                    -> NoValue] ]

(* Every set... method notes that its field was set.                       *)
Set(env, field, value) ==
  [set |-> env.set \cup {field}, val |-> [env.val EXCEPT ![field] = value]]

(* addTo, removeTo and their like do not.  (A slip: the agent is entered   *)
(* again.)                                                                 *)
AddToAgain(env, agent) == [env EXCEPT !.val["TO"] = Append(@, agent)]

AddTo(env, agent) ==
  IF agent \in Range(env.val["TO"]) THEN env
  ELSE [env EXCEPT !.val["TO"] = Append(@, agent)]

RemoveTo(env, agent) ==
  [env EXCEPT !.val["TO"] = RemoveFirst(@, agent)]

(* Two slips: the fields set before win; the flags of the other envelope   *)
(* are not taken over.                                                     *)
MergeKeepingOld(env, other) ==
  [ set |-> env.set \cup other.set,
    val |-> [f \in Field |-> IF f \in other.set \ env.set THEN other.val[f]
                             ELSE env.val[f]] ]
MergeWithoutFlags(env, other) ==
  [ set |-> env.set,
    val |-> [f \in Field |-> IF f \in other.set THEN other.val[f] ELSE env.val[f]] ]

Merge(env, other) ==
  [ set |-> env.set \cup other.set,
    val |-> [f \in Field |-> IF f \in other.set THEN other.val[f] ELSE env.val[f]] ]

Flattened(letter) == FoldLeft(Merge, letter.base, letter.extra)

(***************************************************************************)
(* ACLEnvelope                                                             *)
(***************************************************************************)
NewLetter == [base |-> NewEnvelope, extra |-> <<>>, payload |-> NoPayload]

(* The payload is the message under the representation it was written in;  *)
(* its length is told by the payload it is the length of.                  *)
PayloadOf(message, representation) ==
  [message |-> message, representation |-> representation]

InsertedFields(message, representation, date) ==
  [ TO                 |-> message.receivers,
    INTENDED_RECEIVERS |-> message.receivers,
    FROM               |-> message.sender,
    ACL_REPRESENTATION |-> representation,
    PAYLOAD_LENGTH     |-> PayloadOf(message, representation),
    PAYLOAD_ENCODING   |-> message.encoding,
    DATE               |-> date ]

(* insert: the envelopes laid over the base stay as they are.              *)
Insert(letter, message, representation, date) ==
  LET fields == InsertedFields(message, representation, date) IN
  [ payload |-> PayloadOf(message, representation),
    extra   |-> letter.extra,
    base    |-> [ set |-> letter.base.set \cup DOMAIN fields,
                  val |-> [f \in Field |-> IF f \in DOMAIN fields THEN fields[f]
                                           ELSE letter.base.val[f]] ] ]

AddExtraEnvelope(letter, env) == [letter EXCEPT !.extra = Append(@, env)]

Stamp(letter, agent, id) ==
  AddExtraEnvelope(letter,
    Set(NewEnvelope, "RECEIVED_OBJECT", Receipt(agent, id)))

(* A slip: only the latest envelope is looked at.                          *)
HasStampLast(letter, agent) ==
  letter.extra # <<>> /\ Last(letter.extra).val["RECEIVED_OBJECT"].by = agent

(* The base envelope's own receipt is not looked at.                       *)
HasStamp(letter, agent) ==
  \E i \in DOMAIN letter.extra :
    /\ "RECEIVED_OBJECT" \in letter.extra[i].set
    /\ letter.extra[i].val["RECEIVED_OBJECT"].by = agent

CreateDedicatedEnvelope(letter, agent) ==
  AddExtraEnvelope(letter, Set(NewEnvelope, "INTENDED_RECEIVERS", <<agent>>))

(* getDeliveryPath, as the receipts whose "by" it returns.                 *)
DeliveryPath(letter) ==
  LET envelopes == <<letter.base>> \o letter.extra
      entry(env) == IF "RECEIVED_OBJECT" \in env.set
                    THEN <<env.val["RECEIVED_OBJECT"]>> ELSE <<>>
  IN FlattenSeq([i \in DOMAIN envelopes |-> entry(envelopes[i])])

(* getACLMessage: the payload is parsed under the latest representation;   *)
(* a payload written in another one cannot be read.                        *)
GetACLMessage(letter) ==
  LET representation == Flattened(letter).val["ACL_REPRESENTATION"] IN
  IF letter.payload # NoPayload /\ letter.payload.representation = representation
  THEN letter.payload.message ELSE NotRead

(***************************************************************************)
(* Bit-efficient: the extra envelopes oldest first, the base envelope, the *)
(* payload.  An envelope is a header and the parameters that are set; the  *)
(* date is a header's only, user-defined parameters are not written.       *)
(***************************************************************************)
WrittenFields == {"TO", "FROM", "ACL_REPRESENTATION", "COMMENTS",
                  "PAYLOAD_LENGTH", "PAYLOAD_ENCODING", "INTENDED_RECEIVERS",
                  "RECEIVED_OBJECT", "TRANSPORT_BEHAVIOUR"}

GetParameters(env) ==
  [f \in env.set \cap WrittenFields |-> env.val[f]]

Envelopes(letter) == {letter.base} \cup Range(letter.extra)

(* The header of a base envelope cannot be written without a               *)
(* representation.                                                         *)
Encodable(letter) ==
  \A env \in Envelopes(letter) :
    env = letter.base \/ "ACL_REPRESENTATION" \in env.set =>
      env.val["ACL_REPRESENTATION"] # "UNKNOWN"

EncodedExt(env) ==
  [receipt |-> env.val["RECEIVED_OBJECT"], parameters |-> GetParameters(env)]

EncodedBase(env) ==
  [ representation |-> env.val["ACL_REPRESENTATION"],
    date           |-> env.val["DATE"],
    parameters     |-> GetParameters(env) ]

(* The reader merges an envelope made of each parameter into one made of   *)
(* the header, which takes the length of the envelope for the payload's.   *)
(* No two parameters set the same field: they are merged at once here.     *)
MergeParameters(header, parameters) ==
  Merge(Set(header, "PAYLOAD_LENGTH", HeaderLength),
        [ set |-> DOMAIN parameters,
          val |-> [f \in Field |-> IF f \in DOMAIN parameters THEN parameters[f]
                                   ELSE NewEnvelope.val[f]] ])

(* Whether stamped or not, an extra envelope is read with a receipt.       *)
DecodedExt(ext) ==
  MergeParameters(Set(NewEnvelope, "RECEIVED_OBJECT", ext.receipt),
                  ext.parameters)

DecodedBase(base) ==
  MergeParameters(Set(Set(NewEnvelope, "ACL_REPRESENTATION", base.representation),
                      "DATE", base.date),
                  base.parameters)

(***************************************************************************)
(* XML: the base envelope and then the extra ones, oldest first, each with *)
(* the elements of the parameters that are set, and the payload after the  *)
(* envelope's end.                                                         *)
(***************************************************************************)
TextElement == {"COMMENTS", "PAYLOAD_ENCODING"}

(* Empty comments and an empty encoding are not written, nor is the        *)
(* transport behaviour.  (A slip: what is empty is written all the same.)  *)
XMLParametersEmptyToo(env) ==
  [f \in env.set \ {"TRANSPORT_BEHAVIOUR"} |-> env.val[f]]

XMLParameters(env) ==
  [f \in {g \in env.set \ {"TRANSPORT_BEHAVIOUR"} :
             g \in TextElement => env.val[g] # ""} |-> env.val[f]]

(* Comments, an encoding or the value of a user-defined parameter without  *)
(* a text make the reader throw, and with it deserialize.                  *)
XMLReadable(parameters) ==
  /\ \A f \in DOMAIN parameters \cap TextElement :
       AsElement[parameters[f]] # UnreadableText
  /\ "USERDEFINED_PARAMETERS" \in DOMAIN parameters =>
       \A p \in Range(parameters["USERDEFINED_PARAMETERS"]) :
         AsElement[p.value] # UnreadableText

(* The reader enters the element received-via as the id.  (A slip: and     *)
(* the element received-by is overlooked.)                                 *)
ReadReceiptWithoutBy(receipt) ==
  [NoReceipt EXCEPT !.id = IF receipt.via # 0 THEN receipt.via ELSE receipt.id]

ReadReceipt(receipt) ==
  [NoReceipt EXCEPT !.by = receipt.by,
                    !.id = IF receipt.via # 0 THEN receipt.via ELSE receipt.id]

ParseUserdefinedParameters(params) ==
  [i \in DOMAIN params |-> [name  |-> AsAttribute[params[i].name],
                            value |-> AsElement[params[i].value]]]

ParseElement(f, data) ==
  CASE f = "RECEIVED_OBJECT"        -> ReadReceipt(data)
    [] f \in TextElement            -> AsElement[data]
    [] f = "USERDEFINED_PARAMETERS" -> ParseUserdefinedParameters(data)
    [] OTHER                        -> data

(* Each element sets its field; the user-defined parameters are set even   *)
(* where there is none.                                                    *)
ParseParameters(parameters) ==
  [ set |-> DOMAIN parameters \cup {"USERDEFINED_PARAMETERS"},
    val |-> [f \in Field |->
               IF f \in DOMAIN parameters THEN ParseElement(f, parameters[f])
               ELSE NewEnvelope.val[f]] ]

(***************************************************************************)
(* SerializedLetter: its constructor writes a letter in a representation,  *)
(* deserialize reads it in the same one.                                   *)
(***************************************************************************)
(* A letter can be written in two of the representations; bit-efficiently  *)
(* only where every representation it names is known.                      *)
Sendable(letter, representation) ==
  \/ representation = "BITEFFICIENT" /\ Encodable(letter)
  \/ representation = "XML"

(* Otherwise deserialize throws.                                           *)
Deserializable(letter, representation) ==
  representation = "XML" =>
    \A env \in Envelopes(letter) : XMLReadable(XMLParameters(env))

SentEnvelope(env, representation) ==
  IF representation = "XML" THEN ParseParameters(XMLParameters(env))
  ELSE DecodedExt(EncodedExt(env))

SentBaseEnvelope(env, representation) ==
  IF representation = "XML" THEN ParseParameters(XMLParameters(env))
  ELSE DecodedBase(EncodedBase(env))

(* A slip: each envelope that is read is put in front of those read        *)
(* before.                                                                 *)
TransmittedReversed(letter, representation) ==
  [ extra   |-> Reverse([i \in DOMAIN letter.extra |->
                           SentEnvelope(letter.extra[i], representation)]),
    base    |-> SentBaseEnvelope(letter.base, representation),
    payload |-> letter.payload ]

Transmitted(letter, representation) ==
  [ extra   |-> [i \in DOMAIN letter.extra |->
                   SentEnvelope(letter.extra[i], representation)],
    base    |-> SentBaseEnvelope(letter.base, representation),
    payload |-> letter.payload ]

==============================================================================
