-------------------------- MODULE BitefficientMessage --------------------------
(***************************************************************************)
(* The bit-efficient encoding of a message: how it is written              *)
(* (src/src/message_generator/format/bitefficient_message_format.cpp) and  *)
(* how it is read (src/src/message_parser/bitefficient_message_parser.cpp, *)
(* grammar/grammar_bitefficient.h and grammar/grammar_common.h).           *)
(*                                                                         *)
(* The bytes are abstracted to the sequence of coded items they stand for, *)
(* in the order they are written.  A collection ends with the byte 0x01,   *)
(* which no item starts with, so a sequence stands for a collection.  An   *)
(* item that cannot be read makes the parse of the whole message fail.     *)
(***************************************************************************)
EXTENDS Encoding

CONSTANTS
  AsLiteral,       \* what is read back of a text that was written between
                   \* quotation marks: \" is read as ", any other quotation
                   \* mark ends the literal and makes it an UnreadableText
  ResolverDepth    \* mResolverDepth: how deep resolvers are written

ASSUME BitefficientAssumption == ResolverDepth \in Nat

(***************************************************************************)
(* Writing                                                                 *)
(***************************************************************************)
(* getBitAID: below depth 0 the resolvers are left out.                    *)
WrittenAgent(aid, depth) ==
  LET written[d \in 0..depth] ==
        [a \in Nested(aid, depth - d) |->
           [a EXCEPT !.resolvers =
              IF d > 0 THEN [i \in DOMAIN @ |-> written[d - 1][@[i]]] ELSE <<>>]]
  IN written[depth][aid]

(* Two slips: the last agent is not written; the resolvers are written for *)
(* the first agent only.                                                   *)
WrittenButLast(aids) ==
  [i \in 1..(Len(aids) - 1) |-> WrittenAgent(aids[i], ResolverDepth)]
WrittenWithOneDepth(aids) ==
  [i \in DOMAIN aids |-> WrittenAgent(aids[i], IF i = 1 THEN ResolverDepth ELSE 0)]

(* getBitAIDColl                                                           *)
WrittenAgents(aids) ==
  [i \in DOMAIN aids |-> WrittenAgent(aids[i], ResolverDepth)]

(* A slip: 256 bytes under an eight-bit length.                            *)
ContentItemOffByOne(content) ==
  [ body   |-> content,
    length |-> IF content.nul > 0 /\ content.size <= 256 THEN content.size % 256
               ELSE content.size ]

(* The content with the length that is written in front of it: a content   *)
(* with a NUL byte (the first at position nul) under the first of 0x16,    *)
(* 0x17 and 0x19 whose length field (8, 16, 32 bits; contents are shorter  *)
(* than 2^32) is wide enough, any other one up to its terminating NUL.     *)
ContentItem(content) ==
  [ body   |-> content,
    length |-> IF content.nul = 0          THEN content.size
               ELSE IF content.size <= 255   THEN content.size % 256
               ELSE IF content.size <= 65535 THEN content.size % 65536
               ELSE content.size ]

(* getCodedNaturalNumber: two digits in a byte, each in four bits, as its  *)
(* value and one.                                                          *)
CodedNaturalNumber(digits) ==
  [i \in 1..(Len(digits) \div 2) |->
     16 * (digits[2 * i - 1] + 1) + digits[2 * i] + 1]

(* The milliseconds are extended to four digits.                           *)
BinDate(time) ==
  LET digits == DateDigits(time)
  IN CodedNaturalNumber(SubSeq(digits, 1, 14) \o <<0>> \o SubSeq(digits, 15, 17))

(* The order in which the fields are written and their codes.              *)
WrittenItems(m) ==
  LET text(f, code) == Item(m.texts[f] # EmptyText, code, m.texts[f])
  IN Item(m.sender.name # EmptyText, 2, WrittenAgent(m.sender, ResolverDepth))
     \o Item(m.receivers # <<>>, 3, WrittenAgents(m.receivers))
     \o text("reply-with", 5)
     \o Item(m.replyBy # NoTime, 6, BinDate(m.replyBy))
     \o text("in-reply-to", 7)
     \o Item(m.replyTo # <<>>, 8, WrittenAgents(m.replyTo))
     \o text("language", 9)
     \o text("encoding", 10)
     \o text("ontology", 11)
     \o Item(m.protocol # EmptyText, 12, m.protocol)
     \o text("conversation-id", 13)
     \o [i \in DOMAIN m.parameters |-> [code |-> 0, data |-> m.parameters[i]]]
     \o Item(m.content # NoContent, 4, ContentItem(m.content))

(* getBitMessageType: the number of a predefined performative, or 0 and    *)
(* the performative as a word.                                             *)
WrittenType(performative) ==
  IF performative \in Range(PerformativeTxt)
  THEN [code |-> CHOOSE i \in DOMAIN PerformativeTxt :
                   PerformativeTxt[i] = performative]
  ELSE [code |-> 0, data |-> performative]

Written(m) ==
  IF m.performative = EmptyText THEN NotWritten
  ELSE [type |-> WrittenType(m.performative), items |-> WrittenItems(m)]

(***************************************************************************)
(* Reading                                                                 *)
(***************************************************************************)
(* The grammar's own table of performatives, and its names for the items.  *)
predefinedMessageType ==
  << "accept-proposal", "agree", "cancel", "cfp", "confirm", "disconfirm",
     "failure", "inform", "inform-if", "inform-ref", "not-understood",
     "propagate", "propose", "proxy", "query-if", "query-ref", "refuse",
     "reject-proposal", "request", "request-when", "request-whenever",
     "subscribe" >>

ItemName(item) ==
  CASE item.code = 0  -> item.data.name
    [] item.code = 2  -> "sender"
    [] item.code = 3  -> "receiver"
    [] item.code = 4  -> "content"
    [] item.code = 5  -> "reply-with"
    [] item.code = 6  -> "reply-by"
    [] item.code = 7  -> "in-reply-to"
    [] item.code = 8  -> "reply-to"
    [] item.code = 9  -> "language"
    [] item.code = 10 -> "encoding"
    [] item.code = 11 -> "ontology"
    [] item.code = 12 -> "protocol"
    [] item.code = 13 -> "conversation-id"

WordReadable(text) == text \in Word

LiteralReadable(text) == AsLiteral[text] # UnreadableText

(* As many bytes are taken as the length announces.                        *)
ContentReadable(content) == content.length = content.body.size

(* DateTime: nine coded numbers, none of them 0x00.                        *)
DateReadable(bytes) == Len(bytes) = 9 /\ 0 \notin Range(bytes)

(* convertToNumberToken, convertToTime, DateTime::toTime.                  *)
NumberToken(byte) == <<(byte \div 16) - 1, (byte % 16) - 1>>
ReadDate(bytes) ==
  LET digits == [i \in 1..(2 * Len(bytes)) |-> NumberToken(bytes[(i + 1) \div 2])[2 - (i % 2)]]
  IN TimeOf(SubSeq(digits, 1, 14) \o SubSeq(digits, 16, 18))

ParamReadable(param) ==
  WordReadable(param.name) /\ LiteralReadable(param.value)

(* Resolvers were written to ResolverDepth.                                *)
AgentReadable(aid) ==
  \A depth \in 0..ResolverDepth : \A a \in Nested(aid, depth) :
    /\ WordReadable(a.name)
    /\ \A address \in Range(a.addresses) : WordReadable(address)
    /\ \A p \in Range(a.parameters) : ParamReadable(p)

ItemReadable(item) ==
  CASE item.code = 0         -> ParamReadable(item.data)
    [] item.code = 2         -> AgentReadable(item.data)
    [] item.code \in {3, 8}  -> \A a \in Range(item.data) : AgentReadable(a)
    [] item.code = 4         -> ContentReadable(item.data)
    [] item.code = 6         -> DateReadable(item.data)
    [] item.code = 12        -> WordReadable(item.data)
    [] OTHER                 -> LiteralReadable(item.data)

TypeReadable(type) == type.code = 0 => WordReadable(type.data)

ReadParam(param) == [param EXCEPT !.value = AsLiteral[@]]

(* buildAgentID: the resolvers are entered one by one with addResolver.    *)
BuildAgentID(aid) ==
  LET built[d \in 0..ResolverDepth] ==
        [a \in Nested(aid, ResolverDepth - d) |->
           [a EXCEPT
              !.resolvers  = IF d > 0
                             THEN FoldLeft(AppendAgent, <<>>,
                                           [i \in DOMAIN @ |-> built[d - 1][@[i]]])
                             ELSE <<>>,
              !.parameters = [i \in DOMAIN @ |-> ReadParam(@[i])]]]
  IN built[ResolverDepth][aid]

BuildAgentIDs(aids) == [i \in DOMAIN aids |-> BuildAgentID(aids[i])]

(* buildPredefMessageParameters and, where it throws a runtime_error, the  *)
(* user-defined parameter that is made of the item instead.  The name      *)
(* decides, whether the item was predefined or user-defined: a value that  *)
(* has not the type of the name raises bad_get.                            *)
StoreText(m, name, value) ==
  CASE name \in TextField -> [m EXCEPT !.texts[name] = value]
    [] name = "protocol" /\ value \in Checked -> SetProtocol(m, value)
    [] OTHER -> AddUserdefParam(m, [name |-> name, value |-> value])

BuildParameter(m, item) ==
  LET name == ItemName(item) IN
  IF m = Escaped THEN Escaped ELSE
  CASE item.code = 0 ->
         IF name \in {"sender", "receiver", "content", "reply-by", "reply-to"}
         THEN Escaped
         ELSE StoreText(m, name, AsLiteral[item.data.value])
    [] item.code = 2 ->
         [m EXCEPT !.sender = BuildAgentID(item.data)]
    [] item.code = 3 ->
         AddReceivers(m, BuildAgentIDs(item.data))
    [] item.code = 4 ->
         [m EXCEPT !.content = item.data.body]
    [] item.code = 6 ->
         [m EXCEPT !.replyBy = ReadDate(item.data)]
    [] item.code = 8 ->
         AddReplyTos(m, BuildAgentIDs(item.data))
    [] item.code = 12 ->
         SetProtocol(m, item.data)
    [] OTHER ->
         StoreText(m, name, AsLiteral[item.data])

(* parseData into a new message.                                           *)
ParseData(wire) ==
  IF TypeReadable(wire.type) /\ \A i \in DOMAIN wire.items : ItemReadable(wire.items[i])
  THEN FoldLeft(BuildParameter,
         SetPerformative(NewMessage,
           IF wire.type.code = 0 THEN wire.type.data
           ELSE predefinedMessageType[wire.type.code]),
         wire.items)
  ELSE Unreadable

(* What the reader of an encoded message gets.                             *)
Transferred(m) ==
  LET wire == Written(m) IN
  IF wire = NotWritten THEN NotWritten ELSE ParseData(wire)

==============================================================================
