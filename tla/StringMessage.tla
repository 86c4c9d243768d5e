---------------------------- MODULE StringMessage ----------------------------
(***************************************************************************)
(* A message as text: how it is written                                    *)
(* (src/src/message_generator/format/string_message_format.cpp and         *)
(* string_format.cpp) and how the text is read                             *)
(* (src/src/message_parser/grammar/grammar_string_message.h).              *)
(*                                                                         *)
(* Expressions and the content are written under their length, so that     *)
(* every text survives.  Words are not delimited: a word ends at a blank,  *)
(* a parenthesis or one of the keywords.  An address with a blank and a    *)
(* protocol with the keyword of a word in it, which are cut in two, are    *)
(* taken for unreadable.                                                   *)
(***************************************************************************)
EXTENDS Encoding

CONSTANTS
  PlainWord,       \* the words without a keyword (":sender", ...) in them
  EndsWord,        \* the texts with a character that ends a word
  Garbled          \* a name with an unlabelled parameter behind it

ASSUME StringAssumption ==
  /\ PlainWord \subseteq Word \ EndsWord
  /\ Garbled \in PlainWord

(***************************************************************************)
(* Writing: StringMessageFormat::apply.                                    *)
(***************************************************************************)
StringItems(m) ==
  LET text(f) == Item(m.texts[f] # EmptyText, f, m.texts[f])
  IN Item(IsValid(m.sender), "sender", m.sender)
     \o Item(m.receivers # <<>>, "receiver", m.receivers)
     \o Item(m.content # NoContent, "content", m.content)
     \o text("reply-with")
     \o Item(m.replyBy # NoTime, "reply-by", DateDigits(m.replyBy))
     \o text("in-reply-to")
     \o Item(m.replyTo # <<>>, "reply-to", m.replyTo)
     \o text("language") \o text("encoding") \o text("ontology")
     \o Item(m.protocol # EmptyText, "protocol", m.protocol)
     \o text("conversation-id")
     \o [i \in DOMAIN m.parameters |-> [code |-> "X-", data |-> m.parameters[i]]]

(***************************************************************************)
(* Reading                                                                 *)
(***************************************************************************)
WordWithoutKeyword(text) == text \in PlainWord

(* An empty address leaves nothing between its blanks.                     *)
UrlSequenceReadable(urls) ==
  \A u \in Range(urls) : u = EmptyText \/ WordWithoutKeyword(u)
ReadUrl(urls, u) == IF u = EmptyText THEN urls ELSE Append(urls, u)
ReadUrlSequence(urls) == FoldLeft(ReadUrl, <<>>, urls)

(* The parameters of an agent are written without the label that the       *)
(* grammar asks for.  Behind addresses or resolvers they stop the parse;   *)
(* behind a bare name they are read as the rest of the name.               *)
ParametersPass(aid) ==
  aid.parameters # <<>> =>
    /\ aid.addresses = <<>> /\ aid.resolvers = <<>>
    /\ \A p \in Range(aid.parameters) : {p.name, p.value} \cap EndsWord = {}

NameAndAddressesReadable(aid) ==
  /\ WordWithoutKeyword(aid.name)
  /\ UrlSequenceReadable(aid.addresses)
  /\ ParametersPass(aid)

(* "Leaving out additional resolvers !!! to break recursion"               *)
ResolverReadable(aid) == NameAndAddressesReadable(aid) /\ aid.resolvers = <<>>

AgentIdentifierReadable(aid) ==
  /\ NameAndAddressesReadable(aid)
  /\ \A r \in Range(aid.resolvers) : ResolverReadable(r)

ReadResolver(aid) ==
  [ name       |-> IF aid.parameters = <<>> THEN aid.name ELSE Garbled,
    addresses  |-> ReadUrlSequence(aid.addresses),
    resolvers  |-> <<>>,
    parameters |-> <<>> ]

(* A slip: the resolvers are dropped.                                      *)
ReadWithoutResolvers(aid) == ReadResolver(aid)

ReadAgentIdentifier(aid) ==
  [ReadResolver(aid) EXCEPT
     !.resolvers = [i \in DOMAIN aid.resolvers |-> ReadResolver(aid.resolvers[i])]]

ReadAgentIdentifierSet(aids) ==
  [i \in DOMAIN aids |-> ReadAgentIdentifier(aids[i])]

(* DateTimeToken: every date that is written is one.                       *)
ReadDateTime(digits) == TimeOf(digits)

(* The value of a parameter is written under its length, its name is not.  *)
UserdefinedParameterReadable(param) == WordWithoutKeyword(param.name)

(* The protocol is a word that a user-defined parameter behind it would    *)
(* continue.                                                               *)
StringItemReadable(items, i) ==
  LET code == items[i].code
      data == items[i].data
  IN CASE code = "sender"                 -> AgentIdentifierReadable(data)
       [] code \in {"receiver", "reply-to"} ->
            \A a \in Range(data) : AgentIdentifierReadable(a)
       [] code = "protocol"               ->
            /\ WordWithoutKeyword(data)
            /\ i < Len(items) => items[i + 1].code # "X-"
       [] code = "X-"                     -> UserdefinedParameterReadable(data)
       [] OTHER                           -> TRUE

(* The lists are set as a whole, in the order in which they were written.  *)
StoreStringItem(m, item) ==
  CASE item.code = "sender"   -> [m EXCEPT !.sender = ReadAgentIdentifier(item.data)]
    [] item.code = "receiver" -> [m EXCEPT !.receivers = ReadAgentIdentifierSet(item.data)]
    [] item.code = "reply-to" -> [m EXCEPT !.replyTo = ReadAgentIdentifierSet(item.data)]
    [] item.code = "content"  -> [m EXCEPT !.content = item.data]
    [] item.code = "reply-by" -> [m EXCEPT !.replyBy = ReadDateTime(item.data)]
    [] item.code = "protocol" -> SetProtocol(m, item.data)
    [] item.code = "X-"       -> AddUserdefParam(m, item.data)
    [] OTHER                  -> [m EXCEPT !.texts[item.code] = item.data]

(* Only the predefined performatives are read.                             *)
MessageTypeReadable(performative) == performative \in Range(PerformativeTxt)

(* What the reader of a message that was written as text gets.             *)
StringTransferred(m) ==
  LET items == StringItems(m) IN
  IF /\ MessageTypeReadable(m.performative)
     /\ \A i \in DOMAIN items : StringItemReadable(items, i)
  THEN FoldLeft(StoreStringItem, SetPerformative(NewMessage, m.performative), items)
  ELSE Unreadable

==============================================================================
