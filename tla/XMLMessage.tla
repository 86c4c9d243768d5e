------------------------------ MODULE XMLMessage ------------------------------
(***************************************************************************)
(* A message in XML: how it is written                                     *)
(* (src/src/message_generator/format/xml_message_format.cpp and            *)
(* xml_format.cpp) and how it is read                                      *)
(* (src/src/message_parser/xml_message_parser.cpp and xml_parser.cpp).     *)
(*                                                                         *)
(* Names of agents and parameters, addresses and the performative are      *)
(* attributes of elements; the other texts are their contents, from which  *)
(* TinyXML takes superfluous blanks; the content of the message is a CDATA *)
(* section and ends at its first NUL byte (that it holds no "]]>" is       *)
(* assumed).  The conversation id is written twice; the element overrides  *)
(* the attribute.                                                          *)
(***************************************************************************)
EXTENDS Encoding

CONSTANTS
  AsAttribute,     \* what is read back of a text in an attribute: a
                   \* reference like "&#x20;" is written as it is
  AsElement        \* what is read back of a text in an element: the same,
                   \* without blanks at its ends or after another blank;
                   \* UnreadableText when nothing is left

(***************************************************************************)
(* Writing                                                                 *)
(***************************************************************************)
GetUserdefinedParameters(params) ==
  [i \in DOMAIN params |->
     [element |-> "user-defined", href |-> params[i].name, text |-> params[i].value]]

GetAgentID(aid) ==
  LET element[d \in 0..Nesting] ==
        [a \in Nested(aid, Nesting - d) |->
           [a EXCEPT !.resolvers  = IF d > 0 THEN [i \in DOMAIN @ |-> element[d - 1][@[i]]]
                                             ELSE <<>>,
                     !.parameters = GetUserdefinedParameters(@)]]
  IN element[Nesting][aid]

GetAgentIDSequence(aids) == [i \in DOMAIN aids |-> GetAgentID(aids[i])]

(* XMLMessageFormat::getParameters                                         *)
XMLItems(m) ==
  LET text(f) == Item(m.texts[f] # EmptyText, f, m.texts[f])
  IN Item(m.receivers # <<>>, "receiver", GetAgentIDSequence(m.receivers))
     \o Item(IsValid(m.sender), "sender", GetAgentID(m.sender))
     \o Item(m.content # NoContent, "content", m.content)
     \o text("language") \o text("encoding") \o text("ontology")
     \o Item(m.protocol # EmptyText, "protocol", m.protocol)
     \o text("reply-with") \o text("in-reply-to")
     \o Item(m.replyBy # NoTime, "reply-by", DateDigits(m.replyBy))
     \o Item(m.replyTo # <<>>, "reply-to", GetAgentIDSequence(m.replyTo))
     \o text("conversation-id")
     \o [i \in DOMAIN m.parameters |->
           [code |-> "user-defined", data |-> GetUserdefinedParameters(m.parameters)[i]]]

(***************************************************************************)
(* Reading                                                                 *)
(***************************************************************************)
(* parseAgentID asks the setters of AgentID, which throw.                  *)
XMLAgentReadable(aid) ==
  \A depth \in 0..Nesting : \A a \in Nested(aid, depth) :
    \A text \in {a.name} \cup Range(a.addresses) : AsAttribute[text] \in Checked

ParseUserdefinedParameter(elem) ==
  [name |-> AsAttribute[elem.href], value |-> AsElement[elem.text]]

(* Resolvers are nested to any depth.  The user-defined parameters are     *)
(* looked for in elements whose name starts with "X-": those of agents are *)
(* lost.                                                                   *)
ParseLabelled(params, elem) ==
  IF elem.element = "X-" THEN Append(params, ParseUserdefinedParameter(elem)) ELSE params

ParseAgentID(aid) ==
  LET parsed[d \in 0..Nesting] ==
        [a \in Nested(aid, Nesting - d) |->
           [ name       |-> AsAttribute[a.name],
             addresses  |-> [i \in DOMAIN a.addresses |-> AsAttribute[a.addresses[i]]],
             resolvers  |-> IF d > 0 THEN [i \in DOMAIN a.resolvers |->
                                             parsed[d - 1][a.resolvers[i]]]
                                     ELSE <<>>,
             parameters |-> FoldLeft(ParseLabelled, <<>>, a.parameters) ]]
  IN parsed[Nesting][aid]

ParseAgentIDSequence(aids) == [i \in DOMAIN aids |-> ParseAgentID(aids[i])]

(* The content up to its first NUL byte.                                   *)
CData(content) ==
  IF content.nul = 0 THEN content ELSE [nul |-> 0, size |-> content.nul - 1]

StrToDate(digits) == TimeOf(digits)

(* parseParameter: what an exception of a setter leads to depends on       *)
(* whether it is caught.                                                   *)
ParseParameter(m, item) ==
  LET code == item.code
      data == item.data
  IN IF m \in {Unreadable, Escaped} THEN m ELSE
     CASE code = "receiver" ->
            IF \A a \in Range(data) : XMLAgentReadable(a)
            THEN AddReceivers(m, ParseAgentIDSequence(data))
            ELSE Unreadable
       [] code = "sender" ->
            IF XMLAgentReadable(data) THEN [m EXCEPT !.sender = ParseAgentID(data)]
            ELSE Unreadable
       [] code = "content" -> [m EXCEPT !.content = CData(data)]
       [] code = "protocol" ->
            IF AsElement[data] = UnreadableText THEN Unreadable
            ELSE IF AsElement[data] \in Checked THEN SetProtocol(m, AsElement[data])
            ELSE Escaped
       [] code = "reply-by" -> [m EXCEPT !.replyBy = StrToDate(data)]
       [] code = "reply-to" ->
            IF \A a \in Range(data) : XMLAgentReadable(a)
            THEN [m EXCEPT !.replyTo = ParseAgentIDSequence(data)]
            ELSE Unreadable
       [] code = "user-defined" ->
            IF AsElement[data.text] # UnreadableText
            THEN AddUserdefParam(m, ParseUserdefinedParameter(data))
            ELSE Unreadable
       [] OTHER ->
            IF AsElement[data] = UnreadableText THEN Unreadable
            ELSE [m EXCEPT !.texts[code] = AsElement[data]]

(* What the reader of a message that was written in XML gets.              *)
XMLTransferred(m) ==
  IF AsAttribute[m.performative] \in Checked
  THEN FoldLeft(ParseParameter,
         SetPerformative(NewMessage, AsAttribute[m.performative]), XMLItems(m))
  ELSE Unreadable

==============================================================================
