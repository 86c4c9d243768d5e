---------------------------- MODULE MessageExchange ----------------------------
(***************************************************************************)
(* A message that is composed with the setters of ACLMessage, written by   *)
(* MessageGenerator::create in one of three representations, read by       *)
(* MessageParser::parseData and passed on by its reader, who may edit it   *)
(* first and may choose another representation.                            *)
(***************************************************************************)
EXTENDS BitefficientMessage, StringMessage, XMLMessage

CONSTANTS
  Agents,          \* the identifiers given to the setters
  AgentLists,      \* the lists given to setAllReceivers and setAllReplyTo
  Texts,           \* the texts given to the text setters
  Words,           \* the texts given to setPerformative and setProtocol
  Params,          \* the user-defined parameters given to addUserdefParam
  ParamLists,      \* the lists given to setUserdefParams
  Times,           \* the times given to setReplyBy
  Contents,        \* the contents given to setContent
  NotSent,         \* no reader has read the message yet
  MaxEdits,        \* setter calls in a behaviour
  MaxHops          \* transmissions of a message between two edits

ASSUME ExchangeAssumption == MaxEdits \in Nat /\ MaxHops \in Nat

(* A parameter of an agent is a record.                                    *)
IsRecord(p) == p = [f \in DOMAIN p |-> p[f]]

(* The fields that are checked when they are set hold checked texts, in    *)
(* an identifier and in its resolvers, which nest Nesting deep at most.    *)
AgentOK(a) ==
  \A depth \in 0..Nesting : \A b \in Nested(a, depth) :
    /\ DOMAIN b = DOMAIN UndefinedAgent
    /\ b.name \in Checked /\ b.addresses \in Seq(Checked)
    /\ b.parameters \in Seq(Range(b.parameters))
    /\ \A p \in Range(b.parameters) : IsRecord(p)
    /\ b.resolvers \in Seq(Range(b.resolvers))
    /\ depth = Nesting => b.resolvers = <<>>

(* A time is told to the millisecond; a content has a size and perhaps a   *)
(* first NUL byte; a parameter of a message is a pair of texts.            *)
Time == {NoTime} \cup [digits : [1..17 -> 0..9], rest : Nat]
Content == {NoContent} \cup [nul : Nat, size : Nat]
IsParam(p) == p = [name |-> p.name, value |-> p.value]

(* Identifiers are what the setters of AgentID make, and lists are lists.  *)
ASSUME GivenAssumption ==
  /\ \A a \in Agents : AgentOK(a)
  /\ \A list \in AgentLists :
       list \in Seq(Range(list)) /\ \A a \in Range(list) : AgentOK(a)
  /\ \A p \in Params : IsParam(p)
  /\ \A ps \in ParamLists :
       ps \in Seq(Range(ps)) /\ \A p \in Range(ps) : IsParam(p)
  /\ Times \subseteq Time /\ Contents \subseteq Content

(* Nothing sets msResolverComparisonDepth or, in a generator, the depth to *)
(* which the formats write resolvers: both are 1, and the theorems need no *)
(* more of the second.                                                     *)
ASSUME DepthAssumption == ComparisonDepth = 1 /\ ResolverDepth >= 1

VARIABLES
  msg,             \* the message object of the agent that holds it
  origin,          \* the message as it was when its last editor sent it
  received,        \* what its reader got: a message, NotSent, NotWritten,
                   \* Unreadable or Escaped
  edits,           \* setter calls so far
  route            \* the representations it was sent in since the last of them

vars == <<msg, origin, received, edits, route>>

Representation == {"BITEFFICIENT", "STRING_REP", "XML"}

(* MessageGenerator::create and MessageParser::parseData.                  *)
TransferredAs(m, representation) ==
  CASE representation = "BITEFFICIENT" -> Transferred(m)
    [] representation = "STRING_REP"   -> StringTransferred(m)
    [] representation = "XML"          -> XMLTransferred(m)

NoMessage == {NotSent, NotWritten, Unreadable, Escaped}

(* They are neither messages nor encoded ones.                             *)
ASSUME OutcomeAssumption ==
  \A o \in NoMessage : {"performative", "type"} \cap DOMAIN o = {}

(* And so it is in the message that is composed and in the one read.       *)
MessageOK(m) ==
  /\ DOMAIN m = DOMAIN NewMessage
  /\ {m.performative, m.protocol} \subseteq Checked
  /\ m.texts = [f \in TextField |-> m.texts[f]]
  /\ \A list \in {m.receivers, m.replyTo, m.parameters} : list \in Seq(Range(list))
  /\ \A a \in {m.sender} \cup Range(m.receivers) \cup Range(m.replyTo) : AgentOK(a)
  /\ \A p \in Range(m.parameters) : IsParam(p)
  /\ m.replyBy \in Time /\ m.content \in Content

TypeOK ==
  /\ MessageOK(msg)
  /\ origin = NotSent \/ MessageOK(origin)
  /\ received \in NoMessage \/ MessageOK(received)
  /\ edits \in 0..MaxEdits
  /\ route \in Seq(Representation) /\ Len(route) <= MaxHops

Init ==
  /\ msg = NewMessage
  /\ origin = NotSent
  /\ received = NotSent
  /\ edits = 0
  /\ route = <<>>

(* One call of a setter by the agent that holds the message: what is sent  *)
(* from now on is its own.                                                 *)
Edited(m) ==
  /\ received = NotSent
  /\ edits < MaxEdits
  /\ edits' = edits + 1
  /\ msg' = m
  /\ origin' = NotSent
  /\ route' = <<>>
  /\ UNCHANGED received

EditPerformative == \E p \in Words : Edited(SetPerformative(msg, p))
EditProtocol     == \E p \in Words : Edited(SetProtocol(msg, p))
EditText         == \E f \in TextField, t \in Texts : Edited([msg EXCEPT !.texts[f] = t])
EditSender       == \E a \in Agents : Edited([msg EXCEPT !.sender = a])
EditReplyBy      == \E t \in Times : Edited([msg EXCEPT !.replyBy = t])
EditContent      == \E c \in Contents : Edited([msg EXCEPT !.content = c])

EditReceivers ==
  \/ \E a \in Agents : Edited(AddReceiver(msg, a))
  \/ \E a \in Agents : msg.receivers # <<>> /\ Edited(DeleteReceiver(msg, a))
  \/ \E list \in AgentLists : Edited([msg EXCEPT !.receivers = list])

EditReplyTo ==
  \/ \E a \in Agents : Edited(AddReplyTo(msg, a))
  \/ \E a \in Agents : msg.replyTo # <<>> /\ Edited(DeleteReplyTo(msg, a))
  \/ \E list \in AgentLists : Edited([msg EXCEPT !.replyTo = list])

EditParameters ==
  \/ \E p \in Params : Edited(AddUserdefParam(msg, p))
  \/ \E ps \in ParamLists : Edited([msg EXCEPT !.parameters = ps])

(* The message is written, and its reader parses it into a new object.     *)
Deliver(representation) ==
  /\ received = NotSent
  /\ Len(route) < MaxHops
  /\ route' = Append(route, representation)
  /\ received' = TransferredAs(msg, representation)
  /\ origin' = IF origin = NotSent THEN msg ELSE origin
  /\ UNCHANGED <<msg, edits>>

(* The reader now holds the message.                                       *)
PassOn ==
  /\ received \notin NoMessage
  /\ msg' = received
  /\ received' = NotSent
  /\ UNCHANGED <<origin, edits, route>>

Next ==
  \/ EditPerformative \/ EditProtocol \/ EditText \/ EditSender \/ EditReplyBy
  \/ EditContent \/ EditReceivers \/ EditReplyTo \/ EditParameters
  \/ \E r \in Representation : Deliver(r)
  \/ PassOn

Spec == Init /\ [][Next]_vars

------------------------------------------------------------------------------
(***************************************************************************)
(* Properties                                                              *)
(***************************************************************************)
LiteralKept(text) == LiteralReadable(text) /\ AsLiteral[text] = text
AttributeKept(text) == AsAttribute[text] = text
ElementKept(text) == AsElement[text] # UnreadableText /\ AsElement[text] = text
DateKept(time) == TimeOf(DateDigits(time)) = time

(* The identifiers whose every text survives the encoding, and whose       *)
(* resolvers stay different when their own resolvers are left out.         *)
AgentPortable(a) ==
  /\ AgentReadable(a)
  /\ \A p \in Range(a.parameters) : LiteralKept(p.value)
  /\ \A r \in Range(a.resolvers) :
       \A p \in Range(r.parameters) : LiteralKept(p.value)
  /\ \A i, j \in DOMAIN a.resolvers :
       i # j => ~ CompareEqual(a.resolvers[i], a.resolvers[j], 0)

(* Text and XML carry no user-defined parameters of agents; text carries   *)
(* no resolvers of resolvers.                                              *)
AgentPortableAsText(a) ==
  /\ AgentIdentifierReadable(a)
  /\ \A b \in {a} \cup Range(a.resolvers) :
       b.parameters = <<>> /\ EmptyText \notin Range(b.addresses)

AgentPortableInXML(a) ==
  \A b \in {a} \cup Range(a.resolvers) :
    /\ b.parameters = <<>>
    /\ \A t \in {b.name} \cup Range(b.addresses) : AttributeKept(t)
    /\ \A c \in Range(b.resolvers) : XMLAgentReadable(c)

NoDuplicates(as) == \A i, j \in DOMAIN as : i # j => ~ AgentEqual(as[i], as[j])

PortableBitefficiently(m) ==
  /\ m.performative \in Word
  /\ m.protocol \in Word \cup {EmptyText}
  /\ \A f \in TextField : LiteralKept(m.texts[f])
  /\ \A a \in {m.sender} \cup Range(m.receivers) \cup Range(m.replyTo) : AgentPortable(a)
  /\ NoDuplicates(m.receivers) /\ NoDuplicates(m.replyTo)
  /\ \A p \in Range(m.parameters) :
       /\ p.name \in Word
       /\ LiteralKept(p.value)
       /\ p.name \notin TextField \cup {"sender", "receiver", "content",
                                        "reply-by", "reply-to", "protocol"}

SenderPortable(m) == IsValid(m.sender) \/ m.sender = UndefinedAgent

PortableAsText(m) ==
  /\ m.performative \in Range(PerformativeTxt)
  /\ m.protocol \in PlainWord \cup {EmptyText}
  /\ m.protocol # EmptyText /\ m.parameters # <<>> =>
       m.texts["conversation-id"] # EmptyText
  /\ SenderPortable(m)
  /\ \A a \in {m.sender} \cup Range(m.receivers) \cup Range(m.replyTo) : AgentPortableAsText(a)
  /\ \A p \in Range(m.parameters) : p.name \in PlainWord

PortableInXML(m) ==
  /\ AttributeKept(m.performative)
  /\ \A t \in {m.protocol} \cup {m.texts[f] : f \in TextField} :
       t = EmptyText \/ ElementKept(t)
  /\ SenderPortable(m)
  /\ \A a \in {m.sender} \cup Range(m.receivers) \cup Range(m.replyTo) : AgentPortableInXML(a)
  /\ NoDuplicates(m.receivers)
  /\ \A p \in Range(m.parameters) : AttributeKept(p.name) /\ ElementKept(p.value)
  /\ m.content.nul = 0

Portable(m, representation) ==
  /\ DateKept(m.replyBy)
  /\ IsInjective(m.parameters)
  /\ representation = "BITEFFICIENT" => PortableBitefficiently(m)
  /\ representation = "STRING_REP"   => PortableAsText(m)
  /\ representation = "XML"          => PortableInXML(m)

(* A message whose texts the chosen representation can carry, whose lists  *)
(* were filled without duplicates and whose parameters have names of their *)
(* own arrives and is equal, in the sense of ACLMessage::operator==, to    *)
(* the one sent.                                                           *)
Arrives ==
  received # NotSent /\ Portable(msg, Last(route)) =>
    received \notin NoMessage /\ MessageEqual(received, msg)

AgentsOf(m) ==
  IF m \in NoMessage THEN {}
  ELSE {m.sender} \cup Range(m.receivers) \cup Range(m.replyTo)

(* No comparison looks below the resolvers of an identifier, but what is   *)
(* there may be written and read again at the next hop: a text that XML    *)
(* alters twice may end as one that the setters refuse.                    *)
DeepTextsKept(a, representation) ==
  /\ representation = "BITEFFICIENT" =>
       \A depth \in 2..ResolverDepth : \A b \in Nested(a, depth) :
         \A p \in Range(b.parameters) : LiteralKept(p.value)
  /\ representation = "XML" =>
       \A depth \in 2..Nesting : \A b \in Nested(a, depth) :
         \A t \in {b.name} \cup Range(b.addresses) : AttributeKept(t)

PortableTwice(m, representation) ==
  /\ Portable(m, representation)
  /\ \A a \in AgentsOf(m) : DeepTextsKept(a, representation)

(* A message that the reader found equal to the one its author sent is     *)
(* passed on in the same representation without loss: every later reader   *)
(* finds it equal too, however the lists were reordered and the resolvers  *)
(* cut on the way.                                                         *)
EqualAtEveryHop ==
  /\ received # NotSent /\ Len(route) > 1
  /\ Cardinality(Range(route)) = 1
  /\ MessageEqual(msg, origin)
  /\ \A a \in AgentsOf(origin) : DeepTextsKept(a, Last(route))
  => received \notin NoMessage /\ MessageEqual(received, origin)

(* Passing a message on in another representation loses nothing either, if *)
(* each of the representations can carry the message of its author: what   *)
(* one of them changes (the order of lists, deep resolvers) is never what  *)
(* the next one cannot carry.                                              *)
EqualAcrossRepresentations ==
  received # NotSent /\ (\A r \in Range(route) : PortableTwice(origin, r)) =>
    received \notin NoMessage /\ MessageEqual(received, origin)

(* Whatever the message, if it is read at all no addressee is lost or made *)
(* up: the names of the receivers and of the agents to reply to, the       *)
(* performative and the content are those that were sent.  (Text spoils    *)
(* the names of agents with user-defined parameters, XML the contents with *)
(* NUL bytes and the names and performatives with a character reference.)  *)
NamesOf(as) == {a.name : a \in Range(as)}

NamesKept(m, representation) ==
  LET agents == Range(m.receivers) \cup Range(m.replyTo) IN
  /\ representation = "STRING_REP" => \A a \in agents : a.parameters = <<>>
  /\ representation = "XML" => \A a \in agents : AttributeKept(a.name)

NoAddresseeLost ==
  LET inXML == Last(route) = "XML" IN
  received \notin NoMessage =>
       /\ NamesKept(msg, Last(route)) =>
            /\ NamesOf(received.receivers) = NamesOf(msg.receivers)
            /\ NamesOf(received.replyTo) = NamesOf(msg.replyTo)
       /\ ~ inXML \/ AttributeKept(msg.performative) =>
            received.performative = msg.performative
       /\ ~ inXML \/ msg.content.nul = 0 => received.content = msg.content

(* What compareEqual means: the lists are equal as bags, the resolvers     *)
(* compared one level less deep.                                           *)
SameBag(s, t, same) ==
  \A e \in Range(s) \cup Range(t) :
    Cardinality({i \in DOMAIN s : <<s[i], e>> \in same}) =
      Cardinality({i \in DOMAIN t : <<t[i], e>> \in same})

SameTextBag(s, t) == SameBag(s, t, {<<x, x>> : x \in Range(s) \cup Range(t)})

SameAgent(a, b, depth) ==
  LET alike[d \in 0..depth] ==
        {p \in (Nested(a, depth - d) \cup Nested(b, depth - d)) \X
               (Nested(a, depth - d) \cup Nested(b, depth - d)) :
           /\ p[1].name = p[2].name
           /\ SameTextBag(p[1].addresses, p[2].addresses)
           /\ d > 0 => SameBag(p[1].resolvers, p[2].resolvers, alike[d - 1])
           /\ SameTextBag(p[1].parameters, p[2].parameters)}
  IN <<a, b>> \in alike[depth]

(* The comparison that strikes equal elements from copies of both lists,   *)
(* on whose answer every list of agents relies, is equality of bags at     *)
(* every resolver depth: neither order nor repetition deceives it.         *)
ComparisonIsExact ==
  \A a \in AgentsOf(msg), b \in AgentsOf(msg) \cup AgentsOf(received) \cup Agents :
    \A depth \in 0..2 :
      CompareEqual(a, b, depth) <=> SameAgent(a, b, depth)

(* The receivers form a set ("set was chosen for uniquness of elements",   *)
(* acl_message.h): no two of them are equal.                               *)
ReceiversAreASet ==
  \A i, j \in DOMAIN msg.receivers :
    i # j => ~ AgentEqual(msg.receivers[i], msg.receivers[j])

==============================================================================
