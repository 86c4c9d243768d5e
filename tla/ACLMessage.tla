------------------------------ MODULE ACLMessage ------------------------------
(***************************************************************************)
(* The FIPA ACL message object (src/src/message_generator/acl_message.cpp  *)
(* and acl_message.h): its fields, its setters and its comparison.         *)
(***************************************************************************)
EXTENDS AgentID

CONSTANTS
  EmptyText,     \* ""
  NoTime,        \* the null base::Time
  NoContent      \* the empty content

(* PerformativeTxt, in the order of the enum that indexes it.              *)
PerformativeTxt ==
  << "accept-proposal", "agree", "cancel", "cfp", "confirm", "disconfirm",
     "failure", "inform", "inform-if", "inform-ref", "not-understood",
     "propagate", "propose", "proxy", "query-if", "query-ref", "refuse",
     "reject-proposal", "request", "request-when", "request-whenever",
     "subscribe" >>

(* What a new message starts with passes its setters, and the empty        *)
(* content has no NUL byte.                                                *)
ASSUME ACLMessageAssumption ==
  /\ Range(PerformativeTxt) \cup {EmptyText} \subseteq Checked
  /\ NoContent.nul = 0

(* The fields whose setters store any text, under the names the parser     *)
(* gives them.                                                             *)
TextField == {"language", "encoding", "ontology", "conversation-id",
              "reply-with", "in-reply-to"}

NewMessage ==
  [ performative |-> "inform",
    sender       |-> UndefinedAgent,
    receivers    |-> <<>>,
    replyTo      |-> <<>>,
    texts        |-> [f \in TextField |-> EmptyText],
    protocol     |-> EmptyText,
    replyBy      |-> NoTime,
    parameters   |-> <<>>,
    content      |-> NoContent ]

SetPerformative(m, text) ==
  IF text \in Checked THEN [m EXCEPT !.performative = text] ELSE m

(* A slip: the name of the protocol is stored unchecked.                   *)
SetProtocolUnchecked(m, text) == [m EXCEPT !.protocol = text]

SetProtocol(m, text) ==
  IF text \in Checked THEN [m EXCEPT !.protocol = text] ELSE m

AddReceiver(m, aid)    == [m EXCEPT !.receivers = PrependAgent(@, aid)]
DeleteReceiver(m, aid) == [m EXCEPT !.receivers = DeleteAgent(@, aid)]
AddReplyTo(m, aid)     == [m EXCEPT !.replyTo = PrependAgent(@, aid)]
DeleteReplyTo(m, aid)  == [m EXCEPT !.replyTo = DeleteAgent(@, aid)]

(* One after the other.                                                    *)
AddReceivers(m, aids) == [m EXCEPT !.receivers = FoldLeft(PrependAgent, @, aids)]
AddReplyTos(m, aids)  == [m EXCEPT !.replyTo = FoldLeft(PrependAgent, @, aids)]

AddUserdefParam(m, param) ==
  IF param \in Range(m.parameters) THEN m
  ELSE [m EXCEPT !.parameters = <<param>> \o @]

(***************************************************************************)
(* operator==                                                              *)
(***************************************************************************)
MessageEqual(m, other) ==
  /\ m.performative = other.performative
  /\ m.content = other.content
  /\ m.texts = other.texts
  /\ m.protocol = other.protocol
  /\ m.replyBy = other.replyBy
  /\ AgentEqual(m.sender, other.sender)
  /\ SameAgents(m.receivers, other.receivers)
  /\ SameAgents(m.replyTo, other.replyTo)
  /\ SameTexts(m.parameters, other.parameters)

==============================================================================
