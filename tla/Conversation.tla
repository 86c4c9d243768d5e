---------------------------- MODULE Conversation ----------------------------
(***************************************************************************)
(* fipa::acl::Conversation: the objects that follow one conversation each  *)
(* (conversation.cpp).  update() holds mMutex from beginning to end, so it *)
(* is one action here, either accepted or refused with an exception.  What *)
(* notify() does with the observers of an accepted update is the subject   *)
(* of module Notification.                                                 *)
(***************************************************************************)
EXTENDS StateMachine

CONSTANTS
  Handle,      \* the Conversation objects
  Owner,       \* the agent that owns them
  Traffic,     \* the messages that may be inserted
  Plans,       \* the arguments of setNumberOfSubConversations
  ForcedProtocols, \* the arguments of setProtocol
  ForcedIds,       \* ... of setConversationId
  ForcedLanguages, \* ... of setContentLanguage
  NoMachine,       \* a default-constructed StateMachine
  NoConversation   \* an object that does not exist yet

ASSUME TrafficAssumption ==
  /\ Owner \in Agent
  /\ Traffic \subseteq Message
  /\ Plans \subseteq Int
  /\ ForcedProtocols \subseteq Protocol \cup {NoProtocol}
  /\ ForcedIds \subseteq ConversationId
  /\ ForcedLanguages \subseteq Language

VARIABLES
  conv,      \* conv[h]: the object h, or NoConversation before it exists
  event,     \* event[h]: the type of the last event h notified
  garbage,   \* what receivedProxiedReply held when protocol p was loaded
  forwarded  \* history: proxied replies h has accepted

vars == <<conv, event, garbage, forwarded>>

NoEvent    == "none"
NoLanguage == "no_language"

EventType ==
  {"START_OF_CONVERSATION", "INTERMEDIATE_UPDATE", "END_OF_CONVERSATION",
   "FAILURE"}

Status == {"UNINITIALIZED", "RUNNING", "ENDED", "FAILED"}

\* A conversation that generates its own id gets one nobody else has.
GeneratedId(h) == h

ConversationState ==
  [id      : ConversationId \cup Handle,
   proto   : Protocol \cup {NoProtocol},
   lang    : Language \cup {NoLanguage},
   planned : Int,
   status  : Status,
   machine : Machine \cup {NoMachine},
   subs    : [StateId -> Seq(Machine)]]

ASSUME ObjectAssumption ==
  NoMachine \notin Machine /\ NoConversation \notin ConversationState

TypeOK ==
  /\ conv \in [Handle -> ConversationState \cup {NoConversation}]
  /\ event \in [Handle -> EventType \cup {NoEvent}]
  /\ garbage \in [Protocol -> BOOLEAN]
  /\ forwarded \in [Handle -> Nat]

Live(h) == conv[h] # NoConversation

\* The sub machines of the state a conversation is in.
SubsOf(c) == c.subs[c.machine.cur]

-----------------------------------------------------------------------------
(* update()                                                                *)

Fresh(id) ==
  [id |-> id, proto |-> NoProtocol, lang |-> NoLanguage, planned |-> 0,
   status |-> "UNINITIALIZED", machine |-> NoMachine,
   subs |-> [s \in StateId |-> <<>>]]

\* Slip: any other protocol starts the conversation anew.
PreparedAgain(c, msg) ==
  IF c.proto # msg.proto /\ msg.proto \in Protocol
  THEN [Fresh(msg.id) EXCEPT !.machine = NewMachine(msg.proto, Owner, garbage),
                             !.proto   = msg.proto,
                             !.lang    = msg.lang,
                             !.planned = c.planned,
                             !.status  = c.status]
  ELSE c

\* A conversation without a protocol takes it, with a fresh machine, the
\* language and the id, from the message, before the message is validated.
Prepared(c, msg) ==
  IF c.proto = NoProtocol /\ msg.proto \in Protocol
  THEN [c EXCEPT !.machine = NewMachine(msg.proto, Owner, garbage),
                 !.subs    = [s \in StateId |-> <<>>],
                 !.proto   = msg.proto,
                 !.lang    = msg.lang,
                 !.id      = msg.id]
  ELSE c

\* Slip: a message of another protocol goes to the machine itself.
ConsumedByMachine(c, msg) ==
  IF c.machine = NoMachine THEN {}
  ELSE {[machine |-> m, subs |-> SubsOf(c)] :
          m \in ConsumeMessage(c.machine, msg)}

\* What validating the message leaves of machine and sub machines; nothing
\* when it is refused.  A message of another protocol is a message of a sub
\* conversation.
Consumed(c, msg) ==
  IF c.machine = NoMachine THEN {}
  ELSE IF msg.proto = c.proto
       THEN {[machine |-> m, subs |-> SubsOf(c)] :
               m \in ConsumeMessage(c.machine, msg)}
       ELSE IF msg.proto \notin Protocol THEN {}
            ELSE ConsumeSubMessage(c.machine, SubsOf(c), msg, c.planned, garbage)

\* The conversation c with a result r of Consumed stored in it.
Stored(c, r) ==
  [c EXCEPT !.machine = r.machine, !.subs[c.machine.cur] = r.subs]

Ended(c) == c.machine # NoMachine /\ InFinalState(c.machine, SubsOf(c))

\* Slip: a failure state is final as well, and that is asked first.
ClassifyEndFirst(c, isNew) ==
  IF Ended(c) THEN "END_OF_CONVERSATION"
  ELSE IF InFailureState(c.machine) THEN "FAILURE"
       ELSE IF isNew THEN "START_OF_CONVERSATION" ELSE "INTERMEDIATE_UPDATE"

\* Slip: the two classes of a running conversation are exchanged.
ClassifyExchanged(c, isNew) ==
  IF InFailureState(c.machine) THEN "FAILURE"
  ELSE IF Ended(c) THEN "END_OF_CONVERSATION"
       ELSE IF isNew THEN "INTERMEDIATE_UPDATE" ELSE "START_OF_CONVERSATION"

\* notifyAll(): the class of the event after an accepted message.
Classify(c, isNew) ==
  IF InFailureState(c.machine) THEN "FAILURE"
  ELSE IF Ended(c) THEN "END_OF_CONVERSATION"
       ELSE IF isNew THEN "START_OF_CONVERSATION" ELSE "INTERMEDIATE_UPDATE"

\* Slip: an event type is stored where a status belongs.
StatusConfused(e) ==
  CASE e = "START_OF_CONVERSATION" -> "RUNNING"
    [] e = "INTERMEDIATE_UPDATE"   -> "RUNNING"
    [] e = "END_OF_CONVERSATION"   -> "ENDED"
    [] e = "FAILURE"               -> "FAILURE"

\* notify(): the status after an event.
StatusAfter(e) ==
  CASE e = "START_OF_CONVERSATION" -> "RUNNING"
    [] e = "INTERMEDIATE_UPDATE"   -> "RUNNING"
    [] e = "END_OF_CONVERSATION"   -> "ENDED"
    [] e = "FAILURE"               -> "FAILED"

\* The machine of c takes the message as a reply of a proxied protocol.
ReplyForwarded(c, msg) ==
  msg.proto = c.proto /\ ConsumeDirectly(c.machine, msg) = {}

\* before is the conversation the message arrives at: it is new to a
\* conversation without a protocol.
AcceptInto(h, before, msg) ==
  \E c \in {Prepared(before, msg)} : \E r \in Consumed(c, msg) :
        LET d == Stored(c, r)
            e == Classify(d, before.proto = NoProtocol)
        IN  /\ conv'  = [conv EXCEPT ![h] = [d EXCEPT !.status = StatusAfter(e)]]
            /\ event' = [event EXCEPT ![h] = e]
            /\ forwarded' = IF ReplyForwarded(c, msg)
                            THEN [forwarded EXCEPT ![h] = @ + 1]
                            ELSE forwarded
            /\ UNCHANGED garbage

Accept(h, msg) == Live(h) /\ AcceptInto(h, conv[h], msg)

\* update() throws; a conversation that was without a protocol keeps what it
\* took from the message.
Refuse(h, msg) ==
  /\ Live(h)
  /\ \E c \in {Prepared(conv[h], msg)} :
       /\ Consumed(c, msg) = {}
       /\ conv' = [conv EXCEPT ![h] = c]
  /\ UNCHANGED <<event, garbage, forwarded>>

-----------------------------------------------------------------------------
(* The other operations                                                    *)

\* Conversation(owner, conversationId)
Create(h, id) ==
  /\ ~Live(h)
  /\ conv' = [conv EXCEPT ![h] = Fresh(id)]
  /\ UNCHANGED <<event, garbage, forwarded>>

\* Conversation(owner, initiator): no object unless update() accepts.
CreateFromMessage(h, msg) ==
  /\ ~Live(h)
  /\ AcceptInto(h, Fresh(GeneratedId(h)), msg)

\* Conversation(const Conversation& other)
Copy(h, g) ==
  /\ Live(h)
  /\ ~Live(g)
  /\ conv' = [conv EXCEPT ![g] = conv[h]]
  /\ event' = [event EXCEPT ![g] = event[h]]
  /\ forwarded' = [forwarded EXCEPT ![g] = forwarded[h]]
  /\ UNCHANGED garbage

SetNumberOfSubConversations(h, n) ==
  /\ Live(h)
  /\ conv' = [conv EXCEPT ![h].planned = n]
  /\ UNCHANGED <<event, garbage, forwarded>>

SetProtocol(h, p) ==
  /\ Live(h)
  /\ conv' = [conv EXCEPT ![h].proto = p]
  /\ UNCHANGED <<event, garbage, forwarded>>

SetConversationId(h, id) ==
  /\ Live(h)
  /\ conv' = [conv EXCEPT ![h].id = id]
  /\ UNCHANGED <<event, garbage, forwarded>>

SetContentLanguage(h, lang) ==
  /\ Live(h)
  /\ conv' = [conv EXCEPT ![h].lang = lang]
  /\ UNCHANGED <<event, garbage, forwarded>>

Init ==
  /\ conv = [h \in Handle |-> NoConversation]
  /\ event = [h \in Handle |-> NoEvent]
  /\ garbage \in [Protocol -> BOOLEAN]
  /\ forwarded = [h \in Handle |-> 0]

\* The objects whose generated ids h may be given: its own, and that of any
\* object that exists already.
IdSources(h) == {h} \cup {g \in Handle : Live(g)}

Next ==
  \E h \in Handle :
    \/ \E id \in ConversationId \cup {GeneratedId(g) : g \in IdSources(h)} : Create(h, id)
    \/ \E msg \in Traffic : CreateFromMessage(h, msg)
    \/ \E g \in Handle : Copy(h, g)
    \/ \E msg \in Traffic : Accept(h, msg)
    \/ \E msg \in Traffic : Refuse(h, msg)
    \/ \E n \in Plans : SetNumberOfSubConversations(h, n)
    \/ \E p \in ForcedProtocols : SetProtocol(h, p)
    \/ \E id \in ForcedIds : SetConversationId(h, id)
    \/ \E lang \in ForcedLanguages : SetContentLanguage(h, lang)

Spec == Init /\ [][Next]_vars

-----------------------------------------------------------------------------
(* Safety                                                                  *)

\* A conversation has a machine that takes part in it.
Running(h) == Live(h) /\ conv[h].machine # NoMachine

\* getStatus() and hasEnded() read different things, the status written by
\* the last notify() and the machine; they never disagree, whatever was
\* accepted or refused in between (while setProtocol stays unused).
StatusTracksMachine ==
  \A h \in Handle : Running(h) /\ event[h] # NoEvent =>
    /\ conv[h].status = "FAILED" <=> InFailureState(conv[h].machine)
    /\ conv[h].status = "ENDED" <=>
         Ended(conv[h]) /\ ~InFailureState(conv[h].machine)

\* The sub conversations of a state were all started by an agent that plays
\* the role the embedded protocol starts from, each is followed from that
\* agent's point of view, and each runs the protocol of its first message.
SubsStartedByEmbeddingRole ==
  \A h \in Handle : Running(h) =>
    \A s \in StateId : \A i \in DOMAIN conv[h].subs[s] :
      LET sub == conv[h].subs[s][i]
          m   == conv[h].machine
      IN  /\ sub.init # NoMessage
          /\ sub.init.proto = sub.proto
          /\ sub.init.sender \in sub.roles[SelfRole]
          /\ \E k \in DOMAIN EmbeddedOf(m.proto, s) :
               sub.init.sender \in m.roles[EmbeddedOf(m.proto, s)[k].from]

\* A proxied protocol gets at most one reply forwarded per embedded machine,
\* and a conversation that ends in a state that proxies has had its reply or
\* ran "inform" -- if the reader's memory happened to hold FALSE where
\* receivedProxiedReply is left uninitialised.
OneReplyForwarded ==
  \A h \in Handle : Running(h) /\ ~garbage[conv[h].machine.proto] =>
    LET m  == conv[h].machine
        es == EmbeddedOf(m.proto, m.cur)
    IN  /\ forwarded[h] <= 1
        /\ conv[h].status = "ENDED" =>
             \A k \in DOMAIN es : es[k].proxiedTo # NoRole =>
               forwarded[h] = 1 \/ m.esm[m.cur][k].actual = "inform"

\* The machine of a conversation was opened by a message of the protocol it
\* was made for, whatever was refused before (while setProtocol stays
\* unused).
OpenedByItsProtocol ==
  \A h \in Handle : Running(h) /\ conv[h].machine.init # NoMessage =>
    conv[h].machine.init.proto = conv[h].machine.proto

\* A conversation that was told to follow another protocol than it was
\* opened with stands still: the messages of neither move its machine to
\* another state until it is told otherwise.
ForcedStandsStill ==
  [][\A h \in Handle :
       /\ Running(h)
       /\ conv[h].machine.init # NoMessage
       /\ conv[h].proto \notin {conv[h].machine.init.proto, NoProtocol}
       => conv'[h].machine.cur = conv[h].machine.cur]_vars

\* A failure is final: no message, of the conversation or of one of its sub
\* conversations, is accepted afterwards.
FailureIsFinal ==
  [][\A h \in Handle : Live(h) /\ conv[h].status = "FAILED" =>
       /\ conv'[h].status = "FAILED"
       /\ conv'[h].machine = conv[h].machine
       /\ conv'[h].subs = conv[h].subs]_vars

\* A cancelled conversation accepts one more message, and that one ends it:
\* the answer to cancel is the success or the failure of cancelling.
CancelIsAnswered ==
  [][\A h \in Handle :
       /\ Running(h)
       /\ conv[h].machine.cur = CONVERSATION_CANCELLING
       /\ conv'[h].machine # conv[h].machine
       => /\ conv'[h].machine.cur \in {CONVERSATION_CANCEL_SUCCESS,
                                       CONVERSATION_CANCEL_FAILURE}
          /\ conv'[h].status \in {"ENDED", "FAILED"}]_vars

\* Once somebody plays a role, it is theirs: a later message adds an agent
\* only where the role's own expression names that agent, or to "self" when
\* a failure opens the conversation.
RolesStayAssigned ==
  [][\A h \in Handle : Running(h) /\ conv[h].machine.init # NoMessage =>
       \A r \in RoleId : \A a \in Agent :
         (/\ conv[h].machine.roles[r] # {}
          /\ a \in conv'[h].machine.roles[r] \ conv[h].machine.roles[r])
         => NameMatches(r, a)]_vars

\* An update that starts a sub conversation starts one, in the current
\* state, within the number announced at that moment, and leaves all others
\* as they were; and none that is over ever changes again.
SubsWithinPlan ==
  [][\A h \in Handle : Running(h) =>
       \A s \in StateId :
         LET old == conv[h].subs[s]
             new == conv'[h].subs[s]
         IN  /\ Len(new) > Len(old) =>
                  /\ s = conv[h].machine.cur
                  /\ Len(new) = Len(old) + 1
                  /\ Len(new) <= AsSize(conv[h].planned)
                  /\ SubSeq(new, 1, Len(old)) = old
             /\ \A i \in DOMAIN old : SubOver(old[i]) => new[i] = old[i]]_vars

\* The protocols in use end for good: no final state has a way out.
EndIsFinal ==
  \A p \in Protocol : \A s \in FinalStatesOf(p) :
    TransitionsOf(p, s) = <<>> /\ EmbeddedOf(p, s) = <<>>

\* A conversation implements the lifecycle its observers rely on: it starts
\* once, never goes on after a failure, and goes on after its end only with
\* a protocol that provides for it.
Lifecycle ==
  INSTANCE ConversationLifecycle
    WITH status <- [h \in Handle |-> IF Live(h) THEN conv[h].status
                                               ELSE "ABSENT"]

LifecycleSpec == Lifecycle!Spec

-----------------------------------------------------------------------------
(* What the documentation says and the code does not do                    *)

\* "If this is true, a proxied reply has been received and the embedded
\* state machine is finished." (statemachine.h)
FlagMeansReply ==
  \A h \in Handle : Running(h) =>
    LET m == conv[h].machine
    IN  \A s \in StateId : \A k \in DOMAIN m.esm[s] :
          m.esm[s][k].replied => forwarded[h] > 0

\* "Get content language (which is set by the initiating message)"
\* (conversation.h)
LanguageOfInitiator ==
  \A h \in Handle : Running(h) /\ conv[h].machine.init # NoMessage =>
    conv[h].lang = conv[h].machine.init.lang

\* "A Conversation represents a flow of messages which have the conversation
\* id and (commonly) the protocol in common" (conversation.h): the messages a
\* conversation accepts carry its id.
IdOfMessages ==
  \A h \in Handle : Running(h) /\ conv[h].machine.init # NoMessage =>
    conv[h].id = conv[h].machine.init.id

\* "multiple terminal states exist here": ENDED, like FAILED, is terminal.
\* (conversation.h)
EndedIsTerminal ==
  [][\A h \in Handle : Live(h) /\ conv[h].status = "ENDED" =>
       conv'[h].status = "ENDED"]_vars

\* "Set the protocol for this conversation": a conversation that has a
\* protocol has the machine to follow it. (conversation.h)
ProtocolHasMachine ==
  \A h \in Handle : Live(h) /\ conv[h].proto # NoProtocol =>
    conv[h].machine # NoMachine

\* "either 0 (in case of inform) or 1 (otherwise) messages are sent back"
\* (configuration/protocols/brokering): a conversation whose proxied
\* protocol was "inform" does not end with a forwarded reply.
NoReplyToInform ==
  \A h \in Handle : Running(h) /\ conv[h].status = "ENDED" =>
    LET m == conv[h].machine
    IN  (\E k \in DOMAIN m.esm[m.cur] : m.esm[m.cur][k].actual = "inform")
          => forwarded[h] = 0
=============================================================================
