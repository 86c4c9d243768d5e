------------------------- MODULE ConversationMonitor -------------------------
(***************************************************************************)
(* fipa::acl::ConversationMonitor: the conversations of one agent under    *)
(* their ids (conversation_monitor.cpp), composed with module Conversation *)
(* that moves the objects.  The monitor's mutex keeps its operations from  *)
(* each other, not from those who call Conversation::update on the pointer *)
(* startConversation gave them: where the monitor asks hasEnded() first    *)
(* and acts later, they come in between.                                   *)
(***************************************************************************)
EXTENDS Conversation

CONSTANTS
  DirectTraffic, \* the messages given to Conversation::update itself
  MayRemove,     \* somebody calls removeConversation
  Requested,     \* the arguments of getOrCreateConversation
  EmptyId,       \* the empty conversation id
  Nothing        \* the monitor is not at work

ASSUME MonitorAssumption ==
  /\ DirectTraffic \subseteq Traffic
  /\ MayRemove \in BOOLEAN
  /\ Requested \subseteq ConversationId \cup Handle \cup {EmptyId}
  /\ EmptyId \notin Handle \* a generated id is not empty

VARIABLES
  active,  \* mActiveConversations, a function from keys to conversations
  working, \* what the holder of the monitor's mutex is about to do
  closed   \* history: the conversations closed with removeConversation

monitorVars == <<active, working, closed>>
allVars     == <<vars, monitorVars>>

Key == ConversationId \cup Handle \cup {EmptyId}

Work ==
  [conv : Handle, msg : Traffic] \cup
  [left : SUBSET Key, ended : SUBSET Key]

MonitorTypeOK ==
  /\ TypeOK
  /\ DOMAIN active \subseteq Key
  /\ \A k \in DOMAIN active : active[k] \in Handle /\ Live(active[k])
  /\ working \in Work \cup {Nothing}
  /\ closed \subseteq Handle

Updating == working # Nothing /\ "msg" \in DOMAIN working
Cleaning == working # Nothing /\ "left" \in DOMAIN working

\* std::map::insert
Insert(k, h) ==
  [l \in DOMAIN active \cup {k} |-> IF l \in DOMAIN active THEN active[l] ELSE h]

Erase(ks) == [k \in DOMAIN active \ ks |-> active[k]]

\* Nobody can know an id before it is generated.
Known(id) == id \in Handle => Live(id)

-----------------------------------------------------------------------------
\* Slip: the object is registered but not made.
StartNothing(h) ==
  /\ working = Nothing
  /\ ~Live(h)
  /\ active' = Insert(GeneratedId(h), h)
  /\ UNCHANGED <<vars, working, closed>>

StartConversation(h) ==
  /\ working = Nothing
  /\ Create(h, GeneratedId(h))
  /\ active' = Insert(GeneratedId(h), h)
  /\ UNCHANGED <<working, closed>>

\* Slip: the id is not handed on.
CreateWithoutId(h, id) ==
  /\ working = Nothing
  /\ id \in Requested \ DOMAIN active
  /\ Known(id)
  /\ Create(h, GeneratedId(h))
  /\ active' = Insert(id, h)
  /\ UNCHANGED <<working, closed>>

\* getOrCreateConversation of an id that is not there; a conversation with
\* an empty id generates one of its own.
CreateConversation(h, id) ==
  /\ working = Nothing
  /\ id \in Requested \ DOMAIN active
  /\ Known(id)
  /\ Create(h, IF id = EmptyId THEN GeneratedId(h) ELSE id)
  /\ active' = Insert(id, h)
  /\ UNCHANGED <<working, closed>>

\* Slip: an ended conversation is updated all the same.
FindWithoutTest(msg) ==
  /\ working = Nothing
  /\ msg.id \in DOMAIN active
  /\ working' = [conv |-> active[msg.id], msg |-> msg]
  /\ UNCHANGED <<vars, active, closed>>

\* updateConversation up to the test of hasEnded(); an unknown or ended
\* conversation makes it throw.
FindConversation(msg) ==
  /\ working = Nothing
  /\ msg.id \in DOMAIN active
  /\ ~Ended(conv[active[msg.id]])
  /\ working' = [conv |-> active[msg.id], msg |-> msg]
  /\ UNCHANGED <<vars, active, closed>>

\* updateConversation from there.
UpdateConversation ==
  /\ Updating
  /\ Accept(working.conv, working.msg) \/ Refuse(working.conv, working.msg)
  /\ working' = Nothing
  /\ UNCHANGED <<active, closed>>

RemoveConversation(id) ==
  /\ MayRemove
  /\ working = Nothing
  /\ id \in DOMAIN active
  /\ active' = Erase({id})
  /\ closed' = closed \cup {active[id]}
  /\ UNCHANGED <<vars, working>>

\* cleanup(): all keys are looked at one by one ...
BeginCleanup ==
  /\ working = Nothing
  /\ working' = [left |-> DOMAIN active, ended |-> {}]
  /\ UNCHANGED <<vars, active, closed>>

\* Slip: the test of hasEnded() is dropped.
LookAtAny(k) ==
  /\ Cleaning
  /\ k \in working.left
  /\ working' = [left |-> working.left \ {k}, ended |-> working.ended \cup {k}]
  /\ UNCHANGED <<vars, active, closed>>

LookAt(k) ==
  /\ Cleaning
  /\ k \in working.left
  /\ working' = [left  |-> working.left \ {k},
                 ended |-> working.ended \cup {l \in {k} : Ended(conv[active[l]])}]
  /\ UNCHANGED <<vars, active, closed>>

\* ... and those found ended are erased.
FinishCleanup ==
  /\ Cleaning
  /\ working.left = {}
  /\ active' = Erase(working.ended)
  /\ working' = Nothing
  /\ UNCHANGED <<vars, closed>>

MonitorStep ==
  \/ \E h \in Handle :
       \/ StartConversation(h)
       \/ \E id \in Key : CreateConversation(h, id)
  \/ \E msg \in Traffic : FindConversation(msg)
  \/ UpdateConversation
  \/ \E id \in Key : RemoveConversation(id) \/ LookAt(id)
  \/ BeginCleanup
  \/ FinishCleanup

\* What the holders of a ConversationPtr do meanwhile.
DirectUpdate(h, msg) ==
  /\ Known(msg.id)
  /\ Accept(h, msg) \/ Refuse(h, msg)
  /\ UNCHANGED monitorVars

DirectSetting(h) ==
  /\ \/ \E n \in Plans : SetNumberOfSubConversations(h, n)
     \/ \E p \in ForcedProtocols : SetProtocol(h, p)
     \/ \E id \in ForcedIds : SetConversationId(h, id)
     \/ \E lang \in ForcedLanguages : SetContentLanguage(h, lang)
  /\ UNCHANGED monitorVars

DirectStep ==
  \E h \in Handle :
    \/ \E msg \in DirectTraffic : DirectUpdate(h, msg)
    \/ DirectSetting(h)

MonitorInit ==
  /\ Init
  /\ active = [k \in {} |-> CHOOSE h \in Handle : TRUE]
  /\ working = Nothing
  /\ closed = {}

MonitorNext == MonitorStep \/ DirectStep

MonitorSpec == MonitorInit /\ [][MonitorNext]_allVars

-----------------------------------------------------------------------------
(* Safety                                                                  *)

\* "Get conversation associated with a certain conversation id"
\* (conversation_monitor.h): the conversation found under an id has that id,
\* and so have the messages it accepted.  It holds of conversations that are
\* updated through the monitor only: update() then finds them by the id it
\* is about to give them.
FoundByItsId ==
  \A k \in DOMAIN active \ {EmptyId} :
    LET c == conv[active[k]]
    IN  /\ c.id = k
        /\ c.machine # NoMachine /\ c.machine.init # NoMessage =>
             c.machine.init.id = k

\* An id is used again only for a conversation that is over: of two
\* conversations with one id, one has ended or was closed by the user (as
\* long as getOrCreateConversation is not called with the empty id).
OneRunningPerId ==
  \A g, h \in Handle :
    /\ g # h
    /\ Live(g) /\ Live(h)
    /\ conv[g].id = conv[h].id
    => \E f \in {g, h} : Ended(conv[f]) \/ f \in closed

\* "Trying to update already completed conversation": through the monitor
\* no conversation goes on after its end, even if its protocol would let it
\* (whereas Conversation!EndedIsTerminal fails).
MonitoredLifecycle ==
  INSTANCE ConversationLifecycle
    WITH EndIsFinal <- TRUE,
         status <- [h \in Handle |-> IF Live(h) THEN conv[h].status
                                               ELSE "ABSENT"]

MonitoredLifecycleSpec == MonitoredLifecycle!Spec

\* "Cleanup all conversations, that ended" (conversation_monitor.h): what
\* cleanup() drops from the monitor is a conversation that has ended.  Who
\* updates conversations directly must not use a protocol that goes on after
\* a final state, or one may resume between the test and the erasure.
CleanupDropsEnded ==
  [][Cleaning /\ working' = Nothing =>
       \A k \in DOMAIN active \ DOMAIN active' : Ended(conv[active[k]])]_allVars

-----------------------------------------------------------------------------
(* What the documentation says and the code does not do                    *)

\* "or create a new one if it does not exist yet" (conversation_monitor.h):
\* a conversation that the monitor created, and that neither ended nor was
\* closed, is found under its id and not created once more.
FoundAgain ==
  \A h \in Handle : Live(h) /\ ~Ended(conv[h]) /\ h \notin closed =>
    conv[h].id \in DOMAIN active
=============================================================================
