---------------------------- MODULE Notification ----------------------------
(***************************************************************************)
(* Threads that update conversations and threads that observe them         *)
(* (ConversationObservable and ConversationObserver in conversation.cpp,   *)
(* the locking of Conversation::update and of ConversationMonitor).  What  *)
(* module Conversation does in one step is taken apart here into its steps *)
(* under mMutex and mObserverMutex; the protocol is abstracted to the      *)
(* class of event that an accepted message is notified as.  A step under   *)
(* mEventsMutex is one action: nothing else is locked while it is held.    *)
(***************************************************************************)
EXTENDS Integers, Sequences, FiniteSets

CONSTANTS
  Conv,        \* the Conversation objects
  Updater,     \* threads that insert messages
  Direct,      \* those that call Conversation::update themselves; the
               \* others call ConversationMonitor::updateConversation
  Observer,    \* the ConversationObserver objects
  Waiter,      \* threads that call waitForNextEvent
  Watches,     \* [Waiter -> the observer it waits for]
  Polled,      \* the observers that some thread polls
  NDEBUG,      \* assert() is compiled out
  Reopens,     \* some protocol in use goes on after a final state
  MaxMessages, \* bound: messages accepted per conversation
  Free         \* the owner of a mutex that nobody holds

ASSUME NotificationAssumption ==
  /\ Direct \subseteq Updater
  /\ Watches \in [Waiter -> Observer]
  /\ Polled \subseteq Observer
  /\ NDEBUG \in BOOLEAN
  /\ Reopens \in BOOLEAN
  /\ MaxMessages \in Nat
  /\ Free \notin Updater

VARIABLES
  sent,         \* [Conv -> number of messages in mMessages]
  class,        \* [Conv -> class of event the last of them leads to]
  status,       \* [Conv -> mStatus]
  observers,    \* [Conv -> mObservers]
  lock,         \* [Conv -> owner of Conversation::mMutex]
  observerLock, \* [Conv -> owner of ConversationObservable::mObserverMutex]
  monitorLock,  \* owner of ConversationMonitor::mMutex
  pc,           \* [Updater -> what the thread does next]
  at,           \* [Updater -> the conversation it updates]
  pos,          \* [Updater -> the iterator of the loop in notify()]
  queue,        \* [Observer -> mEvents]
  wpc,          \* [Waiter -> what the thread does next]
  returned,     \* [Waiter -> what waitForNextEvent returned last]
  crashed,      \* an assertion or a dangling iterator ended the process
  delivered,    \* history: [Observer -> the events taken off its queue]
  joined,       \* history: [Conv -> [Observer -> messages notified before it
                \* was added]]
  announced     \* history: [Conv -> the type of the last event notified]

convVars     == <<sent, class, status, announced>>
lockVars     == <<lock, observerLock, monitorLock>>
updaterVars  == <<pc, at, pos>>
waiterVars   == <<wpc, returned>>
observerVars == <<queue, delivered>>

vars == <<sent, class, status, observers, lock, observerLock, monitorLock, pc,
          at, pos, queue, wpc, returned, crashed, delivered, joined,
          announced>>

None == "none"    \* the class of event before the first message

NotifiedType ==
  {"START_OF_CONVERSATION", "INTERMEDIATE_UPDATE", "END_OF_CONVERSATION",
   "FAILURE"}

EndTypes == {"END_OF_CONVERSATION", "FAILURE"}

Status == {"UNINITIALIZED", "RUNNING", "ENDED", "FAILED"}

NotifiedEvent == [conv : Conv, n : Nat, type : NotifiedType]

\* Event(): no message, type UNKNOWN.
UnknownEvent == [type |-> "UNKNOWN"]

NothingYet == [type |-> None]

\* Slip: an event type is stored where a status belongs.
StatusConfused(type) == IF type = "FAILURE" THEN type ELSE "RUNNING"

StatusAfter(type) ==
  CASE type = "START_OF_CONVERSATION" -> "RUNNING"
    [] type = "INTERMEDIATE_UPDATE"   -> "RUNNING"
    [] type = "END_OF_CONVERSATION"   -> "ENDED"
    [] type = "FAILURE"               -> "FAILED"
    [] type = None                    -> "UNINITIALIZED"

\* hasEnded()
HasEnded(c) == class[c] \in EndTypes

\* The event c hands out while it notifies.
Current(c) == [conv |-> c, n |-> sent[c], type |-> class[c]]

TypeOK ==
  /\ sent \in [Conv -> Nat]
  /\ class \in [Conv -> NotifiedType \cup {None}]
  /\ status \in [Conv -> Status]
  /\ observers \in [Conv -> Seq(Observer)]
  /\ lock \in [Conv -> Updater \cup {Free}]
  /\ observerLock \in [Conv -> Updater \cup {Free}]
  /\ monitorLock \in Updater \cup {Free}
  /\ pc \in [Updater -> {"idle", "checked", "accepted", "notifying"}]
  /\ at \in [Updater -> Conv]
  /\ pos \in [Updater -> Nat]
  /\ queue \in [Observer -> Seq(NotifiedEvent)]
  /\ wpc \in [Waiter -> {"idle", "testing", "entering", "asleep", "taking"}]
  /\ returned \in [Waiter -> NotifiedEvent \cup {UnknownEvent, NothingYet}]
  /\ crashed \in BOOLEAN
  /\ delivered \in [Observer -> Seq(NotifiedEvent)]
  /\ joined \in [Conv -> [Observer -> Nat]]
  /\ announced \in [Conv -> NotifiedType \cup {None}]

Init ==
  /\ sent = [c \in Conv |-> 0]
  /\ class = [c \in Conv |-> None]
  /\ status = [c \in Conv |-> "UNINITIALIZED"]
  /\ observers = [c \in Conv |-> <<>>]
  /\ lock = [c \in Conv |-> Free]
  /\ observerLock = [c \in Conv |-> Free]
  /\ monitorLock = Free
  /\ pc = [u \in Updater |-> "idle"]
  /\ at \in [Updater -> Conv]
  /\ pos = [u \in Updater |-> 0]
  /\ queue = [o \in Observer |-> <<>>]
  /\ wpc = [w \in Waiter |-> "idle"]
  /\ returned = [w \in Waiter |-> NothingYet]
  /\ crashed = FALSE
  /\ delivered = [o \in Observer |-> <<>>]
  /\ joined = [c \in Conv |-> [o \in Observer |-> 0]]
  /\ announced = [c \in Conv |-> None]

-----------------------------------------------------------------------------
(* Updating a conversation                                                 *)

\* ConversationMonitor::updateConversation: take the monitor's mutex; a
\* conversation that has ended is not updated.
Check(u, c) ==
  /\ u \notin Direct
  /\ pc[u] = "idle"
  /\ monitorLock = Free
  /\ ~HasEnded(c)
  /\ monitorLock' = u
  /\ pc' = [pc EXCEPT ![u] = "checked"]
  /\ at' = [at EXCEPT ![u] = c]
  /\ UNCHANGED <<convVars, observers, lock, observerLock, pos, observerVars,
                 waiterVars, crashed, joined>>

\* Slip: a conversation may start again.
MayRestart(type, last) ==
  /\ last # "FAILURE"
  /\ last = "END_OF_CONVERSATION" => Reopens

\* The classes of event that may follow one another, as in
\* ConversationLifecycle.  (A conversation that refused its first message
\* opens with an INTERMEDIATE_UPDATE.)
MayFollow(type, last) ==
  /\ last # "FAILURE"
  /\ last = "END_OF_CONVERSATION" => Reopens
  /\ type = "START_OF_CONVERSATION" => last = None

\* update() up to notify(): the message is accepted and the machine moves.
Accept(u, c, type) ==
  /\ \/ u \in Direct /\ pc[u] = "idle"
     \/ u \notin Direct /\ pc[u] = "checked" /\ at[u] = c
  /\ lock[c] = Free
  /\ sent[c] < MaxMessages
  /\ MayFollow(type, class[c])
  /\ lock' = [lock EXCEPT ![c] = u]
  /\ sent' = [sent EXCEPT ![c] = @ + 1]
  /\ class' = [class EXCEPT ![c] = type]
  /\ pc' = [pc EXCEPT ![u] = "accepted"]
  /\ at' = [at EXCEPT ![u] = c]
  /\ UNCHANGED <<status, announced, observers, observerLock, monitorLock, pos,
                 observerVars, waiterVars, crashed, joined>>

\* update() throws: through the monitor, its mutex is released.
Reject(u) ==
  /\ pc[u] = "checked"
  /\ lock[at[u]] = Free
  /\ monitorLock' = Free
  /\ pc' = [pc EXCEPT ![u] = "idle"]
  /\ UNCHANGED <<convVars, observers, lock, observerLock, at, pos,
                 observerVars, waiterVars, crashed, joined>>

\* notify(): take mObserverMutex and point at the first observer.
BeginNotify(u) ==
  /\ pc[u] = "accepted"
  /\ observerLock[at[u]] = Free
  /\ observerLock' = [observerLock EXCEPT ![at[u]] = u]
  /\ pc' = [pc EXCEPT ![u] = "notifying"]
  /\ pos' = [pos EXCEPT ![u] = 1]
  /\ UNCHANGED <<convVars, observers, lock, monitorLock, at, observerVars,
                 waiterVars, crashed, joined>>

\* notify_all on o's condition.
Woken(o) ==
  [w \in Waiter |->
     IF wpc[w] = "asleep" /\ Watches[w] = o THEN "testing" ELSE wpc[w]]

\* ConversationObserver::update of the observer the iterator points at.
Push(u) ==
  LET c == at[u]
      o == observers[c][pos[u]]
  IN  /\ pc[u] = "notifying"
      /\ pos[u] <= Len(observers[c])
      /\ queue' = [queue EXCEPT ![o] = Append(@, Current(c))]
      /\ wpc' = Woken(o)
      /\ pos' = [pos EXCEPT ![u] = @ + 1]
      /\ UNCHANGED <<convVars, observers, lockVars, pc, at, returned, crashed,
                     delivered, joined>>

\* Slip: mObserverMutex is kept.
FinishNotifyLocked(u) ==
  LET c == at[u]
  IN  /\ pc[u] = "notifying"
      /\ pos[u] = Len(observers[c]) + 1
      /\ status' = [status EXCEPT ![c] = StatusAfter(class[c])]
      /\ announced' = [announced EXCEPT ![c] = class[c]]
      /\ lock' = [lock EXCEPT ![c] = Free]
      /\ monitorLock' = IF u \in Direct THEN monitorLock ELSE Free
      /\ pc' = [pc EXCEPT ![u] = "idle"]
      /\ UNCHANGED <<sent, class, observers, observerLock, at, pos,
                     observerVars, waiterVars, crashed, joined>>

\* Slip: the status is set only by events that begin or end something.
FinishNotifyKeeping(u) ==
  LET c == at[u]
  IN  /\ pc[u] = "notifying"
      /\ pos[u] = Len(observers[c]) + 1
      /\ status' = IF class[c] = "INTERMEDIATE_UPDATE" THEN status
                   ELSE [status EXCEPT ![c] = StatusAfter(class[c])]
      /\ announced' = [announced EXCEPT ![c] = class[c]]
      /\ lock' = [lock EXCEPT ![c] = Free]
      /\ observerLock' = [observerLock EXCEPT ![c] = Free]
      /\ monitorLock' = IF u \in Direct THEN monitorLock ELSE Free
      /\ pc' = [pc EXCEPT ![u] = "idle"]
      /\ UNCHANGED <<sent, class, observers, at, pos, observerVars, waiterVars,
                     crashed, joined>>

\* The status is set and every mutex of the call is released.
FinishNotify(u) ==
  LET c == at[u]
  IN  /\ pc[u] = "notifying"
      /\ pos[u] = Len(observers[c]) + 1
      /\ status' = [status EXCEPT ![c] = StatusAfter(class[c])]
      /\ announced' = [announced EXCEPT ![c] = class[c]]
      /\ lock' = [lock EXCEPT ![c] = Free]
      /\ observerLock' = [observerLock EXCEPT ![c] = Free]
      /\ monitorLock' = IF u \in Direct THEN monitorLock ELSE Free
      /\ pc' = [pc EXCEPT ![u] = "idle"]
      /\ UNCHANGED <<sent, class, observers, at, pos, observerVars, waiterVars,
                     crashed, joined>>

\* The list was emptied behind the iterator, which now runs past its end.
RunAstray(u) ==
  /\ pc[u] = "notifying"
  /\ pos[u] > Len(observers[at[u]]) + 1
  /\ crashed' = TRUE
  /\ UNCHANGED <<convVars, observers, lockVars, updaterVars, observerVars,
                 waiterVars, joined>>

-----------------------------------------------------------------------------
(* Observers come and go                                                   *)

Attached(c, o) == \E i \in DOMAIN observers[c] : observers[c][i] = o

\* The messages of c whose notification no longer reaches a new observer.
Notified(c) == IF lock[c] = Free THEN sent[c] ELSE sent[c] - 1

\* Slip: an observer may be added twice.
AddObserverAgain(c, o) ==
  /\ observerLock[c] = Free
  /\ Len(observers[c]) < 2
  /\ observers' = [observers EXCEPT ![c] = Append(@, o)]
  /\ joined' = [joined EXCEPT ![c][o] = Notified(c)]
  /\ UNCHANGED <<convVars, lockVars, updaterVars, observerVars, waiterVars,
                 crashed>>

AddObserver(c, o) ==
  /\ observerLock[c] = Free
  /\ ~Attached(c, o)
  /\ observers' = [observers EXCEPT ![c] = Append(@, o)]
  /\ joined' = [joined EXCEPT ![c][o] = Notified(c)]
  /\ UNCHANGED <<convVars, lockVars, updaterVars, observerVars, waiterVars,
                 crashed>>

\* Without its i-th element.
Without(s, i) ==
  [j \in 1 .. Len(s) - 1 |-> IF j < i THEN s[j] ELSE s[j + 1]]

\* Slip: removeObserver without mObserverMutex.
RemoveObserverUnlocked(c, o) ==
  /\ \E i \in DOMAIN observers[c] :
       /\ observers[c][i] = o
       /\ observers' = [observers EXCEPT ![c] = Without(@, i)]
  /\ UNCHANGED <<convVars, lockVars, updaterVars, observerVars, waiterVars,
                 crashed, joined>>

RemoveObserver(c, o) ==
  /\ observerLock[c] = Free
  /\ \E i \in DOMAIN observers[c] :
       /\ observers[c][i] = o
       /\ \A j \in 1 .. i - 1 : observers[c][j] # o
       /\ observers' = [observers EXCEPT ![c] = Without(@, i)]
  /\ UNCHANGED <<convVars, lockVars, updaterVars, observerVars, waiterVars,
                 crashed, joined>>

\* ConversationMonitor::cleanup detaches the observers of a conversation
\* that has ended, holding the monitor's mutex and no other.
Cleanup(c) ==
  /\ monitorLock = Free
  /\ HasEnded(c)
  /\ observers' = [observers EXCEPT ![c] = <<>>]
  /\ UNCHANGED <<convVars, lockVars, updaterVars, observerVars, waiterVars,
                 crashed, joined>>

-----------------------------------------------------------------------------
(* Observing                                                               *)

\* Slip: the last event stays in the queue.
GetNextEventButLast(o) ==
  /\ Len(queue[o]) > 1
  /\ queue' = [queue EXCEPT ![o] = Tail(@)]
  /\ delivered' = [delivered EXCEPT ![o] = Append(@, Head(queue[o]))]

\* getNextEvent
GetNextEvent(o) ==
  /\ queue[o] # <<>>
  /\ queue' = [queue EXCEPT ![o] = Tail(@)]
  /\ delivered' = [delivered EXCEPT ![o] = Append(@, Head(queue[o]))]

\* Method B: hasEvents() && getNextEvent(event)
Poll(o) ==
  /\ GetNextEvent(o)
  /\ UNCHANGED <<convVars, observers, lockVars, updaterVars, waiterVars,
                 crashed, joined>>

\* Method A: waitForNextEvent(), from the call to the loop ...
BeginWait(w) ==
  /\ wpc[w] = "idle"
  /\ wpc' = [wpc EXCEPT ![w] = "testing"]
  /\ UNCHANGED <<convVars, observers, lockVars, updaterVars, observerVars,
                 returned, crashed, joined>>

\* ... while(!hasEvents()) ...
TestEvents(w) ==
  /\ wpc[w] = "testing"
  /\ wpc' = [wpc EXCEPT ![w] = IF queue[Watches[w]] = <<>> THEN "entering"
                                                          ELSE "taking"]
  /\ UNCHANGED <<convVars, observers, lockVars, updaterVars, observerVars,
                 returned, crashed, joined>>

\* ... mCondition.wait(lock), with a mutex only this call knows ...
FallAsleep(w) ==
  /\ wpc[w] = "entering"
  /\ wpc' = [wpc EXCEPT ![w] = "asleep"]
  /\ UNCHANGED <<convVars, observers, lockVars, updaterVars, observerVars,
                 returned, crashed, joined>>

\* Slip: the queue is not tested again.
WakeAndTake(w) ==
  /\ wpc[w] = "asleep"
  /\ wpc' = [wpc EXCEPT ![w] = "taking"]
  /\ UNCHANGED <<convVars, observers, lockVars, updaterVars, observerVars,
                 returned, crashed, joined>>

\* ... from which it may wake without any notification ...
WakeSpuriously(w) ==
  /\ wpc[w] = "asleep"
  /\ wpc' = [wpc EXCEPT ![w] = "testing"]
  /\ UNCHANGED <<convVars, observers, lockVars, updaterVars, observerVars,
                 returned, crashed, joined>>

\* ... and assert(getNextEvent(event)); return event;
Take(w) ==
  LET o == Watches[w]
  IN  /\ wpc[w] = "taking"
      /\ wpc' = [wpc EXCEPT ![w] = "idle"]
      /\ IF NDEBUG
         THEN /\ returned' = [returned EXCEPT ![w] = UnknownEvent]
              /\ UNCHANGED <<observerVars, crashed>>
         ELSE \/ /\ GetNextEvent(o)
                 /\ returned' = [returned EXCEPT ![w] = Head(queue[o])]
                 /\ UNCHANGED crashed
              \/ /\ queue[o] = <<>>
                 /\ crashed' = TRUE
                 /\ UNCHANGED <<observerVars, returned>>
      /\ UNCHANGED <<convVars, observers, lockVars, updaterVars, joined>>

-----------------------------------------------------------------------------
UpdaterStep(u) ==
  \/ \E c \in Conv : Check(u, c)
  \/ \E c \in Conv, type \in NotifiedType : Accept(u, c, type)
  \/ Reject(u)
  \/ BeginNotify(u)
  \/ Push(u)
  \/ FinishNotify(u)
  \/ RunAstray(u)

ObserverListStep ==
  \E c \in Conv :
    \/ \E o \in Observer : AddObserver(c, o) \/ RemoveObserver(c, o)
    \/ Cleanup(c)

WaiterStep(w) ==
  \/ BeginWait(w)
  \/ TestEvents(w)
  \/ FallAsleep(w)
  \/ WakeSpuriously(w)
  \/ Take(w)

\* A process that has crashed does nothing any more.
Next ==
  /\ ~crashed
  /\ \/ \E u \in Updater : UpdaterStep(u)
     \/ ObserverListStep
     \/ \E o \in Polled : Poll(o)
     \/ \E w \in Waiter : WaiterStep(w)

Spec == Init /\ [][Next]_vars

\* The operating system runs every thread that can take its next step.  It
\* makes nobody begin an update or a wait, and promises no spurious wake-up.
Fairness ==
  /\ \A u \in Updater :
       WF_vars(~crashed /\ (Reject(u) \/ BeginNotify(u) \/ Push(u)
                              \/ FinishNotify(u) \/ RunAstray(u)))
  /\ \A w \in Waiter :
       WF_vars(~crashed /\ (TestEvents(w) \/ FallAsleep(w) \/ Take(w)))

FairSpec == Spec /\ Fairness

\* The threads that poll never stop doing so (Method B in a loop).
PolledSpec == FairSpec /\ \A o \in Polled : WF_vars(~crashed /\ Poll(o))
-----------------------------------------------------------------------------
(* Safety                                                                  *)

\* All events an observer was ever handed, oldest first.
History(o) == delivered[o] \o queue[o]

\* However updates and observation interleave, an observer gets the events
\* of one conversation in the order its messages were accepted, each at most
\* once.
InOrder ==
  \A o \in Observer : \A i, j \in DOMAIN History(o) :
    (i < j /\ History(o)[i].conv = History(o)[j].conv)
      => History(o)[i].n < History(o)[j].n

\* The number of the last message of c that has reached o.
Reached(c, o) ==
  IF \E u \in Updater :
       /\ pc[u] = "notifying"
       /\ at[u] = c
       /\ \E i \in DOMAIN observers[c] : i < pos[u] /\ observers[c][i] = o
  THEN sent[c]
  ELSE Notified(c)

\* An observer that is attached to a conversation has been handed every
\* message notified since it was added, whenever that was.
NothingLost ==
  \A c \in Conv, o \in Observer :
    Attached(c, o) =>
      {e.n : e \in {History(o)[i] : i \in {j \in DOMAIN History(o) :
                                           /\ History(o)[j].conv = c
                                           /\ History(o)[j].n > joined[c][o]}}}
        = joined[c][o] + 1 .. Reached(c, o)

\* Observers are told first and the status is set afterwards.  But once the
\* update is over, whoever was handed the last event of a conversation, however
\* long ago and whatever the other threads did since, finds the status that
\* event led to.
StatusSettles ==
  \A o \in Observer : \A i \in DOMAIN History(o) :
    LET e == History(o)[i]
    IN  e.n = sent[e.conv] /\ lock[e.conv] = Free
          => status[e.conv] = StatusAfter(e.type)

\* No assertion fails and no iterator dangles, as long as an observer is
\* used by one waiting thread and polled by none, and every update is made
\* through the monitor.
NoCrash == ~crashed

\* Seen by getStatus() and through the events, a conversation goes through
\* the lifecycle that whole updates give it in module Conversation.
Lifecycle ==
  INSTANCE ConversationLifecycle
    WITH Handle <- Conv, EndIsFinal <- ~Reopens, event <- announced

LifecycleSpec == Lifecycle!Spec

-----------------------------------------------------------------------------
(* Liveness                                                                *)

\* No update holds a conversation for ever: the mutexes of the monitor, the
\* conversation and its observer list never wait for each other in a circle.
UpdatesEnd ==
  \A c \in Conv, u \in Updater : lock[c] = u ~> lock[c] # u \/ crashed

\* A thread that polls an observer gets everything.
PollingGetsAll ==
  \A o \in Polled : \A n \in 1 .. MaxMessages : \A c \in Conv :
    (\E i \in DOMAIN queue[o] : queue[o][i].conv = c /\ queue[o][i].n = n)
      ~> \/ crashed
         \/ \E i \in DOMAIN delivered[o] :
              delivered[o][i].conv = c /\ delivered[o][i].n = n

-----------------------------------------------------------------------------
(* What the documentation says and the code does not do                    *)

\* "Block this thread until a new message arrives \return Next message as
\* soon as it arrives" (conversation.h): nobody sleeps on for ever while
\* there is an event for him.
SleeperWakes ==
  \A w \in Waiter :
    (wpc[w] = "asleep" /\ queue[Watches[w]] # <<>>) ~> wpc[w] # "asleep"

\* "\return Next message" (conversation.h): what waitForNextEvent returns is
\* an event that was notified.
ReturnsNextMessage == \A w \in Waiter : returned[w] # UnknownEvent

\* "Status of the observable - reflecting the sequence of notifications"
\* (conversation.h): who has just received the last event of a conversation
\* reads the status it led to.
StatusReflectsNotifications ==
  \A o \in Observer : \A i \in DOMAIN delivered[o] :
    LET e == delivered[o][i]
    IN  e.n = sent[e.conv] => status[e.conv] = StatusAfter(e.type)

\* "Protect adding and removal of observers" (conversation.h, of
\* mObserverMutex): the list does not change under the loop in notify().
IteratorValid ==
  \A u \in Updater :
    pc[u] = "notifying" => pos[u] <= Len(observers[at[u]]) + 1
=============================================================================
