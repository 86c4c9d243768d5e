------------------------- MODULE NotificationProofs -------------------------
(***************************************************************************)
(* What holds of Notification for any number of threads, conversations,    *)
(* observers and messages: type correctness, the order of events, the      *)
(* implementation of ConversationLifecycle, that every event reaches whom  *)
(* it should, and that the process survives its own observers.             *)
(***************************************************************************)
EXTENDS Notification, TLAPS

-----------------------------------------------------------------------------
(* Sequences                                                               *)

\* Taking the head of the queue moves it to the end of what was delivered.
LEMMA TakeHead ==
  ASSUME NEW S, NEW d \in Seq(S), NEW q \in Seq(S), q # <<>>
  PROVE  /\ Append(d, Head(q)) \o Tail(q) = d \o q
         /\ Append(d, Head(q)) \in Seq(S)
         /\ Tail(q) \in Seq(S)
OBVIOUS

\* An event pushed on the queue is the last of the history.
LEMMA PushLast ==
  ASSUME NEW S, NEW d \in Seq(S), NEW q \in Seq(S), NEW e \in S
  PROVE  d \o Append(q, e) = Append(d \o q, e)
OBVIOUS

\* Without removes one element and keeps the type.
LEMMA WithoutType ==
  ASSUME NEW S, NEW s \in Seq(S), NEW i \in DOMAIN s
  PROVE  Without(s, i) \in Seq(S)
BY DEF Without

-----------------------------------------------------------------------------
(* The inductive invariant.  The mutexes say which thread may be in the    *)
(* middle of a notification; an observer that the thread has not reached   *)
(* yet has seen nothing of the message it announces.                       *)

Busy(u) == pc[u] \in {"accepted", "notifying"}

Locks ==
  /\ \A u \in Updater : Busy(u) =>
       /\ lock[at[u]] = u
       /\ class[at[u]] \in NotifiedType
       /\ sent[at[u]] > 0
  /\ \A u \in Updater : pc[u] = "notifying" =>
       /\ observerLock[at[u]] = u
       /\ pos[u] \in Nat \ {0}
  /\ \A c \in Conv, u \in Updater : lock[c] = u => Busy(u) /\ at[u] = c
  /\ \A c \in Conv, u \in Updater : observerLock[c] = u =>
       pc[u] = "notifying" /\ at[u] = c

\* addObserver adds nobody twice.
NoDuplicates ==
  \A c \in Conv : \A i, j \in DOMAIN observers[c] :
    observers[c][i] = observers[c][j] => i = j

\* Nobody has seen a message from the future.
NotAhead ==
  \A o \in Observer : \A i \in DOMAIN History(o) :
    History(o)[i].n <= sent[History(o)[i].conv]

\* The observers the iterator of u has not passed yet.
Ahead(u, o) ==
  \/ pc[u] = "accepted"
  \/ /\ pc[u] = "notifying"
     /\ \E k \in DOMAIN observers[at[u]] :
          k >= pos[u] /\ observers[at[u]][k] = o

\* They have not seen the message that u announces.
Pending ==
  \A u \in Updater, o \in Observer : Ahead(u, o) =>
    \A i \in DOMAIN History(o) :
      History(o)[i].conv = at[u] => History(o)[i].n < sent[at[u]]

IInv == TypeOK /\ Locks /\ NoDuplicates /\ NotAhead /\ Pending /\ InOrder

-----------------------------------------------------------------------------
(* Type correctness                                                        *)

LEMMA StatusType ==
  ASSUME NEW type \in NotifiedType \cup {None}
  PROVE  StatusAfter(type) \in Status
BY DEF StatusAfter, NotifiedType, None, Status

LEMMA InitInv == ASSUME Init PROVE IInv
<1>1. TypeOK
  <2>1. /\ sent \in [Conv -> Nat]
        /\ class \in [Conv -> NotifiedType \cup {None}]
        /\ status \in [Conv -> Status]
        /\ observers \in [Conv -> Seq(Observer)]
        /\ announced \in [Conv -> NotifiedType \cup {None}]
    BY DEF Init, Status
  <2>2. /\ lock \in [Conv -> Updater \cup {Free}]
        /\ observerLock \in [Conv -> Updater \cup {Free}]
        /\ monitorLock \in Updater \cup {Free}
        /\ pc \in [Updater -> {"idle", "checked", "accepted", "notifying"}]
        /\ at \in [Updater -> Conv]
        /\ pos \in [Updater -> Nat]
    BY DEF Init
  <2>3. /\ queue \in [Observer -> Seq(NotifiedEvent)]
        /\ delivered \in [Observer -> Seq(NotifiedEvent)]
        /\ joined \in [Conv -> [Observer -> Nat]]
    BY DEF Init
  <2>4. /\ wpc \in [Waiter -> {"idle", "testing", "entering", "asleep", "taking"}]
        /\ returned \in [Waiter -> NotifiedEvent \cup {UnknownEvent, NothingYet}]
        /\ crashed \in BOOLEAN
    BY DEF Init
  <2> QED BY <2>1, <2>2, <2>3, <2>4 DEF TypeOK
<1>2. \A o \in Observer : History(o) = <<>>
  BY DEF Init, History
<1>3. Locks
  BY NotificationAssumption DEF Init, Locks, Busy
<1>4. NoDuplicates
  BY DEF Init, NoDuplicates
<1>5. NotAhead /\ Pending /\ InOrder
  BY <1>2 DEF NotAhead, Pending, InOrder
<1> QED BY <1>1, <1>3, <1>4, <1>5 DEF IInv

\* A waiting thread changes nothing but its own state and the queue.
LEMMA TypeUpdater ==
  ASSUME TypeOK, Locks, NEW u \in Updater, UpdaterStep(u) PROVE TypeOK'
<1> USE NotificationAssumption
<1>1. ASSUME NEW c \in Conv, Check(u, c) PROVE TypeOK'
  BY <1>1 DEF Check, TypeOK, convVars, observerVars, waiterVars
<1>2. ASSUME NEW c \in Conv, NEW type \in NotifiedType, Accept(u, c, type)
      PROVE TypeOK'
  BY <1>2 DEF Accept, TypeOK, observerVars, waiterVars
<1>3. CASE Reject(u)
  BY <1>3 DEF Reject, TypeOK, convVars, observerVars, waiterVars
<1>4. CASE BeginNotify(u)
  BY <1>4 DEF BeginNotify, TypeOK, convVars, observerVars, waiterVars
<1>5. CASE Push(u)
  <2> DEFINE c == at[u]
             o == observers[c][pos[u]]
  <2>1. c \in Conv /\ o \in Observer
    BY <1>5 DEF Push, TypeOK, Locks
  <2>2. Current(c) \in NotifiedEvent
    BY <1>5, <2>1 DEF Push, TypeOK, Locks, Busy, Current, NotifiedEvent
  <2>3. queue' \in [Observer -> Seq(NotifiedEvent)]
    BY <1>5, <2>1, <2>2 DEF Push, TypeOK
  <2>4. wpc' \in [Waiter -> {"idle", "testing", "entering", "asleep", "taking"}]
    BY <1>5 DEF Push, TypeOK, Woken
  <2>5. pos' \in [Updater -> Nat]
    BY <1>5 DEF Push, TypeOK
  <2> QED BY <1>5, <2>3, <2>4, <2>5 DEF Push, TypeOK, convVars, lockVars
<1>6. CASE FinishNotify(u)
  <2> DEFINE c == at[u]
  <2>1. c \in Conv /\ class[c] \in NotifiedType \cup {None}
    BY DEF TypeOK
  <2>2. StatusAfter(class[c]) \in Status
    BY <2>1, StatusType
  <2>3. status' \in [Conv -> Status]
    BY <1>6, <2>1, <2>2 DEF FinishNotify, TypeOK
  <2>4. announced' \in [Conv -> NotifiedType \cup {None}]
    BY <1>6, <2>1 DEF FinishNotify, TypeOK
  <2> QED BY <1>6, <2>1, <2>3, <2>4
          DEF FinishNotify, TypeOK, observerVars, waiterVars
<1>7. CASE RunAstray(u)
  BY <1>7
  DEF RunAstray, TypeOK, convVars, lockVars, updaterVars, observerVars,
      waiterVars
<1> QED BY <1>1, <1>2, <1>3, <1>4, <1>5, <1>6, <1>7 DEF UpdaterStep

LEMMA TypeObservers ==
  ASSUME TypeOK, Locks, ObserverListStep PROVE TypeOK'
<1>1. ASSUME NEW c \in Conv, NEW o \in Observer, AddObserver(c, o)
      PROVE  TypeOK'
  <2>1. Notified(c) \in Nat
    BY DEF Notified, TypeOK, Locks
  <2>2. observers' \in [Conv -> Seq(Observer)]
    BY <1>1 DEF AddObserver, TypeOK
  <2>3. joined' \in [Conv -> [Observer -> Nat]]
    BY <1>1, <2>1 DEF AddObserver, TypeOK
  <2> QED BY <1>1, <2>2, <2>3
          DEF AddObserver, TypeOK, convVars, lockVars, updaterVars,
              observerVars, waiterVars
<1>2. ASSUME NEW c \in Conv, NEW o \in Observer, RemoveObserver(c, o)
      PROVE  TypeOK'
  <2>1. observers' \in [Conv -> Seq(Observer)]
    BY <1>2, WithoutType DEF RemoveObserver, TypeOK
  <2> QED BY <1>2, <2>1
          DEF RemoveObserver, TypeOK, convVars, lockVars, updaterVars,
              observerVars, waiterVars
<1>3. ASSUME NEW c \in Conv, Cleanup(c) PROVE TypeOK'
  BY <1>3 DEF Cleanup, TypeOK, convVars, lockVars, updaterVars, observerVars,
              waiterVars
<1> QED BY <1>1, <1>2, <1>3 DEF ObserverListStep

LEMMA TypeObserving ==
  ASSUME TypeOK,
         \/ \E o \in Polled : Poll(o)
         \/ \E w \in Waiter : WaiterStep(w)
  PROVE  TypeOK'
<1> USE NotificationAssumption
<1>1. ASSUME NEW o \in Observer, GetNextEvent(o)
      PROVE  /\ queue' \in [Observer -> Seq(NotifiedEvent)]
             /\ delivered' \in [Observer -> Seq(NotifiedEvent)]
             /\ Head(queue[o]) \in NotifiedEvent
  BY <1>1, TakeHead DEF GetNextEvent, TypeOK
<1>2. ASSUME NEW o \in Polled, Poll(o) PROVE TypeOK'
  BY <1>1, <1>2 DEF Poll, TypeOK, convVars, lockVars, updaterVars, waiterVars
<1>3. ASSUME NEW w \in Waiter, BeginWait(w) \/ TestEvents(w) \/ FallAsleep(w)
                                 \/ WakeSpuriously(w)
      PROVE  TypeOK'
  BY <1>3 DEF BeginWait, TestEvents, FallAsleep, WakeSpuriously, TypeOK,
              convVars, lockVars, updaterVars, observerVars
<1>4. ASSUME NEW w \in Waiter, Take(w) PROVE TypeOK'
  <2>1. Watches[w] \in Observer
    OBVIOUS
  <2>2. CASE NDEBUG
    BY <1>4, <2>2 DEF Take, TypeOK, convVars, lockVars, updaterVars, observerVars
  <2>3. CASE ~NDEBUG /\ queue[Watches[w]] # <<>>
    BY <1>1, <1>4, <2>1, <2>3
    DEF Take, TypeOK, convVars, lockVars, updaterVars, observerVars
  <2>4. CASE ~NDEBUG /\ queue[Watches[w]] = <<>>
    BY <1>4, <2>1, <2>4
    DEF Take, GetNextEvent, TypeOK, convVars, lockVars, updaterVars,
        observerVars
  <2> QED BY <2>2, <2>3, <2>4
<1> QED BY <1>2, <1>3, <1>4 DEF WaiterStep

-----------------------------------------------------------------------------
(* Observing.  Nothing that observers do disturbs the history of events or  *)
(* the notification in progress.                                           *)

LEMMA Quiet ==
  ASSUME Locks, NoDuplicates, NotAhead, Pending, InOrder,
         UNCHANGED <<sent, class, observers, lock, observerLock, pc, at, pos>>,
         \A o \in Observer : History(o)' = History(o)
  PROVE  Locks' /\ NoDuplicates' /\ NotAhead' /\ Pending' /\ InOrder'
<1>1. Locks' /\ NoDuplicates'
  BY DEF Locks, Busy, NoDuplicates
<1>2. NotAhead' /\ InOrder'
  BY DEF NotAhead, InOrder
<1>3. \A u \in Updater, o \in Observer : Ahead(u, o)' = Ahead(u, o)
  BY DEF Ahead
<1>4. Pending'
  BY <1>3 DEF Pending
<1> QED BY <1>1, <1>2, <1>4

\* An event that is taken off a queue stays in the history.
LEMMA Taking ==
  ASSUME TypeOK, NEW p \in Observer, GetNextEvent(p)
  PROVE  \A o \in Observer : History(o)' = History(o)
<1> SUFFICES ASSUME NEW o \in Observer PROVE History(o)' = History(o)
  OBVIOUS
<1>1. CASE o = p
  <2>1. /\ delivered[p] \in Seq(NotifiedEvent)
        /\ queue[p] \in Seq(NotifiedEvent)
        /\ queue[p] # <<>>
    BY DEF TypeOK, GetNextEvent
  <2>2. Append(delivered[p], Head(queue[p])) \o Tail(queue[p])
          = delivered[p] \o queue[p]
    BY <2>1, TakeHead
  <2>3. /\ delivered'[p] = Append(delivered[p], Head(queue[p]))
        /\ queue'[p] = Tail(queue[p])
    BY DEF GetNextEvent, TypeOK
  <2> QED BY <1>1, <2>2, <2>3 DEF History
<1>2. CASE o # p
  BY <1>2 DEF GetNextEvent, History, TypeOK
<1> QED BY <1>1, <1>2

LEMMA Observing ==
  ASSUME IInv,
         \/ \E o \in Polled : Poll(o)
         \/ \E w \in Waiter : WaiterStep(w)
  PROVE  Locks' /\ NoDuplicates' /\ NotAhead' /\ Pending' /\ InOrder'
<1>1. ASSUME NEW p \in Observer, GetNextEvent(p)
      PROVE  \A o \in Observer : History(o)' = History(o)
  BY <1>1, Taking DEF IInv
<1>2. \A o \in Observer : History(o)' = History(o)
  <2>1. ASSUME NEW o \in Polled, Poll(o)
        PROVE  \A p \in Observer : History(p)' = History(p)
    BY <1>1, <2>1, NotificationAssumption DEF Poll
  <2>2. ASSUME UNCHANGED observerVars
        PROVE  \A p \in Observer : History(p)' = History(p)
    BY <2>2 DEF observerVars, History
  <2>3. ASSUME NEW w \in Waiter, WaiterStep(w)
        PROVE  \A p \in Observer : History(p)' = History(p)
    <3>1. Watches[w] \in Observer
      BY NotificationAssumption
    <3>2. UNCHANGED observerVars \/ GetNextEvent(Watches[w])
      BY <2>3 DEF WaiterStep, BeginWait, TestEvents, FallAsleep,
                  WakeSpuriously, Take
    <3> QED BY <1>1, <2>2, <3>1, <3>2
  <2> QED BY <2>1, <2>3
<1>3. UNCHANGED <<sent, class, observers, lock, observerLock, pc, at, pos>>
  BY DEF Poll, WaiterStep, BeginWait, TestEvents, FallAsleep, WakeSpuriously,
         Take, convVars, lockVars, updaterVars
<1> QED BY <1>2, <1>3, Quiet DEF IInv

-----------------------------------------------------------------------------
(* Observers come and go.  While a conversation notifies, nobody but        *)
(* cleanup touches its list of observers, and cleanup only empties it.     *)

LEMMA ListChange ==
  ASSUME IInv, NEW c \in Conv,
         observers' = [observers EXCEPT ![c] = observers'[c]],
         \A i, j \in DOMAIN observers'[c] :
           observers'[c][i] = observers'[c][j] => i = j,
         observerLock[c] = Free \/ observers'[c] = <<>>,
         UNCHANGED <<sent, class, lock, observerLock, pc, at, pos, queue,
                     delivered>>
  PROVE  Locks' /\ NoDuplicates' /\ NotAhead' /\ Pending' /\ InOrder'
<1>1. \A o \in Observer : History(o)' = History(o)
  BY DEF History
<1>2. Locks'
  BY DEF IInv, Locks, Busy
<1>3. NoDuplicates'
  BY DEF IInv, NoDuplicates, TypeOK
<1>4. NotAhead' /\ InOrder'
  BY <1>1 DEF IInv, NotAhead, InOrder
<1>5. ASSUME NEW u \in Updater, NEW o \in Observer, Ahead(u, o)'
      PROVE  Ahead(u, o)
  <2>1. CASE pc[u] = "accepted"
    BY <2>1 DEF Ahead
  <2>2. CASE pc[u] = "notifying" /\ at[u] # c
    BY <1>5, <2>2 DEF Ahead, IInv, TypeOK
  <2>3. CASE pc[u] = "notifying" /\ at[u] = c
    <3>1. observerLock[c] # Free
      BY <2>3, NotificationAssumption DEF IInv, Locks
    <3> QED BY <1>5, <2>3, <3>1 DEF Ahead, IInv, TypeOK
  <2> QED BY <1>5, <2>1, <2>2, <2>3 DEF Ahead
<1>6. Pending'
  BY <1>1, <1>5 DEF IInv, Pending
<1> QED BY <1>2, <1>3, <1>4, <1>6

LEMMA ObserverList ==
  ASSUME IInv, ObserverListStep
  PROVE  Locks' /\ NoDuplicates' /\ NotAhead' /\ Pending' /\ InOrder'
<1>1. ASSUME NEW c \in Conv, NEW o \in Observer, AddObserver(c, o)
      PROVE  Locks' /\ NoDuplicates' /\ NotAhead' /\ Pending' /\ InOrder'
  <2>1. observers[c] \in Seq(Observer) /\ observers'[c] = Append(observers[c], o)
    BY <1>1 DEF AddObserver, IInv, TypeOK
  <2>2. \A i, j \in DOMAIN observers'[c] :
          observers'[c][i] = observers'[c][j] => i = j
    BY <1>1, <2>1 DEF AddObserver, Attached, IInv, NoDuplicates
  <2> QED BY <1>1, <2>1, <2>2, ListChange
          DEF AddObserver, convVars, lockVars, updaterVars, observerVars
<1>2. ASSUME NEW c \in Conv, NEW o \in Observer, RemoveObserver(c, o)
      PROVE  Locks' /\ NoDuplicates' /\ NotAhead' /\ Pending' /\ InOrder'
  <2>1. PICK k \in DOMAIN observers[c] :
          observers' = [observers EXCEPT ![c] = Without(observers[c], k)]
    BY <1>2 DEF RemoveObserver
  <2>2. observers[c] \in Seq(Observer) /\ observers'[c] = Without(observers[c], k)
    BY <2>1 DEF IInv, TypeOK
  <2>3. \A i, j \in DOMAIN observers'[c] :
          observers'[c][i] = observers'[c][j] => i = j
    <3>1. Len(observers[c]) \in Nat /\ DOMAIN observers[c] = 1 .. Len(observers[c])
      BY <2>2
    <3>2. DOMAIN observers'[c] = 1 .. Len(observers[c]) - 1
      BY <2>2 DEF Without
    <3>3. \A j \in DOMAIN observers'[c] :
            observers'[c][j] = observers[c][IF j < k THEN j ELSE j + 1]
      BY <2>2 DEF Without
    <3>4. \A i, j \in DOMAIN observers[c] :
            observers[c][i] = observers[c][j] => i = j
      BY DEF IInv, NoDuplicates
    <3>5. SUFFICES ASSUME NEW i \in DOMAIN observers'[c],
                          NEW j \in DOMAIN observers'[c],
                          observers'[c][i] = observers'[c][j]
                   PROVE  i = j
      OBVIOUS
    <3> DEFINE old(m) == IF m < k THEN m ELSE m + 1
    <3>6. k \in Int /\ i \in Int /\ j \in Int
      BY <3>1, <3>2
    <3>7. old(i) \in DOMAIN observers[c] /\ old(j) \in DOMAIN observers[c]
      BY <3>1, <3>2, <3>6
    <3>8. observers[c][old(i)] = observers[c][old(j)]
      BY <3>3, <3>5
    <3>9. old(i) = old(j)
      BY <3>4, <3>7, <3>8
    <3> QED BY <3>6, <3>9
  <2> QED BY <1>2, <2>1, <2>2, <2>3, ListChange
          DEF RemoveObserver, convVars, lockVars, updaterVars, observerVars
<1>3. ASSUME NEW c \in Conv, Cleanup(c)
      PROVE  Locks' /\ NoDuplicates' /\ NotAhead' /\ Pending' /\ InOrder'
  <2>1. observers'[c] = <<>>
    BY <1>3 DEF Cleanup, IInv, TypeOK
  <2>2. observers' = [observers EXCEPT ![c] = observers'[c]]
    BY <1>3, <2>1 DEF Cleanup
  <2>3. \A i, j \in DOMAIN observers'[c] :
          observers'[c][i] = observers'[c][j] => i = j
    BY <2>1
  <2> QED BY <1>3, <2>1, <2>2, <2>3, ListChange
          DEF Cleanup, convVars, lockVars, updaterVars, observerVars
<1> QED BY <1>1, <1>2, <1>3 DEF ObserverListStep

-----------------------------------------------------------------------------
(* Updating                                                                *)

LEMMA HistoryType ==
  ASSUME TypeOK, NEW o \in Observer
  PROVE  /\ History(o) \in Seq(NotifiedEvent)
         /\ Len(History(o)) \in Nat
         /\ DOMAIN History(o) = 1 .. Len(History(o))
         /\ \A i \in DOMAIN History(o) :
              /\ History(o)[i] \in NotifiedEvent
              /\ History(o)[i].n \in Nat
              /\ History(o)[i].conv \in Conv
<1>1. History(o) \in Seq(NotifiedEvent)
  BY DEF History, TypeOK
<1>2. \A i \in DOMAIN History(o) : History(o)[i] \in NotifiedEvent
  BY <1>1
<1> QED BY <1>1, <1>2 DEF NotifiedEvent

\* An event pushed on the queue of p becomes the last of its history.
LEMMA Pushed ==
  ASSUME TypeOK, NEW p \in Observer, NEW e \in NotifiedEvent,
         queue' = [queue EXCEPT ![p] = Append(queue[p], e)],
         UNCHANGED delivered
  PROVE  /\ \A o \in Observer : o # p => History(o)' = History(o)
         /\ \A i \in DOMAIN History(p)' :
              \/ i \in DOMAIN History(p) /\ History(p)'[i] = History(p)[i]
              \/ i = Len(History(p)) + 1 /\ History(p)'[i] = e
<1>1. \A o \in Observer : o # p => History(o)' = History(o)
  BY DEF TypeOK, History
<1>2. History(p)' = Append(History(p), e)
  <2>1. queue[p] \in Seq(NotifiedEvent) /\ delivered[p] \in Seq(NotifiedEvent)
    BY DEF TypeOK
  <2>2. queue'[p] = Append(queue[p], e) /\ delivered'[p] = delivered[p]
    BY DEF TypeOK
  <2>3. delivered[p] \o Append(queue[p], e) = Append(delivered[p] \o queue[p], e)
    <3>1. \A d, q \in Seq(NotifiedEvent) : d \o Append(q, e) = Append(d \o q, e)
      BY PushLast
    <3> QED BY <2>1, <3>1
  <2> QED BY <2>2, <2>3 DEF History
<1>3. /\ History(p) \in Seq(NotifiedEvent)
      /\ Len(History(p)) \in Nat
      /\ DOMAIN History(p) = 1 .. Len(History(p))
  BY HistoryType
<1> QED BY <1>1, <1>2, <1>3

\* The event e about its conversation c is pushed on the queue of p, which
\* has not seen the message it is about.
LEMMA Pushing ==
  ASSUME IInv, NEW u \in Updater, NEW c \in Conv, NEW p \in Observer,
         NEW e \in NotifiedEvent,
         at[u] = c, pc[u] = "notifying", pos[u] \in DOMAIN observers[c],
         p = observers[c][pos[u]], e.conv = c, e.n = sent[c],
         queue' = [queue EXCEPT ![p] = Append(queue[p], e)],
         pos' = [pos EXCEPT ![u] = pos[u] + 1],
         UNCHANGED <<delivered, sent, class, observers, lock, observerLock,
                     pc, at>>
  PROVE  Locks' /\ NoDuplicates' /\ NotAhead' /\ Pending' /\ InOrder'
<1>1. \A o \in Observer : o # p => History(o)' = History(o)
  BY Pushed DEF IInv
<1>3. /\ History(p) \in Seq(NotifiedEvent)
      /\ Len(History(p)) \in Nat
      /\ DOMAIN History(p) = 1 .. Len(History(p))
      /\ \A i \in DOMAIN History(p)' :
           \/ i \in DOMAIN History(p) /\ History(p)'[i] = History(p)[i]
           \/ i = Len(History(p)) + 1 /\ History(p)'[i] = e
  BY Pushed, HistoryType DEF IInv
<1>4. Locks' /\ NoDuplicates'
  BY DEF IInv, TypeOK, Locks, Busy, NoDuplicates
<1>5. NotAhead'
  <2>1. sent[c] \in Nat
    BY DEF IInv, TypeOK
  <2>2. ASSUME NEW o \in Observer, NEW i \in DOMAIN History(o)'
        PROVE  History(o)'[i].n <= sent[History(o)'[i].conv]
    <3>1. CASE o # p
      BY <1>1, <3>1 DEF IInv, NotAhead
    <3>2. CASE o = p
      BY <1>3, <2>1, <2>2, <3>2 DEF IInv, NotAhead
    <3> QED BY <3>1, <3>2
  <2> QED BY <2>2 DEF NotAhead
<1>6. \A i \in DOMAIN History(p) :
        History(p)[i].conv = c => History(p)[i].n < sent[c]
  <2>1. pos[u] \in Nat /\ pos[u] >= pos[u]
    BY DEF IInv, TypeOK
  <2>2. Ahead(u, p)
    BY <2>1 DEF Ahead
  <2> QED BY <2>2 DEF IInv, Pending
<1>7. InOrder'
  <2> SUFFICES ASSUME NEW o \in Observer,
                      NEW i \in DOMAIN History(o)', NEW j \in DOMAIN History(o)',
                      i < j, History(o)'[i].conv = History(o)'[j].conv
               PROVE  History(o)'[i].n < History(o)'[j].n
    BY DEF InOrder
  <2>1. CASE o # p
    BY <1>1, <2>1 DEF IInv, InOrder
  <2>2. CASE o = p
    <3>1. CASE i \in DOMAIN History(p) /\ j \in DOMAIN History(p)
      <4>1. /\ History(p)'[i] = History(p)[i]
            /\ History(p)'[j] = History(p)[j]
        BY <1>3, <2>2, <3>1
      <4> QED BY <2>2, <3>1, <4>1 DEF IInv, InOrder
    <3>2. CASE i \in DOMAIN History(p) /\ j = Len(History(p)) + 1
      <4>1. /\ History(p)'[i] = History(p)[i]
            /\ History(p)'[j] = e
        BY <1>3, <2>2, <3>2
      <4> QED BY <1>6, <2>2, <3>2, <4>1
    <3> QED BY <1>3, <2>2, <3>1, <3>2
  <2> QED BY <2>1, <2>2
<1>8. ASSUME NEW v \in Updater, NEW o \in Observer, Ahead(v, o)'
       PROVE  Ahead(v, o) /\ (o = p => at[v] # c)
  <2>1. CASE v # u
    <3>1. Ahead(v, o)
      BY <1>8, <2>1 DEF Ahead, IInv, TypeOK
    <3>2. at[v] # c
      BY <2>1, <3>1 DEF Ahead, IInv, Locks, Busy
    <3> QED BY <3>1, <3>2
  <2>2. CASE v = u
    <3>1. PICK k \in DOMAIN observers[c] :
            k >= pos[u] + 1 /\ observers[c][k] = o
      BY <1>8, <2>2 DEF Ahead, IInv, TypeOK
    <3>2. pos[u] \in Nat /\ k \in Nat
      <4>1. observers[c] \in Seq(Observer) /\ pos[u] \in Nat
        BY DEF IInv, TypeOK
      <4>2. \A i \in DOMAIN observers[c] : i \in Nat
        BY <4>1
      <4> QED BY <4>1, <4>2
    <3>3. o # p
      BY <3>1, <3>2 DEF IInv, NoDuplicates
    <3>4. k >= pos[u]
      BY <3>1, <3>2
    <3>5. Ahead(u, o)
      BY <3>1, <3>4 DEF Ahead
    <3> QED BY <2>2, <3>3, <3>5
  <2> QED BY <2>1, <2>2
<1>9. Pending'
  <2>1. ASSUME NEW v \in Updater, NEW o \in Observer, Ahead(v, o)',
               NEW i \in DOMAIN History(o)',
               History(o)'[i].conv = at[v]
        PROVE  History(o)'[i].n < sent[at[v]]
    <3>1. Ahead(v, o) /\ (o = p => at[v] # c)
      BY <1>8, <2>1
    <3>2. CASE o # p
      BY <1>1, <2>1, <3>1, <3>2 DEF IInv, Pending
    <3>3. CASE o = p
      <4>1. i \in DOMAIN History(p) /\ History(p)'[i] = History(p)[i]
        BY <1>3, <2>1, <3>1, <3>3
      <4> QED BY <2>1, <3>1, <3>3, <4>1 DEF IInv, Pending
    <3> QED BY <3>2, <3>3
  <2> QED BY <2>1 DEF Pending
<1> QED BY <1>4, <1>5, <1>7, <1>9

\* The steps before and after the loop in notify() hand out no event.
LEMMA Updating ==
  ASSUME IInv, NEW u \in Updater, UpdaterStep(u)
  PROVE  Locks' /\ NoDuplicates' /\ NotAhead' /\ Pending' /\ InOrder'
<1> USE NotificationAssumption
<1>1. ASSUME UNCHANGED observerVars
      PROVE  \A o \in Observer : History(o)' = History(o)
  BY <1>1 DEF observerVars, History
<1>2. ASSUME NEW c \in Conv, Check(u, c)
      PROVE  Locks' /\ NoDuplicates' /\ NotAhead' /\ Pending' /\ InOrder'
  <2>1. \A o \in Observer : History(o)' = History(o)
    BY <1>1, <1>2 DEF Check
  <2>2. Locks' /\ NoDuplicates'
    BY <1>2 DEF Check, IInv, TypeOK, Locks, Busy, NoDuplicates, convVars
  <2>3. NotAhead' /\ InOrder'
    BY <1>2, <2>1 DEF Check, IInv, NotAhead, InOrder, convVars
  <2>4. \A v \in Updater, o \in Observer :
          Ahead(v, o)' => Ahead(v, o) /\ at'[v] = at[v]
    BY <1>2 DEF Check, IInv, TypeOK, Ahead
  <2>5. Pending'
    BY <1>2, <2>1, <2>4 DEF Check, IInv, Pending, convVars
  <2> QED BY <2>2, <2>3, <2>5
<1>3. ASSUME NEW c \in Conv, NEW type \in NotifiedType, Accept(u, c, type)
      PROVE  Locks' /\ NoDuplicates' /\ NotAhead' /\ Pending' /\ InOrder'
  <2>1. \A o \in Observer : History(o)' = History(o)
    BY <1>1, <1>3 DEF Accept
  <2>2. /\ sent' = [sent EXCEPT ![c] = sent[c] + 1]
        /\ pc' = [pc EXCEPT ![u] = "accepted"]
        /\ at' = [at EXCEPT ![u] = c]
        /\ lock[c] = Free
        /\ UNCHANGED <<observers, pos, observerLock>>
    BY <1>3 DEF Accept
  <2>3. \A v \in Updater : Busy(v) => at[v] # c
    BY <2>2 DEF IInv, Locks
  <2>4. Locks' /\ NoDuplicates'
    BY <1>3, <2>3 DEF Accept, IInv, TypeOK, Locks, Busy, NoDuplicates
  <2>5. \A o \in Observer : \A i \in DOMAIN History(o) :
          /\ History(o)[i].n \in Nat
          /\ History(o)[i].conv \in Conv
    BY HistoryType DEF IInv
  <2>6. NotAhead' /\ InOrder'
    <3>1. \A d \in Conv : sent[d] \in Nat /\ sent'[d] \in Nat /\ sent[d] <= sent'[d]
      BY <2>2 DEF IInv, TypeOK
    <3>2. NotAhead'
      BY <2>1, <2>5, <3>1 DEF IInv, NotAhead
    <3> QED BY <2>1, <3>2 DEF IInv, InOrder
  <2>7. \A v \in Updater, o \in Observer : Ahead(v, o)' =>
          (v # u => Ahead(v, o) /\ at'[v] = at[v] /\ at[v] # c)
    <3>1. ASSUME NEW v \in Updater, NEW o \in Observer, Ahead(v, o)', v # u
          PROVE  Ahead(v, o) /\ at'[v] = at[v] /\ at[v] # c
      <4>1. at'[v] = at[v] /\ pc'[v] = pc[v]
        BY <2>2, <3>1 DEF IInv, TypeOK
      <4>2. Ahead(v, o)
        BY <2>2, <3>1, <4>1 DEF Ahead
      <4>3. Busy(v)
        BY <4>2 DEF Ahead, Busy
      <4>4. at[v] # c
        BY <2>3, <4>3
      <4> QED BY <4>1, <4>2, <4>4
    <3> QED BY <3>1
  <2>8. \A o \in Observer : \A i \in DOMAIN History(o) :
          History(o)[i].conv = c => History(o)[i].n < sent'[c]
    BY <2>2, <2>5 DEF IInv, TypeOK, NotAhead
  <2>9. Pending'
    <3> SUFFICES ASSUME NEW v \in Updater, NEW o \in Observer, Ahead(v, o)',
                        NEW i \in DOMAIN History(o),
                        History(o)[i].conv = at'[v]
                 PROVE  History(o)[i].n < sent'[at'[v]]
      BY <2>1 DEF Pending
    <3>1. CASE v = u
      BY <2>2, <2>8, <3>1 DEF IInv, TypeOK
    <3>2. CASE v # u
      BY <2>2, <2>7, <3>2 DEF IInv, TypeOK, Pending
    <3> QED BY <3>1, <3>2
  <2> QED BY <2>4, <2>6, <2>9
<1>4. CASE Reject(u)
  <2>1. \A o \in Observer : History(o)' = History(o)
    BY <1>1, <1>4 DEF Reject
  <2>2. Locks' /\ NoDuplicates'
    BY <1>4 DEF Reject, IInv, TypeOK, Locks, Busy, NoDuplicates, convVars
  <2>3. NotAhead' /\ InOrder'
    BY <1>4, <2>1 DEF Reject, IInv, NotAhead, InOrder, convVars
  <2>4. \A v \in Updater, o \in Observer : Ahead(v, o)' => Ahead(v, o)
    BY <1>4 DEF Reject, IInv, TypeOK, Ahead
  <2>5. Pending'
    BY <1>4, <2>1, <2>4 DEF Reject, IInv, Pending, convVars
  <2> QED BY <2>2, <2>3, <2>5
<1>5. CASE BeginNotify(u)
  <2>1. \A o \in Observer : History(o)' = History(o)
    BY <1>1, <1>5 DEF BeginNotify
  <2>2. Locks' /\ NoDuplicates'
    BY <1>5 DEF BeginNotify, IInv, TypeOK, Locks, Busy, NoDuplicates, convVars
  <2>3. NotAhead' /\ InOrder'
    BY <1>5, <2>1 DEF BeginNotify, IInv, NotAhead, InOrder, convVars
  <2>4. \A v \in Updater, o \in Observer : Ahead(v, o)' => Ahead(v, o)
    BY <1>5 DEF BeginNotify, IInv, TypeOK, Ahead
  <2>5. Pending'
    BY <1>5, <2>1, <2>4 DEF BeginNotify, IInv, Pending, convVars
  <2> QED BY <2>2, <2>3, <2>5
<1>6. CASE Push(u)
  <2>1. PICK c \in Conv, p \in Observer, e \in NotifiedEvent :
          /\ at[u] = c
          /\ pc[u] = "notifying"
          /\ pos[u] \in DOMAIN observers[c]
          /\ p = observers[c][pos[u]]
          /\ e = Current(c)
    <3>1. /\ at[u] \in Conv
          /\ pc[u] = "notifying"
          /\ pos[u] \in DOMAIN observers[at[u]]
          /\ observers[at[u]][pos[u]] \in Observer
          /\ Current(at[u]) \in NotifiedEvent
      BY <1>6 DEF Push, IInv, TypeOK, Locks, Busy, Current, NotifiedEvent
    <3> QED BY <3>1
  <2>2. /\ queue' = [queue EXCEPT ![p] = Append(queue[p], e)]
        /\ pos' = [pos EXCEPT ![u] = pos[u] + 1]
        /\ UNCHANGED <<delivered, sent, class, observers, lock, observerLock,
                       pc, at>>
    BY <1>6, <2>1 DEF Push, convVars, lockVars
  <2>3. e.conv = c /\ e.n = sent[c]
    BY <2>1 DEF Current
  <2> QED BY <2>1, <2>2, <2>3, Pushing
<1>7. CASE FinishNotify(u)
  <2>1. \A o \in Observer : History(o)' = History(o)
    BY <1>1, <1>7 DEF FinishNotify
  <2>2. Locks' /\ NoDuplicates'
    BY <1>7 DEF FinishNotify, IInv, TypeOK, Locks, Busy, NoDuplicates
  <2>3. NotAhead' /\ InOrder'
    BY <1>7, <2>1 DEF FinishNotify, IInv, NotAhead, InOrder
  <2>4. \A v \in Updater, o \in Observer : Ahead(v, o)' => Ahead(v, o)
    BY <1>7 DEF FinishNotify, IInv, TypeOK, Ahead
  <2>5. Pending'
    BY <1>7, <2>1, <2>4 DEF FinishNotify, IInv, Pending
  <2> QED BY <2>2, <2>3, <2>5
<1>8. CASE RunAstray(u)
  BY <1>1, <1>8, Quiet
  DEF RunAstray, IInv, convVars, lockVars, updaterVars
<1> QED BY <1>2, <1>3, <1>4, <1>5, <1>6, <1>7, <1>8 DEF UpdaterStep

-----------------------------------------------------------------------------
(* The theorems                                                            *)

LEMMA NextInv == ASSUME IInv, [Next]_vars PROVE IInv'
<1>1. CASE UNCHANGED vars
  <2>1. TypeOK'
    BY <1>1 DEF vars, IInv, TypeOK
  <2>2. \A o \in Observer : History(o)' = History(o)
    BY <1>1 DEF vars, History
  <2> QED BY <1>1, <2>1, <2>2, Quiet DEF vars, IInv
<1>2. ASSUME NEW u \in Updater, UpdaterStep(u) PROVE IInv'
  BY <1>2, TypeUpdater, Updating DEF IInv
<1>3. CASE ObserverListStep
  BY <1>3, TypeObservers, ObserverList DEF IInv
<1>4. ASSUME \/ \E o \in Polled : Poll(o)
             \/ \E w \in Waiter : WaiterStep(w)
      PROVE  IInv'
  BY <1>4, TypeObserving, Observing DEF IInv
<1> QED BY <1>1, <1>2, <1>3, <1>4 DEF Next

LEMMA Invariance == Spec => []IInv
<1>1. Init => IInv
  BY InitInv
<1>2. IInv /\ [Next]_vars => IInv'
  BY NextInv
<1> QED BY <1>1, <1>2, PTL DEF Spec

\* The variables of Notification (update, notify, waitForNextEvent and the
\* lists and queues they work on) keep their types.
THEOREM TypeCorrect == Spec => []TypeOK
<1>1. IInv => TypeOK
  BY DEF IInv
<1> QED BY <1>1, Invariance, PTL

\* Whatever the number of threads, conversations and observers, and whether
\* or not the monitor is used: an observer gets the events of a conversation
\* in the order update() accepted its messages, and none twice.
THEOREM EventsInOrder == Spec => []InOrder
<1>1. IInv => InOrder
  BY DEF IInv
<1> QED BY <1>1, Invariance, PTL

-----------------------------------------------------------------------------
(* The status: the last event an observer holds is of the class its message *)
(* was given, and no later message can have changed the status since.      *)

LastOfItsClass ==
  \A o \in Observer : \A i \in DOMAIN History(o) :
    History(o)[i].n = sent[History(o)[i].conv]
      => History(o)[i].type = class[History(o)[i].conv]

LEMMA LastOfItsClassNext ==
  ASSUME IInv, LastOfItsClass, [Next]_vars PROVE LastOfItsClass'
<1> USE NotificationAssumption
<1>0. \A o \in Observer : History(o) \in Seq(NotifiedEvent)
  BY HistoryType DEF IInv
<1>1. ASSUME UNCHANGED <<sent, class>>, \A o \in Observer : History(o)' = History(o)
      PROVE  LastOfItsClass'
  BY <1>1 DEF LastOfItsClass
<1>2. ASSUME UNCHANGED <<queue, delivered>>, UNCHANGED <<sent, class>>
      PROVE  LastOfItsClass'
  BY <1>1, <1>2 DEF History
<1>3. ASSUME NEW u \in Updater, NEW c \in Conv, NEW type \in NotifiedType,
             Accept(u, c, type)
      PROVE  LastOfItsClass'
  <2>1. \A o \in Observer : History(o)' = History(o)
    BY <1>3 DEF Accept, observerVars, History
  <2>2. /\ sent' = [sent EXCEPT ![c] = sent[c] + 1]
        /\ class' = [class EXCEPT ![c] = type]
    BY <1>3 DEF Accept
  <2>3. ASSUME NEW o \in Observer, NEW i \in DOMAIN History(o),
               History(o)[i].n = sent'[History(o)[i].conv]
        PROVE  History(o)[i].type = class'[History(o)[i].conv]
    <3> DEFINE e == History(o)[i]
    <3>1. e.conv \in Conv /\ e.n \in Nat
      BY HistoryType DEF IInv
    <3>2. e.n <= sent[e.conv]
      BY DEF IInv, NotAhead
    <3>3. e.conv # c
      BY <2>2, <2>3, <3>1, <3>2 DEF IInv, TypeOK
    <3>4. sent'[e.conv] = sent[e.conv] /\ class'[e.conv] = class[e.conv]
      BY <2>2, <3>1, <3>3 DEF IInv, TypeOK
    <3> QED BY <2>3, <3>4 DEF LastOfItsClass
  <2> QED BY <2>1, <2>3 DEF LastOfItsClass
<1>4. ASSUME NEW u \in Updater, Push(u) PROVE LastOfItsClass'
  <2>1. PICK p \in Observer, e \in NotifiedEvent :
          /\ queue' = [queue EXCEPT ![p] = Append(queue[p], e)]
          /\ e.n = sent[e.conv] /\ e.type = class[e.conv]
    <3>1. /\ observers[at[u]][pos[u]] \in Observer
          /\ Current(at[u]) \in NotifiedEvent
      BY <1>4 DEF Push, IInv, TypeOK, Locks, Busy, Current, NotifiedEvent
    <3> QED BY <1>4, <3>1 DEF Push, Current
  <2>2. UNCHANGED <<delivered, sent, class>>
    BY <1>4 DEF Push, convVars
  <2>3. /\ \A o \in Observer : o # p => History(o)' = History(o)
        /\ \A i \in DOMAIN History(p)' :
             \/ i \in DOMAIN History(p) /\ History(p)'[i] = History(p)[i]
             \/ i = Len(History(p)) + 1 /\ History(p)'[i] = e
    BY <2>1, <2>2, Pushed DEF IInv
  <2>4. ASSUME NEW o \in Observer, NEW i \in DOMAIN History(o)',
               History(o)'[i].n = sent[History(o)'[i].conv]
        PROVE  History(o)'[i].type = class[History(o)'[i].conv]
    BY <2>1, <2>3, <2>4 DEF LastOfItsClass
  <2> QED BY <2>2, <2>4 DEF LastOfItsClass
<1>5. ASSUME NEW o \in Observer, GetNextEvent(o), UNCHANGED <<sent, class>>
      PROVE  LastOfItsClass'
  <2>1. \A v \in Observer : History(v)' = History(v)
    BY <1>5, Taking DEF IInv
  <2> QED BY <1>1, <1>5, <2>1
<1>6. ASSUME NEW u \in Updater, UpdaterStep(u) PROVE LastOfItsClass'
  BY <1>2, <1>3, <1>4, <1>6
  DEF UpdaterStep, Check, Reject, BeginNotify, FinishNotify, RunAstray,
      convVars, observerVars
<1>7. CASE ObserverListStep
  BY <1>2, <1>7
  DEF ObserverListStep, AddObserver, RemoveObserver, Cleanup, convVars,
      observerVars
<1>8. CASE \E o \in Polled : Poll(o)
  BY <1>5, <1>8 DEF Poll, convVars
<1>9. CASE \E w \in Waiter : WaiterStep(w)
  BY <1>2, <1>5, <1>9
  DEF WaiterStep, BeginWait, TestEvents, FallAsleep, WakeSpuriously, Take,
      convVars, observerVars
<1>10. CASE UNCHANGED vars
  BY <1>2, <1>10 DEF vars
<1> QED BY <1>6, <1>7, <1>8, <1>9, <1>10 DEF Next

(* The implementation of ConversationLifecycle.  The status follows the     *)
(* last event announced; between an accepted message and the end of its    *)
(* notification, its class is one that may follow that event.              *)

StatusFollows ==
  \A c \in Conv :
    /\ status[c] = StatusAfter(announced[c])
    /\ lock[c] = Free => class[c] = announced[c]
    /\ lock[c] # Free => /\ class[c] \in NotifiedType
                         /\ MayFollow(class[c], announced[c])

LEMMA StatusFollowsNext ==
  ASSUME IInv, StatusFollows, [Next]_vars PROVE StatusFollows'
<1> USE NotificationAssumption
<1>1. CASE UNCHANGED <<class, status, announced, lock>>
  BY <1>1 DEF StatusFollows
<1>2. ASSUME NEW u \in Updater, NEW c \in Conv, NEW type \in NotifiedType,
             Accept(u, c, type)
      PROVE  StatusFollows'
  BY <1>2 DEF Accept, IInv, TypeOK, StatusFollows, MayFollow
<1>3. ASSUME NEW u \in Updater, FinishNotify(u) PROVE StatusFollows'
  BY <1>3 DEF FinishNotify, IInv, TypeOK, StatusFollows
<1>4. ASSUME NEW u \in Updater, UpdaterStep(u) PROVE StatusFollows'
  BY <1>1, <1>2, <1>3, <1>4
  DEF UpdaterStep, Check, Reject, BeginNotify, Push, RunAstray, convVars,
      lockVars
<1>5. CASE ObserverListStep
  BY <1>1, <1>5
  DEF ObserverListStep, AddObserver, RemoveObserver, Cleanup, convVars, lockVars
<1>6. CASE \E o \in Polled : Poll(o)
  BY <1>1, <1>6 DEF Poll, convVars, lockVars
<1>7. CASE \E w \in Waiter : WaiterStep(w)
  BY <1>1, <1>7
  DEF WaiterStep, BeginWait, TestEvents, FallAsleep, WakeSpuriously, Take,
      convVars, lockVars
<1>8. CASE UNCHANGED vars
  BY <1>1, <1>8 DEF vars
<1> QED BY <1>4, <1>5, <1>6, <1>7, <1>8 DEF Next

LEMMA LifecycleStep ==
  ASSUME IInv, StatusFollows, [Next]_vars PROVE [Lifecycle!Next]_(Lifecycle!vars)
<1> USE NotificationAssumption
<1>1. CASE UNCHANGED <<status, announced>>
  BY <1>1 DEF Lifecycle!vars
<1>2. ASSUME NEW u \in Updater, FinishNotify(u) PROVE Lifecycle!Next
  <2> DEFINE c == at[u]
  <2>1. /\ c \in Conv
        /\ lock[c] = u
        /\ class[c] \in NotifiedType
        /\ announced[c] \in NotifiedType \cup {None}
    BY <1>2 DEF FinishNotify, IInv, TypeOK, Locks, Busy
  <2>2. /\ MayFollow(class[c], announced[c])
        /\ status[c] = StatusAfter(announced[c])
    BY <2>1 DEF StatusFollows
  <2>3. Lifecycle!Leads(class[c], StatusAfter(class[c]))
    BY <2>1 DEF Lifecycle!Leads, StatusAfter, NotifiedType, None
  <2>4. /\ class[c] = "START_OF_CONVERSATION" => status[c] = "UNINITIALIZED"
        /\ status[c] # "FAILED"
        /\ status[c] = "ENDED" => Reopens
    BY <2>1, <2>2 DEF MayFollow, StatusAfter, NotifiedType, None
  <2>5. Lifecycle!Notify(c, class[c], StatusAfter(class[c]))
    BY <1>2, <2>3, <2>4 DEF Lifecycle!Notify, FinishNotify
  <2>6. StatusAfter(class[c]) \in {"RUNNING", "ENDED", "FAILED"}
    BY <2>1 DEF StatusAfter, NotifiedType, None
  <2> QED BY <2>1, <2>5, <2>6 DEF Lifecycle!Next, NotifiedType
<1>3. ASSUME NEW u \in Updater, UpdaterStep(u)
      PROVE  [Lifecycle!Next]_(Lifecycle!vars)
  BY <1>1, <1>2, <1>3
  DEF UpdaterStep, Check, Accept, Reject, BeginNotify, Push, RunAstray, convVars
<1>4. CASE ObserverListStep
  BY <1>1, <1>4
  DEF ObserverListStep, AddObserver, RemoveObserver, Cleanup, convVars
<1>5. CASE \E o \in Polled : Poll(o)
  BY <1>1, <1>5 DEF Poll, convVars
<1>6. CASE \E w \in Waiter : WaiterStep(w)
  BY <1>1, <1>6
  DEF WaiterStep, BeginWait, TestEvents, FallAsleep, WakeSpuriously, Take,
      convVars
<1>7. CASE UNCHANGED vars
  BY <1>1, <1>7 DEF vars
<1> QED BY <1>3, <1>4, <1>5, <1>6, <1>7 DEF Next

\* While nobody updates a conversation, its status is the one its last event
\* led to, for everybody who was handed that event: update() sets the status
\* only after notify(), but before it lets go of the conversation.
THEOREM SettledStatus == Spec => []StatusSettles
<1>1. Init => StatusFollows /\ LastOfItsClass
  BY DEF Init, StatusFollows, LastOfItsClass, History, StatusAfter, None,
         NotifiedType
<1>2. IInv /\ StatusFollows /\ [Next]_vars => StatusFollows'
  BY StatusFollowsNext
<1>3. IInv /\ LastOfItsClass /\ [Next]_vars => LastOfItsClass'
  BY LastOfItsClassNext
<1>4. IInv /\ StatusFollows /\ LastOfItsClass => StatusSettles
  <2> SUFFICES ASSUME IInv, StatusFollows, LastOfItsClass,
                      NEW o \in Observer, NEW i \in DOMAIN History(o),
                      History(o)[i].n = sent[History(o)[i].conv],
                      lock[History(o)[i].conv] = Free
               PROVE  status[History(o)[i].conv] = StatusAfter(History(o)[i].type)
    BY DEF StatusSettles
  <2>1. History(o)[i].conv \in Conv
    BY HistoryType DEF IInv, NotifiedEvent
  <2> QED BY <2>1 DEF StatusFollows, LastOfItsClass
<1> QED BY <1>1, <1>2, <1>3, <1>4, Invariance, PTL DEF Spec

\* Taken apart into the steps of its threads, a conversation still goes
\* through the lifecycle that ConversationLifecycle promises: one start,
\* nothing after a failure, each status the one its event leads to.
THEOREM ImplementsLifecycle == Spec => LifecycleSpec
<1>1. Init => StatusFollows /\ Lifecycle!Init
  BY DEF Init, StatusFollows, StatusAfter, None, NotifiedType, Lifecycle!Init
<1>2. IInv /\ StatusFollows /\ [Next]_vars => StatusFollows'
  BY StatusFollowsNext
<1>3. IInv /\ StatusFollows /\ [Next]_vars => [Lifecycle!Next]_(Lifecycle!vars)
  BY LifecycleStep
<1> QED BY <1>1, <1>2, <1>3, Invariance, PTL
        DEF Spec, LifecycleSpec, Lifecycle!Spec
-----------------------------------------------------------------------------
(* The inductive invariant behind NothingLost, one pair of a conversation  *)
(* and an observer at a time.                                              *)

Seen(c, o, n) ==
  \E i \in DOMAIN History(o) : History(o)[i].conv = c /\ History(o)[i].n = n

\* u hands out the last message of c and its iterator has passed o.
Passed(u, c, o) ==
  /\ pc[u] = "notifying"
  /\ at[u] = c
  /\ \E i \in DOMAIN observers[c] : i < pos[u] /\ observers[c][i] = o

\* Of what was notified since o was added, o has seen exactly what has
\* reached it.
Served(c, o) ==
  Attached(c, o) =>
    /\ joined[c][o] <= Notified(c)
    /\ \A n \in Nat : n > joined[c][o] => (Seen(c, o, n) <=> n <= Reached(c, o))

AllServed == \A c \in Conv, o \in Observer : Served(c, o)

-----------------------------------------------------------------------------
(* What the mutexes say of Notified and Reached                            *)

LEMMA NotifiedIs ==
  ASSUME TypeOK, Locks, NEW c \in Conv
  PROVE  /\ sent[c] \in Nat /\ Notified(c) \in Nat
         /\ lock[c] = Free => Notified(c) = sent[c]
         /\ lock[c] # Free => Notified(c) = sent[c] - 1
<1>1. lock[c] # Free => sent[c] > 0
  BY NotificationAssumption DEF TypeOK, Locks
<1> QED BY <1>1 DEF TypeOK, Notified

LEMMA ReachedIs ==
  ASSUME NEW c, NEW o
  PROVE  Reached(c, o) = IF \E u \in Updater : Passed(u, c, o)
                         THEN sent[c] ELSE Notified(c)
BY DEF Reached, Passed

LEMMA ReachedType ==
  ASSUME TypeOK, Locks, NEW c \in Conv, NEW o
  PROVE  Reached(c, o) \in Nat
BY NotifiedIs, ReachedIs

\* While nobody notifies, what was notified has reached everybody.
LEMMA NobodyNotifies ==
  ASSUME TypeOK, Locks, NEW c \in Conv, observerLock[c] = Free
  PROVE  /\ \A u \in Updater, o \in Observer : ~Passed(u, c, o)
         /\ \A o \in Observer : Reached(c, o) = Notified(c)
<1>1. \A u \in Updater : pc[u] = "notifying" => at[u] # c
  BY NotificationAssumption DEF Locks
<1>2. \A u \in Updater, o \in Observer : ~Passed(u, c, o)
  BY <1>1 DEF Passed
<1> QED BY <1>2, ReachedIs

\* And nobody has seen more.
LEMMA SeenNotified ==
  ASSUME IInv, NEW c \in Conv, observerLock[c] = Free, NEW o \in Observer,
         NEW n \in Nat, Seen(c, o, n)
  PROVE  n <= Notified(c)
<1>1. PICK i \in DOMAIN History(o) : History(o)[i].conv = c /\ History(o)[i].n = n
  BY DEF Seen
<1>2. CASE lock[c] = Free
  BY <1>1, <1>2, NotifiedIs DEF IInv, NotAhead
<1>3. CASE lock[c] # Free
  <2>1. lock[c] \in Updater /\ Busy(lock[c]) /\ at[lock[c]] = c
    BY <1>3 DEF IInv, TypeOK, Locks
  <2>2. pc[lock[c]] = "accepted"
    BY <2>1, NotificationAssumption DEF IInv, Locks, Busy
  <2>3. n < sent[c]
    BY <1>1, <2>1, <2>2 DEF IInv, Pending, Ahead
  <2> QED BY <1>3, <2>3, NotifiedIs DEF IInv
<1> QED BY <1>2, <1>3

LEMMA ServedStill ==
  ASSUME NEW c \in Conv, NEW o \in Observer, Served(c, o),
         Attached(c, o)' => Attached(c, o),
         joined'[c][o] = joined[c][o],
         Notified(c)' = Notified(c), Reached(c, o)' = Reached(c, o),
         \A n \in Nat : Seen(c, o, n)' <=> Seen(c, o, n)
  PROVE  Served(c, o)'
BY DEF Served

\* What is neither updated nor notified nor listed anew is served as before.
LEMMA ServedElsewhere ==
  ASSUME NEW c \in Conv, NEW o \in Observer, Served(c, o),
         sent'[c] = sent[c], lock'[c] = lock[c], observers'[c] = observers[c],
         joined'[c][o] = joined[c][o],
         \A n \in Nat : Seen(c, o, n)' <=> Seen(c, o, n),
         \A u \in Updater : Passed(u, c, o)' <=> Passed(u, c, o)
  PROVE  Served(c, o)'
<1>1. Attached(c, o)' <=> Attached(c, o)
  BY DEF Attached
<1>2. Notified(c)' = Notified(c)
  BY DEF Notified
<1>3. Reached(c, o)' = Reached(c, o)
  <2>1. Reached(c, o) = IF \E u \in Updater : Passed(u, c, o)
                        THEN sent[c] ELSE Notified(c)
    BY ReachedIs
  <2>2. Reached(c, o)' = IF \E u \in Updater : Passed(u, c, o)'
                         THEN sent'[c] ELSE Notified(c)'
    BY DEF Reached, Passed
  <2> QED BY <1>2, <2>1, <2>2
<1> QED BY <1>1, <1>2, <1>3, ServedStill

LEMMA SeenStill ==
  ASSUME NEW o, History(o)' = History(o)
  PROVE  \A c \in Conv, n \in Nat : Seen(c, o, n)' <=> Seen(c, o, n)
BY DEF Seen

-----------------------------------------------------------------------------
(* The steps of an update                                                  *)

\* The iterator has passed nobody that it points at, and only the thread
\* that notifies passes anybody.
LEMMA PointsAhead ==
  ASSUME IInv, NEW u \in Updater, pc[u] = "notifying",
         pos[u] \in DOMAIN observers[at[u]]
  PROVE  /\ \A v \in Updater : ~Passed(v, at[u], observers[at[u]][pos[u]])
         /\ Reached(at[u], observers[at[u]][pos[u]]) = sent[at[u]] - 1
         /\ Notified(at[u]) = sent[at[u]] - 1
<1> DEFINE c == at[u]
           p == observers[c][pos[u]]
<1>1. c \in Conv /\ lock[c] = u /\ lock[c] # Free
  BY NotificationAssumption DEF IInv, TypeOK, Locks, Busy
<1>2. ASSUME NEW v \in Updater, Passed(v, c, p) PROVE FALSE
  <2>1. v = u
    BY <1>1, <1>2 DEF Passed, IInv, Locks, Busy
  <2>2. PICK i \in DOMAIN observers[c] : i < pos[u] /\ observers[c][i] = p
    BY <1>2, <2>1 DEF Passed
  <2>3. i = pos[u]
    BY <1>1, <2>2 DEF IInv, NoDuplicates
  <2>4. pos[u] \in Nat
    BY DEF IInv, TypeOK
  <2> QED BY <2>2, <2>3, <2>4
<1>3. Notified(c) = sent[c] - 1
  BY <1>1 DEF Notified
<1>4. Reached(c, p) = IF \E v \in Updater : Passed(v, c, p)
                      THEN sent[c] ELSE Notified(c)
  BY ReachedIs
<1> QED BY <1>2, <1>3, <1>4

LEMMA ServedPush ==
  ASSUME IInv, AllServed, NEW u \in Updater, NEW c \in Conv, NEW p \in Observer,
         NEW e \in NotifiedEvent,
         at[u] = c, pc[u] = "notifying", pos[u] \in DOMAIN observers[c],
         p = observers[c][pos[u]], e.conv = c, e.n = sent[c],
         queue' = [queue EXCEPT ![p] = Append(queue[p], e)],
         pos' = [pos EXCEPT ![u] = pos[u] + 1],
         UNCHANGED <<delivered, sent, observers, lock, pc, at, joined>>
  PROVE  AllServed'
<1>1. /\ pos[u] \in Nat
      /\ sent[c] \in Nat
      /\ observers[c] \in Seq(Observer)
      /\ \A i \in DOMAIN observers[c] : i \in Nat
  <2>1. observers[c] \in Seq(Observer)
    BY DEF IInv, TypeOK
  <2>2. \A i \in DOMAIN observers[c] : i \in Nat
    BY <2>1
  <2> QED BY <2>1, <2>2 DEF IInv, TypeOK
<1>3. /\ \A o \in Observer : o # p => History(o)' = History(o)
      /\ \A i \in DOMAIN History(p)' :
           \/ i \in DOMAIN History(p) /\ History(p)'[i] = History(p)[i]
           \/ i = Len(History(p)) + 1 /\ History(p)'[i] = e
  BY Pushed DEF IInv
<1>4. History(p)' = Append(History(p), e)
  <2>1. queue[p] \in Seq(NotifiedEvent) /\ delivered[p] \in Seq(NotifiedEvent)
    BY DEF IInv, TypeOK
  <2>2. queue'[p] = Append(queue[p], e) /\ delivered'[p] = delivered[p]
    BY DEF IInv, TypeOK
  <2>3. \A d, q \in Seq(NotifiedEvent) : d \o Append(q, e) = Append(d \o q, e)
    BY PushLast
  <2> QED BY <2>1, <2>2, <2>3 DEF History
<1>5. /\ History(p) \in Seq(NotifiedEvent)
      /\ Len(History(p)) \in Nat
      /\ DOMAIN History(p) = 1 .. Len(History(p))
  BY HistoryType DEF IInv
<1>6. \A d \in Conv, n \in Nat :
        Seen(d, p, n)' <=> Seen(d, p, n) \/ (d = c /\ n = sent[c])
  <2>1. \A i \in DOMAIN History(p) :
          i \in DOMAIN History(p)' /\ History(p)'[i] = History(p)[i]
    BY <1>1, <1>4, <1>5
  <2>2. /\ Len(History(p)) + 1 \in DOMAIN History(p)'
        /\ History(p)'[Len(History(p)) + 1] = e
    BY <1>1, <1>4, <1>5
  <2>3. SUFFICES ASSUME NEW d \in Conv, NEW n \in Nat
                 PROVE Seen(d, p, n)' <=> Seen(d, p, n) \/ (d = c /\ n = sent[c])
    OBVIOUS
  <2>4. ASSUME Seen(d, p, n)' PROVE Seen(d, p, n) \/ (d = c /\ n = sent[c])
    BY <1>1, <1>3, <2>4 DEF Seen
  <2>5. ASSUME Seen(d, p, n) PROVE Seen(d, p, n)'
    BY <2>1, <2>5 DEF Seen
  <2>6. ASSUME d = c, n = sent[c] PROVE Seen(d, p, n)'
    BY <1>1, <2>2, <2>6 DEF Seen
  <2> QED BY <2>4, <2>5, <2>6
<1>7. \A v \in Updater, d \in Conv, o \in Observer :
        d # c \/ o # p => (Passed(v, d, o)' <=> Passed(v, d, o))
  <2> SUFFICES ASSUME NEW v \in Updater, NEW d \in Conv, NEW o \in Observer,
                      d # c \/ o # p
               PROVE  Passed(v, d, o)' <=> Passed(v, d, o)
    OBVIOUS
  <2>1. CASE v # u
    BY <2>1 DEF Passed, IInv, TypeOK
  <2>2. CASE v = u /\ d # c
    BY <2>2 DEF Passed
  <2>3. CASE v = u /\ d = c /\ o # p
    <3>1. pos'[u] = pos[u] + 1
      BY DEF IInv, TypeOK
    <3>2. \A i \in DOMAIN observers[c] :
            observers[c][i] = o => (i < pos[u] + 1 <=> i < pos[u])
      BY <1>1, <2>3
    <3> QED BY <2>3, <3>1, <3>2 DEF Passed
  <2> QED BY <2>1, <2>2, <2>3
<1>8. ASSUME NEW d \in Conv, NEW o \in Observer, d # c \/ o # p
      PROVE  Served(d, o)'
  <2>1. \A n \in Nat : Seen(d, o, n)' <=> Seen(d, o, n)
    <3>1. CASE o = p
      BY <1>6, <1>8, <3>1
    <3>2. CASE o # p
      BY <1>3, <3>2, SeenStill
    <3> QED BY <3>1, <3>2
  <2>2. \A v \in Updater : Passed(v, d, o)' <=> Passed(v, d, o)
    BY <1>7, <1>8
  <2>3. Served(d, o)
    BY DEF AllServed
  <2> QED BY <2>1, <2>2, <2>3, ServedElsewhere
<1>9. Served(c, p)'
  <2>1. Attached(c, p) /\ Notified(c)' = Notified(c)
    BY DEF Attached, Notified
  <2>2. /\ joined[c][p] \in Nat
        /\ joined[c][p] <= Notified(c)
        /\ \A n \in Nat : n > joined[c][p] => (Seen(c, p, n) <=> n <= Reached(c, p))
    BY <1>1, <2>1 DEF AllServed, Served, IInv, TypeOK
  <2>3. Reached(c, p) = sent[c] - 1 /\ Notified(c) = sent[c] - 1
    BY <1>1, PointsAhead
  <2>4. Reached(c, p)' = sent[c]
    <3>1. Passed(u, c, p)'
      BY <1>1 DEF Passed, IInv, TypeOK
    <3> QED BY <3>1 DEF Reached, Passed
  <2>5. \A n \in Nat : n > joined[c][p] =>
          (Seen(c, p, n)' <=> n <= sent[c])
    BY <1>1, <1>6, <2>2, <2>3
  <2> QED BY <2>1, <2>2, <2>4, <2>5 DEF Served
<1> QED BY <1>8, <1>9 DEF AllServed

\* When the loop in notify() ends, everybody in the list has been passed.
LEMMA ServedFinish ==
  ASSUME IInv, AllServed, NEW u \in Updater, FinishNotify(u),
         NEW c \in Conv, c = at[u]
  PROVE  AllServed'
<1>1. /\ c \in Conv
      /\ pc[u] = "notifying"
      /\ pos[u] = Len(observers[c]) + 1
      /\ observerLock[c] = u
      /\ lock' = [lock EXCEPT ![c] = Free]
      /\ observerLock' = [observerLock EXCEPT ![c] = Free]
      /\ pc' = [pc EXCEPT ![u] = "idle"]
      /\ UNCHANGED <<sent, observers, at, pos, queue, delivered, joined>>
  BY DEF FinishNotify, IInv, TypeOK, Locks, observerVars
<1>2. \A o \in Observer : History(o)' = History(o)
  BY <1>1 DEF History
<1>3. \A d \in Conv, o \in Observer, n \in Nat : Seen(d, o, n)' <=> Seen(d, o, n)
  BY <1>2, SeenStill
<1>4. ASSUME NEW d \in Conv, NEW o \in Observer, d # c PROVE Served(d, o)'
  <2>1. \A v \in Updater : Passed(v, d, o)' <=> Passed(v, d, o)
    BY <1>1, <1>4 DEF Passed, IInv, TypeOK
  <2>2. lock'[d] = lock[d]
    BY <1>1, <1>4 DEF IInv, TypeOK
  <2>3. Served(d, o)
    BY DEF AllServed
  <2> QED BY <1>1, <1>3, <2>1, <2>2, <2>3, ServedElsewhere
<1>5. ASSUME NEW o \in Observer, Attached(c, o)' PROVE Served(c, o)'
  <2>1. Attached(c, o)
    BY <1>1, <1>5 DEF Attached
  <2>2. Reached(c, o) = sent[c]
    <3>1. Passed(u, c, o)
      <4>1. PICK i \in DOMAIN observers[c] : observers[c][i] = o
        BY <2>1 DEF Attached
      <4>2. i < pos[u]
        <5>1. observers[c] \in Seq(Observer)
          BY DEF IInv, TypeOK
        <5> QED BY <1>1, <4>1, <5>1
      <4> QED BY <1>1, <4>1, <4>2 DEF Passed
    <3> QED BY <3>1, ReachedIs
  <2>3. Notified(c)' = sent[c] /\ Notified(c) <= sent[c]
    BY <1>1, NotifiedIs DEF IInv, TypeOK, Notified
  <2>4. Reached(c, o)' = Notified(c)'
    <3>1. \A v \in Updater : ~Passed(v, c, o)'
      BY <1>1 DEF Passed, IInv, TypeOK, Locks
    <3> QED BY <3>1 DEF Reached, Passed
  <2>5. joined[c][o] \in Nat /\ Notified(c) \in Nat /\ sent[c] \in Nat
    BY <1>1, NotifiedIs DEF IInv, TypeOK
  <2>6. /\ joined[c][o] <= Notified(c)
        /\ \A n \in Nat : n > joined[c][o] => (Seen(c, o, n) <=> n <= sent[c])
    BY <2>1, <2>2 DEF AllServed, Served
  <2> QED BY <1>1, <1>3, <2>3, <2>4, <2>5, <2>6 DEF Served
<1> QED BY <1>4, <1>5 DEF AllServed, Served

LEMMA ServedUpdater ==
  ASSUME IInv, AllServed, NEW u \in Updater, UpdaterStep(u)
  PROVE  AllServed'
<1> USE NotificationAssumption
<1>1. ASSUME UNCHANGED <<sent, lock, observers, joined, queue, delivered>>,
             \A c \in Conv, o \in Observer, v \in Updater :
               Passed(v, c, o)' <=> Passed(v, c, o)
      PROVE  AllServed'
  <2>1. \A o \in Observer : History(o)' = History(o)
    BY <1>1 DEF History
  <2> QED BY <1>1, <2>1, SeenStill, ServedElsewhere DEF AllServed
<1>2. ASSUME NEW c \in Conv, Check(u, c) PROVE AllServed'
  BY <1>1, <1>2
  DEF Check, Passed, IInv, TypeOK, convVars, observerVars
<1>3. CASE Reject(u)
  BY <1>1, <1>3 DEF Reject, Passed, IInv, TypeOK, convVars, observerVars
<1>4. CASE RunAstray(u)
  BY <1>1, <1>4
  DEF RunAstray, Passed, convVars, lockVars, updaterVars, observerVars
<1>5. CASE BeginNotify(u)
  <2>1. \A c \in Conv, o \in Observer, v \in Updater :
          Passed(v, c, o)' <=> Passed(v, c, o)
    <3> SUFFICES ASSUME NEW c \in Conv, NEW o \in Observer, NEW v \in Updater
                 PROVE  Passed(v, c, o)' <=> Passed(v, c, o)
      OBVIOUS
    <3>1. CASE v # u
      BY <1>5, <3>1 DEF BeginNotify, Passed, IInv, TypeOK
    <3>2. CASE v = u
      <4>1. ~Passed(u, c, o)
        BY <1>5 DEF BeginNotify, Passed
      <4>2. pos'[u] = 1 /\ observers' = observers
        BY <1>5 DEF BeginNotify, IInv, TypeOK
      <4>3. \A i \in DOMAIN observers[c] : i \in Nat \ {0}
        <5>1. observers[c] \in Seq(Observer)
          BY DEF IInv, TypeOK
        <5> QED BY <5>1
      <4>4. ~Passed(u, c, o)'
        BY <4>2, <4>3 DEF Passed
      <4> QED BY <3>2, <4>1, <4>4
    <3> QED BY <3>1, <3>2
  <2> QED BY <1>1, <1>5, <2>1 DEF BeginNotify, convVars, observerVars
<1>6. ASSUME NEW c \in Conv, NEW type \in NotifiedType, Accept(u, c, type)
      PROVE  AllServed'
  <2>1. /\ lock[c] = Free
        /\ lock' = [lock EXCEPT ![c] = u]
        /\ sent' = [sent EXCEPT ![c] = @ + 1]
        /\ pc' = [pc EXCEPT ![u] = "accepted"]
        /\ at' = [at EXCEPT ![u] = c]
        /\ pc[u] \in {"idle", "checked"}
        /\ UNCHANGED <<observers, pos, queue, delivered, joined>>
    BY <1>6 DEF Accept, observerVars
  <2>2. \A d \in Conv, o \in Observer, v \in Updater :
          Passed(v, d, o)' <=> Passed(v, d, o)
    BY <2>1 DEF Passed, IInv, TypeOK
  <2>3. \A o \in Observer : History(o)' = History(o)
    BY <2>1 DEF History
  <2>4. \A d \in Conv, o \in Observer, n \in Nat :
          Seen(d, o, n)' <=> Seen(d, o, n)
    BY <2>3, SeenStill
  <2>5. ASSUME NEW d \in Conv, NEW o \in Observer, d # c PROVE Served(d, o)'
    <3>1. sent'[d] = sent[d] /\ lock'[d] = lock[d]
      BY <2>1, <2>5 DEF IInv, TypeOK
    <3>2. Served(d, o)
      BY DEF AllServed
    <3> QED BY <2>1, <2>2, <2>4, <3>1, <3>2, ServedElsewhere
  <2>6. ASSUME NEW o \in Observer PROVE Served(c, o)'
    <3>1. \A v \in Updater : ~Passed(v, c, o)
      BY <2>1 DEF Passed, IInv, Locks, Busy
    <3>2. Notified(c)' = Notified(c)
      <4>1. lock'[c] = u /\ sent'[c] = sent[c] + 1 /\ sent[c] \in Nat
        BY <2>1 DEF IInv, TypeOK
      <4> QED BY <2>1, <4>1 DEF Notified
    <3>3. Reached(c, o)' = Reached(c, o)
      <4>1. Reached(c, o) = Notified(c)
        BY <3>1, ReachedIs
      <4>2. \A v \in Updater : ~Passed(v, c, o)'
        BY <2>2, <3>1
      <4>3. Reached(c, o)' = Notified(c)'
        BY <4>2 DEF Reached, Passed
      <4> QED BY <3>2, <4>1, <4>3
    <3>4. Attached(c, o)' => Attached(c, o)
      BY <2>1 DEF Attached
    <3>5. Served(c, o)
      BY DEF AllServed
    <3> QED BY <2>1, <2>4, <3>2, <3>3, <3>4, <3>5, ServedStill
  <2> QED BY <2>5, <2>6 DEF AllServed
<1>7. CASE Push(u)
  <2>1. PICK c \in Conv, p \in Observer, e \in NotifiedEvent :
          /\ at[u] = c
          /\ pc[u] = "notifying"
          /\ pos[u] \in DOMAIN observers[c]
          /\ p = observers[c][pos[u]]
          /\ e = Current(c)
    <3>1. /\ at[u] \in Conv
          /\ pc[u] = "notifying"
          /\ pos[u] \in DOMAIN observers[at[u]]
          /\ observers[at[u]][pos[u]] \in Observer
          /\ Current(at[u]) \in NotifiedEvent
      BY <1>7 DEF Push, IInv, TypeOK, Locks, Busy, Current, NotifiedEvent
    <3> QED BY <3>1
  <2>2. /\ queue' = [queue EXCEPT ![p] = Append(queue[p], e)]
        /\ pos' = [pos EXCEPT ![u] = pos[u] + 1]
        /\ UNCHANGED <<delivered, sent, observers, lock, pc, at, joined>>
    BY <1>7, <2>1 DEF Push, convVars, lockVars
  <2>3. e.conv = c /\ e.n = sent[c]
    BY <2>1 DEF Current
  <2> QED BY <2>1, <2>2, <2>3, ServedPush
<1> QED BY <1>2, <1>3, <1>4, <1>5, <1>6, <1>7, ServedFinish
        DEF UpdaterStep, IInv, TypeOK

-----------------------------------------------------------------------------
(* The lists and the queues                                                *)

LEMMA ServedObservers ==
  ASSUME IInv, AllServed, ObserverListStep
  PROVE  AllServed'
<1>1. ASSUME UNCHANGED <<queue, delivered>>
      PROVE  \A d \in Conv, o \in Observer, n \in Nat :
               Seen(d, o, n)' <=> Seen(d, o, n)
  <2>1. \A o \in Observer : History(o)' = History(o)
    BY <1>1 DEF History
  <2> QED BY <2>1, SeenStill
\* The list of one conversation changes: the others are served as before.
<1>2. ASSUME NEW c \in Conv, NEW o \in Observer, NEW d \in Conv,
             UNCHANGED <<sent, lock, pc, at, pos, queue, delivered>>,
             observers'[d] = observers[d], joined'[d][o] = joined[d][o]
      PROVE  Served(d, o)'
  <2>1. \A v \in Updater : Passed(v, d, o)' <=> Passed(v, d, o)
    BY <1>2 DEF Passed
  <2>2. Served(d, o)
    BY DEF AllServed
  <2> QED BY <1>1, <1>2, <2>1, <2>2, ServedElsewhere
\* While nobody notifies: whoever was in the list and is still.
<1>3. ASSUME NEW c \in Conv, NEW o \in Observer, observerLock[c] = Free,
             UNCHANGED <<sent, lock, observerLock, pc, at, pos, queue, delivered>>,
             joined'[c][o] = joined[c][o], Attached(c, o)' => Attached(c, o)
      PROVE  Served(c, o)'
  <2>1. \A v \in Updater : ~(pc[v] = "notifying" /\ at[v] = c)
    BY <1>3, NotificationAssumption DEF IInv, Locks
  <2>2. Reached(c, o) = Notified(c) /\ Reached(c, o)' = Notified(c)'
    BY <1>3, <2>1 DEF Reached
  <2>3. Notified(c)' = Notified(c)
    BY <1>3 DEF Notified
  <2>4. Served(c, o)
    BY DEF AllServed
  <2> QED BY <1>1, <1>3, <2>2, <2>3, <2>4, ServedStill
<1>4. ASSUME NEW c \in Conv, NEW o \in Observer, AddObserver(c, o)
      PROVE  AllServed'
  <2>1. /\ observerLock[c] = Free
        /\ observers' = [observers EXCEPT ![c] = Append(observers[c], o)]
        /\ joined' = [joined EXCEPT ![c][o] = Notified(c)]
        /\ UNCHANGED <<sent, lock, observerLock, pc, at, pos, queue, delivered>>
    BY <1>4 DEF AddObserver, convVars, lockVars, updaterVars, observerVars
  <2>2. Notified(c) \in Nat
    BY NotifiedIs DEF IInv
  <2>3. Served(c, o)'
    <3>1. \A v \in Updater : ~(pc[v] = "notifying" /\ at[v] = c)
      BY <2>1, NotificationAssumption DEF IInv, Locks
    <3>2. Reached(c, o)' = Notified(c)'
      BY <2>1, <3>1 DEF Reached
    <3>3. Notified(c)' = Notified(c)
      BY <2>1 DEF Notified
    <3>4. joined'[c][o] = Notified(c)
      BY <2>1 DEF IInv, TypeOK
    <3>5. \A n \in Nat : Seen(c, o, n)' => n <= Notified(c)
      BY <1>1, <2>1, SeenNotified
    <3> QED BY <2>2, <3>2, <3>3, <3>4, <3>5 DEF Served
  <2>4. ASSUME NEW p \in Observer, p # o PROVE Served(c, p)'
    <3>1. observers[c] \in Seq(Observer) /\ observers'[c] = Append(observers[c], o)
      BY <2>1 DEF IInv, TypeOK
    <3>2. Attached(c, p)' => Attached(c, p)
      BY <2>4, <3>1 DEF Attached
    <3>3. joined'[c][p] = joined[c][p]
      BY <2>1, <2>4 DEF IInv, TypeOK
    <3> QED BY <1>3, <2>1, <3>2, <3>3
  <2>5. ASSUME NEW d \in Conv, NEW p \in Observer, d # c PROVE Served(d, p)'
    <3>1. observers'[d] = observers[d] /\ joined'[d][p] = joined[d][p]
      BY <2>1, <2>5 DEF IInv, TypeOK
    <3> QED BY <1>2, <2>1, <3>1
  <2> QED BY <2>3, <2>4, <2>5 DEF AllServed
<1>5. ASSUME NEW c \in Conv, NEW o \in Observer, RemoveObserver(c, o)
      PROVE  AllServed'
  <2>1. /\ observerLock[c] = Free
        /\ UNCHANGED <<sent, lock, observerLock, pc, at, pos, queue, delivered,
                       joined>>
    BY <1>5 DEF RemoveObserver, convVars, lockVars, updaterVars, observerVars
  <2>2. PICK k \in DOMAIN observers[c] :
          observers' = [observers EXCEPT ![c] = Without(observers[c], k)]
    BY <1>5 DEF RemoveObserver
  <2>3. ASSUME NEW p \in Observer PROVE Served(c, p)'
    <3>1. observers[c] \in Seq(Observer) /\ observers'[c] = Without(observers[c], k)
      BY <2>2 DEF IInv, TypeOK
    <3>2. Attached(c, p)' => Attached(c, p)
      <4>1. SUFFICES ASSUME NEW i \in DOMAIN observers'[c], observers'[c][i] = p
                     PROVE  \E j \in DOMAIN observers[c] : observers[c][j] = p
        BY DEF Attached
      <4>2. DOMAIN observers[c] = 1 .. Len(observers[c]) /\ Len(observers[c]) \in Nat
        BY <3>1
      <4>3. i \in 1 .. Len(observers[c]) - 1
        BY <3>1, <4>1 DEF Without
      <4>4. observers'[c][i] = observers[c][IF i < k THEN i ELSE i + 1]
        BY <3>1, <4>3 DEF Without
      <4>5. i \in DOMAIN observers[c] /\ i + 1 \in DOMAIN observers[c]
        BY <4>2, <4>3
      <4> QED BY <4>1, <4>4, <4>5
    <3> QED BY <1>3, <2>1, <3>2
  <2>4. ASSUME NEW d \in Conv, NEW p \in Observer, d # c PROVE Served(d, p)'
    <3>1. observers'[d] = observers[d]
      BY <2>2, <2>4 DEF IInv, TypeOK
    <3> QED BY <1>2, <2>1, <3>1
  <2> QED BY <2>3, <2>4 DEF AllServed
<1>6. ASSUME NEW c \in Conv, Cleanup(c) PROVE AllServed'
  <2>1. /\ observers' = [observers EXCEPT ![c] = <<>>]
        /\ UNCHANGED <<sent, lock, pc, at, pos, queue, delivered, joined>>
    BY <1>6 DEF Cleanup, convVars, lockVars, updaterVars, observerVars
  <2>2. ASSUME NEW p \in Observer PROVE Served(c, p)'
    <3>1. observers'[c] = <<>>
      BY <2>1 DEF IInv, TypeOK
    <3>2. ~Attached(c, p)'
      BY <3>1 DEF Attached
    <3> QED BY <3>2 DEF Served
  <2>3. ASSUME NEW d \in Conv, NEW p \in Observer, d # c PROVE Served(d, p)'
    <3>1. observers'[d] = observers[d]
      BY <2>1, <2>3 DEF IInv, TypeOK
    <3> QED BY <1>2, <2>1, <3>1
  <2> QED BY <2>2, <2>3 DEF AllServed
<1> QED BY <1>4, <1>5, <1>6 DEF ObserverListStep

LEMMA ServedObserving ==
  ASSUME IInv, AllServed,
         \/ \E o \in Polled : Poll(o)
         \/ \E w \in Waiter : WaiterStep(w)
         \/ UNCHANGED vars
  PROVE  AllServed'
<1>1. \A o \in Observer : History(o)' = History(o)
  <2>1. ASSUME NEW o \in Observer, GetNextEvent(o)
        PROVE  \A p \in Observer : History(p)' = History(p)
    BY <2>1, Taking DEF IInv
  <2>2. ASSUME UNCHANGED observerVars
        PROVE  \A p \in Observer : History(p)' = History(p)
    BY <2>2 DEF observerVars, History
  <2>3. ASSUME NEW o \in Polled, Poll(o)
        PROVE  \A p \in Observer : History(p)' = History(p)
    BY <2>1, <2>3, NotificationAssumption DEF Poll
  <2>4. ASSUME NEW w \in Waiter, WaiterStep(w)
        PROVE  \A p \in Observer : History(p)' = History(p)
    <3>1. Watches[w] \in Observer
      BY NotificationAssumption
    <3>2. UNCHANGED observerVars \/ GetNextEvent(Watches[w])
      BY <2>4 DEF WaiterStep, BeginWait, TestEvents, FallAsleep,
                  WakeSpuriously, Take
    <3> QED BY <2>1, <2>2, <3>1, <3>2
  <2> QED BY <2>2, <2>3, <2>4 DEF vars, observerVars
<1>2. UNCHANGED <<sent, lock, observers, joined, pc, at, pos>>
  BY DEF Poll, WaiterStep, BeginWait, TestEvents, FallAsleep, WakeSpuriously,
         Take, convVars, lockVars, updaterVars, vars
<1>3. \A c \in Conv, o \in Observer, v \in Updater :
        Passed(v, c, o)' <=> Passed(v, c, o)
  BY <1>2 DEF Passed
<1> QED BY <1>1, <1>2, <1>3, SeenStill, ServedElsewhere DEF AllServed

\* Everybody who is in a conversation's list was handed every message that
\* was notified since it was added, and nothing twice or too early: whatever
\* number of threads update and observe, with or without the monitor, and
\* whoever is added or removed meanwhile.
THEOREM EveryEventDelivered == Spec => []NothingLost
<1>1. Init => AllServed
  <2> SUFFICES ASSUME Init PROVE AllServed
    OBVIOUS
  <2>1. \A c \in Conv, o \in Observer : ~Attached(c, o)
    BY DEF Init, Attached
  <2> QED BY <2>1 DEF AllServed, Served
<1>2. IInv /\ AllServed /\ [Next]_vars => AllServed'
  BY ServedUpdater, ServedObservers, ServedObserving DEF Next
<1>3. IInv /\ AllServed => NothingLost
  <2> SUFFICES ASSUME IInv, AllServed, NEW c \in Conv, NEW o \in Observer,
                      Attached(c, o)
               PROVE  {e.n : e \in {History(o)[i] : i \in {j \in DOMAIN History(o) :
                                           /\ History(o)[j].conv = c
                                           /\ History(o)[j].n > joined[c][o]}}}
                        = joined[c][o] + 1 .. Reached(c, o)
    BY DEF NothingLost
  <2> DEFINE Handed == {e.n : e \in {History(o)[i] : i \in {j \in DOMAIN History(o) :
                                           /\ History(o)[j].conv = c
                                           /\ History(o)[j].n > joined[c][o]}}}
  <2>1. /\ joined[c][o] \in Nat
        /\ \A n \in Nat : n > joined[c][o] => (Seen(c, o, n) <=> n <= Reached(c, o))
        /\ Reached(c, o) \in Nat
        /\ \A i \in DOMAIN History(o) : History(o)[i].n \in Nat
    BY ReachedType, HistoryType DEF AllServed, Served, IInv, TypeOK
  <2>2. \A n : n \in Handed <=> \E i \in DOMAIN History(o) :
                 /\ History(o)[i].conv = c
                 /\ History(o)[i].n > joined[c][o]
                 /\ History(o)[i].n = n
    OBVIOUS
  <2>3. \A n : n \in Handed <=> n \in Nat /\ n > joined[c][o] /\ Seen(c, o, n)
    BY <2>1, <2>2 DEF Seen
  <2>4. \A n : n \in Handed <=> n \in joined[c][o] + 1 .. Reached(c, o)
    <3> HIDE DEF Handed
    <3> QED BY <2>1, <2>3
  <2> HIDE DEF Handed
  <2>5. Handed = joined[c][o] + 1 .. Reached(c, o)
    BY <2>4
  <2> QED BY <2>5 DEF Handed
<1> QED BY <1>1, <1>2, <1>3, Invariance, PTL DEF Spec

-----------------------------------------------------------------------------
(* That nothing crashes.  Through the monitor, who is in the middle of an  *)
(* update holds the monitor's mutex, so that cleanup waits; and an         *)
(* observer's events are taken by one thread, so that what it has seen in  *)
(* the queue is still there.                                               *)

ThroughMonitor == Direct = {}

\* With assertions compiled in, each observer has one thread that takes its
\* events.
OneTaker ==
  \/ NDEBUG
  \/ \A w \in Waiter : /\ Watches[w] \notin Polled
                       /\ \A v \in Waiter : Watches[v] = Watches[w] => v = w

MonitorHeld == \A u \in Updater : pc[u] # "idle" => monitorLock = u

EventWaits ==
  NDEBUG \/ \A w \in Waiter : wpc[w] = "taking" => queue[Watches[w]] # <<>>

CrashInv == MonitorHeld /\ IteratorValid /\ EventWaits /\ NoCrash

LEMMA SafeUpdater ==
  ASSUME ThroughMonitor, IInv, CrashInv, NEW u \in Updater, UpdaterStep(u)
  PROVE  CrashInv'
<1> USE NotificationAssumption DEF ThroughMonitor
<1>1. ASSUME UNCHANGED <<queue, wpc>> PROVE EventWaits'
  BY <1>1 DEF CrashInv, EventWaits
<1>2. ASSUME UNCHANGED <<observers, at, pos>>,
             \A v \in Updater : pc'[v] = "notifying" => pc[v] = "notifying"
      PROVE  IteratorValid'
  BY <1>2 DEF CrashInv, IteratorValid
<1>3. ASSUME NEW c \in Conv, Check(u, c) PROVE CrashInv'
  <2>1. MonitorHeld'
    BY <1>3 DEF Check, CrashInv, MonitorHeld, IInv, TypeOK
  <2>2. IteratorValid'
    BY <1>3 DEF Check, CrashInv, IteratorValid, IInv, TypeOK
  <2> QED BY <1>1, <1>3, <2>1, <2>2
          DEF Check, CrashInv, NoCrash, observerVars, waiterVars
<1>4. ASSUME NEW c \in Conv, NEW type \in NotifiedType, Accept(u, c, type)
      PROVE  CrashInv'
  <2>1. MonitorHeld'
    BY <1>4 DEF Accept, CrashInv, MonitorHeld, IInv, TypeOK
  <2>2. IteratorValid'
    BY <1>4 DEF Accept, CrashInv, IteratorValid, IInv, TypeOK
  <2> QED BY <1>1, <1>4, <2>1, <2>2
          DEF Accept, CrashInv, NoCrash, observerVars, waiterVars
<1>5. CASE Reject(u)
  <2>1. MonitorHeld'
    BY <1>5 DEF Reject, CrashInv, MonitorHeld, IInv, TypeOK
  <2>2. IteratorValid'
    BY <1>2, <1>5 DEF Reject, IInv, TypeOK
  <2> QED BY <1>1, <1>5, <2>1, <2>2
          DEF Reject, CrashInv, NoCrash, observerVars, waiterVars
<1>6. CASE BeginNotify(u)
  <2>1. MonitorHeld'
    BY <1>6 DEF BeginNotify, CrashInv, MonitorHeld, IInv, TypeOK
  <2>2. IteratorValid'
    <3>1. \A c \in Conv : Len(observers[c]) \in Nat
      BY DEF IInv, TypeOK
    <3>2. 1 <= Len(observers[at[u]]) + 1
      BY <3>1 DEF IInv, TypeOK
    <3> QED BY <1>6, <3>2 DEF BeginNotify, CrashInv, IteratorValid, IInv, TypeOK
  <2> QED BY <1>1, <1>6, <2>1, <2>2
          DEF BeginNotify, CrashInv, NoCrash, observerVars, waiterVars
<1>7. CASE Push(u)
  <2> DEFINE o == observers[at[u]][pos[u]]
  <2>1. MonitorHeld'
    BY <1>7 DEF Push, CrashInv, MonitorHeld, lockVars
  <2>2. IteratorValid'
    <3>1. Len(observers[at[u]]) \in Nat /\ pos[u] \in Nat
      BY DEF IInv, TypeOK
    <3>2. /\ pos' = [pos EXCEPT ![u] = pos[u] + 1]
          /\ pos[u] + 1 <= Len(observers[at[u]]) + 1
          /\ UNCHANGED <<observers, pc, at>>
      BY <1>7, <3>1 DEF Push
    <3> QED BY <3>2 DEF CrashInv, IteratorValid, IInv, TypeOK
  <2>3. EventWaits'
    <3>1. SUFFICES ASSUME ~NDEBUG, NEW w \in Waiter, wpc'[w] = "taking"
                   PROVE  queue'[Watches[w]] # <<>>
      BY DEF EventWaits
    <3>2. wpc[w] = "taking"
      BY <1>7, <3>1 DEF Push, Woken
    <3>3. queue[Watches[w]] # <<>> /\ Watches[w] \in Observer
      BY <3>1, <3>2 DEF CrashInv, EventWaits
    <3>4. queue[o] \in Seq(NotifiedEvent) /\ o \in Observer
      BY <1>7 DEF Push, IInv, TypeOK, Locks
    <3>5. Append(queue[o], Current(at[u])) # <<>>
      BY <3>4
    <3> QED BY <1>7, <3>3, <3>4, <3>5 DEF Push, IInv, TypeOK
  <2> QED BY <1>7, <2>1, <2>2, <2>3 DEF Push, CrashInv, NoCrash
<1>8. CASE FinishNotify(u)
  <2>1. MonitorHeld'
    BY <1>8 DEF FinishNotify, CrashInv, MonitorHeld, IInv, TypeOK
  <2>2. IteratorValid'
    BY <1>2, <1>8 DEF FinishNotify, IInv, TypeOK
  <2> QED BY <1>1, <1>8, <2>1, <2>2
          DEF FinishNotify, CrashInv, NoCrash, observerVars, waiterVars
<1>9. CASE RunAstray(u)
  <2>1. Len(observers[at[u]]) \in Nat /\ pos[u] \in Nat
    BY DEF IInv, TypeOK
  <2> QED BY <1>9, <2>1 DEF RunAstray, CrashInv, IteratorValid
<1> QED BY <1>3, <1>4, <1>5, <1>6, <1>7, <1>8, <1>9 DEF UpdaterStep

LEMMA SafeObservers ==
  ASSUME IInv, CrashInv, ObserverListStep
  PROVE  CrashInv'
<1> USE NotificationAssumption
<1>1. UNCHANGED <<pc, at, pos, monitorLock, queue, wpc, crashed>>
  BY DEF ObserverListStep, AddObserver, RemoveObserver, Cleanup, lockVars,
         updaterVars, observerVars, waiterVars
<1>2. MonitorHeld' /\ EventWaits' /\ NoCrash'
  BY <1>1 DEF CrashInv, MonitorHeld, EventWaits, NoCrash
<1>3. IteratorValid'
  <2>1. ASSUME NEW u \in Updater, pc[u] = "notifying"
        PROVE  /\ observerLock[at[u]] # Free
               /\ monitorLock # Free
               /\ at[u] \in Conv
               /\ pos[u] \in Nat
               /\ pos[u] <= Len(observers[at[u]]) + 1
    <3>1. observerLock[at[u]] = u /\ monitorLock = u /\ u # Free
      BY <2>1 DEF CrashInv, MonitorHeld, IInv, Locks
    <3>2. at[u] \in Conv /\ pos[u] \in Nat
      BY DEF IInv, TypeOK
    <3> QED BY <2>1, <3>1, <3>2 DEF CrashInv, IteratorValid
  <2>2. ASSUME NEW c \in Conv, NEW o \in Observer, AddObserver(c, o)
        PROVE  IteratorValid'
    BY <1>1, <2>1, <2>2 DEF AddObserver, IteratorValid, IInv, TypeOK
  <2>3. ASSUME NEW c \in Conv, NEW o \in Observer, RemoveObserver(c, o)
        PROVE  IteratorValid'
    BY <1>1, <2>1, <2>3 DEF RemoveObserver, IteratorValid, IInv, TypeOK
  <2>4. ASSUME NEW c \in Conv, Cleanup(c) PROVE IteratorValid'
    BY <1>1, <2>1, <2>4 DEF Cleanup, IteratorValid
  <2> QED BY <2>2, <2>3, <2>4 DEF ObserverListStep
<1> QED BY <1>2, <1>3 DEF CrashInv

LEMMA SafeObserving ==
  ASSUME OneTaker, IInv, CrashInv,
         \/ \E o \in Polled : Poll(o)
         \/ \E w \in Waiter : WaiterStep(w)
  PROVE  CrashInv'
<1> USE NotificationAssumption
<1>1. MonitorHeld' /\ IteratorValid'
  BY DEF Poll, WaiterStep, BeginWait, TestEvents, FallAsleep, WakeSpuriously,
         Take, CrashInv, MonitorHeld, IteratorValid, lockVars, updaterVars
<1>2. ASSUME NEW o \in Polled, Poll(o) PROVE CrashInv'
  <2>1. EventWaits'
    BY <1>2 DEF Poll, GetNextEvent, OneTaker, CrashInv, EventWaits, waiterVars,
                IInv, TypeOK
  <2> QED BY <1>1, <1>2, <2>1 DEF Poll, CrashInv, NoCrash
<1>3. ASSUME NEW w \in Waiter, BeginWait(w) \/ TestEvents(w) \/ FallAsleep(w)
                                 \/ WakeSpuriously(w)
      PROVE  CrashInv'
  <2>1. EventWaits'
    BY <1>3 DEF BeginWait, TestEvents, FallAsleep, WakeSpuriously, CrashInv,
                EventWaits, observerVars, IInv, TypeOK
  <2> QED BY <1>1, <1>3, <2>1
          DEF BeginWait, TestEvents, FallAsleep, WakeSpuriously, CrashInv,
              NoCrash
<1>4. ASSUME NEW w \in Waiter, Take(w) PROVE CrashInv'
  <2>1. CASE NDEBUG
    BY <1>1, <1>4, <2>1 DEF Take, CrashInv, EventWaits, NoCrash
  <2>2. CASE ~NDEBUG
    <3>1. queue[Watches[w]] # <<>> /\ Watches[w] \in Observer
      BY <1>4, <2>2 DEF Take, CrashInv, EventWaits
    <3>2. /\ GetNextEvent(Watches[w])
          /\ wpc' = [wpc EXCEPT ![w] = "idle"]
          /\ UNCHANGED crashed
      BY <1>4, <2>2, <3>1 DEF Take
    <3>3. EventWaits'
      BY <2>2, <3>1, <3>2
      DEF GetNextEvent, OneTaker, CrashInv, EventWaits, IInv, TypeOK
    <3> QED BY <1>1, <3>2, <3>3 DEF CrashInv, NoCrash
  <2> QED BY <2>1, <2>2
<1> QED BY <1>2, <1>3, <1>4 DEF WaiterStep

\* If every update is made through the monitor, and each observer has one
\* thread that takes its events (which only assertions require), then no
\* iterator of notify() is left dangling by cleanup and no assertion of
\* waitForNextEvent fails, for any number of threads.
THEOREM NobodyCrashes ==
  ASSUME ThroughMonitor, OneTaker PROVE Spec => []NoCrash
<1>1. Init => CrashInv
  BY DEF Init, CrashInv, MonitorHeld, IteratorValid, EventWaits, NoCrash
<1>2. IInv /\ CrashInv /\ [Next]_vars => CrashInv'
  <2>1. ASSUME CrashInv, UNCHANGED vars PROVE CrashInv'
    BY <2>1 DEF vars, CrashInv, MonitorHeld, IteratorValid, EventWaits, NoCrash
  <2> QED BY <2>1, SafeUpdater, SafeObservers, SafeObserving DEF Next
<1>3. CrashInv => NoCrash
  BY DEF CrashInv
<1> QED BY <1>1, <1>2, <1>3, Invariance, PTL DEF Spec
=============================================================================
