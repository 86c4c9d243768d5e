# Verification of the FIPA ACL library

TLA+ models, model-checking runs and machine-checked proofs of
`multiagent-fipa_acl`: the library with which agents follow conversations
(`src/src/conversation_monitor`), build messages and letters
(`src/src/message_generator`) and read them (`src/src/message_parser`).

1. [The system](#1-the-system) - components, state, interactions, hazards
2. [The modules](#2-the-modules) - what models what, and how
3. [The runs](#3-the-runs) - questions, bounds, fairness, results
4. [The proofs](#4-the-proofs)
5. [Where code and documentation differ](#5-where-code-and-documentation-differ)
6. [What is not modelled](#6-what-is-not-modelled)
7. [Plan](#7-plan)

Paths like `conversation.cpp:373` are below `src/src/conversation_monitor`,
`src/src/message_generator` or `src/src/message_parser`; `PROJECT.json` maps
every definition that stands for code to its lines.

## 1. The system

An agent has one `ConversationMonitor`, which keeps a `Conversation` for every
conversation id. Every message that the agent sends or receives is given to
`updateConversation`; the conversation validates it against a copy of its
protocol's state machine and tells its observers what happened. Messages are
`ACLMessage`s; they travel inside an `ACLEnvelope` (a *letter*), encoded
bit-efficiently, as strings or as XML.

| component | state | operations | correct when |
|---|---|---|---|
| `StateMachine`, `State`, `Transition`, `RoleMapping`, `MessageArchive` | current state, who plays which role, first message, per state the embedded machines (plan, protocol, reply flag) and running sub machines | `consumeMessage`, `consumeSubMessage`, `inFinalState`, `inFailureState`, `cancelConversation` | roles stay assigned; sub conversations stay within the announced number and are started by the right role; one proxied reply; cancel gets one answer; failure is final |
| `StateMachineReader`, protocol files | none | load a file, add default transitions and states | the machine has every state its transitions name |
| `StateMachineFactory` | static: resource directories, map of machines, the flag that all were read | `setProtocolResourceDir`, `addProtocolResourceDir`, `prepareProtocolsFromResourceDir(s)`, `getStateMachine` | finds what lies in a directory that was added; the directory added last wins |
| `Conversation` | protocol, id, language, planned sub conversations, status, machine, sub machines, messages | constructors, copy, `update`, setters, queries | status and machine agree; the machine belongs to the first message; a refused message changes nothing that matters |
| `ConversationObservable`, `ConversationObserver` | observer list, status, event queues, condition variables | add/remove/detach observer, notify, `hasEvents`, `getNextEvent`, `waitForNextEvent` | every event reaches every attached observer once and in order; nobody blocks for ever; no dangling iterator |
| `ConversationMonitor` | map id -> conversation | `startConversation`, `getOrCreateConversation`, `updateConversation`, `removeConversation`, `cleanup` | found by its id; one running conversation per id; only ended ones are dropped |
| `ACLMessage`, `AgentID`, `UserdefParam` | fields, lists of agents | setters, adders, comparison | comparison is exact at any depth of resolvers |
| `ACLEnvelope`, `ReceivedObject`, `SerializedLetter` | payload, base envelope, overlays ("extra envelopes"), stamp counter | `insert`, `addExtraEnvelope`, `stamp`, `hasStamp`, `flattened`, `getDeliveryPath`, `createDedicatedEnvelopes` | latest overlay wins on both sides of an encoding; path ordered by time |
| generators and parsers | none, apart from a parser's result object | encode, decode | what a program may build arrives equal, or is refused |
| Ruby bindings, command line tools, benchmark | none | wrappers | (not modelled) |

How they interact: the monitor calls conversations under its own mutex; users
who got a `ConversationPtr` from `startConversation` call them directly.
`Conversation::update` holds `mMutex` from validation to the end of `notify()`,
which takes `mObserverMutex` and calls every observer, which takes its own
`mEventsMutex`, queues the event and signals its condition. Observers read the
conversation (status, messages, `hasEnded`) without `mMutex`. A machine fetches
the machines of embedded protocols from the factory when a sub conversation
starts. Envelopes are only touched by the thread that handles a letter.

What is hard, and what the properties are therefore about (`hazards` in
`PROJECT.json` has every one at its line):

* **threads**: two updaters, an updater against `cleanup()`, an updater against
  a thread entering `mCondition.wait`, observers added or removed in between,
  the nesting monitor -> conversation -> observer list -> observer;
* **test and act**: `hasEnded()` in `updateConversation` and in `cleanup()` is
  asked before, not while, the conversation is acted upon;
* **refusal halfway**: `update()` takes protocol, language and id from a
  message before it validates it;
* **legal calls in unusual order**: `setProtocol` before the first message,
  cancel while sub conversations run, a proxied reply before any sub
  conversation, a plan lowered after a sub conversation started, `insert` into
  a letter that already has overlays, any mixture of stamps and comments;
* **lists**: several encodings rebuild lists in reverse, comparison ignores
  order, and the agents' resolvers nest;
* **three representations**: each drops, condenses or refuses something else,
  and a message or letter may change representation at every hop;
* **what was read before**: one flag says whether all protocol directories were
  read, while directories are added, prepared and changed;
* **widths**: length fields of the encoding, `int` against `size_t` in the
  number of sub conversations.

Nothing is persisted, and the library sends nothing itself: crashes, restarts,
lost messages and timeouts are the business of its users.

## 2. The modules

```
Protocols --EXTENDS--> ProtocolLoader          the shipped protocol files, loaded
StateMachine  <-- Conversation <-- ConversationMonitor
                      |  INSTANCE           | INSTANCE
Notification ---------+--> ConversationLifecycle <--+     (abstract)
StateMachineFactory                            which file a protocol stands for
                             +-- BitefficientMessage --+
AgentID <-- ACLMessage <-- Encoding -- StringMessage --+-- MessageExchange
                             +------- XMLMessage ------+
Envelope <-- Letters
ConversationProofs <-- ConversationMonitorProofs
EnvelopeProofs <-- LettersProofs               lemmas and theorems
MessageProofs <-- MessageArrivalProofs
NotificationProofs, StateMachineFactoryProofs
MCConversation, MCMonitor, MCNotification,
MCFactory, MCMessages, MCLetters               instances
```

A definition whose comment begins with `Slip:` is a plausible mistake in the
definition after it; nothing uses it but the sensitivity check of
`PROJECT.json` (`mutants`), which puts it in the place of the right one and
expects the named property to fail.

### StateMachine (pure operators)
A machine is the record `[proto, cur, roles, init, esm]`: `StateMachine`'s
protocol and `mCurrentStateId`, the `RoleMapping`, the first message of the
`MessageArchive`, and for each state its `EmbeddedStateMachine`s. The
other archived messages are kept by the code and never read. `ConsumeMessage` is `StateMachine::consumeMessage`: the
first transition of the current state, in list order, whose
performative, sender and receivers fit, or else a reply of a proxied protocol
(`State::consumeMessage`, `state.cpp:120-312`). `TakenBySub`, `StartedSub` and
`ConsumeSubMessage` are `State::consumeSubMessage`: running sub machines are
tried in order, then a new one is started if the plan admits it. They return the
*set* of possible results, empty when the code throws. A role is a regular
expression over agent names, and unassigned roles are filled from the message:
`ValidSender`, `ValidReceivers`, `Fire`. The comparison of the `int` plan with
a `size_t` is modulo the constant `SizeWrap`.

### ProtocolLoader, Protocols
`Load` does what `StateMachineReader` does with the elements of a file: it adds
the implicit `not-understood`, failure and cancel transitions and the states
they lead to, collects the roles and marks the final states. `Protocols` holds
all eleven files of `configuration/protocols` as they parse. The checked
machines are therefore loaded from the shipped files and not written by hand.

### Conversation
`conv[h]` is the object (`id`, `proto`, `lang`, `planned`, `status`, `machine`,
`subs`). One action per operation: `Create`, `CreateFromMessage`, `Copy`,
`Accept` / `Refuse` (the two outcomes of `update()`), and the setters. `update()`
is atomic here, because it holds `mMutex` throughout. `Prepared` is what happens
before validation (and survives a refusal), `Consumed` the validation, `Stored`
and `Classify` the rest. `garbage` is what the uninitialised
`receivedProxiedReply` (`statemachine.h:226`) happened to contain when a
prototype was loaded: any Boolean. `event` and `forwarded` are history.

### ConversationLifecycle (abstract)
What observers are promised: a status and the class of the last event, that a
conversation starts once, never goes on after a failure, and goes on after its
end only when its protocol has a way out of a final state. `Conversation`
implements it with its own status; `Notification` implements it with the status
and events of the threads' interleaved steps; `ConversationMonitor` implements
it with `EndIsFinal <- TRUE`, whatever the protocol.

### Notification
The steps that `Conversation` takes at once, taken apart where another thread
can come in: `Check` (the monitor's test, under its mutex), `Accept`,
`BeginNotify`, `Push` (one observer), `FinishNotify`. `mMutex`,
`mObserverMutex` and the monitor's mutex are variables; what happens under
`mEventsMutex` is one step, since nothing else is locked inside it. The observer
list can be changed by `AddObserver`, `RemoveObserver` (both under
`mObserverMutex`) and by `Cleanup`, whose `detachObservers` takes no such mutex.
A waiting thread goes through `TestEvents`, `FallAsleep`, `WakeSpuriously`,
`Take`. `NDEBUG` says whether `assert(getNextEvent(event))` exists in the
build. The protocol is abstracted to the class of event a message is notified
as (`MayFollow`, the relation of ConversationLifecycle).

### ConversationMonitor
`EXTENDS Conversation` and adds the map `active`. `updateConversation` is two
actions (`FindConversation`, `UpdateConversation`) and `cleanup` one per
conversation looked at plus the erasure, so that users of a `ConversationPtr`
(`DirectUpdate`, `DirectSetting`) come in between. Operations of the monitor
exclude each other by its mutex (`working`).

### StateMachineFactory
The factory's static members, and calls in steps between which a file, or with
several threads another call, may come in: the beginning of `getStateMachine`,
each directory (`NextDirectory`), which lists every file there is, each file
(`LoadFile`), which is loaded or passed over as it then is (`Unloadable`), the end
of a directory,
where `msPreparedResourceDir` is set (`DirectoryDone`), and the look into the
map (`Find`). `ChangeFile` and `MoveDirectory` are somebody else's. A machine
stands for the content of its file; what becomes of that is ProtocolLoader's.
`kept`, `hidden` and `asRead` are history: what has been in an added directory,
and could be loaded, ever since, whether a direct call set the flag too early, and whether the files
are still as they were when the last reading began. Conversation uses
`Specification` for what the factory answers; the theorems of
StateMachineFactoryProofs say when that is the file one expects.

### AgentID, ACLMessage, Encoding, the three representations, MessageExchange
Agents and messages are built by the program's own setters from a small set of
texts; `Checked` says which texts a checked setter accepts. `CompareEqual` is
`AgentID::compareEqual` with its depth. Resolvers have resolvers: what the code
does by recursion is a function here that is defined level by level, on the
identifiers so many levels below the given one (`Nested`), down to the constant
`Nesting`, which no identifier in use exceeds (`GivenAssumption`). A written
message is a sequence of coded items (`Item`), one per field that has something to
write:

* `BitefficientMessage`: predefined codes and user-defined parameters, contents
  with 8, 16 or 32 bit lengths, resolvers to a depth of `ResolverDepth`.
  `AsLiteral` is what the grammar reads back of a text between quotation marks.
* `StringMessage`: the text of the FIPA string representation, read by the
  grammar of `grammar_string_message.h`. Words end where it ends them
  (`PlainWord`, `EndsWord`), names run together with what follows them
  (`Garbled`).
* `XMLMessage`: elements and attributes as TinyXML writes and reads them.
  `AsAttribute` and `AsElement` are what is read back of a text: references
  replaced, blanks condensed, an empty element refused.

Reading yields a message, or one of `Unreadable`, `NotWritten`, `Escaped` (an
exception that is not caught); a single text that cannot be read is
`UnreadableText`. `MessageExchange` lets an agent edit a message and
deliver it in any representation, and its reader pass on what it read: `edits`
counts the calls of setters, `route` lists the representations since the last.

### Envelope, Letters
An envelope is `[set, val]`, the flags and the fields. `Merge`, `Flattened`,
`Stamp`, `HasStamp`, `DeliveryPath`, `CreateDedicatedEnvelope` are the functions
of `acl_envelope.cpp`. `EncodedBase`/`DecodedBase` and `EncodedExt`/`DecodedExt`
are the bit-efficient encoding, `XMLParameters` and `ParseParameters` the XML
one; `Transmitted` is `SerializedLetter` in either. `AsElement` and `AsAttribute`
are, as for messages, what TinyXML makes of a text; one letter is refused as a
whole (`Deserializable`) if comments, an encoding or the value of a parameter,
in any of its envelopes, has no text left. The names of agents and the texts of
receipts are taken to hold neither blanks nor character references. `Letters` follows one letter
through services that insert a message, edit the base envelope, add comments and
user-defined parameters, re-encode the payload, stamp it, dedicate and transmit
it; a letter that cannot be read stays where it is. `stamps`, `latest`,
`shadowed`, `plain` and `sentAs` are history.

## 3. The runs

Each run asks one question; the state counts are distinct states. All explore
their whole instance. `CHECK_DEADLOCK FALSE` stands in every configuration
because the library does nothing of itself: when conversations are over, the
message bound is reached or nobody edits a letter any more, it rests. That no
*update* gets stuck is `UpdatesEnd`.

| run | module | states | question |
|---|---|---|---|
| `brokering` | MCConversation | 155,176 | a broker's conversation with proxied sub conversations: status, reply, failure, cancel, numbers planned (one negative), `setProtocol` |
| `peers` | MCConversation | 73,952 | two conversations and a copy, several agents and protocols, id and language set by hand: roles, opening, lifecycle |
| `notification_monitor` | MCNotification | 3,473,097 | two threads updating through the monitor, one waiter, one poller, observers coming and going, `cleanup` |
| `notification_live` | MCNotification | 424,130 | one thread directly, one through the monitor; a protocol that reopens; order, lifecycle and progress |
| `monitor_only` | MCMonitor | 188,036 | all updates through the monitor: ids and lifecycle |
| `monitor_direct` | MCMonitor | 165,988 | direct updates and setters come between the monitor's steps: `cleanup` |
| `factory` | MCFactory | 1,192,192 | directories set, added, prepared and asked while the files change, some of which cannot be loaded |
| `messages` | MCMessages | 287,588 | edited messages are written, read and passed on in three representations |
| `letters` | MCLetters | 1,758,625 | a letter's envelopes, stamps and transmissions in two representations |
| `lost_wakeup` | MCNotification | violation | `SleeperWakes`, see section 5 |
| `unknown_event` | MCNotification | violation | `ReturnsNextMessage` |
| `detached_while_notifying` | MCNotification | violation | `IteratorValid` |

### What the properties say

*Conversations.* `StatusTracksMachine`: the status written by the last
`notify()` and `hasEnded()`, which asks the machine, never disagree, though
refusals, setters and plans come in between. `OneReplyForwarded`: a proxied
protocol forwards at most one reply, and a conversation that ends in a proxying
state has had it (or ran `inform`); under the assumption that the uninitialised
flag happened to be false. `FailureIsFinal`, `CancelIsAnswered`: nothing is
accepted after a failure, and one answer after a cancel, also with running sub
conversations. `OpenedByItsProtocol`: what a refused first message left behind
does not make the machine another protocol's. `RolesStayAssigned`: a later
message adds nobody to a role that is played. `SubsStartedByEmbeddingRole`,
`SubsWithinPlan`: who starts sub conversations, how many, and that those which
are over do not change. `ForcedStandsStill`: what `setProtocol` does to a running
conversation. `LifecycleSpec`: refinement of ConversationLifecycle.

*Notification.* `NothingLost`, `InOrder`: an attached observer has every event
since it was added, once and in order. `StatusSettles`: whenever no update is
under way, the status is the one of the last event notified (in between it
lags, see `stale_status`). `NoCrash`: no assertion fails and no
iterator dangles if all updates go through the monitor and an observer is either
polled or waited for by one thread. `UpdatesEnd`, `PollingGetsAll`: liveness.

*Monitor.* `FoundByItsId`: what is found under an id has that id, and so have
its messages. `OneRunningPerId`: of two conversations with one id, one has ended
or was closed. `MonitoredLifecycleSpec`: the monitor's test makes an end final
even where the protocol goes on. `CleanupDropsEnded`: with direct updates between
its test and its erasure, `cleanup()` still drops only what has ended, given
protocols that end for good.

*Factory.* `FoundIfKept`: what has lain in a directory, and could be loaded, since
that was added is found, whatever else was added, read or changed.
`LastAddedWins`: of several files of one name that can be loaded, that of the
directory added last is used.

*Messages.* `Arrives`: a message whose texts the representation can carry is
read back equal; `Portable` says which these are, and so documents what the
setters admit and each encoding loses. `EqualAtEveryHop`: what one reader finds
equal to the original stays equal for every later one in that representation.
`EqualAcrossRepresentations`: a message that each representation on its route
can carry survives the change between them. Both ask that the texts of resolvers
of resolvers stay as they are (`DeepTextsKept`), though no comparison looks at
them: XML replaces a character reference each time it is read, and the second
result may be a name that the setters refuse. `NoAddresseeLost` holds of every
message, portable or not, up to what `NamesKept` names: text spoils the names of
agents with user-defined parameters, XML replaces what looks like a character
reference in a name or performative, and cuts a content at a NUL byte. `ComparisonIsExact`: the
in-place striking of `compareEqual` is equality of bags, against an independent
definition.

*Letters.* `PathInTimeOrder`: the delivery path lists the stamps in the order
they were given. `StampsKnown`: an agent finds its stamp if and only if it
stamped. `Readable`: the message inserted last can be read, whatever was laid
over it since. `LatestWins`: each field has the value it was last given, on
both sides of a transmission; of comments and payload encoding, which are the
text of XML elements, it has one of the texts that XML makes of that value
(`XMLVersions`), and never that of an older envelope. `PlainIsRead`: a letter is
refused only where some text was given that XML alters, or a parameter without a
value; what the encodings themselves leave empty never gets it refused.
`ForwardedUnchanged`: what a transmission does to a letter it does at once, if XML
keeps the texts that are left (a reference may hide another one). The comment on
each names what it leaves out, and the property of section 5 that shows it.

### Bounds, and why they are enough

* *Conversations.* One to two objects, three agents (initiator, partner, third),
  one id and language. The state of a conversation depends on the protocol's
  states, the roles and the sub machines only, all finite, so no counter is
  bounded: every sequence of messages of every length is covered. Plans
  are 1, with which a second sub conversation is refused, and -1, which as one
  of the three values of a `size_t` (`SizeWrap = 3`) is 2, the greatest: two sub
  conversations run beside each other. `propagate.cfg`, to be run by hand, has
  embedded sub conversations that are not proxied and plans up to 2; it passes
  (11,900 states).
  `Routes` leaves out messages that no role of the chosen protocols could send
  or receive, except one intruder per instance. Refused messages are all
  alike, so a few suffice.
* *Notification.* `MaxMessages` is 2 or 3: start, intermediate update, end; and
  one more after an end (`Reopens`). Two updaters are enough to hold any two of
  the mutexes crosswise; the mutexes are taken in the order monitor,
  conversation, observer list, so a longer circle needs no more of them. One
  conversation: conversations share nothing but the monitor's mutex, which
  module ConversationMonitor models, and the theorems of section 4 hold for any
  number.
* *Monitor.* Two objects, a free id and the id the first object generates, so
  that an id can be requested before and after it is generated.
  `monitor_only` has `dutchAuction`, which goes on after a final state;
  `monitor_direct` has only a protocol that ends for good, which is what
  `CleanupDropsEnded` requires (`cleanup_race.cfg` shows why).
* *Messages.* `Nesting = 2`: a resolver of a resolver is the first that the
  comparison does not look at and the bit-efficient encoding cuts. `MaxEdits = 2`: fields do not influence each other except in
  pairs (a parameter and the predefined field it is named after; receivers and
  reply-to). `MaxHops = 2`, from each edit: a list reversed twice is the
  original again, resolvers lose depth once, and every pair of representations
  follows each other. Contents sit at both sides of each limit of the length
  field, with and without a NUL byte at the end; texts are one or two of each
  kind that some representation treats differently, and one name below a resolver is
  altered by XML at both hops.
* *Factory.* Two directories, two protocols, two versions and files that cannot be
  loaded: a directory added after another was read, a file of one name in both, a
  protocol in one only, a file that becomes loadable after it was listed.
  Directories, protocols and versions are symmetric. One thread: with two, whose
  calls no mutex separates, `FoundIfKept` is violated (`factory_threads`).
* *Letters.* `MaxSteps = 4` operations and any number of transmissions in
  either representation in between: insert, stamp, stamp again, and something else; a second insert over
  an overlay. Two agents, so that of any stamp or list of receivers there is one in
  it and one not; a message names one receiver, two, or one twice. Texts of each
  kind that TinyXML tells apart: kept as they are, empty, condensed (the
  encoding), with references in place of blanks, and with a reference that
  hides another one, so that what one transmission leaves is refused at the next.

### Fairness

Only `Notification` has liveness. Weak fairness is put on the steps of a call
already begun: `BeginNotify`, `Push`, `FinishNotify` and a refusal by the
updater, the test, the falling asleep and the taking by the waiter. These are
straight-line code that needs the processor and a mutex which is free (no two
threads contend for `mObserverMutex` or the monitor's for ever, since
every holder leaves by such a step). Nobody is made to start an update or a
wait, and a spurious wake-up is never promised. `PolledSpec` adds that a thread
which polls goes on polling (method B of `conversation.h` in a loop); without it
`PollingGetsAll` would say nothing.

## 4. The proofs

`tlapm X.tla` checks each of the eight modules whose name ends in `Proofs`; no
step is left out. Of the properties of the passing runs, all safety properties
are proved but one invariant of `messages`; the liveness properties are not.

**NotificationProofs**, for any sets of conversations, threads and observers, any
`MaxMessages`, both values of `NDEBUG` and of `Reopens`, crashes included:

* `TypeCorrect`: `Spec => []TypeOK`.
* `EventsInOrder`: `Spec => []InOrder`. `InOrder` alone is not inductive: a push
  must know that the event it appends is newer than all the observer has. The
  invariant `IInv` adds that the holder of `mMutex` is the one thread between
  `accepted` and the end of its notification, that its iterator never goes back,
  that no observer is twice in a list, that everything in an observer's history is
  at most `sent`, and less than `sent` if the notification has not reached the
  observer yet. Removal during a notification is excluded by
  `mObserverMutex`, and `detachObservers` only shortens the list.
* `ImplementsLifecycle`: `Spec => Lifecycle!Spec`. `FinishNotify` is the step;
  every other is a stutter. The invariant relates `status`, `announced` and
  `class` outside an update.
* `SettledStatus`: `Spec => []StatusSettles`. The invariant adds
  that the last event an observer holds is of the class its message was given
  (`LastOfItsClass`), so that `FinishNotify` sets the status that was told, and
  nothing else can have set one since.
* `EveryEventDelivered`: `Spec => []NothingLost`. The invariant `Served` says of one
  conversation and one observer that of what was notified since the observer was
  added it has seen exactly what has reached it; where the iterator of a running
  notification stands (`Passed`) decides whether the last message counts. An
  observer that is added waits for `mObserverMutex`, so no notification is
  under way then (`NobodyNotifies`).
* `NobodyCrashes`: `Spec => []NoCrash`, if every update goes through the monitor
  (`ThroughMonitor`) and, where assertions are compiled in, one thread takes the
  events of an observer (`OneTaker`). Both are needed: the runs
  `detached_while_notifying` and `unknown_event` are what happens without. The
  invariant says that whoever updates holds the monitor's mutex, so that
  `cleanup` waits, and that what a waiter has seen in the queue is still there.

**ConversationProofs**, for every set of protocols that satisfies
`SpecificationAssumption` (what the reader guarantees: transitions stay in the
machine, roles are known, failure states are dead ends), any agents, messages
and objects. It begins with lemmas about the operators of StateMachine: a machine
stays in the states of its protocol, keeps one run-time record per embedded
machine (`WellFormed`), and its roles only grow (`Grown`), by nobody who joins a
role that is played (`Assigned`).

* `TypeCorrect`: `Spec => []TypeOK`. The invariant `IInv` is `TypeOK` and
  `Objects`: every machine and sub machine is well formed, i.e. it is in a
  state of its own protocol and has a run for each embedded machine, and only
  states with embedded machines have sub machines. Lemmas say that each
  operator keeps this (`NewMachineOK`, `FireOK`, `ConsumeMessageOK`,
  `TakenBySubOK`, `StartedSubOK`, `PreparedOK`, `ConsumedOK`, `StoredOK`).
* `StatusInStep`: `Spec => []StatusTracksMachine`, if `setProtocol` is never called
  with the empty protocol (which makes the next update fetch a fresh machine).
  The invariant `SInv` adds `Kept`: once the status is set, it is the one the
  machine and its sub machines lead to (`StatusOfMachine`), and a conversation
  with a machine has a protocol, so that no update replaces the machine
  (`ProtocolKept`); and only an object whose status is set shows an event.
* `FailedForGood`: `Spec => FailureIsFinal` under the same assumption and from the
  same invariant. A failure state is a dead end (`DeadEnd`): nothing is
  consumed there.
* `ImplementsLifecycle`: `Spec => LifecycleSpec` under the same assumption. Each
  action is first abstracted to what it does to status and event (an object is
  born, copied, changed without effect on them, or announces a class); each
  of these is a step of the abstract specification or a stutter.

**StateMachineFactoryProofs**, for any directories, protocols, machines and
changes of the files; the last two for one call at a time (`OneThread`):

* `FactoryTypes`: `Spec => []FactoryTypeOK`, for any number of threads.
* `KeptIsFound`: `Spec => []FoundIfKept`. The invariant `FoundOrDue` says of every
  kept protocol that it is in the map, or that the call in progress has still to
  read its file or its directory, or that no call is in progress and the flag is
  clear. `KeptListed` ties what is kept to the list of directories.
* `LastWins`: `Spec => []LastAddedWins`. The invariant `Progress` says, while the
  files stay as they were read, that each machine is that of the last holding
  directory among those read so far (`ReadUpTo`), where the directory being read
  counts once its file is loaded.

The second half of **ConversationProofs** is about the rules of conversations,
under the same assumptions. Every step of `Next` is first reduced, for one object, to one of seven turns (`Turn`):
nothing, a setter, a birth, a copy, a refusal (which may leave a fresh machine
behind), an accepted message of an object or of a new one; and an accepted message
to one of three (`Takes`): the machine takes it, a running sub machine does, or a
new one starts. Each property is then proved turn by turn:

* `ForcedStand`: `Spec => ForcedStandsStill`, without any assumption.
* `OpenedProperly`: `Spec => []OpenedByItsProtocol`, if `setProtocol` is not used.
  The invariant `OpenedInv` says that a machine is of its conversation's protocol
  and was opened by a message of it.
* `EmbeddingRoleStarts`: `Spec => []SubsStartedByEmbeddingRole`, without any
  assumption. The invariant `StartedInv` says it of the sub machines of every
  state, not just of the current one; roles grow only, so it stays true.
* `AssignedForGood`: `Spec => RolesStayAssigned`, `PlanKept`: `Spec => SubsWithinPlan`
  and `CancellationAnswered`: `Spec => CancelIsAnswered`, if nobody calls
  `setProtocol` with the empty protocol: that replaces the machine in mid
  conversation (section 5 and the hazards). The last also assumes that each
  protocol was read from a file (`AllRead`), which is what the library does: no
  file names the states of a cancellation, so they are what
  `generateDefaultStates` makes of them.
* `ReplyOnce`: `Spec => []OneReplyForwarded`, moreover for protocols that proxy in
  one place at most (`SingleProxy`; of the shipped ones only `brokering` proxies).
  The invariant `CInv` counts: the flag of that place is set if and only
  if one reply was forwarded.

**ConversationMonitorProofs**, under the same assumptions, for any requests, messages
and direct users unless it says otherwise:

* `MonitorTypeCorrect`: `MonitorSpec => []MonitorTypeOK`. The invariant `KInv` adds
  that no conversation is registered twice, that what is registered lives, and
  that what the monitor is at work on is what it found.
* `MonitorImplementsConversation`: `MonitorSpec => Spec`. Every step of the monitor,
  and every direct one, is a step of Conversation or a stutter, so the theorems
  about Conversation hold of monitored conversations.
* `MonitorFindsItsId`: `MonitorSpec => []FoundByItsId`, if nobody updates a
  conversation directly or forces its id (`OnlyThroughMonitor`; the
  configurations `found_by_id` and `empty_id` are what happens otherwise).
* `CleanupDropsOnlyEnded`: `MonitorSpec => CleanupDropsEnded`, if either nobody updates
  directly or every protocol ends for good (`EndIsFinal`; see `cleanup_race`). The
  invariant `EndedFound` says that what `cleanup` found ended is still ended.
* `OneRunsPerId`: `MonitorSpec => []OneRunningPerId`, if `OnlyThroughMonitor` and no one
  asks for a conversation with the empty id. The invariant `RInv` says that what
  lives is closed, has ended, or is registered under its id.
* `MonitoredImplementsLifecycle`: `MonitorSpec => MonitoredLifecycleSpec`, if nobody
  updates directly or erases a protocol. The invariant `MInv` says that what the
  monitor has tested still runs when it is updated.

**EnvelopeProofs**, lemmas about the operators of Envelope for letters with any
number of envelopes: `Flattened` gives of each field what the last envelope to set
it says (`FlattenedIs`), `DeliveryPath` grows by the hop of the envelope laid over
(`HopsAppend`), sending keeps values, but for what XML makes of texts, stamps and hops (`SentTells`,
`SentKeepsStamp`, `SentHop`), and sending twice is sending
once where XML keeps the texts (`SentTwice`).
`Flattened` is a recursive function over sets and `FlattenSeq` one over numbers;
the induction they need is that the strict subset order of finite sets is well
founded (`Smallest`, `Induction`), which needs no operator as a parameter.

**LettersProofs**, for any agents, messages, texts and number of operations, and for
any lists of receivers, since `setAllReceivers` lets an agent be in one twice
(`ReceiversAssumption`). What XML makes of a text is a constant of which little is
assumed: what is read of an element is again a text, and not the empty one, or
nothing (`TextAssumption`); it is defined for the texts that are given
(`GivenTextsAssumption`).

* `LettersTypeCorrect`: `Spec => []LettersTypeOK`. The invariant says that the value of
  every field of every envelope fits it, whether it is set or not, since encodings
  write and read some fields regardless. Nobody is twice among the addressees whom
  the message does not name twice: `addTo` and `removeTo` make no new
  duplicates (`NoMoreDoubled`), and the intended receivers are those of the message.
* `StampsStay`: `Spec => []StampsKnown`. Not inductive as it stands: bit-efficiently
  every overlay is read back as stamped. The invariant `KnownInv` adds that an
  overlay without the flag holds nobody's receipt (`Overlay`); `SentKeepsStamp`
  shows that both representations keep that, and who stamped what.
* `LatestValueTold`: `Spec => []LatestWins`, and `MessageReadable`: `Spec => []Readable`.
  The invariant `ToldInv` says of every field that is not shadowed that the letter
  tells its latest value or one of the texts that XML makes of it (closed under another
  reading, `NextVersion`), that fields that were not set are as in a new envelope
  (else a reader would restore something else), that the transport behaviour, which
  no encoding carries both ways, is never set, and that the payload's
  representation is the latest one.
* `PathTold`: `Spec => []PathInTimeOrder`. The invariant `PathInv` says that the
  stamps and the hops of the row of envelopes are alike (`Alike`): same length,
  same services, and same ids but where a receipt came via another service.
* `ForwardingKeeps`: `Spec => ForwardedUnchanged`. The invariant `SentInv` says that a
  letter which was sent is what some letter becomes in that representation, and
  `SentTwice` that it then stays what it is, where XML keeps the texts it has.
* `PlainLettersRead`: `Spec => []PlainIsRead`. The invariant says that as long as all
  texts given were plain, every text in every envelope is, or is an empty one that
  is not written.

**MessageProofs**, for any texts, identifiers, lists, parameters, contents, depths
and numbers of edits and hops. Assumed is what the setters of `AgentID` and
`ACLMessage` see to (`GivenAssumption`, `ACLMessageAssumption`: the names and
addresses of the identifiers given to a message, and of their resolvers at every
depth, pass the check, and so do the predefined performatives and the empty text),
and that a word the text grammar reads passes the setters (`StringAssumption`).

* `TypeCorrect`: `Spec => []TypeOK`: no path through generator and parser stores
  a text that the setters would have refused, in any message or resolver, however
  often it is passed on. What a generator or a parser makes of an identifier is
  followed level by level (`MappedOK`): each of its resolvers is made of one of the
  resolvers one level deeper.
* `AddresseesReach`: `Spec => []NoAddresseeLost`. The invariant `IInv` adds that
  what was read is what the message at hand reads as (`ReadAsSent`), since its
  holder does not edit it in between; the rest is about one transfer
  (`TransferTold`): a generator writes an item for each field that is not empty,
  and a parser is taken through the items one by one (`Told`): after `k` items the
  message it builds names exactly the receivers, if their item was among them, or
  else none; the same holds of the agents to reply to and the content. Items of
  other kinds change none of these (`ToldSame`). That a fold is such a walk
  (`Chain`, `FoldBits`, `FoldText`, `FoldXML`) and that functions defined level by
  level have the value of their level (`LevelsExist`, `BuiltUnfolds`,
  `ParsedUnfolds`) is proved from the well-foundedness of the numbers
  (`InductionTo`), which needs no operator as a parameter.
* `ComparisonExact`: `Spec => []ComparisonIsExact`. For two lists of keys, striking
  is followed element by element (`Matched`): as long as each element found an
  equal one, those struck are as many of every key as were looked for; once one
  found none, the first list has more of its key than the second has at all. So all
  are struck exactly if each key is as frequent in both lists (`Matching`). That
  equality of identifiers is equality of keys is shown from the deepest level up
  (`KeyedLevel`): the key of an identifier is its name and how often each text and
  each key of a resolver occurs in it.

**MessageArrivalProofs**, for any texts, identifiers, lists, parameters, contents and
numbers of edits and hops:

* `MessagesArrive`: `Spec => []Arrives`. Two assumptions join those of
  MessageProofs. `DepthAssumption`: identifiers are compared one level of resolvers
  deep, as `msResolverComparisonDepth` is set to and never changed, and written at
  least that deep (`Portable` is about that depth; with a deeper comparison it would
  have to follow the resolvers further). `OutcomeAssumption`: what stands for a
  message that was not read is no message. `TypeOK` says moreover that a date has 17
  digits, that a content has a size and perhaps a NUL byte, and that parameters are
  pairs; the prover needs that to say when two of them are equal.
* The first part is about lists. What is read back of an identifier is a *copy* of
  it (`Copies`): equal as `AgentID::operator==` compares, perhaps with its lists
  reversed. Equal identifiers have one key (`AgentKeys`, from the argument of
  `ComparisonExact`), so adding the copies one by one, each at the front and only if
  no equal one is there, gives a list equal to the written one if that had no
  duplicates (`AddedKeys`, `ReceiversAdded`, `ReplyTosAdded`).
* The second part follows a parser through the items. `Carried(x, m)` says that every
  field of the message `x` under construction is as in a new message or as in the
  sent one, `m`; an item takes it to `Onward(x, y, m)`: what was right stays right
  and nothing becomes wrong. So a walk over all items ends with every field right
  whose item was met (`Gathered`), and each field that is not empty has one
  (`Complete`). That is used three times (`BitArrives`, `TextArrives`, `XMLArrives`),
  with what each representation makes of one item (`BitBrings`, `TextBrings`,
  `XMLBrings`), and each needs that no item is refused (`BitItemReadable`,
  `TextItemReadable`).
* In text two items may run together. `InPart` says in which part of the joined list
  an item lies, and `ProtocolEnds` that what follows the protocol ends it, wherever
  it is, given what `PortableAsText` asks for: user-defined parameters follow it
  only behind a conversation id.
* `MessagesTravel`: `Spec => []EqualAcrossRepresentations`, for any route. That the
  message of the author can be carried says nothing yet of what a reader passes on,
  and that the two are equal does not help: equal messages may differ below the
  resolvers, in the order of their lists and in what an undefined sender is. The
  invariant `PassedAlong` therefore says that what is held is what is *left* of the
  message of the author (`Passed`): equal to it, with agents that descend from its
  agents. An identifier descends from another one (`Descends`) if it has at no level
  a text which that has not, and resolvers that can be told apart if that has. So it
  is after one transmission, level by level (`BitInherited`, `TextInherited`,
  `XMLInherited`, from `FollowedDown`), and after several (`PassedOn`); and whatever
  could carry the one can carry the other (`PortableDescends`, `PortablePasses`),
  since `Portable` asks only that texts are good, lists short of something, or
  agents not alike.

What stays with TLC: `UpdatesEnd` and `PollingGetsAll` (fairness and ENABLED are out
of the prover's reach), and of `messages` one invariant that says more of the
instance than of any constants: `EqualAtEveryHop`, which asks nothing of the
message but that one reader found it equal, fails of three hops where reading XML
would exchange two texts for each other. Replacing character references never does,
but that is more of `AsAttribute` than the state of the exchange can tell.

## 5. Where code and documentation differ

Three are checked as runs (`findings` in `PROJECT.json`):

* `lost_wakeup`: `waitForNextEvent` tests the queue and then waits with a mutex
  local to the call (`conversation.cpp:46-52`); a notification in between
  is lost, and the thread sleeps with an event in its queue.
* `unknown_event`: the event is taken inside `assert()`
  (`conversation.cpp:54`). The default build, RelWithDebInfo, defines `NDEBUG`;
  there the event stays and an event of type UNKNOWN is returned.
* `detached_while_notifying`: `detachObservers` (`conversation.cpp:411`) clears
  the list without `mObserverMutex` while `notify()` may be iterating.

Others have a configuration to be run by hand (`tlc -config X.cfg M`), each of
which ends with a violation of the property named:

| configuration | module | property | what happens |
|---|---|---|---|
| `reply_flag` | MCConversation | FlagMeansReply | `receivedProxiedReply` is not initialised (`statemachine.h:225`) |
| `reply_to_inform` | MCConversation | NoReplyToInform | a reply is accepted before the sub conversation that owes none starts (`configuration/protocols/brokering:29`) |
| `set_protocol` | MCConversation | ProtocolHasMachine | `setProtocol` first: no machine is ever fetched |
| `reopened` | MCConversation | EndedIsTerminal | `dutchAuction` goes on after a final state |
| `id_of_messages` | MCConversation | IdOfMessages | the id of a refused first message stays, the next one brings its own |
| `language` | MCConversation | LanguageOfInitiator | the language of a refused first message stays |
| `stale_status` | MCNotification | StatusReflectsNotifications | observers are notified before the status is set (`conversation.h:239`) |
| `empty_id` | MCMonitor | FoundAgain | an empty id is registered as such, the conversation has another |
| `found_by_id` | MCMonitor | FoundByItsId | the first direct update gives a conversation another id than its key |
| `cleanup_race` | MCMonitor | CleanupDropsEnded | a conversation resumes between test and erasure (`conversation_monitor.h:132`) |
| `receivers_set` | MCMessages | ReceiversAreASet | `setAllReceivers` keeps duplicates ("set was chosen for uniquness") |
| `letters_documented` | MCLetters | PathIsStamps | overlays without a stamp show as hops (`acl_envelope.h:446-453`) |
| `letters_documented` | MCLetters | StampsOfAnyEnvelope | `hasStamp` does not look at the base envelope (`acl_envelope.h:492-497`) |
| `letters_documented` | MCLetters | InsertOverwrites | old overlays hide what `insert` sets (`acl_envelope.h:396-402`) |
| `letters_documented` | MCLetters | LengthOfPayload | the reader stores an envelope's length as the payload's (`grammar_bitefficient_envelope.h:222-231`) |
| `letters_documented` | MCLetters | ReceiptsKept, ParametersKept, AddresseesKept | XML reads a receipt's via as its id; user-defined parameters are not written bit-efficiently and hidden by any overlay read from XML; `addTo` without `setTo` is not written |
| `factory_threads` | MCFactory | FoundIfKept, NoDataRace | two threads ask at once: one finds the flag set after the first directory, and both use the map |
| `stale_protocols` | MCFactory | NothingHidden, FoundWhereSearched | preparing one directory directly hides those added (`statemachine_factory.h`, "all available machines"); machines of directories taken off the list stay ("implies a clearing of all previous entries") |

(TLC stops at the first violation: of a configuration that lists several
properties, leave the one in that is to be seen.)

What `Portable` excludes of a message, beside texts no encoding could carry:

* *text*: only the predefined performatives are read; agents' user-defined
  parameters garble the name or make the text unreadable; resolvers of resolvers
  are unreadable; a user-defined parameter right after the protocol is;
* *XML*: blanks are condensed and a blank text is unreadable; user-defined
  parameters of agents are dropped; a content ends at its first NUL byte; text
  that looks like a character reference is replaced; a protocol that the setter
  refuses makes an exception leave `parseData`;
* *bit-efficient*: a parameter named like a predefined one overwrites it, or
  makes `boost::bad_get` leave `parseData`;
* *text and XML*: a sender without a name is not written.

Letters lose empty comments and an empty payload encoding in XML (the latter reads
back as US-ASCII). XML condenses the blanks of either and replaces character
references; a letter one of whose envelopes has blank comments, a blank encoding or
a parameter without a value is refused as a whole
(`xml_envelope_parser.cpp:139,151`, `xml_parser.cpp:185-199`). The factory's `setProtocolResourceDir` has emptied the list
when it throws because the path is no directory.

Met while reading, without a model of their own:

* `merge` is documented to overwrite empty fields only
  (`acl_envelope.h:314-316`); the other envelope's fields win (`Merge`).
* `ReceivedObject::operator==` (`received_object.h:57`) is true of any two.
* Texts with quotation marks cannot be read back, a backslash before one is lost.
* `setName` admits tabs, line ends and the empty name, the grammar's Word
  does not (`agent_id.h:93`); the constructor of `UserdefParam` checks nothing.
* `AgentID::operator!=` is documented to compare names only
  (`agent_id.h:174-177`).
* `reply-by` is written in local time without an offset.
* An envelope that needs the longest length field appends from a null pointer
  (`bitefficient_envelope_format.cpp:121`).
* `mStampCounter` is incremented without a lock (`acl_envelope.cpp:356`).

## 6. What is not modelled

* TinyXML and the grammars' work on characters: what they make of each kind of
  text is a constant (`AsAttribute`, `AsElement`, `AsLiteral`, `Word`...). Regular
  expressions over agent names beyond "anything" and "this very name",
  exceptions' texts, logging.
* The bytes of numbers and dates, code tables of the bit-efficient encoding
  (nothing switches them on), input that no generator writes.
* Object lifetimes: observers keep plain pointers to conversations
  (`conversation.cpp:359`) which dangle when one is destroyed. Torn reads of
  what is read without a lock: an unlocked read is atomic here; which memory a
  data race on the factory's map would corrupt.
* Observers shared by copies of a conversation; `getConversationIdsOfObservables`.
* The dates and user-defined parameters of received objects.
* The parser's result object: every reading starts from a new message, as
  `MessageParser::parseData` is used with.
* Ruby bindings, command line tools, benchmark: wrappers without state.

## 7. Plan

Done, in this order: StateMachine with ProtocolLoader and Protocols; Conversation
and its lifecycle; Notification; ConversationMonitor; bit-efficient messages;
letters; proofs of Notification and Conversation; the string and XML
representations of messages and the XML one of letters; StateMachineFactory;
proofs of StateMachineFactory, of the settled status, of the stamps and of
`StatusTracksMachine`; proofs of delivery, of the rules of conversations, of
ConversationMonitor and of the other properties of letters; recursive functions
in place of RECURSIVE operators in the modules about messages, and the proofs of
their types, addressees, comparison, arrival and passing on.

Next:

1. MessageExchange: `EqualAtEveryHop`, once `AsAttribute` is known to replace
   references only, so that no text comes back after it was replaced.
2. StateMachineFactory composed with Conversation in place of `Specification`:
   which machine the conversations of one agent get while directories are added.
3. Observers shared by the copies of a conversation.
