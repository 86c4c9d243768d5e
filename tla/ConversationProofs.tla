------------------------- MODULE ConversationProofs -------------------------
(***************************************************************************)
(* What holds of Conversation for every set of protocols, agents and       *)
(* messages: lemmas about the operators of StateMachine (what a machine is *)
(* after a message, and what becomes of its sub machines), then type       *)
(* correctness, the finality of failures, and the implementation of        *)
(* ConversationLifecycle.  The second half is about what the messages of a *)
(* conversation and of its sub conversations can do to an object: who      *)
(* starts sub conversations and how many, who gets a role, how a           *)
(* cancellation ends, which replies are forwarded, and what setProtocol    *)
(* does.                                                                   *)
(***************************************************************************)
EXTENDS Conversation, TLAPS

-----------------------------------------------------------------------------
(* Machines.  A machine stays in the states of its protocol and keeps one   *)
(* run-time record per embedded machine.                                   *)

WellFormed(m) ==
  /\ m \in Machine
  /\ m.cur \in StatesOf(m.proto)
  /\ \A s \in StatesOf(m.proto) : DOMAIN m.esm[s] = DOMAIN EmbeddedOf(m.proto, s)

\* Elements of a list, and a list with one element replaced.
LEMMA Element ==
  ASSUME NEW S, NEW q \in Seq(S), NEW i \in DOMAIN q
  PROVE  q[i] \in S
OBVIOUS

LEMMA Replaced ==
  ASSUME NEW S, NEW q \in Seq(S), NEW i \in DOMAIN q, NEW x \in S
  PROVE  /\ [q EXCEPT ![i] = x] \in Seq(S)
         /\ DOMAIN [q EXCEPT ![i] = x] = DOMAIN q
OBVIOUS

\* What SpecificationAssumption says of one protocol and state.
LEMMA StateFacts ==
  ASSUME NEW p \in Protocol, NEW s \in StatesOf(p)
  PROVE  /\ s \in StateId
         /\ Specification[p].initial \in StatesOf(p)
         /\ \A i \in DOMAIN TransitionsOf(p, s) :
              TransitionsOf(p, s)[i].target \in StatesOf(p)
         /\ \E S : EmbeddedOf(p, s) \in Seq(S)
         /\ s \in FailureStates =>
              TransitionsOf(p, s) = <<>> /\ EmbeddedOf(p, s) = <<>>
<1>1. s \in StateId
  BY DEF StateId
<1>2. TransitionsOf(p, s) \in
        Seq([perf : SUBSET Performative, from : RolesOf(p), to : RolesOf(p),
             target : StatesOf(p)])
  BY SpecificationAssumption
<1>3. EmbeddedOf(p, s) \in
        Seq([name : SUBSET Protocol, from : RolesOf(p),
             proxiedTo : RolesOf(p) \cup {NoRole}])
  BY SpecificationAssumption
<1>4. Specification[p].initial \in StatesOf(p)
  BY SpecificationAssumption
<1>5. s \in FailureStates => TransitionsOf(p, s) = <<>> /\ EmbeddedOf(p, s) = <<>>
  BY SpecificationAssumption
<1>6. \A i \in DOMAIN TransitionsOf(p, s) :
        TransitionsOf(p, s)[i].target \in StatesOf(p)
  <2> DEFINE T == [perf : SUBSET Performative, from : RolesOf(p),
                   to : RolesOf(p), target : StatesOf(p)]
  <2> TAKE i \in DOMAIN TransitionsOf(p, s)
  <2>1. \A x \in T : x.target \in StatesOf(p)
    OBVIOUS
  <2>2. TransitionsOf(p, s) \in Seq(T)
    BY <1>2
  <2> HIDE DEF T
  <2>3. TransitionsOf(p, s)[i] \in T
    BY <2>2, Element
  <2> QED BY <2>1, <2>3
<1> QED BY <1>1, <1>3, <1>4, <1>5, <1>6

LEMMA NewMachineOK ==
  ASSUME NEW p \in Protocol, NEW self \in Agent,
         NEW g \in [Protocol -> BOOLEAN]
  PROVE  /\ WellFormed(NewMachine(p, self, g))
         /\ NewMachine(p, self, g).proto = p
<1> DEFINE M == NewMachine(p, self, g)
           E(s) == [k \in DOMAIN EmbeddedOf(p, s) |->
                      [actual |-> NoProtocol, planned |-> -1, replied |-> g[p]]]
<1>1. Specification[p].initial \in StatesOf(p) /\ StatesOf(p) \subseteq StateId
  BY SpecificationAssumption DEF StateId
<1>2. \A s \in StatesOf(p) : E(s) \in Seq(EmbeddedRun)
  <2> TAKE s \in StatesOf(p)
  <2>1. PICK S : EmbeddedOf(p, s) \in Seq(S)
    BY StateFacts
  <2>2. [actual |-> NoProtocol, planned |-> -1, replied |-> g[p]] \in EmbeddedRun
    BY DEF EmbeddedRun
  <2> QED BY <2>1, <2>2
<1>3. M.esm = [s \in StateId |-> IF s \in StatesOf(p) THEN E(s) ELSE <<>>]
  BY DEF NewMachine
<1>4. M.esm \in [StateId -> Seq(EmbeddedRun)]
  BY <1>2, <1>3
<1>5. M.roles \in [RoleId -> SUBSET Agent]
  BY DEF NewMachine
<1>6. M \in Machine
  BY <1>1, <1>4, <1>5 DEF NewMachine, Machine
<1>7. \A s \in StatesOf(p) : DOMAIN M.esm[s] = DOMAIN EmbeddedOf(p, s)
  BY <1>1, <1>3
<1> QED BY <1>1, <1>6, <1>7 DEF WellFormed, NewMachine

LEMMA FireOK ==
  ASSUME NEW m, WellFormed(m), NEW msg \in Message, NEW t,
         t.target \in StatesOf(m.proto)
  PROVE  /\ WellFormed(Fire(m, msg, t))
         /\ Fire(m, msg, t).proto = m.proto
         /\ Fire(m, msg, t).cur = t.target
         /\ Fire(m, msg, t).esm = m.esm
         /\ Fire(m, msg, t).init # NoMessage
<1> DEFINE F == Fire(m, msg, t)
<1>1. m \in Machine /\ msg.sender \in Agent /\ msg.receivers \subseteq Agent
  BY DEF WellFormed, Message
<1>2. UpdateRoleMapping(m, msg, t) \in [RoleId -> SUBSET Agent]
  BY <1>1 DEF UpdateRoleMapping, Machine
<1>3. /\ F.proto = m.proto
      /\ F.cur = t.target
      /\ F.esm = m.esm
      /\ F.init = IF m.init = NoMessage THEN msg ELSE m.init
  BY <1>1 DEF Fire, Machine
<1>4. t.target \in StateId
  BY <1>1 DEF StateId, Machine
<1>5. F \in Machine
  BY <1>1, <1>2, <1>4 DEF Fire, Machine
<1>6. F.init # NoMessage
  BY <1>3, MessageAssumption
<1> QED BY <1>3, <1>5, <1>6 DEF WellFormed

LEMMA ConsumeMessageOK ==
  ASSUME NEW m, WellFormed(m), NEW msg \in Message, NEW n \in ConsumeMessage(m, msg)
  PROVE  WellFormed(n) /\ n.proto = m.proto
<1>1. m.proto \in Protocol /\ m.cur \in StatesOf(m.proto)
  BY DEF WellFormed, Machine
<1>2. CASE n \in ConsumeDirectly(m, msg)
  <2>1. PICK i \in DOMAIN TransitionsOf(m.proto, m.cur) :
          n = Fire(m, msg, TransitionsOf(m.proto, m.cur)[i])
    BY <1>2 DEF ConsumeDirectly, First
  <2>2. TransitionsOf(m.proto, m.cur)[i].target \in StatesOf(m.proto)
    BY <1>1, StateFacts
  <2> QED BY <2>1, <2>2, FireOK
<1>3. CASE n \in ConsumeProxied(m, msg)
  <2>1. PICK k \in DOMAIN EmbeddedOf(m.proto, m.cur) :
          n = [Fire(m, msg, ProxiedTransition(m, k))
                 EXCEPT !.esm[m.cur][k].replied = TRUE]
    BY <1>3 DEF ConsumeProxied, FittingReply, First
  <2> DEFINE F == Fire(m, msg, ProxiedTransition(m, k))
  <2>2. ProxiedTransition(m, k).target = m.cur
    BY DEF ProxiedTransition
  <2>3. WellFormed(F) /\ F.proto = m.proto /\ F.cur = m.cur /\ F.esm = m.esm
    BY <1>1, <2>2, FireOK
  <2>4. m.cur \in StateId /\ m.esm[m.cur] \in Seq(EmbeddedRun)
        /\ k \in DOMAIN m.esm[m.cur]
    BY <1>1 DEF WellFormed, Machine
  <2> DEFINE run == [m.esm[m.cur][k] EXCEPT !.replied = TRUE]
  <2>a. m.esm[m.cur][k] \in EmbeddedRun
    BY <2>4, Element
  <2>b. run \in EmbeddedRun
    BY <2>a DEF EmbeddedRun
  <2>5. [m.esm[m.cur] EXCEPT ![k] = run] \in Seq(EmbeddedRun)
        /\ DOMAIN [m.esm[m.cur] EXCEPT ![k] = run] = DOMAIN m.esm[m.cur]
    <3> HIDE DEF run
    <3> QED BY <2>4, <2>b, Replaced
  <2> DEFINE runs == [m.esm EXCEPT ![m.cur][k].replied = TRUE]
  <2>6. runs \in [StateId -> Seq(EmbeddedRun)]
    BY <2>4, <2>5 DEF WellFormed, Machine
  <2>7. \A s \in StatesOf(m.proto) : DOMAIN runs[s] = DOMAIN m.esm[s]
    BY <1>1, <2>4 DEF WellFormed, Machine, StateId
  <2>8. n = [F EXCEPT !.esm = runs]
    BY <2>1, <2>3
  <2>9. n \in Machine /\ n.proto = m.proto /\ n.cur = m.cur /\ n.esm = runs
    BY <2>3, <2>6, <2>8 DEF WellFormed, Machine
  <2> QED BY <1>1, <2>7, <2>9 DEF WellFormed
<1> QED BY <1>2, <1>3 DEF ConsumeMessage

\* A state without transitions and embedded machines accepts nothing.
LEMMA DeadEnd ==
  ASSUME NEW m, NEW msg, NEW planned, NEW g,
         TransitionsOf(m.proto, m.cur) = <<>>,
         EmbeddedOf(m.proto, m.cur) = <<>>
  PROVE  /\ ConsumeMessage(m, msg) = {}
         /\ ConsumeSubMessage(m, <<>>, msg, planned, g) = {}
<1>1. ConsumeDirectly(m, msg) = {}
  BY DEF ConsumeDirectly, First
<1>2. ConsumeProxied(m, msg) = {}
  BY DEF ConsumeProxied, FittingReply, First
<1>3. TakenBySub(m, <<>>, msg) = {}
  BY DEF TakenBySub, First
<1>4. StartedSub(m, <<>>, msg, planned, g) = {}
  BY DEF StartedSub, First
<1> QED BY <1>1, <1>2, <1>3, <1>4 DEF ConsumeMessage, ConsumeSubMessage

-----------------------------------------------------------------------------
(* Sub machines.                                                           *)

\* Sub machines are well formed, and only a state that embeds machines has
\* any.
SubsOK(m, s, subs) ==
  /\ subs \in Seq(Machine)
  /\ \A i \in DOMAIN subs : WellFormed(subs[i])
  /\ subs # <<>> => s \in StatesOf(m.proto) /\ EmbeddedOf(m.proto, s) # <<>>

LEMMA TakenBySubOK ==
  ASSUME NEW m, WellFormed(m), NEW msg \in Message,
         NEW subs, SubsOK(m, m.cur, subs), NEW r \in TakenBySub(m, subs, msg)
  PROVE  r.machine = m /\ SubsOK(m, m.cur, r.subs)
<1>1. PICK i \in DOMAIN subs : \E sub \in ConsumeMessage(subs[i], msg) :
        r = [machine |-> m, subs |-> [subs EXCEPT ![i] = sub]]
  BY DEF TakenBySub, First
<1>2. PICK sub \in ConsumeMessage(subs[i], msg) :
        r = [machine |-> m, subs |-> [subs EXCEPT ![i] = sub]]
  BY <1>1
<1>3. WellFormed(subs[i])
  BY DEF SubsOK
<1>4. WellFormed(sub) /\ sub \in Machine
  BY <1>3, ConsumeMessageOK DEF WellFormed
<1>5. subs \in Seq(Machine)
  BY DEF SubsOK
<1>6. /\ [subs EXCEPT ![i] = sub] \in Seq(Machine)
      /\ DOMAIN [subs EXCEPT ![i] = sub] = DOMAIN subs
  BY <1>4, <1>5, Replaced
<1>7. \A j \in DOMAIN subs : WellFormed([subs EXCEPT ![i] = sub][j])
  BY <1>4 DEF SubsOK
<1>8. subs # <<>>
  OBVIOUS
<1> QED BY <1>2, <1>6, <1>7, <1>8 DEF SubsOK

\* Recording the protocol and the number announced for an embedded machine.
LEMMA PlanRecorded ==
  ASSUME NEW m, WellFormed(m), NEW k \in DOMAIN EmbeddedOf(m.proto, m.cur),
         NEW p \in Protocol, NEW n \in Int
  PROVE  /\ WellFormed(Recorded(m, k, p, n))
         /\ Recorded(m, k, p, n).proto = m.proto
         /\ Recorded(m, k, p, n).cur = m.cur
<1> DEFINE run == [[m.esm[m.cur][k] EXCEPT !.actual = p] EXCEPT !.planned = n]
           list == [m.esm[m.cur] EXCEPT ![k] = run]
           runs == [m.esm EXCEPT ![m.cur] = list]
           d == [m EXCEPT !.esm[m.cur][k].actual = p,
                          !.esm[m.cur][k].planned = n]
<1>1. /\ m.proto \in Protocol
      /\ m.cur \in StatesOf(m.proto)
      /\ m.cur \in StateId
      /\ m.esm \in [StateId -> Seq(EmbeddedRun)]
      /\ k \in DOMAIN m.esm[m.cur]
  BY DEF WellFormed, Machine
<1>2. m.esm[m.cur] \in Seq(EmbeddedRun)
  BY <1>1
<1>3. m.esm[m.cur][k] \in EmbeddedRun
  BY <1>1, <1>2, Element
<1>4. run \in EmbeddedRun
  BY <1>3 DEF EmbeddedRun
<1>5. list \in Seq(EmbeddedRun) /\ DOMAIN list = DOMAIN m.esm[m.cur]
  <2> HIDE DEF run
  <2> QED BY <1>1, <1>2, <1>4, Replaced
<1>6. runs \in [StateId -> Seq(EmbeddedRun)]
  <2> HIDE DEF list
  <2> QED BY <1>1, <1>5
<1>7. \A s \in StatesOf(m.proto) : DOMAIN runs[s] = DOMAIN m.esm[s]
  <2> HIDE DEF list
  <2> QED BY <1>1, <1>5 DEF StateId
<1>8. d = [m EXCEPT !.esm = runs]
  <2>1. d.esm = runs
    <3>1. [m EXCEPT !.esm[m.cur][k].actual = p].esm
            = [m.esm EXCEPT ![m.cur][k].actual = p]
      BY DEF WellFormed, Machine
    <3> QED BY <1>1, <1>2, <1>3, <3>1 DEF WellFormed, Machine, EmbeddedRun
  <2> QED BY <2>1 DEF WellFormed, Machine
<1>9. d \in Machine /\ d.proto = m.proto /\ d.cur = m.cur /\ d.esm = runs
  <2> HIDE DEF runs, d
  <2> QED BY <1>6, <1>8 DEF WellFormed, Machine
<1> QED
  <2> HIDE DEF runs
  <2>1. WellFormed(d) /\ d.proto = m.proto /\ d.cur = m.cur
    <3> HIDE DEF d
    <3> QED BY <1>1, <1>7, <1>9 DEF WellFormed
  <2> QED BY <2>1 DEF Recorded

LEMMA StartedSubOK ==
  ASSUME NEW m, WellFormed(m), NEW msg \in Message,
         NEW subs, SubsOK(m, m.cur, subs), NEW planned \in Int,
         NEW g \in [Protocol -> BOOLEAN],
         NEW r \in StartedSub(m, subs, msg, planned, g)
  PROVE  /\ WellFormed(r.machine)
         /\ r.machine.proto = m.proto
         /\ r.machine.cur = m.cur
         /\ SubsOK(m, m.cur, r.subs)
<1> DEFINE new == NewMachine(msg.proto, msg.sender, g)
<1>1. PICK k \in DOMAIN EmbeddedOf(m.proto, m.cur),
           sub \in ConsumeMessage(new, msg) :
        /\ Fits(m, subs, msg, planned, k)
        /\ r = [machine |-> Recorded(m, k, msg.proto, planned),
                subs    |-> Append(subs, sub)]
  BY DEF StartedSub, First
<1>2. m.proto \in Protocol /\ m.cur \in StatesOf(m.proto)
  BY DEF WellFormed, Machine
<1>3. msg.proto \in Protocol
  <2> DEFINE T == [name : SUBSET Protocol, from : RolesOf(m.proto),
                   proxiedTo : RolesOf(m.proto) \cup {NoRole}]
  <2>1. EmbeddedOf(m.proto, m.cur) \in Seq(T)
    BY <1>2, SpecificationAssumption
  <2>2. \A x \in T : x.name \subseteq Protocol
    OBVIOUS
  <2>3. EmbeddedOf(m.proto, m.cur)[k] \in T
    <3> HIDE DEF T
    <3> QED BY <2>1, Element
  <2> QED BY <1>1, <2>2, <2>3 DEF Fits
<1>4. /\ WellFormed(r.machine)
      /\ r.machine.proto = m.proto
      /\ r.machine.cur = m.cur
  BY <1>1, <1>3, PlanRecorded
<1>5. msg.sender \in Agent
  BY DEF Message
<1>6. WellFormed(sub) /\ sub \in Machine
  BY <1>3, <1>5, NewMachineOK, ConsumeMessageOK DEF WellFormed
<1>7. subs \in Seq(Machine) /\ \A i \in DOMAIN subs : WellFormed(subs[i])
  BY DEF SubsOK
<1>8. Append(subs, sub) \in Seq(Machine)
  BY <1>6, <1>7
<1>9. \A i \in DOMAIN Append(subs, sub) : WellFormed(Append(subs, sub)[i])
  BY <1>6, <1>7
<1>10. EmbeddedOf(m.proto, m.cur) # <<>>
  OBVIOUS
<1> QED BY <1>1, <1>2, <1>4, <1>8, <1>9, <1>10 DEF SubsOK

-----------------------------------------------------------------------------
(* What a message leaves: a machine is opened once, and roles only grow.   *)

\* n is m after msg.
Grown(m, n, msg) ==
  /\ n.init = IF m.init = NoMessage THEN msg ELSE m.init
  /\ \A r \in RoleId : m.roles[r] \subseteq n.roles[r]

\* Who is added to a role that somebody plays already.
Assigned(m, n) ==
  m.init # NoMessage =>
    \A r \in RoleId : \A a \in Agent :
      m.roles[r] # {} /\ a \in n.roles[r] \ m.roles[r] => NameMatches(r, a)

LEMMA FireGrows ==
  ASSUME NEW m \in Machine, NEW msg, NEW t
  PROVE  Grown(m, Fire(m, msg, t), msg)
<1>1. /\ Fire(m, msg, t).init = IF m.init = NoMessage THEN msg ELSE m.init
      /\ Fire(m, msg, t).roles = UpdateRoleMapping(m, msg, t)
  BY DEF Fire, Machine
<1>2. \A r \in RoleId : m.roles[r] \subseteq UpdateRoleMapping(m, msg, t)[r]
  BY DEF UpdateRoleMapping
<1> QED BY <1>1, <1>2 DEF Grown

LEMMA FireAssigns ==
  ASSUME NEW m \in Machine, NEW msg, NEW t, Triggers(m, msg, t)
  PROVE  Assigned(m, Fire(m, msg, t))
<1>1. Fire(m, msg, t).roles = UpdateRoleMapping(m, msg, t)
  BY DEF Fire, Machine
<1>2. \A r \in RoleId : UpdateRoleMapping(m, msg, t)[r] =
        m.roles[r] \cup (IF r = t.from THEN {msg.sender} ELSE {})
                   \cup (IF r = t.to THEN msg.receivers ELSE {})
  BY DEF UpdateRoleMapping
<1>3. /\ IsExpected(m, t.from, msg.sender)
      /\ \A a \in msg.receivers : IsExpected(m, t.to, a)
  BY DEF Triggers, ValidReceivers
<1> QED BY <1>1, <1>2, <1>3 DEF Assigned, IsExpected

LEMMA ConsumeMessageGrows ==
  ASSUME NEW m, WellFormed(m), NEW msg \in Message, NEW n \in ConsumeMessage(m, msg)
  PROVE  Grown(m, n, msg) /\ Assigned(m, n)
<1>1. m \in Machine
  BY DEF WellFormed
<1>2. CASE n \in ConsumeDirectly(m, msg)
  <2>1. PICK i \in DOMAIN TransitionsOf(m.proto, m.cur) :
          /\ Enabling(m, msg, TransitionsOf(m.proto, m.cur)[i])
          /\ n = Fire(m, msg, TransitionsOf(m.proto, m.cur)[i])
    BY <1>2 DEF ConsumeDirectly, First
  <2>2. Assigned(m, n)
    BY <1>1, <2>1, FireAssigns DEF Enabling, Assigned
  <2> QED BY <1>1, <2>1, <2>2, FireGrows
<1>3. CASE n \in ConsumeProxied(m, msg)
  <2>1. PICK k \in DOMAIN EmbeddedOf(m.proto, m.cur) :
          /\ ReplyFits(m, msg, k)
          /\ n = [Fire(m, msg, ProxiedTransition(m, k))
                    EXCEPT !.esm[m.cur][k].replied = TRUE]
    BY <1>3 DEF ConsumeProxied, FittingReply, First
  <2> DEFINE F == Fire(m, msg, ProxiedTransition(m, k))
  <2>2. Grown(m, F, msg) /\ Assigned(m, F)
    BY <1>1, <2>1, FireGrows, FireAssigns DEF ReplyFits
  <2>3. n.init = F.init /\ n.roles = F.roles
    BY <1>1, <2>1 DEF Fire, Machine
  <2> HIDE DEF F
  <2> QED BY <2>2, <2>3 DEF Grown, Assigned
<1> QED BY <1>2, <1>3 DEF ConsumeMessage

\* Recording a sub conversation leaves everything else of the machine.
LEMMA RecordedSame ==
  ASSUME NEW m \in Machine, NEW k, NEW p, NEW n
  PROVE  /\ Recorded(m, k, p, n).init = m.init
         /\ Recorded(m, k, p, n).roles = m.roles
         /\ Recorded(m, k, p, n).cur = m.cur
         /\ Recorded(m, k, p, n).proto = m.proto
BY DEF Recorded, Machine

\* A message of a sub conversation neither moves nor opens the machine.
LEMMA SubMessageSame ==
  ASSUME NEW m \in Machine, NEW subs, NEW msg, NEW planned, NEW g,
         NEW r \in ConsumeSubMessage(m, subs, msg, planned, g)
  PROVE  /\ r.machine.init = m.init
         /\ r.machine.roles = m.roles
         /\ r.machine.cur = m.cur
         /\ r.machine.proto = m.proto
<1>1. CASE r \in TakenBySub(m, subs, msg)
  <2>1. PICK i \in DOMAIN subs : \E sub \in ConsumeMessage(subs[i], msg) :
          r = [machine |-> m, subs |-> [subs EXCEPT ![i] = sub]]
    BY <1>1 DEF TakenBySub, First
  <2> QED BY <2>1
<1>2. CASE r \in StartedSub(m, subs, msg, planned, g)
  <2>1. PICK k \in DOMAIN EmbeddedOf(m.proto, m.cur),
             sub \in ConsumeMessage(NewMachine(msg.proto, msg.sender, g), msg) :
          r = [machine |-> Recorded(m, k, msg.proto, planned),
               subs    |-> Append(subs, sub)]
    BY <1>2 DEF StartedSub, First
  <2>2. r.machine = Recorded(m, k, msg.proto, planned)
    BY <2>1
  <2> QED BY <2>2, RecordedSame
<1> QED BY <1>1, <1>2 DEF ConsumeSubMessage

-----------------------------------------------------------------------------
(* Conversations.                                                          *)

ObjectOK(c) ==
  /\ c \in ConversationState
  /\ c.machine # NoMachine =>
       WellFormed(c.machine) /\ \A s \in StateId : SubsOK(c.machine, s, c.subs[s])

LEMMA FreshOK ==
  ASSUME NEW id \in ConversationId \cup Handle
  PROVE  /\ ObjectOK(Fresh(id))
         /\ Fresh(id).proto = NoProtocol
         /\ Fresh(id).status = "UNINITIALIZED"
         /\ Fresh(id).machine = NoMachine
<1>1. [s \in StateId |-> <<>>] \in [StateId -> Seq(Machine)]
  OBVIOUS
<1> QED BY <1>1 DEF ObjectOK, Fresh, ConversationState, Status

LEMMA PreparedOK ==
  ASSUME garbage \in [Protocol -> BOOLEAN], Owner \in Agent,
         NEW c, ObjectOK(c), NEW msg \in Message
  PROVE  /\ ObjectOK(Prepared(c, msg))
         /\ Prepared(c, msg).status = c.status
         /\ Prepared(c, msg) = c \/ /\ c.proto = NoProtocol
                                    /\ Prepared(c, msg).proto # NoProtocol
                                    /\ Prepared(c, msg).machine # NoMachine
<1>1. CASE c.proto = NoProtocol /\ msg.proto \in Protocol
  <2> DEFINE M == NewMachine(msg.proto, Owner, garbage)
             S == [s \in StateId |-> <<>>]
  <2>1. WellFormed(M) /\ M \in Machine
    BY <1>1, NewMachineOK DEF WellFormed
  <2>2. S \in [StateId -> Seq(Machine)] /\ \A s \in StateId : SubsOK(M, s, S[s])
    BY DEF SubsOK
  <2>3. Prepared(c, msg) = [c EXCEPT !.machine = M, !.subs = S,
                                     !.proto = msg.proto, !.lang = msg.lang,
                                     !.id = msg.id]
    BY <1>1 DEF Prepared
  <2>4. msg.lang \in Language /\ msg.id \in ConversationId
    BY DEF Message
  <2> HIDE DEF M, S
  <2>5. /\ Prepared(c, msg) \in ConversationState
        /\ Prepared(c, msg).machine = M
        /\ Prepared(c, msg).subs = S
        /\ Prepared(c, msg).status = c.status
        /\ Prepared(c, msg).proto = msg.proto
    BY <1>1, <2>1, <2>2, <2>3, <2>4 DEF ObjectOK, ConversationState
  <2> QED BY <1>1, <2>1, <2>2, <2>5, ObjectAssumption, ProtocolAssumption
          DEF ObjectOK
<1>2. CASE ~(c.proto = NoProtocol /\ msg.proto \in Protocol)
  BY <1>2 DEF Prepared
<1> QED BY <1>1, <1>2

LEMMA ConsumedOK ==
  ASSUME garbage \in [Protocol -> BOOLEAN],
         NEW c, ObjectOK(c), NEW msg \in Message, NEW r \in Consumed(c, msg)
  PROVE  /\ c.machine # NoMachine
         /\ WellFormed(r.machine)
         /\ r.machine.proto = c.machine.proto
         /\ SubsOK(c.machine, c.machine.cur, r.subs)
<1>1. c.machine # NoMachine
  BY DEF Consumed
<1>2. /\ WellFormed(c.machine)
      /\ c.machine.cur \in StateId
      /\ SubsOK(c.machine, c.machine.cur, SubsOf(c))
      /\ c.planned \in Int
  BY <1>1 DEF ObjectOK, WellFormed, Machine, SubsOf, ConversationState
<1>3. CASE msg.proto = c.proto
  <2>1. PICK m \in ConsumeMessage(c.machine, msg) :
          r = [machine |-> m, subs |-> SubsOf(c)]
    BY <1>1, <1>3 DEF Consumed
  <2> QED BY <1>1, <1>2, <2>1, ConsumeMessageOK
<1>4. CASE msg.proto # c.proto
  <2>1. r \in ConsumeSubMessage(c.machine, SubsOf(c), msg, c.planned, garbage)
    BY <1>1, <1>4 DEF Consumed
  <2>2. CASE r \in TakenBySub(c.machine, SubsOf(c), msg)
    BY <1>1, <1>2, <2>2, TakenBySubOK
  <2>3. CASE r \in StartedSub(c.machine, SubsOf(c), msg, c.planned, garbage)
    BY <1>1, <1>2, <2>3, StartedSubOK
  <2> QED BY <2>1, <2>2, <2>3 DEF ConsumeSubMessage
<1> QED BY <1>3, <1>4

LEMMA StoredOK ==
  ASSUME NEW c, ObjectOK(c), c.machine # NoMachine,
         NEW r, WellFormed(r.machine), r.machine.proto = c.machine.proto,
         SubsOK(c.machine, c.machine.cur, r.subs), NEW st \in Status
  PROVE  LET d == [Stored(c, r) EXCEPT !.status = st]
         IN  /\ ObjectOK(d)
             /\ d.machine = r.machine
             /\ d.proto = c.proto
             /\ d.status = st
<1> DEFINE subs == [c.subs EXCEPT ![c.machine.cur] = r.subs]
           d == [Stored(c, r) EXCEPT !.status = st]
<1>1. /\ c \in ConversationState
      /\ c.subs \in [StateId -> Seq(Machine)]
      /\ c.machine.cur \in StateId
      /\ r.subs \in Seq(Machine)
      /\ r.machine \in Machine
  BY DEF ObjectOK, WellFormed, Machine, ConversationState, SubsOK
<1>2. subs \in [StateId -> Seq(Machine)]
  BY <1>1
<1>3. \A s \in StateId : SubsOK(r.machine, s, subs[s])
  BY <1>1 DEF ObjectOK, SubsOK
<1>4. /\ d \in ConversationState
      /\ d.machine = r.machine
      /\ d.subs = subs
      /\ d.proto = c.proto
      /\ d.status = st
  BY <1>1, <1>2 DEF Stored, ConversationState
<1>5. ObjectOK(d)
  <2> HIDE DEF subs, d
  <2> QED BY <1>3, <1>4 DEF ObjectOK
<1> QED
  <2> HIDE DEF subs, d
  <2>1. ObjectOK(d) /\ d.machine = r.machine /\ d.proto = c.proto /\ d.status = st
    BY <1>4, <1>5
  <2> QED BY <2>1 DEF d

-----------------------------------------------------------------------------
(* Accepted updates.                                                       *)

AtDeadEnd(m) ==
  TransitionsOf(m.proto, m.cur) = <<>> /\ EmbeddedOf(m.proto, m.cur) = <<>>

\* The status that the machine and its sub machines stand for.
StatusByMachine(c) ==
  IF InFailureState(c.machine) THEN "FAILED"
  ELSE IF Ended(c) THEN "ENDED" ELSE "RUNNING"

\* What every status but UNINITIALIZED says of the machine.
StatusOfMachine(c) ==
  /\ c.status # "UNINITIALIZED" => c.machine # NoMachine
  /\ c.status = "FAILED" => InFailureState(c.machine)
  /\ c.status = "ENDED" => c.machine.cur \in FinalStatesOf(c.machine.proto)
  /\ c.status # "UNINITIALIZED" => c.status = StatusByMachine(c)

LEMMA StatusUntouched ==
  ASSUME NEW c, NEW d, StatusOfMachine(c),
         d.machine = c.machine, d.subs = c.subs, d.status = c.status
  PROVE  StatusOfMachine(d)
BY DEF StatusOfMachine, StatusByMachine, Ended, SubsOf

LEMMA DeadEndConsumed ==
  ASSUME NEW c, ObjectOK(c), c.machine # NoMachine, AtDeadEnd(c.machine),
         NEW msg \in Message
  PROVE  Consumed(c, msg) = {}
<1>1. SubsOf(c) = <<>>
  BY DEF ObjectOK, WellFormed, Machine, SubsOf, SubsOK, AtDeadEnd
<1>2. ConsumeMessage(c.machine, msg) = {}
  BY DeadEnd DEF AtDeadEnd
<1>3. ConsumeSubMessage(c.machine, SubsOf(c), msg, c.planned, garbage) = {}
  BY <1>1, DeadEnd DEF AtDeadEnd
<1> QED BY <1>2, <1>3 DEF Consumed

\* The event an update notifies fits the machine it leaves behind.
LEMMA ClassifyOK ==
  ASSUME NEW c, c.machine # NoMachine, NEW isNew \in BOOLEAN
  PROVE  LET e == Classify(c, isNew)
         IN  /\ e \in EventType
             /\ StatusAfter(e) \in {"RUNNING", "ENDED", "FAILED"}
             /\ Lifecycle!Leads(e, StatusAfter(e))
             /\ e = "START_OF_CONVERSATION" => isNew
             /\ StatusAfter(e) = "FAILED" => InFailureState(c.machine)
             /\ StatusAfter(e) = "ENDED" =>
                  c.machine.cur \in FinalStatesOf(c.machine.proto)
             /\ StatusAfter(e) = StatusByMachine(c)
<1> USE DEF StatusByMachine
<1>1. CASE InFailureState(c.machine)
  BY <1>1 DEF Classify, StatusAfter, EventType, Lifecycle!Leads
<1>2. CASE ~InFailureState(c.machine) /\ Ended(c)
  <2>1. c.machine.cur \in FinalStatesOf(c.machine.proto)
    BY <1>2 DEF Ended, InFinalState
  <2> QED BY <1>2, <2>1 DEF Classify, StatusAfter, EventType, Lifecycle!Leads
<1>3. CASE ~InFailureState(c.machine) /\ ~Ended(c)
  BY <1>3 DEF Classify, StatusAfter, EventType, Lifecycle!Leads
<1> QED BY <1>1, <1>2, <1>3

LEMMA AcceptEffect ==
  ASSUME garbage \in [Protocol -> BOOLEAN], Owner \in Agent,
         NEW h \in Handle, NEW before, ObjectOK(before), NEW msg \in Message,
         AcceptInto(h, before, msg)
  PROVE  \E d, e :
           /\ conv' = [conv EXCEPT ![h] = d]
           /\ event' = [event EXCEPT ![h] = e]
           /\ garbage' = garbage
           /\ forwarded' = forwarded \/ forwarded' = [forwarded EXCEPT ![h] = @ + 1]
           /\ ObjectOK(d) /\ StatusOfMachine(d) /\ d.machine # NoMachine
           /\ d.proto = NoProtocol => /\ before.proto = NoProtocol
                                      /\ before.machine # NoMachine
           /\ e \in EventType /\ Lifecycle!Leads(e, d.status)
           /\ d.status \in {"RUNNING", "ENDED", "FAILED"}
           /\ e = "START_OF_CONVERSATION" => before.proto = NoProtocol
           /\ before.proto # NoProtocol =>
                before.machine # NoMachine /\ ~AtDeadEnd(before.machine)
<1> DEFINE c == Prepared(before, msg)
           isNew == before.proto = NoProtocol
<1>1. ObjectOK(c) /\ c.status = before.status
      /\ (c = before \/ /\ before.proto = NoProtocol
                        /\ c.proto # NoProtocol
                        /\ c.machine # NoMachine)
  BY PreparedOK
<1>2. isNew \in BOOLEAN
  OBVIOUS
<1> HIDE DEF c
<1>3. PICK r \in Consumed(c, msg) :
        LET d == Stored(c, r)
            e == Classify(d, isNew)
        IN  /\ conv'  = [conv EXCEPT ![h] = [d EXCEPT !.status = StatusAfter(e)]]
            /\ event' = [event EXCEPT ![h] = e]
            /\ forwarded' = IF ReplyForwarded(c, msg)
                            THEN [forwarded EXCEPT ![h] = @ + 1]
                            ELSE forwarded
            /\ UNCHANGED garbage
  BY DEF AcceptInto, c
<1> DEFINE s == Stored(c, r)
           e == Classify(s, isNew)
           d == [s EXCEPT !.status = StatusAfter(e)]
<1>4. /\ c.machine # NoMachine
      /\ WellFormed(r.machine)
      /\ r.machine.proto = c.machine.proto
      /\ SubsOK(c.machine, c.machine.cur, r.subs)
  BY <1>1, ConsumedOK
<1>5. r.machine # NoMachine
  BY <1>4, ObjectAssumption DEF WellFormed
<1>6. s.machine = r.machine
  BY <1>1 DEF Stored, ObjectOK, ConversationState
<1>7. /\ e \in EventType
      /\ StatusAfter(e) \in {"RUNNING", "ENDED", "FAILED"}
      /\ Lifecycle!Leads(e, StatusAfter(e))
      /\ e = "START_OF_CONVERSATION" => isNew
      /\ StatusAfter(e) = "FAILED" => InFailureState(s.machine)
      /\ StatusAfter(e) = "ENDED" =>
           s.machine.cur \in FinalStatesOf(s.machine.proto)
      /\ StatusAfter(e) = StatusByMachine(s)
  <2> HIDE DEF s, isNew
  <2> QED BY <1>2, <1>5, <1>6, ClassifyOK
<1>8. StatusAfter(e) \in Status
  BY <1>7 DEF Status
<1>9. /\ ObjectOK(d)
      /\ d.machine = r.machine
      /\ d.proto = c.proto
      /\ d.status = StatusAfter(e)
  <2> HIDE DEF e
  <2> QED BY <1>1, <1>4, <1>8, StoredOK
<1>10. StatusOfMachine(d)
  <2>1. d.subs = s.subs
    <3> HIDE DEF e
    <3> QED BY <1>1 DEF Stored, ObjectOK, ConversationState
  <2> HIDE DEF d, e, s
  <2>2. StatusByMachine(d) = StatusByMachine(s)
    BY <1>6, <1>9, <2>1 DEF StatusByMachine, Ended, SubsOf
  <2> QED BY <1>5, <1>6, <1>7, <1>9, <2>2 DEF StatusOfMachine
<1>11. before.proto # NoProtocol =>
         before.machine # NoMachine /\ ~AtDeadEnd(before.machine)
  BY <1>1, <1>3, <1>4, DeadEndConsumed
<1>12. d.proto = NoProtocol => before.proto = NoProtocol
                              /\ before.machine # NoMachine
  <2> HIDE DEF d
  <2>1. d.proto = NoProtocol => c = before
    BY <1>1, <1>9
  <2> QED BY <1>4, <1>9, <2>1
<1>13. /\ conv' = [conv EXCEPT ![h] = d]
       /\ event' = [event EXCEPT ![h] = e]
       /\ garbage' = garbage
       /\ forwarded' = forwarded \/ forwarded' = [forwarded EXCEPT ![h] = @ + 1]
  BY <1>3
<1> HIDE DEF d, e, s
<1> QED BY <1>5, <1>7, <1>9, <1>10, <1>11, <1>12, <1>13 DEF isNew

-----------------------------------------------------------------------------
(* The invariant.                                                          *)

Objects == \A h \in Handle : Live(h) => ObjectOK(conv[h])

IInv == TypeOK /\ Objects

\* What an update, a refusal and the setters leave of one object.
LEMMA ObjectReplaced ==
  ASSUME TypeOK, Objects, NEW h \in Handle, NEW d, ObjectOK(d),
         conv' = [conv EXCEPT ![h] = d]
  PROVE  /\ conv' \in [Handle -> ConversationState \cup {NoConversation}]
         /\ Objects'
<1>1. d \in ConversationState
  BY DEF ObjectOK
<1>2. conv' \in [Handle -> ConversationState \cup {NoConversation}]
  BY <1>1 DEF TypeOK
<1>3. ASSUME NEW g \in Handle, conv'[g] # NoConversation
      PROVE  ObjectOK(conv'[g])
  <2>1. CASE g = h
    <3>1. conv'[g] = d
      BY <2>1 DEF TypeOK
    <3> QED BY <3>1
  <2>2. CASE g # h
    <3>1. conv'[g] = conv[g]
      BY <2>2 DEF TypeOK
    <3> QED BY <1>3, <3>1 DEF Objects, Live
  <2> QED BY <2>1, <2>2
<1> QED BY <1>2, <1>3 DEF Objects, Live

LEMMA SetterOK ==
  ASSUME NEW c, ObjectOK(c)
  PROVE  /\ \A n \in Int : /\ ObjectOK([c EXCEPT !.planned = n])
                           /\ [c EXCEPT !.planned = n].machine = c.machine
                           /\ [c EXCEPT !.planned = n].subs = c.subs
                           /\ [c EXCEPT !.planned = n].status = c.status
                           /\ [c EXCEPT !.planned = n].proto = c.proto
         /\ \A p \in Protocol \cup {NoProtocol} :
              /\ ObjectOK([c EXCEPT !.proto = p])
              /\ [c EXCEPT !.proto = p].machine = c.machine
              /\ [c EXCEPT !.proto = p].subs = c.subs
              /\ [c EXCEPT !.proto = p].status = c.status
              /\ [c EXCEPT !.proto = p].proto = p
         /\ \A id \in ConversationId :
              /\ ObjectOK([c EXCEPT !.id = id])
              /\ [c EXCEPT !.id = id].machine = c.machine
              /\ [c EXCEPT !.id = id].subs = c.subs
              /\ [c EXCEPT !.id = id].status = c.status
              /\ [c EXCEPT !.id = id].proto = c.proto
         /\ \A lang \in Language :
              /\ ObjectOK([c EXCEPT !.lang = lang])
              /\ [c EXCEPT !.lang = lang].machine = c.machine
              /\ [c EXCEPT !.lang = lang].subs = c.subs
              /\ [c EXCEPT !.lang = lang].status = c.status
              /\ [c EXCEPT !.lang = lang].proto = c.proto
BY DEF ObjectOK, ConversationState

LEMMA InitInv == Init => IInv
BY DEF Init, IInv, TypeOK, Objects, Live, NoEvent

LEMMA CreateInv ==
  ASSUME IInv, NEW h \in Handle, NEW id \in ConversationId \cup Handle,
         Create(h, id)
  PROVE  IInv'
<1>1. PICK d : d = Fresh(id)
  OBVIOUS
<1>2. ObjectOK(d) /\ conv' = [conv EXCEPT ![h] = d]
  BY <1>1, FreshOK DEF Create
<1>3. /\ conv' \in [Handle -> ConversationState \cup {NoConversation}]
      /\ Objects'
  BY <1>2, ObjectReplaced DEF IInv
<1> QED BY <1>3 DEF Create, IInv, TypeOK

LEMMA NextInv == IInv /\ [Next]_vars => IInv'
<1> SUFFICES ASSUME TypeOK, Objects, [Next]_vars
             PROVE  TypeOK' /\ Objects'
  BY DEF IInv
<1>0. /\ garbage \in [Protocol -> BOOLEAN]
      /\ Owner \in Agent
      /\ Traffic \subseteq Message
  BY TrafficAssumption DEF TypeOK
<1>1. ASSUME NEW h \in Handle, NEW id \in ConversationId \cup Handle,
             Create(h, id)
      PROVE  TypeOK' /\ Objects'
  BY <1>1, CreateInv DEF IInv
<1>2. ASSUME NEW h \in Handle, NEW before, ObjectOK(before),
             NEW msg \in Message, AcceptInto(h, before, msg)
      PROVE  TypeOK' /\ Objects'
  <2>1. PICK d, e :
          /\ conv' = [conv EXCEPT ![h] = d]
          /\ event' = [event EXCEPT ![h] = e]
          /\ garbage' = garbage
          /\ forwarded' = forwarded \/ forwarded' = [forwarded EXCEPT ![h] = @ + 1]
          /\ ObjectOK(d)
          /\ e \in EventType
    BY <1>0, <1>2, AcceptEffect
  <2>2. conv' \in [Handle -> ConversationState \cup {NoConversation}] /\ Objects'
    BY <2>1, ObjectReplaced
  <2>3. event' \in [Handle -> EventType \cup {NoEvent}]
    BY <2>1 DEF TypeOK
  <2>4. forwarded' \in [Handle -> Nat]
    BY <2>1 DEF TypeOK
  <2> QED BY <1>0, <2>1, <2>2, <2>3, <2>4 DEF TypeOK
<1>3. ASSUME NEW h \in Handle, NEW msg \in Traffic, CreateFromMessage(h, msg)
      PROVE  TypeOK' /\ Objects'
  <2>1. ObjectOK(Fresh(GeneratedId(h)))
    BY FreshOK DEF GeneratedId
  <2> QED BY <1>0, <1>2, <1>3, <2>1 DEF CreateFromMessage
<1>4. ASSUME NEW h \in Handle, NEW g \in Handle, Copy(h, g)
      PROVE  TypeOK' /\ Objects'
  <2>1. ObjectOK(conv[h]) /\ conv' = [conv EXCEPT ![g] = conv[h]]
    BY <1>4 DEF Copy, Objects
  <2>2. /\ conv' \in [Handle -> ConversationState \cup {NoConversation}]
        /\ Objects'
    BY <2>1, ObjectReplaced
  <2> QED BY <1>4, <2>2 DEF Copy, TypeOK
<1>5. ASSUME NEW h \in Handle, NEW msg \in Traffic, Accept(h, msg)
      PROVE  TypeOK' /\ Objects'
  <2>1. ObjectOK(conv[h])
    BY <1>5 DEF Accept, Objects
  <2> QED BY <1>0, <1>2, <1>5, <2>1 DEF Accept
<1>6. ASSUME NEW h \in Handle, NEW msg \in Traffic, Refuse(h, msg)
      PROVE  TypeOK' /\ Objects'
  <2>1. ObjectOK(conv[h])
    BY <1>6 DEF Refuse, Objects
  <2>2. PICK d : d = Prepared(conv[h], msg)
    OBVIOUS
  <2>3. ObjectOK(d) /\ conv' = [conv EXCEPT ![h] = d]
    BY <1>0, <1>6, <2>1, <2>2, PreparedOK DEF Refuse
  <2>4. /\ conv' \in [Handle -> ConversationState \cup {NoConversation}]
        /\ Objects'
    BY <2>3, ObjectReplaced
  <2> QED BY <1>6, <2>4 DEF Refuse, TypeOK
<1>7. ASSUME NEW h \in Handle, NEW n \in Plans, SetNumberOfSubConversations(h, n)
      PROVE  TypeOK' /\ Objects'
  <2>1. ObjectOK(conv[h]) /\ n \in Int
    BY <1>7, TrafficAssumption DEF SetNumberOfSubConversations, Objects
  <2>2. PICK d : d = [conv[h] EXCEPT !.planned = n]
    OBVIOUS
  <2>3. ObjectOK(d) /\ conv' = [conv EXCEPT ![h] = d]
    BY <1>7, <2>1, <2>2, SetterOK DEF SetNumberOfSubConversations
  <2>4. /\ conv' \in [Handle -> ConversationState \cup {NoConversation}]
        /\ Objects'
    BY <2>3, ObjectReplaced
  <2> QED BY <1>7, <2>4 DEF SetNumberOfSubConversations, TypeOK
<1>8. ASSUME NEW h \in Handle, NEW p \in ForcedProtocols, SetProtocol(h, p)
      PROVE  TypeOK' /\ Objects'
  <2>1. ObjectOK(conv[h]) /\ p \in Protocol \cup {NoProtocol}
    BY <1>8, TrafficAssumption DEF SetProtocol, Objects
  <2>2. PICK d : d = [conv[h] EXCEPT !.proto = p]
    OBVIOUS
  <2>3. ObjectOK(d) /\ conv' = [conv EXCEPT ![h] = d]
    BY <1>8, <2>1, <2>2, SetterOK DEF SetProtocol
  <2>4. /\ conv' \in [Handle -> ConversationState \cup {NoConversation}]
        /\ Objects'
    BY <2>3, ObjectReplaced
  <2> QED BY <1>8, <2>4 DEF SetProtocol, TypeOK
<1>9. ASSUME NEW h \in Handle, NEW id \in ForcedIds, SetConversationId(h, id)
      PROVE  TypeOK' /\ Objects'
  <2>1. ObjectOK(conv[h])
    BY <1>9 DEF SetConversationId, Objects
  <2>2. PICK d : d = [conv[h] EXCEPT !.id = id]
    OBVIOUS
  <2>3. ObjectOK(d) /\ conv' = [conv EXCEPT ![h] = d]
    BY <1>9, <2>1, <2>2, SetterOK, TrafficAssumption DEF SetConversationId
  <2>4. /\ conv' \in [Handle -> ConversationState \cup {NoConversation}]
        /\ Objects'
    BY <2>3, ObjectReplaced
  <2> QED BY <1>9, <2>4 DEF SetConversationId, TypeOK
<1>10. ASSUME NEW h \in Handle, NEW lang \in ForcedLanguages, SetContentLanguage(h, lang)
      PROVE  TypeOK' /\ Objects'
  <2>1. ObjectOK(conv[h])
    BY <1>10 DEF SetContentLanguage, Objects
  <2>2. PICK d : d = [conv[h] EXCEPT !.lang = lang]
    OBVIOUS
  <2>3. ObjectOK(d) /\ conv' = [conv EXCEPT ![h] = d]
    BY <1>10, <2>1, <2>2, SetterOK, TrafficAssumption DEF SetContentLanguage
  <2>4. /\ conv' \in [Handle -> ConversationState \cup {NoConversation}]
        /\ Objects'
    BY <2>3, ObjectReplaced
  <2> QED BY <1>10, <2>4 DEF SetContentLanguage, TypeOK
<1>11. CASE UNCHANGED vars
  BY <1>11 DEF vars, TypeOK, Objects, Live
<1> QED BY <1>1, <1>3, <1>4, <1>5, <1>6, <1>7, <1>8, <1>9, <1>10, <1>11
        DEF Next, GeneratedId, IdSources

LEMMA Invariance == Spec => []IInv
BY InitInv, NextInv, PTL DEF Spec

\* Whatever messages arrive, be they accepted or refused, at whatever
\* objects, every object keeps the type of the code's members: in particular
\* the lists of embedded and of sub machines keep their shape.
THEOREM TypeCorrect == Spec => []TypeOK
<1>1. IInv => TypeOK
  BY DEF IInv
<1> QED BY <1>1, Invariance, PTL

-----------------------------------------------------------------------------
(* The status an object shows and its machine.  setProtocol("") would       *)
(* break the link: the next update would replace the machine and keep the  *)
(* status.                                                                 *)

ProtocolKept(c) == c.machine # NoMachine => c.proto # NoProtocol

Kept(c) == StatusOfMachine(c) /\ ProtocolKept(c)

SInv ==
  /\ IInv
  /\ \A h \in Handle : Live(h) => Kept(conv[h])
  /\ \A h \in Handle : event[h] # NoEvent =>
       Live(h) /\ conv[h].status # "UNINITIALIZED"

\* An object that notified event e and became d.
Notified(c, d, e) ==
  /\ ObjectOK(d) /\ Kept(d)
  /\ e \in EventType /\ Lifecycle!Leads(e, d.status)
  /\ d.status \in {"RUNNING", "ENDED", "FAILED"}
  /\ e = "START_OF_CONVERSATION" => c.proto = NoProtocol
  /\ c.proto # NoProtocol => c.machine # NoMachine /\ ~AtDeadEnd(c.machine)

\* An object that changed without notifying.
Quiet(c, d) ==
  /\ ObjectOK(d) /\ Kept(d)
  /\ d.status = c.status
  /\ c.machine # NoMachine => d.machine = c.machine /\ d.subs = c.subs

\* The steps of Conversation as far as status and event tell them apart.
Born(h, d) == ~Live(h) /\ conv' = [conv EXCEPT ![h] = d] /\ UNCHANGED event
           /\ ObjectOK(d) /\ Kept(d) /\ d.status = "UNINITIALIZED"

Changed(h, d) ==
  /\ Live(h) /\ Quiet(conv[h], d)
  /\ conv' = [conv EXCEPT ![h] = d] /\ UNCHANGED event

Announced(h, c, d, e) ==
  /\ Live(h) => c = conv[h]
  /\ ~Live(h) => c.proto = NoProtocol
  /\ Notified(c, d, e)
  /\ conv' = [conv EXCEPT ![h] = d] /\ event' = [event EXCEPT ![h] = e]

StatusStep ==
  \/ UNCHANGED <<conv, event>>
  \/ \E h \in Handle : \E d : Born(h, d)
  \/ \E h, g \in Handle : Copy(h, g)
  \/ \E h \in Handle : \E d : Changed(h, d)
  \/ \E h \in Handle : \E c, d, e : Announced(h, c, d, e)

\* A created object.
LEMMA CreateBears ==
  ASSUME NEW h \in Handle, NEW id \in ConversationId \cup Handle, Create(h, id)
  PROVE  \E d : Born(h, d)
<1>1. PICK d : d = Fresh(id)
  OBVIOUS
<1>2. ObjectOK(d) /\ Kept(d) /\ d.status = "UNINITIALIZED"
  BY <1>1, FreshOK DEF Kept, StatusOfMachine, ProtocolKept
<1>3. Born(h, d)
  BY <1>1, <1>2 DEF Create, Born
<1> QED BY <1>3

\* An accepted message.
LEMMA IntoAnnounces ==
  ASSUME SInv, NEW h \in Handle, NEW c, ObjectOK(c), ProtocolKept(c),
         Live(h) => c = conv[h], ~Live(h) => c.proto = NoProtocol,
         NEW msg \in Traffic, AcceptInto(h, c, msg)
  PROVE  \E d, e : Announced(h, c, d, e)
<1>0. /\ TypeOK /\ Objects
      /\ garbage \in [Protocol -> BOOLEAN]
      /\ Owner \in Agent
      /\ Traffic \subseteq Message
  BY TrafficAssumption DEF SInv, IInv, TypeOK
<1>1. PICK d, e :
        /\ conv' = [conv EXCEPT ![h] = d]
        /\ event' = [event EXCEPT ![h] = e]
        /\ ObjectOK(d) /\ StatusOfMachine(d)
        /\ d.proto = NoProtocol => /\ c.proto = NoProtocol
                                   /\ c.machine # NoMachine
        /\ e \in EventType /\ Lifecycle!Leads(e, d.status)
        /\ d.status \in {"RUNNING", "ENDED", "FAILED"}
        /\ e = "START_OF_CONVERSATION" => c.proto = NoProtocol
        /\ c.proto # NoProtocol =>
             c.machine # NoMachine /\ ~AtDeadEnd(c.machine)
  BY <1>0, AcceptEffect
<1>2. Kept(d)
  BY <1>1 DEF Kept, ProtocolKept
<1>3. Announced(h, c, d, e)
  BY <1>1, <1>2 DEF Announced, Notified
<1> QED BY <1>3

LEMMA AcceptAnnounces ==
  ASSUME SInv, NEW h \in Handle, NEW msg \in Traffic, Accept(h, msg)
  PROVE  \E d, e : Announced(h, conv[h], d, e)
<1>1. Live(h) /\ ObjectOK(conv[h]) /\ ProtocolKept(conv[h])
  BY DEF Accept, SInv, IInv, Objects, Kept
<1> QED BY <1>1, IntoAnnounces DEF Accept

\* A refused message.
LEMMA RefuseChanges ==
  ASSUME SInv, NEW h \in Handle, NEW msg \in Traffic, Refuse(h, msg)
  PROVE  \E d : Changed(h, d)
<1>0. /\ TypeOK /\ Objects
      /\ garbage \in [Protocol -> BOOLEAN]
      /\ Owner \in Agent
      /\ Traffic \subseteq Message
  BY TrafficAssumption DEF SInv, IInv, TypeOK
<1>1. PICK d : d = Prepared(conv[h], msg)
  OBVIOUS
<1>2. /\ Live(h) /\ ObjectOK(conv[h]) /\ Kept(conv[h])
      /\ conv' = [conv EXCEPT ![h] = d] /\ UNCHANGED event
  BY <1>1 DEF Refuse, SInv, IInv, Objects
<1>3. /\ ObjectOK(d)
      /\ d.status = conv[h].status
      /\ d = conv[h] \/ /\ conv[h].proto = NoProtocol
                        /\ d.proto # NoProtocol
                        /\ d.machine # NoMachine
  BY <1>0, <1>1, <1>2, PreparedOK
<1>4. CASE d = conv[h]
  <2>1. Quiet(conv[h], d)
    BY <1>2, <1>4 DEF Quiet
  <2>2. Changed(h, d)
    BY <1>2, <2>1 DEF Changed
  <2> QED BY <2>2
<1>5. CASE d # conv[h]
  <2>1. conv[h].machine = NoMachine /\ conv[h].status = "UNINITIALIZED"
    BY <1>2, <1>3, <1>5 DEF Kept, ProtocolKept, StatusOfMachine
  <2>2. Quiet(conv[h], d)
    BY <1>3, <1>5, <2>1 DEF Quiet, Kept, ProtocolKept, StatusOfMachine
  <2>3. Changed(h, d)
    BY <1>2, <2>2 DEF Changed
  <2> QED BY <2>3
<1> QED BY <1>4, <1>5

\* The setters, as long as the protocol is not erased.
LEMMA SettersChange ==
  ASSUME NoProtocol \notin ForcedProtocols, SInv, NEW h \in Handle,
         \/ \E n \in Plans : SetNumberOfSubConversations(h, n)
         \/ \E p \in ForcedProtocols : SetProtocol(h, p)
         \/ \E id \in ForcedIds : SetConversationId(h, id)
         \/ \E lang \in ForcedLanguages : SetContentLanguage(h, lang)
  PROVE  \E d : Changed(h, d)
<1>1. ASSUME NEW n \in Plans, SetNumberOfSubConversations(h, n)
      PROVE  \E d : Changed(h, d)
  <2>1. PICK d : d = [conv[h] EXCEPT !.planned = n]
    OBVIOUS
  <2>2. /\ Live(h) /\ ObjectOK(conv[h]) /\ Kept(conv[h])
        /\ conv' = [conv EXCEPT ![h] = d] /\ UNCHANGED event /\ n \in Int
    BY <1>1, <2>1, TrafficAssumption
    DEF SetNumberOfSubConversations, SInv, IInv, Objects
  <2>3. Quiet(conv[h], d)
    <3>1. /\ ObjectOK(d) /\ d.machine = conv[h].machine
          /\ d.subs = conv[h].subs /\ d.status = conv[h].status
          /\ d.proto = conv[h].proto
      BY <2>1, <2>2, SetterOK
    <3> QED BY <2>2, <3>1, StatusUntouched DEF Quiet, Kept, ProtocolKept
  <2>4. Changed(h, d)
    BY <2>2, <2>3 DEF Changed
  <2> QED BY <2>4
<1>2. ASSUME NEW p \in ForcedProtocols, SetProtocol(h, p)
      PROVE  \E d : Changed(h, d)
  <2>1. PICK d : d = [conv[h] EXCEPT !.proto = p]
    OBVIOUS
  <2>2. /\ Live(h) /\ ObjectOK(conv[h]) /\ Kept(conv[h])
        /\ conv' = [conv EXCEPT ![h] = d] /\ UNCHANGED event
        /\ p \in Protocol /\ p # NoProtocol
    BY <1>2, <2>1, TrafficAssumption, ProtocolAssumption
    DEF SetProtocol, SInv, IInv, Objects
  <2>3. Quiet(conv[h], d)
    <3>1. /\ ObjectOK(d) /\ d.machine = conv[h].machine
          /\ d.subs = conv[h].subs /\ d.status = conv[h].status
          /\ d.proto = p
      BY <2>1, <2>2, SetterOK
    <3> QED BY <2>2, <3>1, StatusUntouched DEF Quiet, Kept, ProtocolKept
  <2>4. Changed(h, d)
    BY <2>2, <2>3 DEF Changed
  <2> QED BY <2>4
<1>3. ASSUME NEW id \in ForcedIds, SetConversationId(h, id)
      PROVE  \E d : Changed(h, d)
  <2>1. PICK d : d = [conv[h] EXCEPT !.id = id]
    OBVIOUS
  <2>2. /\ Live(h) /\ ObjectOK(conv[h]) /\ Kept(conv[h])
        /\ conv' = [conv EXCEPT ![h] = d] /\ UNCHANGED event
    BY <1>3, <2>1 DEF SetConversationId, SInv, IInv, Objects
  <2>3. Quiet(conv[h], d)
    <3>1. /\ ObjectOK(d) /\ d.machine = conv[h].machine
          /\ d.subs = conv[h].subs /\ d.status = conv[h].status
          /\ d.proto = conv[h].proto
      BY <2>1, <2>2, SetterOK, TrafficAssumption
    <3> QED BY <2>2, <3>1, StatusUntouched DEF Quiet, Kept, ProtocolKept
  <2>4. Changed(h, d)
    BY <2>2, <2>3 DEF Changed
  <2> QED BY <2>4
<1>4. ASSUME NEW lang \in ForcedLanguages, SetContentLanguage(h, lang)
      PROVE  \E d : Changed(h, d)
  <2>1. PICK d : d = [conv[h] EXCEPT !.lang = lang]
    OBVIOUS
  <2>2. /\ Live(h) /\ ObjectOK(conv[h]) /\ Kept(conv[h])
        /\ conv' = [conv EXCEPT ![h] = d] /\ UNCHANGED event
    BY <1>4, <2>1 DEF SetContentLanguage, SInv, IInv, Objects
  <2>3. Quiet(conv[h], d)
    <3>1. /\ ObjectOK(d) /\ d.machine = conv[h].machine
          /\ d.subs = conv[h].subs /\ d.status = conv[h].status
          /\ d.proto = conv[h].proto
      BY <2>1, <2>2, SetterOK, TrafficAssumption
    <3> QED BY <2>2, <3>1, StatusUntouched DEF Quiet, Kept, ProtocolKept
  <2>4. Changed(h, d)
    BY <2>2, <2>3 DEF Changed
  <2> QED BY <2>4
<1> QED BY <1>1, <1>2, <1>3, <1>4

LEMMA NextIsStatusStep ==
  ASSUME NoProtocol \notin ForcedProtocols, SInv, [Next]_vars
  PROVE  StatusStep
<1>1. ASSUME NEW h \in Handle, NEW id \in ConversationId \cup Handle,
             Create(h, id)
      PROVE  StatusStep
  BY <1>1, CreateBears DEF StatusStep
<1>2. ASSUME NEW h \in Handle, NEW msg \in Traffic, CreateFromMessage(h, msg)
      PROVE  StatusStep
  <2>1. PICK c : c = Fresh(GeneratedId(h))
    OBVIOUS
  <2>2. /\ ObjectOK(c) /\ ProtocolKept(c) /\ c.proto = NoProtocol
        /\ ~Live(h) /\ AcceptInto(h, c, msg)
    BY <1>2, <2>1, FreshOK DEF GeneratedId, ProtocolKept, CreateFromMessage
  <2>3. \E d, e : Announced(h, c, d, e)
    BY <2>2, IntoAnnounces
  <2> QED BY <2>3 DEF StatusStep
<1>3. ASSUME NEW h \in Handle, NEW msg \in Traffic, Accept(h, msg)
      PROVE  StatusStep
  BY <1>3, AcceptAnnounces DEF StatusStep
<1>4. ASSUME NEW h \in Handle, NEW msg \in Traffic, Refuse(h, msg)
      PROVE  StatusStep
  BY <1>4, RefuseChanges DEF StatusStep
<1>5. ASSUME NEW h \in Handle,
             \/ \E n \in Plans : SetNumberOfSubConversations(h, n)
             \/ \E p \in ForcedProtocols : SetProtocol(h, p)
             \/ \E id \in ForcedIds : SetConversationId(h, id)
             \/ \E lang \in ForcedLanguages : SetContentLanguage(h, lang)
      PROVE  StatusStep
  BY <1>5, SettersChange DEF StatusStep
<1>6. CASE \E h, g \in Handle : Copy(h, g)
  BY <1>6 DEF StatusStep
<1>7. CASE UNCHANGED vars
  BY <1>7 DEF vars, StatusStep
<1> QED BY <1>1, <1>2, <1>3, <1>4, <1>5, <1>6, <1>7
        DEF Next, GeneratedId, IdSources

LEMMA StatusReplaced ==
  ASSUME SInv, NEW h \in Handle, NEW d, Kept(d), conv' = [conv EXCEPT ![h] = d]
  PROVE  \A g \in Handle : conv'[g] # NoConversation => Kept(conv'[g])
<1> SUFFICES ASSUME NEW g \in Handle, conv'[g] # NoConversation
             PROVE  Kept(conv'[g])
  OBVIOUS
<1>1. CASE g = h
  <2>1. conv'[g] = d
    BY <1>1 DEF SInv, IInv, TypeOK
  <2> QED BY <2>1
<1>2. CASE g # h
  <2>1. conv'[g] = conv[g]
    BY <1>2 DEF SInv, IInv, TypeOK
  <2> QED BY <2>1 DEF SInv, Live
<1> QED BY <1>1, <1>2

\* An event is only shown by an object that has left UNINITIALIZED.
Shown(cv, ev, h) ==
  ev[h] # NoEvent => cv[h] # NoConversation /\ cv[h].status # "UNINITIALIZED"

LEMMA EventReplaced ==
  ASSUME SInv, NEW h \in Handle, NEW d, NEW e, ObjectOK(d),
         conv' = [conv EXCEPT ![h] = d], event' = [event EXCEPT ![h] = e],
         e # NoEvent => d.status # "UNINITIALIZED"
  PROVE  \A g \in Handle : Shown(conv', event', g)
<1> SUFFICES ASSUME NEW g \in Handle PROVE Shown(conv', event', g)
  OBVIOUS
<1>0. /\ conv \in [Handle -> ConversationState \cup {NoConversation}]
      /\ event \in [Handle -> EventType \cup {NoEvent}]
      /\ d # NoConversation
  BY ObjectAssumption DEF SInv, IInv, TypeOK, ObjectOK
<1>1. CASE g = h
  <2>1. conv'[g] = d /\ event'[g] = e
    BY <1>0, <1>1
  <2> QED BY <1>0, <2>1 DEF Shown
<1>2. CASE g # h
  <2>1. conv'[g] = conv[g] /\ event'[g] = event[g]
    BY <1>0, <1>2
  <2> QED BY <2>1 DEF Shown, SInv, Live
<1> QED BY <1>1, <1>2

LEMMA SInvNext ==
  ASSUME SInv, IInv', StatusStep
  PROVE  SInv'
<1> SUFFICES /\ \A h \in Handle : conv'[h] # NoConversation => Kept(conv'[h])
             /\ \A h \in Handle : Shown(conv', event', h)
  BY DEF SInv, Live, Shown
<1>0. event \in [Handle -> EventType \cup {NoEvent}]
  BY DEF SInv, IInv, TypeOK
<1>1. CASE UNCHANGED <<conv, event>>
  BY <1>1 DEF SInv, Live, Shown
<1>2. CASE \E h, g \in Handle : Copy(h, g)
  <2>1. PICK h \in Handle, g \in Handle : Copy(h, g)
    BY <1>2
  <2>2. /\ Kept(conv[h]) /\ ObjectOK(conv[h])
        /\ conv' = [conv EXCEPT ![g] = conv[h]]
        /\ event' = [event EXCEPT ![g] = event[h]]
        /\ event[h] # NoEvent => conv[h].status # "UNINITIALIZED"
    BY <2>1 DEF Copy, SInv, IInv, Objects
  <2> QED BY <2>2, StatusReplaced, EventReplaced
<1>3. ASSUME NEW h \in Handle, NEW d, ObjectOK(d), Kept(d),
             conv' = [conv EXCEPT ![h] = d], UNCHANGED event,
             event[h] # NoEvent => d.status # "UNINITIALIZED"
      PROVE  /\ \A g \in Handle : conv'[g] # NoConversation => Kept(conv'[g])
             /\ \A g \in Handle : Shown(conv', event', g)
  <2>1. event' = [event EXCEPT ![h] = event[h]]
    BY <1>0, <1>3
  <2> QED BY <1>3, <2>1, StatusReplaced, EventReplaced
<1>4. ASSUME NEW h \in Handle, NEW d, Born(h, d)
      PROVE  /\ \A g \in Handle : conv'[g] # NoConversation => Kept(conv'[g])
             /\ \A g \in Handle : Shown(conv', event', g)
  <2>1. event[h] = NoEvent
    BY <1>4 DEF Born, SInv
  <2> QED BY <1>3, <1>4, <2>1 DEF Born
<1>5. ASSUME NEW h \in Handle, NEW d, Changed(h, d)
      PROVE  /\ \A g \in Handle : conv'[g] # NoConversation => Kept(conv'[g])
             /\ \A g \in Handle : Shown(conv', event', g)
  <2>1. event[h] # NoEvent => d.status # "UNINITIALIZED"
    BY <1>5 DEF Changed, Quiet, SInv
  <2> QED BY <1>3, <1>5, <2>1 DEF Changed, Quiet
<1>6. ASSUME NEW h \in Handle, NEW c, NEW d, NEW e, Announced(h, c, d, e)
      PROVE  /\ \A g \in Handle : conv'[g] # NoConversation => Kept(conv'[g])
             /\ \A g \in Handle : Shown(conv', event', g)
  <2>1. /\ ObjectOK(d) /\ Kept(d) /\ d.status # "UNINITIALIZED"
        /\ conv' = [conv EXCEPT ![h] = d] /\ event' = [event EXCEPT ![h] = e]
    BY <1>6 DEF Announced, Notified
  <2> QED BY <2>1, StatusReplaced, EventReplaced
<1> QED BY <1>1, <1>2, <1>4, <1>5, <1>6 DEF StatusStep

\* While nobody erases its protocol, the status of an object is the one of
\* its machine.
LEMMA StatusInvariance ==
  ASSUME NoProtocol \notin ForcedProtocols
  PROVE  Spec => []SInv
<1>1. Init => SInv
  BY InitInv DEF Init, SInv, Live, NoEvent
<1>2. SInv /\ [Next]_vars => SInv'
  BY NextInv, NextIsStatusStep, SInvNext DEF SInv
<1> QED BY <1>1, <1>2, PTL DEF Spec

\* getStatus() never disagrees with what the machine and its sub machines
\* say, from the first event on, for any protocols, any messages and any
\* history of copies and setters.
THEOREM StatusInStep ==
  ASSUME NoProtocol \notin ForcedProtocols
  PROVE  Spec => []StatusTracksMachine
<1>1. SInv => StatusTracksMachine
  <2> SUFFICES ASSUME SInv, NEW h \in Handle, Running(h), event[h] # NoEvent
               PROVE  /\ conv[h].status = "FAILED" <=>
                            InFailureState(conv[h].machine)
                      /\ conv[h].status = "ENDED" <=>
                            Ended(conv[h]) /\ ~InFailureState(conv[h].machine)
    BY DEF StatusTracksMachine
  <2>1. conv[h].status = StatusByMachine(conv[h])
    BY DEF SInv, Live, Kept, StatusOfMachine
  <2> QED BY <2>1 DEF StatusByMachine
<1> QED BY <1>1, StatusInvariance, PTL

-----------------------------------------------------------------------------
(* Failures are final.                                                     *)

LEMMA FailedAtDeadEnd ==
  ASSUME NEW c, ObjectOK(c), StatusOfMachine(c), c.status = "FAILED"
  PROVE  c.machine # NoMachine /\ AtDeadEnd(c.machine)
<1>1. c.machine # NoMachine /\ c.machine.cur \in FailureStates
  BY DEF StatusOfMachine, InFailureState
<1>2. c.machine.proto \in Protocol /\ c.machine.cur \in StatesOf(c.machine.proto)
  BY <1>1 DEF ObjectOK, WellFormed, Machine
<1> QED BY <1>1, <1>2, StateFacts DEF AtDeadEnd

FailureKept(h) ==
  Live(h) /\ conv[h].status = "FAILED" =>
    /\ conv'[h].status = "FAILED"
    /\ conv'[h].machine = conv[h].machine
    /\ conv'[h].subs = conv[h].subs

LEMMA FailureStep ==
  ASSUME SInv, StatusStep, NEW h \in Handle
  PROVE  FailureKept(h)
<1> SUFFICES ASSUME Live(h), conv[h].status = "FAILED"
             PROVE  /\ conv'[h].status = "FAILED"
                    /\ conv'[h].machine = conv[h].machine
                    /\ conv'[h].subs = conv[h].subs
  BY DEF FailureKept
<1>1. /\ conv[h].machine # NoMachine
      /\ AtDeadEnd(conv[h].machine)
      /\ conv[h].proto # NoProtocol
  <2>1. ObjectOK(conv[h]) /\ StatusOfMachine(conv[h]) /\ ProtocolKept(conv[h])
    BY DEF SInv, IInv, Objects, Kept
  <2> QED BY <2>1, FailedAtDeadEnd DEF ProtocolKept
<1>2. ASSUME conv'[h] = conv[h]
      PROVE  /\ conv'[h].status = "FAILED"
             /\ conv'[h].machine = conv[h].machine
             /\ conv'[h].subs = conv[h].subs
  BY <1>2
<1>3. CASE UNCHANGED <<conv, event>>
  BY <1>2, <1>3
<1>4. ASSUME NEW g \in Handle, NEW d, conv' = [conv EXCEPT ![g] = d], g # h
      PROVE  conv'[h] = conv[h]
  BY <1>4 DEF SInv, IInv, TypeOK
<1>5. ASSUME NEW g \in Handle, NEW d, Born(g, d) PROVE conv'[h] = conv[h]
  BY <1>4, <1>5 DEF Born
<1>6. ASSUME NEW f \in Handle, NEW g \in Handle, Copy(f, g)
      PROVE  conv'[h] = conv[h]
  BY <1>4, <1>6 DEF Copy
<1>7. ASSUME NEW g \in Handle, NEW d, Changed(g, d)
      PROVE  /\ conv'[h].status = "FAILED"
             /\ conv'[h].machine = conv[h].machine
             /\ conv'[h].subs = conv[h].subs
  <2>1. CASE g = h
    <3>1. conv'[h] = d /\ Quiet(conv[h], d)
      BY <1>7, <2>1 DEF Changed, SInv, IInv, TypeOK
    <3> QED BY <1>1, <3>1 DEF Quiet
  <2>2. CASE g # h
    BY <1>2, <1>4, <1>7, <2>2 DEF Changed
  <2> QED BY <2>1, <2>2
<1>8. ASSUME NEW g \in Handle, NEW c, NEW d, NEW e, Announced(g, c, d, e)
      PROVE  conv'[h] = conv[h]
  <2>1. CASE g = h
    BY <1>1, <1>8, <2>1 DEF Announced, Notified
  <2>2. CASE g # h
    BY <1>4, <1>8, <2>2 DEF Announced
  <2> QED BY <2>1, <2>2
<1> QED BY <1>2, <1>3, <1>5, <1>6, <1>7, <1>8 DEF StatusStep

\* Once a conversation has failed, no message of its own protocol or of a
\* sub protocol, whatever is in its sub machines, is accepted any more.
THEOREM FailedForGood ==
  ASSUME NoProtocol \notin ForcedProtocols
  PROVE  Spec => FailureIsFinal
<1>1. SInv /\ [Next]_vars =>
        [\A h \in Handle : Live(h) /\ conv[h].status = "FAILED" =>
           /\ conv'[h].status = "FAILED"
           /\ conv'[h].machine = conv[h].machine
           /\ conv'[h].subs = conv[h].subs]_vars
  BY NextIsStatusStep, FailureStep DEF FailureKept
<1> QED BY <1>1, StatusInvariance, PTL DEF Spec, FailureIsFinal

-----------------------------------------------------------------------------
(* Refinement.                                                             *)

\* The refinement mapping, as a function of conv.
StatusSeen(cv) ==
  [h \in Handle |-> IF cv[h] # NoConversation THEN cv[h].status ELSE "ABSENT"]

LEMMA SeenOf ==
  ASSUME NEW cv, NEW h \in Handle
  PROVE  StatusSeen(cv)[h] =
           IF cv[h] # NoConversation THEN cv[h].status ELSE "ABSENT"
BY Zenon DEF StatusSeen

LEMMA SeenReplaced ==
  ASSUME TypeOK, NEW h \in Handle, NEW d, ObjectOK(d),
         conv' = [conv EXCEPT ![h] = d]
  PROVE  StatusSeen(conv') = [StatusSeen(conv) EXCEPT ![h] = d.status]
<1>1. d # NoConversation
  BY ObjectAssumption DEF ObjectOK
<1>2. /\ conv'[h] = d
      /\ \A g \in Handle \ {h} : conv'[g] = conv[g]
  BY DEF TypeOK
<1>3. \A g \in Handle :
        StatusSeen(conv')[g] = [StatusSeen(conv) EXCEPT ![h] = d.status][g]
  BY <1>1, <1>2 DEF StatusSeen
<1> QED BY <1>3 DEF StatusSeen

\* No conversation goes on after an end that has no way out.
LEMMA EndedAtDeadEnd ==
  ASSUME NEW c, ObjectOK(c), StatusOfMachine(c), c.status = "ENDED", EndIsFinal
  PROVE  c.machine # NoMachine /\ AtDeadEnd(c.machine)
<1>1. c.machine # NoMachine
      /\ c.machine.cur \in FinalStatesOf(c.machine.proto)
  BY DEF StatusOfMachine
<1>2. c.machine.proto \in Protocol
  BY <1>1 DEF ObjectOK, WellFormed, Machine
<1> QED BY <1>1, <1>2 DEF AtDeadEnd, EndIsFinal

\* What the steps are for the abstract specification.
LEMMA BornSeen ==
  ASSUME SInv, NEW h \in Handle, NEW d, Born(h, d)
  PROVE  /\ StatusSeen(conv)[h] = "ABSENT"
         /\ StatusSeen(conv') =
              [StatusSeen(conv) EXCEPT ![h] = "UNINITIALIZED"]
         /\ event' = event
<1>0. TypeOK
  BY DEF SInv, IInv
<1>1. StatusSeen(conv)[h] = "ABSENT"
  BY DEF Born, Live, StatusSeen
<1> QED BY <1>0, <1>1, SeenReplaced DEF Born

LEMMA ChangedSeen ==
  ASSUME SInv, NEW h \in Handle, NEW d, Changed(h, d)
  PROVE  StatusSeen(conv') = StatusSeen(conv) /\ event' = event
<1>0. TypeOK
  BY DEF SInv, IInv
<1>1. StatusSeen(conv') = [StatusSeen(conv) EXCEPT ![h] = d.status]
  BY <1>0, SeenReplaced DEF Changed, Quiet
<1>2. d.status = StatusSeen(conv)[h]
  BY DEF Changed, Quiet, Live, StatusSeen
<1>3. [StatusSeen(conv) EXCEPT ![h] = StatusSeen(conv)[h]] = StatusSeen(conv)
  BY DEF StatusSeen
<1> QED BY <1>1, <1>2, <1>3 DEF Changed

LEMMA CopiedSeen ==
  ASSUME SInv, NEW h \in Handle, NEW g \in Handle, Copy(h, g)
  PROVE  /\ StatusSeen(conv)[h] # "ABSENT"
         /\ StatusSeen(conv)[g] = "ABSENT"
         /\ StatusSeen(conv') =
              [StatusSeen(conv) EXCEPT ![g] = StatusSeen(conv)[h]]
         /\ event' = [event EXCEPT ![g] = event[h]]
<1>0. TypeOK
  BY DEF SInv, IInv
<1>1. ObjectOK(conv[h]) /\ Live(h) /\ ~Live(g)
      /\ conv' = [conv EXCEPT ![g] = conv[h]]
      /\ event' = [event EXCEPT ![g] = event[h]]
  BY DEF Copy, SInv, IInv, Objects
<1>2. conv[h].status # "ABSENT"
  BY <1>1 DEF ObjectOK, ConversationState, Status
<1>3. conv[h] # NoConversation /\ conv[g] = NoConversation
  BY <1>1 DEF Live
<1>4. StatusSeen(conv)[h] = conv[h].status
  BY <1>3, SeenOf, Zenon
<1>5. StatusSeen(conv)[g] = "ABSENT"
  BY <1>3, SeenOf, Zenon
<1>6. StatusSeen(conv') = [StatusSeen(conv) EXCEPT ![g] = conv[h].status]
  BY <1>0, <1>1, SeenReplaced
<1> QED BY <1>1, <1>2, <1>4, <1>5, <1>6

LEMMA AnnouncedSeen ==
  ASSUME SInv, NEW h \in Handle, NEW c, NEW d, NEW e, Announced(h, c, d, e)
  PROVE  /\ Lifecycle!Leads(e, d.status)
         /\ e = "START_OF_CONVERSATION" =>
              StatusSeen(conv)[h] \in {"ABSENT", "UNINITIALIZED"}
         /\ StatusSeen(conv)[h] # "FAILED"
         /\ StatusSeen(conv)[h] = "ENDED" => ~EndIsFinal
         /\ StatusSeen(conv') = [StatusSeen(conv) EXCEPT ![h] = d.status]
         /\ event' = [event EXCEPT ![h] = e]
         /\ e \in EventType /\ d.status \in {"RUNNING", "ENDED", "FAILED"}
<1>0. TypeOK
  BY DEF SInv, IInv
<1>1. Notified(c, d, e) /\ event' = [event EXCEPT ![h] = e]
  BY DEF Announced
<1>2. StatusSeen(conv') = [StatusSeen(conv) EXCEPT ![h] = d.status]
  BY <1>0, <1>1, SeenReplaced DEF Announced, Notified
<1>3. CASE ~Live(h)
  <2>1. StatusSeen(conv)[h] = "ABSENT"
    BY <1>3 DEF StatusSeen, Live
  <2> QED BY <1>1, <1>2, <2>1 DEF Notified
<1>4. CASE Live(h)
  <2>1. /\ c = conv[h]
        /\ StatusSeen(conv)[h] = c.status
        /\ ObjectOK(c) /\ StatusOfMachine(c) /\ ProtocolKept(c)
    BY <1>4
    DEF Announced, StatusSeen, Live, SInv, IInv, Objects, Kept
  <2>2. e = "START_OF_CONVERSATION" => c.status = "UNINITIALIZED"
    BY <1>1, <2>1 DEF Notified, ProtocolKept, StatusOfMachine
  <2>3. c.status = "FAILED" \/ (c.status = "ENDED" /\ EndIsFinal) => FALSE
    <3>1. c.status = "FAILED" \/ (c.status = "ENDED" /\ EndIsFinal) =>
            c.machine # NoMachine /\ AtDeadEnd(c.machine)
      BY <2>1, FailedAtDeadEnd, EndedAtDeadEnd
    <3> QED BY <1>1, <2>1, <3>1 DEF Notified, ProtocolKept
  <2> QED BY <1>1, <1>2, <2>1, <2>2, <2>3 DEF Notified
<1> QED BY <1>3, <1>4

LEMMA LifecycleStep ==
  ASSUME SInv, StatusStep
  PROVE  \/ StatusSeen(conv') = StatusSeen(conv) /\ event' = event
         \/ \E h \in Handle :
              /\ StatusSeen(conv)[h] = "ABSENT"
              /\ StatusSeen(conv') =
                   [StatusSeen(conv) EXCEPT ![h] = "UNINITIALIZED"]
              /\ event' = event
         \/ \E h \in Handle, e \in EventType, s \in {"RUNNING", "ENDED", "FAILED"} :
              /\ Lifecycle!Leads(e, s)
              /\ e = "START_OF_CONVERSATION" =>
                   StatusSeen(conv)[h] \in {"ABSENT", "UNINITIALIZED"}
              /\ StatusSeen(conv)[h] # "FAILED"
              /\ StatusSeen(conv)[h] = "ENDED" => ~EndIsFinal
              /\ StatusSeen(conv') = [StatusSeen(conv) EXCEPT ![h] = s]
              /\ event' = [event EXCEPT ![h] = e]
         \/ \E h, g \in Handle :
              /\ StatusSeen(conv)[h] # "ABSENT"
              /\ StatusSeen(conv)[g] = "ABSENT"
              /\ StatusSeen(conv') =
                   [StatusSeen(conv) EXCEPT ![g] = StatusSeen(conv)[h]]
              /\ event' = [event EXCEPT ![g] = event[h]]
<1>1. CASE UNCHANGED <<conv, event>>
  BY <1>1
<1> QED BY <1>1, BornSeen, ChangedSeen, CopiedSeen, AnnouncedSeen DEF StatusStep

\* Every conversation keeps the promise of ConversationLifecycle: it starts
\* once, stops for good at a failure, and at its end too unless a protocol
\* in use provides a way out of a final state.
THEOREM ImplementsLifecycle ==
  ASSUME NoProtocol \notin ForcedProtocols
  PROVE  Spec => LifecycleSpec
<1>1. Init => Lifecycle!Init
  BY DEF Init, Lifecycle!Init, Live, NoEvent
<1>2. SInv /\ [Next]_vars => [Lifecycle!Next]_(Lifecycle!vars)
  <2> SUFFICES ASSUME SInv, [Next]_vars
               PROVE  [Lifecycle!Next]_(Lifecycle!vars)
    OBVIOUS
  <2>1. StatusStep
    BY NextIsStatusStep
  <2> QED BY <2>1, LifecycleStep
          DEF Lifecycle!Next, Lifecycle!vars, Lifecycle!Create,
              Lifecycle!Notify, Lifecycle!Copy, StatusSeen, Live, EventType
<1> QED BY <1>1, <1>2, StatusInvariance, PTL
        DEF Spec, LifecycleSpec, Lifecycle!Spec

-----------------------------------------------------------------------------
(* The ways in which an accepted message turns the object c into d.        *)

OwnMessage(c, d, msg) ==
  /\ msg.proto = c.proto
  /\ d.machine \in ConsumeMessage(c.machine, msg)
  /\ d.subs = c.subs

SubTakes(c, d, msg) ==
  /\ msg.proto # c.proto
  /\ d.machine = c.machine
  /\ \E i \in DOMAIN SubsOf(c), sub \in Machine :
       /\ ~SubOver(SubsOf(c)[i])
       /\ sub \in ConsumeMessage(SubsOf(c)[i], msg)
       /\ d.subs = [c.subs EXCEPT ![c.machine.cur] =
                      [SubsOf(c) EXCEPT ![i] = sub]]

SubStarts(c, d, msg) ==
  /\ msg.proto # c.proto
  /\ \E k \in DOMAIN EmbeddedOf(c.machine.proto, c.machine.cur), sub \in Machine :
       /\ Fits(c.machine, SubsOf(c), msg, c.planned, k)
       /\ sub \in ConsumeMessage(NewMachine(msg.proto, msg.sender, garbage), msg)
       /\ d.machine = Recorded(c.machine, k, msg.proto, c.planned)
       /\ d.subs = [c.subs EXCEPT ![c.machine.cur] = Append(SubsOf(c), sub)]

Takes(c, d, msg) ==
  OwnMessage(c, d, msg) \/ SubTakes(c, d, msg) \/ SubStarts(c, d, msg)

\* What an embedded machine names as its protocols exists.
LEMMA EmbeddedFacts ==
  ASSUME NEW p \in Protocol, NEW s \in StatesOf(p),
         NEW k \in DOMAIN EmbeddedOf(p, s)
  PROVE  /\ EmbeddedOf(p, s)[k].name \subseteq Protocol
         /\ EmbeddedOf(p, s)[k].from \in RoleId
<1> DEFINE T == [name : SUBSET Protocol, from : RolesOf(p),
                 proxiedTo : RolesOf(p) \cup {NoRole}]
<1>1. EmbeddedOf(p, s) \in Seq(T)
  BY SpecificationAssumption
<1>2. \A x \in T : x.name \subseteq Protocol /\ x.from \in RolesOf(p)
  OBVIOUS
<1>3. EmbeddedOf(p, s)[k] \in T
  <2> HIDE DEF T
  <2> QED BY <1>1, Element
<1> HIDE DEF T
<1> QED BY <1>2, <1>3 DEF RoleId

LEMMA ConsumedTakes ==
  ASSUME garbage \in [Protocol -> BOOLEAN],
         NEW c, ObjectOK(c), NEW msg \in Message, NEW r \in Consumed(c, msg),
         NEW d, d.machine = r.machine,
         d.subs = [c.subs EXCEPT ![c.machine.cur] = r.subs]
  PROVE  Takes(c, d, msg)
<1>1. /\ c.machine # NoMachine /\ WellFormed(c.machine)
      /\ c.machine.cur \in StateId /\ c.machine.cur \in StatesOf(c.machine.proto)
      /\ c.machine.proto \in Protocol
      /\ c.subs \in [StateId -> Seq(Machine)]
      /\ SubsOf(c) \in Seq(Machine)
      /\ \A i \in DOMAIN SubsOf(c) : WellFormed(SubsOf(c)[i])
  BY DEF Consumed, ObjectOK, WellFormed, Machine, ConversationState, SubsOf, SubsOK
<1>2. CASE msg.proto = c.proto
  <2>1. PICK m \in ConsumeMessage(c.machine, msg) :
          r = [machine |-> m, subs |-> SubsOf(c)]
    BY <1>1, <1>2 DEF Consumed
  <2>2. d.machine = m /\ d.subs = c.subs
    BY <1>1, <2>1 DEF SubsOf
  <2> QED BY <1>2, <2>2 DEF Takes, OwnMessage
<1>3. CASE msg.proto # c.proto
  <2>0. r \in ConsumeSubMessage(c.machine, SubsOf(c), msg, c.planned, garbage)
    BY <1>1, <1>3 DEF Consumed
  <2>1. CASE r \in TakenBySub(c.machine, SubsOf(c), msg)
    <3>1. PICK i \in DOMAIN SubsOf(c) :
            \E sub \in IF SubOver(SubsOf(c)[i]) THEN {}
                       ELSE ConsumeMessage(SubsOf(c)[i], msg) :
              r = [machine |-> c.machine, subs |-> [SubsOf(c) EXCEPT ![i] = sub]]
      BY <2>1 DEF TakenBySub, First
    <3>2. PICK sub \in ConsumeMessage(SubsOf(c)[i], msg) :
            /\ ~SubOver(SubsOf(c)[i])
            /\ r = [machine |-> c.machine, subs |-> [SubsOf(c) EXCEPT ![i] = sub]]
      BY <3>1
    <3>3. sub \in Machine
      BY <1>1, ConsumeMessageOK DEF WellFormed
    <3> QED BY <1>3, <3>2, <3>3 DEF Takes, SubTakes
  <2>2. CASE r \in StartedSub(c.machine, SubsOf(c), msg, c.planned, garbage)
    <3>1. PICK k \in DOMAIN EmbeddedOf(c.machine.proto, c.machine.cur),
               sub \in ConsumeMessage(NewMachine(msg.proto, msg.sender, garbage), msg) :
            /\ Fits(c.machine, SubsOf(c), msg, c.planned, k)
            /\ r = [machine |-> Recorded(c.machine, k, msg.proto, c.planned),
                    subs    |-> Append(SubsOf(c), sub)]
      BY <2>2 DEF StartedSub, First
    <3>2. msg.proto \in Protocol /\ msg.sender \in Agent
      BY <1>1, <3>1, EmbeddedFacts DEF Fits, Message
    <3>3. sub \in Machine
      BY <3>2, NewMachineOK, ConsumeMessageOK DEF WellFormed
    <3> QED BY <1>3, <3>1, <3>3 DEF Takes, SubStarts
  <2> QED BY <2>0, <2>1, <2>2 DEF ConsumeSubMessage
<1> QED BY <1>2, <1>3

-----------------------------------------------------------------------------
(* What one step of Conversation does to one object.                       *)

\* h, from before on, accepts msg.
Updated(h, before, msg) ==
  \E c \in ConversationState :
    /\ c = Prepared(before, msg) /\ ObjectOK(c) /\ c.machine # NoMachine
    /\ Takes(c, conv'[h], msg)
    /\ conv'[h].proto = c.proto
    /\ conv'[h].planned = c.planned
    /\ StatusOfMachine(conv'[h]) /\ ObjectOK(conv'[h])
    /\ conv'[h].status # "UNINITIALIZED"
    /\ forwarded'[h] = IF ReplyForwarded(c, msg) THEN forwarded[h] + 1
                                                 ELSE forwarded[h]

LEMMA IntoUpdates ==
  ASSUME IInv, NEW h \in Handle, NEW before, ObjectOK(before),
         NEW msg \in Traffic, AcceptInto(h, before, msg)
  PROVE  /\ Updated(h, before, msg)
         /\ \A g \in Handle : g # h => /\ conv'[g] = conv[g]
                                       /\ forwarded'[g] = forwarded[g]
<1>0. /\ garbage \in [Protocol -> BOOLEAN] /\ Owner \in Agent
      /\ msg \in Message
      /\ conv \in [Handle -> ConversationState \cup {NoConversation}]
      /\ forwarded \in [Handle -> Nat]
  BY TrafficAssumption DEF IInv, TypeOK
<1>1. PICK c : c = Prepared(before, msg)
  OBVIOUS
<1>2. ObjectOK(c) /\ c \in ConversationState
  BY <1>0, <1>1, PreparedOK DEF ObjectOK
<1>3. PICK r \in Consumed(c, msg) :
        /\ conv' = [conv EXCEPT ![h] = [Stored(c, r) EXCEPT !.status =
                     StatusAfter(Classify(Stored(c, r), before.proto = NoProtocol))]]
        /\ forwarded' = IF ReplyForwarded(c, msg)
                        THEN [forwarded EXCEPT ![h] = @ + 1]
                        ELSE forwarded
  BY <1>1 DEF AcceptInto
<1>4. PICK d : d = [Stored(c, r) EXCEPT !.status =
                      StatusAfter(Classify(Stored(c, r), before.proto = NoProtocol))]
  OBVIOUS
<1>5. conv' = [conv EXCEPT ![h] = d]
  BY <1>3, <1>4
<1>6. conv'[h] = d /\ \A g \in Handle : g # h => conv'[g] = conv[g]
  BY <1>0, <1>5
<1>7. /\ d.machine = r.machine
      /\ d.subs = [c.subs EXCEPT ![c.machine.cur] = r.subs]
      /\ d.proto = c.proto
      /\ d.planned = c.planned
  BY <1>2, <1>4 DEF Stored, ConversationState
<1>8. StatusOfMachine(d) /\ ObjectOK(d) /\ d.status # "UNINITIALIZED"
  <2>1. PICK f : /\ conv' = [conv EXCEPT ![h] = f]
                 /\ StatusOfMachine(f) /\ ObjectOK(f)
                 /\ f.status \in {"RUNNING", "ENDED", "FAILED"}
    BY <1>0, AcceptEffect
  <2>2. conv'[h] = f
    BY <1>0, <2>1
  <2> QED BY <1>6, <2>1, <2>2
<1>9. Takes(c, d, msg)
  BY <1>0, <1>2, <1>7, ConsumedTakes
<1>10. c.machine # NoMachine
  BY DEF Consumed
<1>11. /\ forwarded'[h] = IF ReplyForwarded(c, msg) THEN forwarded[h] + 1
                                                    ELSE forwarded[h]
       /\ \A g \in Handle : g # h => forwarded'[g] = forwarded[g]
  BY <1>0, <1>3
<1> QED BY <1>1, <1>2, <1>6, <1>7, <1>8, <1>9, <1>10, <1>11 DEF Updated

Same(h)  == conv'[h] = conv[h] /\ forwarded'[h] = forwarded[h]

Retained(c, d) ==
  /\ d.machine = c.machine /\ d.subs = c.subs /\ d.status = c.status
  /\ ForcedProtocols = {} => d.proto = c.proto

SetAside(h) ==
  /\ Live(h) /\ ObjectOK(conv'[h])
  /\ Retained(conv[h], conv'[h])
  /\ forwarded'[h] = forwarded[h]

Starts(h) ==
  /\ ~Live(h)
  /\ conv'[h].machine = NoMachine
  /\ forwarded'[h] = forwarded[h]

Copied(h) ==
  /\ ~Live(h)
  /\ \E g \in Handle : /\ Live(g)
                       /\ conv'[h] = conv[g]
                       /\ forwarded'[h] = forwarded[g]

Refused(h) ==
  /\ Live(h)
  /\ \E msg \in Traffic : conv'[h] = Prepared(conv[h], msg)
  /\ forwarded'[h] = forwarded[h]

Accepted(h) == Live(h) /\ \E msg \in Traffic : Updated(h, conv[h], msg)

Opened(h) ==
  /\ ~Live(h)
  /\ \E msg \in Traffic : Updated(h, Fresh(GeneratedId(h)), msg)

LEMMA SettersSetAside ==
  ASSUME IInv, NEW h \in Handle,
         \/ \E n \in Plans : SetNumberOfSubConversations(h, n)
         \/ \E p \in ForcedProtocols : SetProtocol(h, p)
         \/ \E id \in ForcedIds : SetConversationId(h, id)
         \/ \E lang \in ForcedLanguages : SetContentLanguage(h, lang)
  PROVE  SetAside(h) /\ \A g \in Handle : g # h => Same(g)
<1>0. Live(h) /\ ObjectOK(conv[h]) /\ forwarded' = forwarded
      /\ conv \in [Handle -> ConversationState \cup {NoConversation}]
  BY DEF SetNumberOfSubConversations, SetProtocol, SetConversationId,
         SetContentLanguage, IInv, Objects, TypeOK
<1> DEFINE Kind(d) == ObjectOK(d) /\ Retained(conv[h], d)
<1>1. \E d : conv' = [conv EXCEPT ![h] = d] /\ Kind(d)
  <2>1. ASSUME NEW n \in Plans, SetNumberOfSubConversations(h, n)
        PROVE  \E d : conv' = [conv EXCEPT ![h] = d] /\ Kind(d)
    <3>1. PICK d : d = [conv[h] EXCEPT !.planned = n]
      OBVIOUS
    <3>2. conv' = [conv EXCEPT ![h] = d] /\ n \in Int
      BY <2>1, <3>1, TrafficAssumption DEF SetNumberOfSubConversations
    <3>3. /\ ObjectOK(d)
          /\ d.machine = conv[h].machine
          /\ d.subs = conv[h].subs
          /\ d.status = conv[h].status
          /\ ForcedProtocols = {} => d.proto = conv[h].proto
      BY <1>0, <3>1, <3>2, SetterOK
    <3> QED BY <3>2, <3>3 DEF Retained
  <2>2. ASSUME NEW p \in ForcedProtocols, SetProtocol(h, p)
        PROVE  \E d : conv' = [conv EXCEPT ![h] = d] /\ Kind(d)
    <3>1. PICK d : d = [conv[h] EXCEPT !.proto = p]
      OBVIOUS
    <3>2. conv' = [conv EXCEPT ![h] = d] /\ p \in Protocol \cup {NoProtocol}
      BY <2>2, <3>1, TrafficAssumption DEF SetProtocol
    <3>3. /\ ObjectOK(d)
          /\ d.machine = conv[h].machine
          /\ d.subs = conv[h].subs
          /\ d.status = conv[h].status
          /\ ForcedProtocols = {} => d.proto = conv[h].proto
      BY <1>0, <3>1, <3>2, SetterOK
    <3> QED BY <3>2, <3>3 DEF Retained
  <2>3. ASSUME NEW id \in ForcedIds, SetConversationId(h, id)
        PROVE  \E d : conv' = [conv EXCEPT ![h] = d] /\ Kind(d)
    <3>1. PICK d : d = [conv[h] EXCEPT !.id = id]
      OBVIOUS
    <3>2. conv' = [conv EXCEPT ![h] = d] /\ id \in ConversationId
      BY <2>3, <3>1, TrafficAssumption DEF SetConversationId
    <3>3. /\ ObjectOK(d)
          /\ d.machine = conv[h].machine
          /\ d.subs = conv[h].subs
          /\ d.status = conv[h].status
          /\ ForcedProtocols = {} => d.proto = conv[h].proto
      BY <1>0, <3>1, <3>2, SetterOK
    <3> QED BY <3>2, <3>3 DEF Retained
  <2>4. ASSUME NEW lang \in ForcedLanguages, SetContentLanguage(h, lang)
        PROVE  \E d : conv' = [conv EXCEPT ![h] = d] /\ Kind(d)
    <3>1. PICK d : d = [conv[h] EXCEPT !.lang = lang]
      OBVIOUS
    <3>2. conv' = [conv EXCEPT ![h] = d] /\ lang \in Language
      BY <2>4, <3>1, TrafficAssumption DEF SetContentLanguage
    <3>3. /\ ObjectOK(d)
          /\ d.machine = conv[h].machine
          /\ d.subs = conv[h].subs
          /\ d.status = conv[h].status
          /\ ForcedProtocols = {} => d.proto = conv[h].proto
      BY <1>0, <3>1, <3>2, SetterOK
    <3> QED BY <3>2, <3>3 DEF Retained
  <2> QED BY <2>1, <2>2, <2>3, <2>4
<1>2. PICK d : conv' = [conv EXCEPT ![h] = d] /\ Kind(d)
  BY <1>1
<1>3. conv'[h] = d /\ \A g \in Handle : g # h => conv'[g] = conv[g]
  BY <1>0, <1>2
<1> QED BY <1>0, <1>2, <1>3 DEF SetAside, Same

\* Each object goes through one of these.
Turn(h) ==
  \/ Same(h) \/ SetAside(h) \/ Starts(h) \/ Copied(h) \/ Refused(h)
  \/ Accepted(h) \/ Opened(h)

LEMMA NextTurns ==
  ASSUME IInv, [Next]_vars, NEW h \in Handle
  PROVE  Turn(h)
<1>0. /\ conv \in [Handle -> ConversationState \cup {NoConversation}]
      /\ forwarded \in [Handle -> Nat]
  BY DEF IInv, TypeOK
<1>1. CASE UNCHANGED vars
  BY <1>1 DEF vars, Turn, Same
<1>2. ASSUME NEW g \in Handle, NEW id, Create(g, id)
      PROVE  Turn(h)
  <2>1. PICK d : d = Fresh(id)
    OBVIOUS
  <2>2. /\ ~Live(g) /\ conv' = [conv EXCEPT ![g] = d] /\ forwarded' = forwarded
        /\ d.machine = NoMachine
    BY <1>2, <2>1 DEF Create, Fresh
  <2>3. conv'[g] = d /\ (g # h => conv'[h] = conv[h])
    BY <1>0, <2>2
  <2> QED BY <2>2, <2>3 DEF Turn, Same, Starts
<1>3. ASSUME NEW g \in Handle, NEW msg \in Traffic, CreateFromMessage(g, msg)
      PROVE  Turn(h)
  <2>1. PICK before : before = Fresh(GeneratedId(g))
    OBVIOUS
  <2>2. /\ ~Live(g) /\ ObjectOK(before) /\ AcceptInto(g, before, msg)
    BY <1>3, <2>1, FreshOK DEF CreateFromMessage, GeneratedId
  <2>3. /\ Updated(g, before, msg)
        /\ g # h => conv'[h] = conv[h] /\ forwarded'[h] = forwarded[h]
    BY <2>2, IntoUpdates
  <2>4. g = h => Opened(h)
    BY <2>1, <2>2, <2>3 DEF Opened
  <2> QED BY <2>3, <2>4 DEF Turn, Same
<1>4. ASSUME NEW g \in Handle, NEW f \in Handle, Copy(g, f)
      PROVE  Turn(h)
  <2>1. /\ Live(g) /\ ~Live(f)
        /\ conv'[f] = conv[g] /\ (f # h => conv'[h] = conv[h])
        /\ forwarded'[f] = forwarded[g] /\ (f # h => forwarded'[h] = forwarded[h])
    BY <1>0, <1>4 DEF Copy
  <2> QED BY <2>1 DEF Turn, Same, Copied
<1>5. ASSUME NEW g \in Handle, NEW msg \in Traffic, Accept(g, msg)
      PROVE  Turn(h)
  <2>1. Live(g) /\ ObjectOK(conv[g])
    BY <1>5 DEF Accept, IInv, Objects
  <2>2. /\ Updated(g, conv[g], msg)
        /\ g # h => conv'[h] = conv[h] /\ forwarded'[h] = forwarded[h]
    BY <1>5, <2>1, IntoUpdates DEF Accept
  <2> QED BY <2>1, <2>2 DEF Turn, Same, Accepted
<1>6. ASSUME NEW g \in Handle, NEW msg \in Traffic, Refuse(g, msg)
      PROVE  Turn(h)
  <2>1. /\ Live(g) /\ conv' = [conv EXCEPT ![g] = Prepared(conv[g], msg)]
        /\ forwarded' = forwarded
    BY <1>6 DEF Refuse
  <2>2. /\ conv'[g] = Prepared(conv[g], msg)
        /\ g # h => conv'[h] = conv[h]
    BY <1>0, <2>1
  <2> QED BY <2>1, <2>2 DEF Turn, Same, Refused
<1>7. ASSUME NEW g \in Handle,
             \/ \E n \in Plans : SetNumberOfSubConversations(g, n)
             \/ \E p \in ForcedProtocols : SetProtocol(g, p)
             \/ \E id \in ForcedIds : SetConversationId(g, id)
             \/ \E lang \in ForcedLanguages : SetContentLanguage(g, lang)
      PROVE  Turn(h)
  BY <1>7, SettersSetAside DEF Turn
<1> QED BY <1>1, <1>2, <1>3, <1>4, <1>5, <1>6, <1>7 DEF Next

\* A message that finds no protocol brings a machine; any other nothing.
LEMMA PreparedIs ==
  ASSUME NEW c \in ConversationState, NEW msg,
         NEW d, d = Prepared(c, msg)
  PROVE  \/ d = c
         \/ /\ c.proto = NoProtocol /\ msg.proto \in Protocol
            /\ d.machine = NewMachine(msg.proto, Owner, garbage)
            /\ d.subs = [s \in StateId |-> <<>>]
            /\ d.proto = msg.proto
<1>1. CASE c.proto = NoProtocol /\ msg.proto \in Protocol
  <2>1. PICK m, ss : /\ m = NewMachine(msg.proto, Owner, garbage)
                     /\ ss = [s \in StateId |-> <<>>]
    OBVIOUS
  <2>2. d = [c EXCEPT !.machine = m, !.subs = ss, !.proto = msg.proto,
                      !.lang = msg.lang, !.id = msg.id]
    BY <1>1, <2>1 DEF Prepared
  <2>3. d.machine = m /\ d.subs = ss /\ d.proto = msg.proto
    BY <2>2 DEF ConversationState
  <2> QED BY <1>1, <2>1, <2>3
<1>2. CASE ~(c.proto = NoProtocol /\ msg.proto \in Protocol)
  BY <1>2 DEF Prepared
<1> QED BY <1>1, <1>2

-----------------------------------------------------------------------------
(* A conversation told to follow another protocol.                         *)

\* Nothing of another protocol enters an opened machine.
LEMMA ForeignRefused ==
  ASSUME NEW m, NEW msg, m.init # NoMessage, msg.proto # m.init.proto
  PROVE  ConsumeMessage(m, msg) = {}
<1>1. ConsumeDirectly(m, msg) = {}
  BY DEF ConsumeDirectly, First, Enabling, Triggers
<1>2. ConsumeProxied(m, msg) = {}
  BY DEF ConsumeProxied, FittingReply, First, ReplyFits, Triggers
<1> QED BY <1>1, <1>2 DEF ConsumeMessage

StandsStill(h) ==
  /\ Running(h)
  /\ conv[h].machine.init # NoMessage
  /\ conv[h].proto \notin {conv[h].machine.init.proto, NoProtocol}
  => conv'[h].machine.cur = conv[h].machine.cur

LEMMA StandsStillStep ==
  ASSUME IInv, [Next]_vars, NEW h \in Handle
  PROVE  StandsStill(h)
<1> SUFFICES ASSUME Running(h), conv[h].machine.init # NoMessage,
                    conv[h].proto # conv[h].machine.init.proto,
                    conv[h].proto # NoProtocol
             PROVE  conv'[h].machine.cur = conv[h].machine.cur
  BY DEF StandsStill
<1>1. /\ Live(h) /\ conv[h] \in ConversationState
      /\ conv[h].machine \in Machine
  BY DEF Running, IInv, Objects, ObjectOK, WellFormed
<1>2. \A msg \in Traffic : Prepared(conv[h], msg) = conv[h]
  BY DEF Prepared
<1>3. CASE Accepted(h)
  <2>1. PICK msg \in Traffic : Takes(conv[h], conv'[h], msg)
    BY <1>2, <1>3 DEF Accepted, Updated
  <2>2. CASE OwnMessage(conv[h], conv'[h], msg)
    BY <2>2, ForeignRefused DEF OwnMessage
  <2>3. CASE SubTakes(conv[h], conv'[h], msg)
    BY <2>3 DEF SubTakes
  <2>4. CASE SubStarts(conv[h], conv'[h], msg)
    BY <1>1, <2>4, RecordedSame DEF SubStarts
  <2> QED BY <2>1, <2>2, <2>3, <2>4 DEF Takes
<1> QED BY <1>1, <1>2, <1>3, NextTurns
        DEF Turn, Same, SetAside, Retained, Starts, Copied, Refused, Opened

\* After setProtocol with a protocol other than the one the conversation was
\* opened with, no message, of either protocol or of a sub conversation,
\* moves the machine to another state.
THEOREM ForcedStand == Spec => ForcedStandsStill
<1>1. IInv /\ [Next]_vars =>
        [\A h \in Handle :
           /\ Running(h)
           /\ conv[h].machine.init # NoMessage
           /\ conv[h].proto \notin {conv[h].machine.init.proto, NoProtocol}
           => conv'[h].machine.cur = conv[h].machine.cur]_vars
  BY StandsStillStep DEF StandsStill
<1> QED BY <1>1, Invariance, PTL DEF Spec, ForcedStandsStill

-----------------------------------------------------------------------------
(* A machine is opened by a message of its protocol.                       *)

MachineOfProtocol(c) ==
  c.machine # NoMachine =>
    /\ c.proto = c.machine.proto
    /\ c.machine.init # NoMessage => c.machine.init.proto = c.machine.proto

LEMMA PreparedOpening ==
  ASSUME NEW c \in ConversationState, NEW msg, MachineOfProtocol(c)
  PROVE  MachineOfProtocol(Prepared(c, msg))
<1>1. PICK d : d = Prepared(c, msg)
  OBVIOUS
<1>2. CASE d = c
  BY <1>1, <1>2
<1>3. CASE /\ d.machine = NewMachine(msg.proto, Owner, garbage)
           /\ d.proto = msg.proto
  <2>1. d.machine.proto = msg.proto /\ d.machine.init = NoMessage
    BY <1>3 DEF NewMachine
  <2>2. MachineOfProtocol(d)
    BY <1>3, <2>1 DEF MachineOfProtocol
  <2> QED BY <1>1, <2>2
<1>4. \/ d = c
      \/ /\ d.machine = NewMachine(msg.proto, Owner, garbage)
         /\ d.proto = msg.proto
  BY <1>1, PreparedIs
<1> QED BY <1>2, <1>3, <1>4

LEMMA UpdatedOpening ==
  ASSUME IInv, NEW h \in Handle, NEW before \in ConversationState,
         MachineOfProtocol(before), NEW msg \in Traffic, Updated(h, before, msg)
  PROVE  MachineOfProtocol(conv'[h])
<1>1. PICK c \in ConversationState :
        /\ ObjectOK(c) /\ c.machine # NoMachine /\ MachineOfProtocol(c)
        /\ Takes(c, conv'[h], msg) /\ conv'[h].proto = c.proto
  BY PreparedOpening DEF Updated
<1>2. WellFormed(c.machine) /\ c.machine \in Machine /\ msg \in Message
  BY <1>1, TrafficAssumption DEF ObjectOK, WellFormed
<1>3. CASE OwnMessage(c, conv'[h], msg)
  <2>1. PICK m \in ConsumeMessage(c.machine, msg) : conv'[h].machine = m
    BY <1>3 DEF OwnMessage
  <2>2. m.proto = c.machine.proto /\ Grown(c.machine, m, msg)
    BY <1>2, ConsumeMessageOK, ConsumeMessageGrows
  <2> QED BY <1>1, <1>3, <2>1, <2>2 DEF OwnMessage, Grown, MachineOfProtocol
<1>4. CASE SubTakes(c, conv'[h], msg)
  BY <1>1, <1>4 DEF SubTakes, MachineOfProtocol
<1>5. CASE SubStarts(c, conv'[h], msg)
  BY <1>1, <1>2, <1>5, RecordedSame DEF SubStarts, MachineOfProtocol
<1> QED BY <1>1, <1>3, <1>4, <1>5 DEF Takes

OpenedInv == IInv /\ \A h \in Handle : Live(h) => MachineOfProtocol(conv[h])

LEMMA OpenedNext ==
  ASSUME ForcedProtocols = {}, OpenedInv, [Next]_vars
  PROVE  OpenedInv'
<1>1. IInv /\ IInv'
  BY NextInv DEF OpenedInv
<1> SUFFICES ASSUME NEW h \in Handle, conv'[h] # NoConversation
             PROVE  MachineOfProtocol(conv'[h])
  BY <1>1 DEF OpenedInv, Live
<1>2. /\ Live(h) => MachineOfProtocol(conv[h]) /\ conv[h] \in ConversationState
      /\ \A g \in Handle : Live(g) => MachineOfProtocol(conv[g])
  BY <1>1 DEF OpenedInv, IInv, Objects, ObjectOK
<1>3. CASE Same(h)
  BY <1>2, <1>3 DEF Same, Live
<1>4. CASE SetAside(h)
  BY <1>2, <1>4 DEF SetAside, Retained, MachineOfProtocol
<1>5. CASE Starts(h)
  BY <1>5 DEF Starts, MachineOfProtocol
<1>6. CASE Copied(h)
  BY <1>2, <1>6 DEF Copied
<1>7. CASE Refused(h)
  BY <1>2, <1>7, PreparedOpening DEF Refused
<1>8. CASE Accepted(h)
  BY <1>1, <1>2, <1>8, UpdatedOpening DEF Accepted
<1>9. CASE Opened(h)
  <2>1. PICK c : c = Fresh(GeneratedId(h))
    OBVIOUS
  <2>2. c \in ConversationState /\ MachineOfProtocol(c)
    BY <2>1, FreshOK DEF GeneratedId, ObjectOK, MachineOfProtocol
  <2> QED BY <1>1, <1>9, <2>1, <2>2, UpdatedOpening DEF Opened
<1>10. Turn(h)
  BY <1>1, NextTurns
<1> QED BY <1>3, <1>4, <1>5, <1>6, <1>7, <1>8, <1>9, <1>10 DEF Turn

\* While setProtocol stays unused, the message that opened a machine was of
\* the machine's protocol, whatever was refused and whichever sub
\* conversations began before.
THEOREM OpenedProperly ==
  ASSUME ForcedProtocols = {}
  PROVE  Spec => []OpenedByItsProtocol
<1>1. Init => OpenedInv
  BY InitInv DEF Init, OpenedInv, Live
<1>2. OpenedInv /\ [Next]_vars => OpenedInv'
  BY OpenedNext
<1>3. OpenedInv => OpenedByItsProtocol
  BY DEF OpenedInv, OpenedByItsProtocol, Running, MachineOfProtocol
<1> QED BY <1>1, <1>2, <1>3, PTL DEF Spec

-----------------------------------------------------------------------------
(* Who starts sub conversations.                                           *)

\* sub was started in state s of machine m, by an agent with the role.
StartedIn(sub, m, s) ==
  /\ sub.init # NoMessage
  /\ sub.init.proto = sub.proto
  /\ sub.init.sender \in sub.roles[SelfRole]
  /\ \E k \in DOMAIN EmbeddedOf(m.proto, s) :
       sub.init.sender \in m.roles[EmbeddedOf(m.proto, s)[k].from]

\* Roles are not taken away from the machine ...
LEMMA StartedUnderGrown ==
  ASSUME NEW m \in Machine, NEW n, n.proto = m.proto,
         \A r \in RoleId : m.roles[r] \subseteq n.roles[r],
         NEW s \in StatesOf(m.proto), NEW sub, StartedIn(sub, m, s)
  PROVE  StartedIn(sub, n, s)
<1>1. PICK k \in DOMAIN EmbeddedOf(m.proto, s) :
        sub.init.sender \in m.roles[EmbeddedOf(m.proto, s)[k].from]
  BY DEF StartedIn
<1>2. EmbeddedOf(m.proto, s)[k].from \in RoleId
  BY EmbeddedFacts DEF Machine
<1>3. sub.init.sender \in n.roles[EmbeddedOf(m.proto, s)[k].from]
  BY <1>1, <1>2
<1> QED BY <1>3 DEF StartedIn

\* ... nor from the sub machine, whose opening stays what it was.
LEMMA StartedGoesOn ==
  ASSUME NEW m, NEW s, NEW sub, WellFormed(sub), StartedIn(sub, m, s),
         NEW msg \in Message, NEW next \in ConsumeMessage(sub, msg)
  PROVE  StartedIn(next, m, s)
<1>1. next.proto = sub.proto /\ Grown(sub, next, msg)
  <2>1. next.proto = sub.proto
    BY ConsumeMessageOK
  <2>2. Grown(sub, next, msg)
    BY ConsumeMessageGrows
  <2> QED BY <2>1, <2>2
<1>2. SelfRole \in RoleId
  <2>1. sub.proto \in Protocol
    BY DEF WellFormed, Machine
  <2>2. SelfRole \in RolesOf(sub.proto)
    BY <2>1, SpecificationAssumption
  <2> QED BY <2>1, <2>2 DEF RoleId
<1>3. next.init = sub.init /\ sub.init # NoMessage
  BY <1>1 DEF StartedIn, Grown
<1>4. next.init.proto = next.proto
  BY <1>1, <1>3 DEF StartedIn
<1>5. next.init.sender \in next.roles[SelfRole]
  <2>1. sub.roles[SelfRole] \subseteq next.roles[SelfRole]
    BY <1>1, <1>2 DEF Grown
  <2>2. sub.init.sender \in sub.roles[SelfRole]
    BY DEF StartedIn
  <2> QED BY <1>3, <2>1, <2>2
<1>6. \E k \in DOMAIN EmbeddedOf(m.proto, s) :
        next.init.sender \in m.roles[EmbeddedOf(m.proto, s)[k].from]
  BY <1>3 DEF StartedIn
<1> QED BY <1>3, <1>4, <1>5, <1>6 DEF StartedIn

LEMMA StartedNow ==
  ASSUME NEW m, WellFormed(m), NEW msg \in Message,
         NEW g \in [Protocol -> BOOLEAN], NEW subs, NEW planned,
         NEW k \in DOMAIN EmbeddedOf(m.proto, m.cur),
         Fits(m, subs, msg, planned, k),
         NEW sub \in ConsumeMessage(NewMachine(msg.proto, msg.sender, g), msg)
  PROVE  StartedIn(sub, m, m.cur)
<1>1. /\ m.proto \in Protocol /\ m.cur \in StatesOf(m.proto)
      /\ msg.sender \in Agent
  BY DEF WellFormed, Machine, Message
<1>2. /\ msg.proto \in Protocol
      /\ msg.sender \in m.roles[EmbeddedOf(m.proto, m.cur)[k].from]
  BY <1>1, EmbeddedFacts DEF Fits
<1>3. PICK new : new = NewMachine(msg.proto, msg.sender, g)
  OBVIOUS
<1>4. WellFormed(new) /\ new.proto = msg.proto
  BY <1>1, <1>2, <1>3, NewMachineOK
<1>5. new.init = NoMessage
  BY <1>3 DEF NewMachine
<1>6. SelfRole \in RoleId
  BY <1>2, SpecificationAssumption DEF RoleId
<1>7. msg.sender \in new.roles[SelfRole]
  BY <1>3, <1>6 DEF NewMachine
<1>8. sub.proto = msg.proto /\ Grown(new, sub, msg)
  BY <1>3, <1>4, ConsumeMessageOK, ConsumeMessageGrows
<1>9. sub.init = msg /\ msg.sender \in sub.roles[SelfRole]
  BY <1>5, <1>6, <1>7, <1>8 DEF Grown
<1>10. sub.init # NoMessage
  BY <1>9, MessageAssumption
<1> QED BY <1>2, <1>8, <1>9, <1>10 DEF StartedIn

SubsStarted(c) ==
  c.machine # NoMachine =>
    \A s \in StateId : \A i \in DOMAIN c.subs[s] :
      StartedIn(c.subs[s][i], c.machine, s)

LEMMA PreparedStarted ==
  ASSUME NEW c \in ConversationState, NEW msg, SubsStarted(c)
  PROVE  SubsStarted(Prepared(c, msg))
<1>1. PICK d : d = Prepared(c, msg)
  OBVIOUS
<1>2. d = c \/ d.subs = [s \in StateId |-> <<>>]
  BY <1>1, PreparedIs
<1>3. SubsStarted(d)
  BY <1>2 DEF SubsStarted
<1> QED BY <1>1, <1>3

LEMMA UpdatedStarted ==
  ASSUME IInv, NEW h \in Handle, NEW before \in ConversationState,
         SubsStarted(before), NEW msg \in Traffic, Updated(h, before, msg)
  PROVE  SubsStarted(conv'[h])
<1>1. PICK c \in ConversationState :
        /\ ObjectOK(c) /\ c.machine # NoMachine /\ SubsStarted(c)
        /\ Takes(c, conv'[h], msg)
  BY PreparedStarted DEF Updated
<1>2. /\ WellFormed(c.machine) /\ c.machine \in Machine
      /\ c.machine.proto \in Protocol
      /\ c.machine.cur \in StateId
      /\ c.machine.cur \in StatesOf(c.machine.proto)
      /\ msg \in Message
      /\ garbage \in [Protocol -> BOOLEAN]
  BY <1>1, TrafficAssumption DEF ObjectOK, WellFormed, Machine, IInv, TypeOK
<1>3. \A s \in StateId : \A i \in DOMAIN c.subs[s] :
        /\ StartedIn(c.subs[s][i], c.machine, s)
        /\ WellFormed(c.subs[s][i])
        /\ s \in StatesOf(c.machine.proto)
  <2> TAKE s \in StateId
  <2> TAKE i \in DOMAIN c.subs[s]
  <2>1. c.subs[s] # <<>> /\ SubsOK(c.machine, s, c.subs[s])
    BY <1>1 DEF ObjectOK
  <2> QED BY <1>1, <2>1 DEF SubsStarted, SubsOK
<1>4. c.subs \in [StateId -> Seq(Machine)]
  BY DEF ConversationState
<1>5. CASE OwnMessage(c, conv'[h], msg)
  <2>1. PICK m \in ConsumeMessage(c.machine, msg) :
          conv'[h].machine = m /\ conv'[h].subs = c.subs
    BY <1>5 DEF OwnMessage
  <2>2. m.proto = c.machine.proto /\ Grown(c.machine, m, msg)
    BY <1>2, ConsumeMessageOK, ConsumeMessageGrows
  <2>3. \A s \in StateId : \A i \in DOMAIN c.subs[s] :
          StartedIn(c.subs[s][i], m, s)
    BY <1>2, <1>3, <2>2, StartedUnderGrown DEF Grown
  <2> QED BY <2>1, <2>3 DEF SubsStarted
<1>6. CASE SubTakes(c, conv'[h], msg)
  <2>1. PICK i \in DOMAIN SubsOf(c), sub \in Machine :
          /\ sub \in ConsumeMessage(SubsOf(c)[i], msg)
          /\ conv'[h].machine = c.machine
          /\ conv'[h].subs = [c.subs EXCEPT ![c.machine.cur] =
                                [SubsOf(c) EXCEPT ![i] = sub]]
    BY <1>6 DEF SubTakes
  <2>2. StartedIn(sub, c.machine, c.machine.cur)
    BY <1>2, <1>3, <2>1, StartedGoesOn DEF SubsOf
  <2>3. \A s \in StateId : \A j \in DOMAIN conv'[h].subs[s] :
          /\ j \in DOMAIN c.subs[s]
          /\ \/ conv'[h].subs[s][j] = c.subs[s][j]
             \/ s = c.machine.cur /\ conv'[h].subs[s][j] = sub
    BY <1>2, <1>4, <2>1 DEF SubsOf
  <2> QED BY <1>3, <2>1, <2>2, <2>3 DEF SubsStarted
<1>7. CASE SubStarts(c, conv'[h], msg)
  <2>1. PICK k \in DOMAIN EmbeddedOf(c.machine.proto, c.machine.cur), sub \in Machine :
          /\ Fits(c.machine, SubsOf(c), msg, c.planned, k)
          /\ sub \in ConsumeMessage(NewMachine(msg.proto, msg.sender, garbage), msg)
          /\ conv'[h].machine = Recorded(c.machine, k, msg.proto, c.planned)
          /\ conv'[h].subs = [c.subs EXCEPT ![c.machine.cur] =
                                Append(SubsOf(c), sub)]
    BY <1>7 DEF SubStarts
  <2>2. PICK m : m = Recorded(c.machine, k, msg.proto, c.planned)
    OBVIOUS
  <2>3. m.proto = c.machine.proto /\ m.roles = c.machine.roles
    BY <1>2, <2>2, RecordedSame
  <2>4. StartedIn(sub, m, c.machine.cur)
    <3>1. StartedIn(sub, c.machine, c.machine.cur)
      BY <1>2, <2>1, StartedNow
    <3> QED BY <2>3, <3>1 DEF StartedIn
  <2>5. c.subs[c.machine.cur] \in Seq(Machine)
    BY <1>2, <1>4
  <2>6. \A s \in StateId : \A j \in DOMAIN conv'[h].subs[s] :
          \/ j \in DOMAIN c.subs[s] /\ conv'[h].subs[s][j] = c.subs[s][j]
          \/ s = c.machine.cur /\ conv'[h].subs[s][j] = sub
    BY <1>2, <1>4, <2>1, <2>5 DEF SubsOf
  <2>7. \A s \in StateId : \A j \in DOMAIN c.subs[s] : StartedIn(c.subs[s][j], m, s)
    BY <1>3, <2>3 DEF StartedIn
  <2> QED BY <2>1, <2>2, <2>4, <2>6, <2>7 DEF SubsStarted
<1> QED BY <1>1, <1>5, <1>6, <1>7 DEF Takes

StartedInv == IInv /\ \A h \in Handle : Live(h) => SubsStarted(conv[h])

LEMMA StartedNext ==
  ASSUME StartedInv, [Next]_vars
  PROVE  StartedInv'
<1>1. IInv /\ IInv'
  BY NextInv DEF StartedInv
<1> SUFFICES ASSUME NEW h \in Handle, conv'[h] # NoConversation
             PROVE  SubsStarted(conv'[h])
  BY <1>1 DEF StartedInv, Live
<1>2. /\ Live(h) => SubsStarted(conv[h]) /\ conv[h] \in ConversationState
      /\ \A g \in Handle : Live(g) => SubsStarted(conv[g])
  BY <1>1 DEF StartedInv, IInv, Objects, ObjectOK
<1>3. CASE Same(h)
  BY <1>2, <1>3 DEF Same, Live
<1>4. CASE SetAside(h)
  BY <1>2, <1>4 DEF SetAside, Retained, SubsStarted
<1>5. CASE Starts(h)
  BY <1>5 DEF Starts, SubsStarted
<1>6. CASE Copied(h)
  BY <1>2, <1>6 DEF Copied
<1>7. CASE Refused(h)
  BY <1>2, <1>7, PreparedStarted DEF Refused
<1>8. CASE Accepted(h)
  BY <1>1, <1>2, <1>8, UpdatedStarted DEF Accepted
<1>9. CASE Opened(h)
  <2>1. PICK c : c = Fresh(GeneratedId(h))
    OBVIOUS
  <2>2. c \in ConversationState /\ SubsStarted(c)
    BY <2>1, FreshOK DEF GeneratedId, ObjectOK, SubsStarted
  <2> QED BY <1>1, <1>9, <2>1, <2>2, UpdatedStarted DEF Opened
<1>10. Turn(h)
  BY <1>1, NextTurns
<1> QED BY <1>3, <1>4, <1>5, <1>6, <1>7, <1>8, <1>9, <1>10 DEF Turn

\* Every sub conversation, in whatever state it was started and whatever it
\* has accepted since, was started by an agent that plays, in the embedding
\* conversation, the role its embedded machine starts from, is followed from
\* that agent's point of view, and runs the protocol of its first message.
THEOREM EmbeddingRoleStarts == Spec => []SubsStartedByEmbeddingRole
<1>1. Init => StartedInv
  BY InitInv DEF Init, StartedInv, Live
<1>2. StartedInv /\ [Next]_vars => StartedInv'
  BY StartedNext
<1>3. StartedInv => SubsStartedByEmbeddingRole
  BY DEF StartedInv, SubsStartedByEmbeddingRole, Running, SubsStarted, StartedIn
<1> QED BY <1>1, <1>2, <1>3, PTL DEF Spec

-----------------------------------------------------------------------------
(* Running conversations, while nobody erases their protocol: a message    *)
(* finds the machine there, and nothing but a message moves it.            *)

\* What a step does to a running object.
RunningTurn(h) ==
  \/ Retained(conv[h], conv'[h])
  \/ \E msg \in Traffic :
       /\ Takes(conv[h], conv'[h], msg)
       /\ StatusOfMachine(conv'[h]) /\ ObjectOK(conv'[h])
       /\ conv'[h].status # "UNINITIALIZED"

LEMMA RunningTurns ==
  ASSUME SInv, [Next]_vars, NEW h \in Handle, Running(h)
  PROVE  /\ RunningTurn(h)
         /\ ObjectOK(conv[h])
         /\ WellFormed(conv[h].machine) /\ conv[h].machine \in Machine
<1>1. /\ Live(h) /\ ObjectOK(conv[h]) /\ conv[h].proto # NoProtocol
      /\ WellFormed(conv[h].machine) /\ conv[h].machine \in Machine
  BY DEF Running, SInv, IInv, Objects, ObjectOK, WellFormed, Kept, ProtocolKept
<1>2. \A msg \in Traffic : Prepared(conv[h], msg) = conv[h]
  BY <1>1 DEF Prepared
<1>3. CASE Accepted(h)
  <2>1. PICK msg \in Traffic :
          /\ Takes(conv[h], conv'[h], msg)
          /\ StatusOfMachine(conv'[h]) /\ ObjectOK(conv'[h])
    /\ conv'[h].status # "UNINITIALIZED"
    BY <1>2, <1>3 DEF Accepted, Updated
  <2> QED BY <1>1, <2>1 DEF RunningTurn
<1>4. CASE Same(h) \/ SetAside(h) \/ Refused(h)
  BY <1>1, <1>2, <1>4 DEF Same, SetAside, Refused, Retained, RunningTurn
<1>5. Turn(h)
  BY NextTurns DEF SInv
<1> QED BY <1>1, <1>3, <1>4, <1>5 DEF Turn, Starts, Copied, Opened

-----------------------------------------------------------------------------
(* Roles.                                                                  *)

LEMMA TakesAssigns ==
  ASSUME NEW c, WellFormed(c.machine), NEW msg \in Message, NEW d, Takes(c, d, msg)
  PROVE  Assigned(c.machine, d.machine)
<1>1. CASE OwnMessage(c, d, msg)
  BY <1>1, ConsumeMessageGrows DEF OwnMessage
<1>2. CASE SubTakes(c, d, msg)
  BY <1>2 DEF SubTakes, Assigned
<1>3. CASE SubStarts(c, d, msg)
  <2>1. d.machine.roles = c.machine.roles
    BY <1>3, RecordedSame DEF SubStarts, WellFormed
  <2> QED BY <2>1 DEF Assigned
<1> QED BY <1>1, <1>2, <1>3 DEF Takes

\* Whoever joins a conversation later gets no role that somebody plays,
\* unless the role names him: not by its messages nor by those of its sub
\* conversations.
THEOREM AssignedForGood ==
  ASSUME NoProtocol \notin ForcedProtocols
  PROVE  Spec => RolesStayAssigned
<1>1. ASSUME SInv, [Next]_vars, NEW h \in Handle, Running(h)
      PROVE  Assigned(conv[h].machine, conv'[h].machine)
  <2>1. RunningTurn(h) /\ WellFormed(conv[h].machine)
    BY <1>1, RunningTurns
  <2> QED BY <2>1, TakesAssigns, TrafficAssumption
          DEF RunningTurn, Retained, Assigned
<1>2. SInv /\ [Next]_vars =>
        [\A h \in Handle : Running(h) /\ conv[h].machine.init # NoMessage =>
           \A r \in RoleId : \A a \in Agent :
             (/\ conv[h].machine.roles[r] # {}
              /\ a \in conv'[h].machine.roles[r] \ conv[h].machine.roles[r])
             => NameMatches(r, a)]_vars
  BY <1>1 DEF Assigned
<1> QED BY <1>2, StatusInvariance, PTL DEF Spec, RolesStayAssigned

-----------------------------------------------------------------------------
(* The number of sub conversations.                                        *)

WithinPlan(c, d) ==
  \A s \in StateId :
    /\ Len(d.subs[s]) > Len(c.subs[s]) =>
         /\ s = c.machine.cur
         /\ Len(d.subs[s]) = Len(c.subs[s]) + 1
         /\ Len(d.subs[s]) <= AsSize(c.planned)
         /\ SubSeq(d.subs[s], 1, Len(c.subs[s])) = c.subs[s]
    /\ \A i \in DOMAIN c.subs[s] :
         SubOver(c.subs[s][i]) => d.subs[s][i] = c.subs[s][i]

LEMMA Appended ==
  ASSUME NEW S, NEW q \in Seq(S), NEW x \in S
  PROVE  /\ Len(Append(q, x)) = Len(q) + 1
         /\ SubSeq(Append(q, x), 1, Len(q)) = q
         /\ \A i \in DOMAIN q : Append(q, x)[i] = q[i]
OBVIOUS

\* How the list of the current state may change.
ListWithinPlan(q, new, planned) ==
  /\ Len(new) > Len(q) =>
       /\ Len(new) = Len(q) + 1
       /\ Len(new) <= AsSize(planned)
       /\ SubSeq(new, 1, Len(q)) = q
  /\ \A i \in DOMAIN q : SubOver(q[i]) => new[i] = q[i]

LEMMA OneListChanged ==
  ASSUME NEW c, c.subs \in [StateId -> Seq(Machine)], NEW d,
         \A s \in StateId \ {c.machine.cur} : d.subs[s] = c.subs[s],
         ListWithinPlan(SubsOf(c), d.subs[c.machine.cur], c.planned)
  PROVE  WithinPlan(c, d)
<1> SUFFICES ASSUME NEW s \in StateId
             PROVE  /\ Len(d.subs[s]) > Len(c.subs[s]) =>
                         /\ s = c.machine.cur
                         /\ Len(d.subs[s]) = Len(c.subs[s]) + 1
                         /\ Len(d.subs[s]) <= AsSize(c.planned)
                         /\ SubSeq(d.subs[s], 1, Len(c.subs[s])) = c.subs[s]
                    /\ \A i \in DOMAIN c.subs[s] :
                         SubOver(c.subs[s][i]) => d.subs[s][i] = c.subs[s][i]
  BY DEF WithinPlan
<1>1. CASE s = c.machine.cur
  BY <1>1 DEF SubsOf, ListWithinPlan
<1>2. CASE s # c.machine.cur
  <2>1. d.subs[s] = c.subs[s] /\ Len(c.subs[s]) \in Nat
    BY <1>2
  <2> QED BY <2>1
<1> QED BY <1>1, <1>2

LEMMA TakesWithinPlan ==
  ASSUME NEW c, ObjectOK(c), c.machine # NoMachine, NEW msg, NEW d,
         Takes(c, d, msg)
  PROVE  WithinPlan(c, d)
<1>1. /\ c.subs \in [StateId -> Seq(Machine)]
      /\ c.machine.cur \in StateId
      /\ SubsOf(c) \in Seq(Machine)
      /\ c.planned \in Int
  BY DEF ObjectOK, WellFormed, Machine, ConversationState, SubsOf
<1>2. CASE OwnMessage(c, d, msg)
  BY <1>1, <1>2 DEF OwnMessage, WithinPlan
<1>3. CASE SubTakes(c, d, msg)
  <2>1. PICK i \in DOMAIN SubsOf(c), sub \in Machine :
          /\ ~SubOver(SubsOf(c)[i])
          /\ d.subs = [c.subs EXCEPT ![c.machine.cur] =
                         [SubsOf(c) EXCEPT ![i] = sub]]
    BY <1>3 DEF SubTakes
  <2>2. PICK q : q = [SubsOf(c) EXCEPT ![i] = sub]
    OBVIOUS
  <2>3. /\ Len(q) = Len(SubsOf(c))
        /\ \A j \in DOMAIN SubsOf(c) :
             SubOver(SubsOf(c)[j]) => q[j] = SubsOf(c)[j]
    BY <1>1, <2>1, <2>2
  <2>4. ListWithinPlan(SubsOf(c), q, c.planned)
    BY <1>1, <2>3 DEF ListWithinPlan
  <2>5. /\ d.subs[c.machine.cur] = q
        /\ \A s \in StateId \ {c.machine.cur} : d.subs[s] = c.subs[s]
    BY <1>1, <2>1, <2>2
  <2> QED BY <1>1, <2>4, <2>5, OneListChanged
<1>4. CASE SubStarts(c, d, msg)
  <2>1. PICK k \in DOMAIN EmbeddedOf(c.machine.proto, c.machine.cur), sub \in Machine :
          /\ Fits(c.machine, SubsOf(c), msg, c.planned, k)
          /\ d.subs = [c.subs EXCEPT ![c.machine.cur] = Append(SubsOf(c), sub)]
    BY <1>4 DEF SubStarts
  <2>2. PICK q : q = Append(SubsOf(c), sub)
    OBVIOUS
  <2>3. /\ Len(q) = Len(SubsOf(c)) + 1
        /\ SubSeq(q, 1, Len(SubsOf(c))) = SubsOf(c)
        /\ \A j \in DOMAIN SubsOf(c) : q[j] = SubsOf(c)[j]
    BY <1>1, <2>2, Appended
  <2>4. Len(q) <= AsSize(c.planned)
    BY <1>1, <2>1, <2>3, SizeWrapAssumption DEF Fits, AsSize
  <2>5. ListWithinPlan(SubsOf(c), q, c.planned)
    BY <2>3, <2>4 DEF ListWithinPlan
  <2>6. /\ d.subs[c.machine.cur] = q
        /\ \A s \in StateId \ {c.machine.cur} : d.subs[s] = c.subs[s]
    BY <1>1, <2>1, <2>2
  <2> QED BY <1>1, <2>5, <2>6, OneListChanged
<1> QED BY <1>2, <1>3, <1>4 DEF Takes

\* An update starts one sub conversation at most, in the current state and
\* within the number announced, as the size_t that number is compared as,
\* and touches no sub conversation that is over.
THEOREM PlanKept ==
  ASSUME NoProtocol \notin ForcedProtocols
  PROVE  Spec => SubsWithinPlan
<1>1. ASSUME SInv, [Next]_vars, NEW h \in Handle, Running(h)
      PROVE  WithinPlan(conv[h], conv'[h])
  <2>1. /\ RunningTurn(h) /\ ObjectOK(conv[h])
        /\ conv[h].machine # NoMachine
    BY <1>1, RunningTurns DEF Running
  <2>2. CASE Retained(conv[h], conv'[h])
    <3>1. \A s \in StateId : conv[h].subs[s] \in Seq(Machine)
      BY <2>1 DEF ObjectOK, ConversationState
    <3> QED BY <2>2, <3>1 DEF Retained, WithinPlan
  <2> QED BY <2>1, <2>2, TakesWithinPlan DEF RunningTurn
<1>2. SInv /\ [Next]_vars =>
        [\A h \in Handle : Running(h) =>
           \A s \in StateId :
             LET old == conv[h].subs[s]
                 new == conv'[h].subs[s]
             IN  /\ Len(new) > Len(old) =>
                      /\ s = conv[h].machine.cur
                      /\ Len(new) = Len(old) + 1
                      /\ Len(new) <= AsSize(conv[h].planned)
                      /\ SubSeq(new, 1, Len(old)) = old
                 /\ \A i \in DOMAIN old : SubOver(old[i]) => new[i] = old[i]]_vars
  BY <1>1 DEF WithinPlan
<1> QED BY <1>2, StatusInvariance, PTL DEF Spec, SubsWithinPlan

-----------------------------------------------------------------------------
(* The end of a cancellation.                                              *)

Reader ==
  INSTANCE ProtocolLoader
    WITH AllPerformatives <- Performative, AllProtocols <- Protocol

\* Every protocol in use was read from a file.
AllRead ==
  \A p \in Protocol : \E raw : /\ Reader!Loadable(raw)
                               /\ Specification[p] = Reader!Load(raw)

\* No file can name the states of a cancellation, so they are what
\* generateDefaultStates makes of them.
LEMMA CancellingAsRead ==
  ASSUME AllRead, NEW p \in Protocol
  PROVE  /\ \A i \in DOMAIN TransitionsOf(p, CONVERSATION_CANCELLING) :
              TransitionsOf(p, CONVERSATION_CANCELLING)[i].target \in
                {CONVERSATION_CANCEL_SUCCESS, CONVERSATION_CANCEL_FAILURE}
         /\ EmbeddedOf(p, CONVERSATION_CANCELLING) = <<>>
         /\ CONVERSATION_CANCEL_SUCCESS \in FinalStatesOf(p)
         /\ EmbeddedOf(p, CONVERSATION_CANCEL_SUCCESS) = <<>>
<1>1. PICK raw : Reader!Loadable(raw) /\ Specification[p] = Reader!Load(raw)
  BY DEF AllRead
<1>2. PICK table : table = Reader!TransitionTable(raw)
  OBVIOUS
<1>3. /\ CONVERSATION_CANCELLING \in Reader!DefaultStates
      /\ CONVERSATION_CANCEL_SUCCESS \in Reader!DefaultStates
      /\ CONVERSATION_CANCEL_SUCCESS \in Reader!DefaultFinalStates
  BY DEF Reader!DefaultStates, Reader!DefaultFinalStates,
         Reader!CancellingState, Reader!CancelSuccessState,
         CONVERSATION_CANCELLING, CONVERSATION_CANCEL_SUCCESS
<1>4. /\ CONVERSATION_CANCELLING \notin raw.states
      /\ CONVERSATION_CANCEL_SUCCESS \notin raw.states
  BY <1>1, <1>3 DEF Reader!Loadable
<1>5. /\ DOMAIN table = raw.states \cup Reader!DefaultStates
      /\ table[CONVERSATION_CANCELLING] = Reader!CancellingTransitions
  BY <1>2, <1>3, <1>4
  DEF Reader!TransitionTable, Reader!CancellingState, CONVERSATION_CANCELLING
<1>6. /\ Specification[p].trans = table
      /\ Specification[p].final = raw.final \cup Reader!DefaultFinalStates
      /\ Specification[p].esms = [s \in DOMAIN table |->
                                    IF s \in raw.states THEN raw.esms[s] ELSE <<>>]
  BY <1>1, <1>2 DEF Reader!Load
<1>7. \A i \in DOMAIN Reader!CancellingTransitions :
        Reader!CancellingTransitions[i].target \in
          {CONVERSATION_CANCEL_SUCCESS, CONVERSATION_CANCEL_FAILURE}
  BY DEF Reader!CancellingTransitions, Reader!Transition,
         Reader!CancelSuccessState, Reader!CancelFailureState,
         CONVERSATION_CANCEL_SUCCESS, CONVERSATION_CANCEL_FAILURE
<1> QED BY <1>3, <1>4, <1>5, <1>6, <1>7
        DEF TransitionsOf, EmbeddedOf, FinalStatesOf

\* A machine in that state takes one message, its own, which ends it.
LEMMA CancellingMoves ==
  ASSUME AllRead, NEW c, ObjectOK(c), c.machine # NoMachine,
         c.machine.cur = CONVERSATION_CANCELLING,
         NEW msg \in Message, NEW d, Takes(c, d, msg), d.machine # c.machine
  PROVE  /\ d.machine.proto = c.machine.proto
         /\ d.machine.cur \in {CONVERSATION_CANCEL_SUCCESS,
                               CONVERSATION_CANCEL_FAILURE}
<1>1. WellFormed(c.machine) /\ c.machine.proto \in Protocol
  BY DEF ObjectOK, WellFormed, Machine
<1>2. EmbeddedOf(c.machine.proto, c.machine.cur) = <<>>
  BY <1>1, CancellingAsRead
<1>3. OwnMessage(c, d, msg)
  BY <1>2 DEF Takes, SubTakes, SubStarts
<1>4. ConsumeProxied(c.machine, msg) = {}
  BY <1>2 DEF ConsumeProxied, FittingReply, First
<1>5. d.machine \in ConsumeDirectly(c.machine, msg)
  BY <1>3, <1>4 DEF OwnMessage, ConsumeMessage
<1>6. PICK i \in DOMAIN TransitionsOf(c.machine.proto, c.machine.cur) :
        d.machine = Fire(c.machine, msg,
                         TransitionsOf(c.machine.proto, c.machine.cur)[i])
  BY <1>5 DEF ConsumeDirectly, First
<1>7. PICK t : t = TransitionsOf(c.machine.proto, c.machine.cur)[i]
  OBVIOUS
<1>8. /\ t.target \in {CONVERSATION_CANCEL_SUCCESS, CONVERSATION_CANCEL_FAILURE}
      /\ t.target \in StatesOf(c.machine.proto)
  BY <1>1, <1>6, <1>7, CancellingAsRead, StateFacts DEF WellFormed
<1> QED BY <1>1, <1>6, <1>7, <1>8, FireOK

\* Success and failure of cancelling are the end of a conversation.
LEMMA CancelledIsOver ==
  ASSUME AllRead, NEW d, ObjectOK(d), d.machine # NoMachine, StatusOfMachine(d),
         d.status # "UNINITIALIZED",
         d.machine.cur \in {CONVERSATION_CANCEL_SUCCESS,
                            CONVERSATION_CANCEL_FAILURE}
  PROVE  d.status \in {"ENDED", "FAILED"}
<1>1. d.status = StatusByMachine(d)
  BY DEF StatusOfMachine
<1>2. CASE InFailureState(d.machine)
  BY <1>1, <1>2 DEF StatusByMachine
<1>3. CASE d.machine.cur = CONVERSATION_CANCEL_SUCCESS
  <2>1. d.machine.proto \in Protocol /\ d.machine.cur \in StateId
    BY DEF ObjectOK, WellFormed, Machine
  <2>2. /\ d.machine.cur \in FinalStatesOf(d.machine.proto)
        /\ EmbeddedOf(d.machine.proto, d.machine.cur) = <<>>
    BY <1>3, <2>1, CancellingAsRead
  <2>3. SubsOf(d) = <<>>
    BY <2>1, <2>2 DEF ObjectOK, SubsOK, SubsOf
  <2>4. Ended(d)
    BY <2>2, <2>3 DEF Ended, InFinalState, EmbeddedDone
  <2> QED BY <1>1, <2>4 DEF StatusByMachine
<1> QED BY <1>2, <1>3 DEF InFailureState, FailureStates

\* However a conversation is cancelled, and whatever its sub conversations
\* send meanwhile, the next message its machine takes is the success or the
\* failure of the cancellation and ends it: for every set of protocols read
\* from files.
THEOREM CancellationAnswered ==
  ASSUME NoProtocol \notin ForcedProtocols, AllRead
  PROVE  Spec => CancelIsAnswered
<1>1. ASSUME SInv, [Next]_vars, NEW h \in Handle, Running(h),
             conv[h].machine.cur = CONVERSATION_CANCELLING,
             conv'[h].machine # conv[h].machine
      PROVE  /\ conv'[h].machine.cur \in {CONVERSATION_CANCEL_SUCCESS,
                                          CONVERSATION_CANCEL_FAILURE}
             /\ conv'[h].status \in {"ENDED", "FAILED"}
  <2>1. PICK msg \in Traffic :
          /\ Takes(conv[h], conv'[h], msg)
          /\ StatusOfMachine(conv'[h]) /\ ObjectOK(conv'[h])
          /\ conv'[h].status # "UNINITIALIZED"
    BY <1>1, RunningTurns DEF RunningTurn, Retained
  <2>2. /\ ObjectOK(conv[h]) /\ conv[h].machine # NoMachine /\ msg \in Message
        /\ conv'[h].machine # NoMachine
    BY <1>1, <2>1, RunningTurns, TrafficAssumption DEF Running, StatusOfMachine
  <2>3. conv'[h].machine.cur \in {CONVERSATION_CANCEL_SUCCESS,
                                  CONVERSATION_CANCEL_FAILURE}
    BY <1>1, <2>1, <2>2, CancellingMoves
  <2> QED BY <2>1, <2>2, <2>3, CancelledIsOver
<1>2. SInv /\ [Next]_vars =>
        [\A h \in Handle :
           /\ Running(h)
           /\ conv[h].machine.cur = CONVERSATION_CANCELLING
           /\ conv'[h].machine # conv[h].machine
           => /\ conv'[h].machine.cur \in {CONVERSATION_CANCEL_SUCCESS,
                                           CONVERSATION_CANCEL_FAILURE}
              /\ conv'[h].status \in {"ENDED", "FAILED"}]_vars
  BY <1>1
<1> QED BY <1>2, StatusInvariance, PTL DEF Spec, CancelIsAnswered

-----------------------------------------------------------------------------
(* Replies of proxied protocols.                                           *)

\* A protocol proxies in one place at most: of the shipped ones only
\* brokering does, in its last state.
SingleProxy ==
  \A p \in Protocol : \A s, t \in StatesOf(p) :
    \A k \in DOMAIN EmbeddedOf(p, s), l \in DOMAIN EmbeddedOf(p, t) :
      /\ EmbeddedOf(p, s)[k].proxiedTo # NoRole
      /\ EmbeddedOf(p, t)[l].proxiedTo # NoRole
      => s = t /\ k = l

\* n has the replies of m.
RepliesSame(m, n) ==
  \A s \in StatesOf(m.proto) : \A k \in DOMAIN EmbeddedOf(m.proto, s) :
    n.esm[s][k].replied = m.esm[s][k].replied

LEMMA RepliesKept ==
  ASSUME NEW m, WellFormed(m), NEW k \in DOMAIN EmbeddedOf(m.proto, m.cur),
         NEW p, NEW n
  PROVE  RepliesSame(m, Recorded(m, k, p, n))
<1>1. /\ m.proto \in Protocol /\ m.cur \in StatesOf(m.proto)
      /\ m.cur \in StateId /\ m.esm \in [StateId -> Seq(EmbeddedRun)]
      /\ \A s \in StatesOf(m.proto) : s \in StateId
      /\ k \in DOMAIN m.esm[m.cur]
  BY DEF WellFormed, Machine, StateId
<1>2. m.esm[m.cur] \in Seq(EmbeddedRun) /\ m.esm[m.cur][k] \in EmbeddedRun
  BY <1>1, Element
<1>3. PICK run : run = [[m.esm[m.cur][k] EXCEPT !.actual = p] EXCEPT !.planned = n]
  OBVIOUS
<1>4. run.replied = m.esm[m.cur][k].replied
  BY <1>2, <1>3 DEF EmbeddedRun
<1>5. PICK list : list = [m.esm[m.cur] EXCEPT ![k] = run]
  OBVIOUS
<1>6. list[k] = run /\ \A l \in DOMAIN m.esm[m.cur] : l # k => list[l] = m.esm[m.cur][l]
  BY <1>1, <1>2, <1>5
<1>7. Recorded(m, k, p, n).esm = [m.esm EXCEPT ![m.cur] = list]
  <2>1. [m EXCEPT !.esm[m.cur][k].actual = p].esm
          = [m.esm EXCEPT ![m.cur][k].actual = p]
    BY DEF WellFormed, Machine
  <2> QED BY <1>1, <1>2, <1>3, <1>5, <2>1 DEF Recorded, WellFormed, Machine, EmbeddedRun
<1> QED BY <1>1, <1>4, <1>6, <1>7 DEF RepliesSame, WellFormed

LEMMA ReplyMarked ==
  ASSUME NEW m, WellFormed(m), NEW msg \in Message,
         NEW n \in ConsumeProxied(m, msg)
  PROVE  \E k \in DOMAIN EmbeddedOf(m.proto, m.cur) :
           /\ EmbeddedOf(m.proto, m.cur)[k].proxiedTo # NoRole
           /\ m.esm[m.cur][k].replied = FALSE
           /\ n.esm[m.cur][k].replied = TRUE
<1>1. PICK k \in DOMAIN EmbeddedOf(m.proto, m.cur) :
        /\ AwaitsReply(m, k)
        /\ n = [Fire(m, msg, ProxiedTransition(m, k))
                  EXCEPT !.esm[m.cur][k].replied = TRUE]
  BY DEF ConsumeProxied, FittingReply, First, ReplyFits
<1>2. /\ m.cur \in StateId /\ m.cur \in StatesOf(m.proto)
      /\ m.esm \in [StateId -> Seq(EmbeddedRun)]
      /\ k \in DOMAIN m.esm[m.cur]
  BY DEF WellFormed, Machine
<1>3. m.esm[m.cur] \in Seq(EmbeddedRun) /\ m.esm[m.cur][k] \in EmbeddedRun
  BY <1>2, Element
<1>4. PICK f : f = Fire(m, msg, ProxiedTransition(m, k))
  OBVIOUS
<1>5. f \in Machine /\ f.esm = m.esm
  BY <1>2, <1>4, FireOK DEF ProxiedTransition, WellFormed
<1>6. n.esm = [m.esm EXCEPT ![m.cur][k].replied = TRUE]
  BY <1>1, <1>4, <1>5 DEF Machine
<1>7. n.esm[m.cur][k].replied = TRUE
  BY <1>2, <1>3, <1>6 DEF EmbeddedRun
<1>8. m.esm[m.cur][k].replied = FALSE
  BY <1>1, <1>3 DEF AwaitsReply, EmbeddedRun
<1> QED BY <1>1, <1>7, <1>8 DEF AwaitsReply

LEMMA DirectKeepsReplies ==
  ASSUME NEW m, WellFormed(m), NEW msg \in Message,
         NEW n \in ConsumeDirectly(m, msg)
  PROVE  RepliesSame(m, n)
<1>1. PICK i \in DOMAIN TransitionsOf(m.proto, m.cur) :
        n = Fire(m, msg, TransitionsOf(m.proto, m.cur)[i])
  BY DEF ConsumeDirectly, First
<1>2. TransitionsOf(m.proto, m.cur)[i].target \in StatesOf(m.proto)
  BY StateFacts DEF WellFormed, Machine
<1>3. n.esm = m.esm
  BY <1>1, <1>2, FireOK
<1> QED BY <1>3 DEF RepliesSame

\* The number n of replies forwarded so far is the number of embedded
\* machines that proxy and have their reply, unless the memory of the reader
\* claimed a reply from the start.
Counted(m, n) ==
  IF m = NoMachine THEN n = 0
  ELSE ~garbage[m.proto] =>
         /\ n \in {0, 1}
         /\ \A s \in StatesOf(m.proto) : \A k \in DOMAIN EmbeddedOf(m.proto, s) :
              EmbeddedOf(m.proto, s)[k].proxiedTo # NoRole =>
                (m.esm[s][k].replied = TRUE <=> n = 1)

LEMMA CountedStart ==
  ASSUME NEW p \in Protocol, NEW m, m = NewMachine(p, Owner, garbage),
         m # NoMachine
  PROVE  Counted(m, 0)
<1>1. /\ m.proto = p
      /\ m.esm = [s \in StateId |->
                    IF s \in StatesOf(p)
                    THEN [k \in DOMAIN EmbeddedOf(p, s) |->
                            [actual |-> NoProtocol, planned |-> -1,
                             replied |-> garbage[p]]]
                    ELSE <<>>]
  BY DEF NewMachine
<1>2. \A s \in StatesOf(p) : \A k \in DOMAIN EmbeddedOf(p, s) :
        m.esm[s][k].replied = garbage[p]
  BY <1>1 DEF StateId
<1> QED BY <1>1, <1>2 DEF Counted

LEMMA CountedSame ==
  ASSUME NEW m, m # NoMachine, NEW n, n # NoMachine, n.proto = m.proto,
         RepliesSame(m, n), NEW i, Counted(m, i)
  PROVE  Counted(n, i)
BY DEF Counted, RepliesSame

\* A reply the conversation takes is counted, and is the first.
LEMMA CountedReply ==
  ASSUME SingleProxy, NEW m, WellFormed(m), m # NoMachine, NEW msg \in Message,
         NEW n \in ConsumeProxied(m, msg), n # NoMachine, n.proto = m.proto,
         NEW i, Counted(m, i)
  PROVE  Counted(n, i + 1)
<1> SUFFICES ASSUME ~garbage[m.proto]
             PROVE  Counted(n, i + 1)
  BY DEF Counted
<1>1. PICK k \in DOMAIN EmbeddedOf(m.proto, m.cur) :
        /\ EmbeddedOf(m.proto, m.cur)[k].proxiedTo # NoRole
        /\ m.esm[m.cur][k].replied = FALSE
        /\ n.esm[m.cur][k].replied = TRUE
  BY ReplyMarked
<1>2. m.proto \in Protocol /\ m.cur \in StatesOf(m.proto)
  BY DEF WellFormed, Machine
<1>3. i = 0
  BY <1>1, <1>2 DEF Counted
<1>4. \A s \in StatesOf(m.proto) : \A l \in DOMAIN EmbeddedOf(m.proto, s) :
        EmbeddedOf(m.proto, s)[l].proxiedTo # NoRole => s = m.cur /\ l = k
  BY <1>1, <1>2 DEF SingleProxy
<1> QED BY <1>1, <1>3, <1>4 DEF Counted

LEMMA CountedUpdate ==
  ASSUME SingleProxy, garbage \in [Protocol -> BOOLEAN],
         NEW c, ObjectOK(c), c.machine # NoMachine,
         NEW d, ObjectOK(d), d.machine # NoMachine,
         NEW msg \in Message, Takes(c, d, msg), NEW i, Counted(c.machine, i)
  PROVE  Counted(d.machine, IF ReplyForwarded(c, msg) THEN i + 1 ELSE i)
<1>1. WellFormed(c.machine) /\ c.machine \in Machine
  BY DEF ObjectOK, WellFormed
<1>2. CASE OwnMessage(c, d, msg)
  <2>1. d.machine.proto = c.machine.proto
    BY <1>1, <1>2, ConsumeMessageOK DEF OwnMessage
  <2>2. CASE ConsumeDirectly(c.machine, msg) = {}
    BY <1>1, <1>2, <2>1, <2>2, CountedReply
       DEF OwnMessage, ConsumeMessage, ReplyForwarded
  <2>3. CASE ConsumeDirectly(c.machine, msg) # {}
    <3>1. RepliesSame(c.machine, d.machine)
      BY <1>1, <1>2, <2>3, DirectKeepsReplies DEF OwnMessage, ConsumeMessage
    <3> QED BY <1>2, <2>1, <2>3, <3>1, CountedSame DEF ReplyForwarded
  <2> QED BY <2>2, <2>3
<1>3. CASE SubTakes(c, d, msg)
  BY <1>3 DEF SubTakes, ReplyForwarded
<1>4. CASE SubStarts(c, d, msg)
  <2>1. /\ RepliesSame(c.machine, d.machine)
        /\ d.machine.proto = c.machine.proto
    BY <1>1, <1>4, RepliesKept, RecordedSame DEF SubStarts
  <2> QED BY <1>4, <2>1, CountedSame DEF SubStarts, ReplyForwarded
<1> QED BY <1>2, <1>3, <1>4 DEF Takes

RepliesCounted(h) ==
  IF Live(h) THEN Counted(conv[h].machine, forwarded[h]) ELSE forwarded[h] = 0

CInv == SInv /\ \A h \in Handle : RepliesCounted(h)

LEMMA CountedPrepared ==
  ASSUME SInv, NEW c, ObjectOK(c), ProtocolKept(c), NEW msg \in Message,
         NEW i, Counted(c.machine, i)
  PROVE  Counted(Prepared(c, msg).machine, i)
<1>1. PICK d : d = Prepared(c, msg)
  OBVIOUS
<1>2. CASE d = c
  BY <1>1, <1>2
<1>3. CASE /\ c.proto = NoProtocol /\ msg.proto \in Protocol
           /\ d.machine = NewMachine(msg.proto, Owner, garbage)
  <2>1. i = 0
    BY <1>3 DEF ProtocolKept, Counted
  <2>2. d.machine # NoMachine
    <3>1. garbage \in [Protocol -> BOOLEAN] /\ Owner \in Agent
      BY TrafficAssumption DEF SInv, IInv, TypeOK
    <3>2. d.machine \in Machine
      BY <1>3, <3>1, NewMachineOK DEF WellFormed
    <3> QED BY <3>2, ObjectAssumption
  <2> QED BY <1>1, <1>3, <2>1, <2>2, CountedStart
<1> QED BY <1>1, <1>2, <1>3, PreparedIs DEF ObjectOK

LEMMA CountedTurn ==
  ASSUME SingleProxy, CInv, garbage' = garbage, NEW h \in Handle, Turn(h)
  PROVE  RepliesCounted(h)'
<1>0. /\ SInv /\ garbage \in [Protocol -> BOOLEAN]
      /\ \A g \in Handle : RepliesCounted(g)
      /\ NoConversation \notin ConversationState
      /\ \A m, i : Counted(m, i)' = Counted(m, i)
  BY ObjectAssumption DEF CInv, SInv, IInv, TypeOK, Counted
<1>1. ASSUME NEW before, ObjectOK(before), ProtocolKept(before),
             Counted(before.machine, forwarded[h]),
             NEW msg \in Traffic, Updated(h, before, msg)
      PROVE  RepliesCounted(h)'
  <2>1. PICK c \in ConversationState :
          /\ c = Prepared(before, msg) /\ ObjectOK(c) /\ c.machine # NoMachine
          /\ Takes(c, conv'[h], msg)
          /\ StatusOfMachine(conv'[h]) /\ ObjectOK(conv'[h])
          /\ conv'[h].status # "UNINITIALIZED"
          /\ forwarded'[h] = IF ReplyForwarded(c, msg) THEN forwarded[h] + 1
                                                       ELSE forwarded[h]
    BY <1>1 DEF Updated
  <2>2. Counted(c.machine, forwarded[h]) /\ msg \in Message
    BY <1>0, <1>1, <2>1, CountedPrepared, TrafficAssumption
  <2>3. conv'[h].machine # NoMachine
    BY <2>1 DEF StatusOfMachine
  <2>4. Counted(conv'[h].machine, forwarded'[h])
    BY <1>0, <2>1, <2>2, <2>3, CountedUpdate
  <2> QED BY <1>0, <2>1, <2>4 DEF RepliesCounted, ObjectOK, Live, Counted
<1>2. CASE Same(h)
  BY <1>0, <1>2 DEF Same, RepliesCounted, Live, Counted
<1>3. CASE SetAside(h)
  BY <1>0, <1>3 DEF SetAside, Retained, RepliesCounted, ObjectOK, Live, Counted
<1>4. CASE Starts(h)
  BY <1>0, <1>4 DEF Starts, RepliesCounted, Counted
<1>5. CASE Copied(h)
  BY <1>0, <1>5 DEF Copied, RepliesCounted, Live, Counted
<1>6. CASE Refused(h)
  <2>1. PICK msg \in Traffic : conv'[h] = Prepared(conv[h], msg)
    BY <1>6 DEF Refused
  <2>2. ObjectOK(conv[h]) /\ ProtocolKept(conv[h]) /\ msg \in Message
    BY <1>0, <1>6, TrafficAssumption DEF Refused, SInv, IInv, Objects, Kept
  <2>3. Counted(conv[h].machine, forwarded[h])
    BY <1>0, <1>6 DEF Refused, RepliesCounted
  <2>4. Counted(conv'[h].machine, forwarded[h]) /\ ObjectOK(conv'[h])
    BY <1>0, <2>1, <2>2, <2>3, CountedPrepared, PreparedOK, TrafficAssumption
  <2> QED BY <1>0, <1>6, <2>4 DEF Refused, RepliesCounted, ObjectOK, Live, Counted
<1>7. CASE Accepted(h)
  <2>1. /\ ObjectOK(conv[h]) /\ ProtocolKept(conv[h])
        /\ Counted(conv[h].machine, forwarded[h])
    BY <1>0, <1>7 DEF Accepted, SInv, IInv, Objects, Kept, RepliesCounted
  <2> QED BY <1>1, <1>7, <2>1 DEF Accepted
<1>8. CASE Opened(h)
  <2>1. PICK before : before = Fresh(GeneratedId(h))
    OBVIOUS
  <2>2. /\ ObjectOK(before) /\ ProtocolKept(before)
        /\ before.machine = NoMachine
    BY <2>1, FreshOK DEF ProtocolKept, GeneratedId
  <2>3. Counted(before.machine, forwarded[h])
    BY <1>0, <1>8, <2>2 DEF Opened, RepliesCounted, Counted
  <2> QED BY <1>1, <1>8, <2>1, <2>2, <2>3 DEF Opened
<1> QED BY <1>2, <1>3, <1>4, <1>5, <1>6, <1>7, <1>8 DEF Turn

LEMMA GarbageStays ==
  ASSUME [Next]_vars
  PROVE  garbage' = garbage
BY DEF Next, vars, Create, CreateFromMessage, Copy, Accept, AcceptInto, Refuse,
       SetNumberOfSubConversations, SetProtocol, SetConversationId,
       SetContentLanguage

\* Of a protocol that proxies in one place, every conversation accepts one
\* reply at most, and one that ends where it proxies had it, unless it
\* proxied "inform": if the reader's memory did not claim a reply already,
\* and nobody erases the protocol.
THEOREM ReplyOnce ==
  ASSUME NoProtocol \notin ForcedProtocols, SingleProxy
  PROVE  Spec => []OneReplyForwarded
<1>1. Init => CInv
  BY InitInv DEF Init, CInv, SInv, Live, NoEvent, RepliesCounted
<1>2. CInv /\ [Next]_vars => CInv'
  BY NextInv, NextIsStatusStep, SInvNext, NextTurns, GarbageStays, CountedTurn
     DEF CInv, SInv
<1>3. CInv => OneReplyForwarded
  <2> SUFFICES ASSUME CInv, NEW h \in Handle, Running(h),
                      ~garbage[conv[h].machine.proto]
               PROVE  LET m  == conv[h].machine
                          es == EmbeddedOf(m.proto, m.cur)
                      IN  /\ forwarded[h] <= 1
                          /\ conv[h].status = "ENDED" =>
                               \A k \in DOMAIN es : es[k].proxiedTo # NoRole =>
                                 forwarded[h] = 1 \/ m.esm[m.cur][k].actual = "inform"
    BY DEF OneReplyForwarded
  <2> DEFINE m == conv[h].machine
             es == EmbeddedOf(m.proto, m.cur)
  <2>1. /\ Live(h) /\ WellFormed(m) /\ StatusOfMachine(conv[h])
        /\ m # NoMachine /\ Counted(m, forwarded[h])
    BY DEF CInv, SInv, IInv, Objects, ObjectOK, Kept, Running, RepliesCounted
  <2>2. /\ m.cur \in StatesOf(m.proto) /\ forwarded[h] \in {0, 1}
        /\ \A k \in DOMAIN es : es[k].proxiedTo # NoRole =>
             (m.esm[m.cur][k].replied = TRUE <=> forwarded[h] = 1)
    BY <2>1 DEF Counted, WellFormed
  <2>3. ASSUME conv[h].status = "ENDED", NEW k \in DOMAIN es,
               es[k].proxiedTo # NoRole, m.esm[m.cur][k].actual # "inform"
        PROVE  forwarded[h] = 1
    <3>1. Ended(conv[h])
      BY <2>1, <2>3 DEF StatusOfMachine, StatusByMachine
    <3>2. ~AwaitsReply(m, k)
      BY <2>3, <3>1 DEF Ended, InFinalState, EmbeddedDone
    <3>3. m.esm[m.cur][k].replied = TRUE
      <4>1. m.esm[m.cur] \in Seq(EmbeddedRun) /\ k \in DOMAIN m.esm[m.cur]
        BY <2>1, <2>3 DEF WellFormed, Machine
      <4>2. m.esm[m.cur][k] \in EmbeddedRun
        BY <4>1, Element
      <4> QED BY <2>3, <3>2, <4>2 DEF AwaitsReply, EmbeddedRun
    <3> QED BY <2>2, <2>3, <3>3
  <2> HIDE DEF m, es
  <2>4. forwarded[h] <= 1
    BY <2>2
  <2>5. conv[h].status = "ENDED" =>
          \A k \in DOMAIN es : es[k].proxiedTo # NoRole =>
            forwarded[h] = 1 \/ m.esm[m.cur][k].actual = "inform"
    BY <2>3
  <2> QED BY <2>4, <2>5 DEF m, es
<1> QED BY <1>1, <1>2, <1>3, PTL DEF Spec
=============================================================================
