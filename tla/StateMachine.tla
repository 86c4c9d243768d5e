---------------------------- MODULE StateMachine ----------------------------
(***************************************************************************)
(* The protocol state machine of conversation_monitor: what a              *)
(* StateMachine, the State it is in and its RoleMapping do with one ACL    *)
(* message (statemachine.cpp, state.cpp, transition.cpp, role.cpp).  All   *)
(* operators are pure: a machine is a record, and an operation that may    *)
(* throw returns the SET of resulting machines, empty when it throws.      *)
(*                                                                         *)
(* A loaded protocol (the StateMachine that StateMachineReader returns) is *)
(* a record of the constant Specification; ProtocolLoader builds it.       *)
(***************************************************************************)
EXTENDS Integers, Sequences, FiniteSets

CONSTANTS
  Agent,          \* agent names; a name may equal a role id
  Protocol,       \* names of the protocols the factory has loaded
  Performative,   \* performatives a message may carry
  ConversationId, \* conversation ids a message may carry
  Language,       \* content languages a message may carry
  Specification,  \* [Protocol -> loaded protocol]
  SizeWrap,       \* the wrap-around of size_t: larger than any list length
  NoMessage       \* an archive without an initiating message

NoProtocol == "no_protocol"      \* the empty protocol string
NoRole     == "no_role"          \* proxied_to left out of a <subprotocol>

\* Role ids with a meaning of their own.
AnyRole  == ".*"
SelfRole == "self"

\* State ids every loaded protocol has.
NOT_UNDERSTOOD              == "not_understood"
CONVERSATION_CANCELLING     == "conversation_cancelling"
CONVERSATION_CANCEL_SUCCESS == "conversation_cancel_success"
CONVERSATION_CANCEL_FAILURE == "conversation_cancel_failure"
GENERAL_FAILURE_STATE       == "general_failure"

FailureStates == {GENERAL_FAILURE_STATE, CONVERSATION_CANCEL_FAILURE}

Message ==
  [perf : Performative, sender : Agent, receivers : SUBSET Agent,
   proto : Protocol \cup {NoProtocol}, id : ConversationId, lang : Language]

StatesOf(p)         == Specification[p].states
FinalStatesOf(p)    == Specification[p].final
RolesOf(p)          == Specification[p].roles
TransitionsOf(p, s) == Specification[p].trans[s]
EmbeddedOf(p, s)    == Specification[p].esms[s]

StateId == UNION {StatesOf(p) : p \in Protocol}
RoleId  == UNION {RolesOf(p) : p \in Protocol}

\* What StateMachineReader establishes before a protocol is registered:
\* transitions stay inside the protocol's states and roles (validate,
\* updateRoles), the two failure states are final and lead nowhere
\* (generateDefaultStates).  What no code checks but every shipped file
\* observes: a <subprotocol> names roles of the protocol, and the initial
\* state exists.
ASSUME SpecificationAssumption ==
  \A p \in Protocol :
    /\ Specification[p].initial \in StatesOf(p)
    /\ FailureStates \subseteq FinalStatesOf(p)
    /\ FinalStatesOf(p) \subseteq StatesOf(p)
    /\ SelfRole \in RolesOf(p)
    /\ \A s \in StatesOf(p) :
         /\ TransitionsOf(p, s) \in
              Seq([perf : SUBSET Performative, from : RolesOf(p),
                   to : RolesOf(p), target : StatesOf(p)])
         /\ EmbeddedOf(p, s) \in
              Seq([name : SUBSET Protocol, from : RolesOf(p),
                   proxiedTo : RolesOf(p) \cup {NoRole}])
    /\ \A s \in FailureStates :
         TransitionsOf(p, s) = <<>> /\ EmbeddedOf(p, s) = <<>>

ASSUME SizeWrapAssumption == SizeWrap \in Nat

ASSUME ProtocolAssumption == NoProtocol \notin Protocol

ASSUME MessageAssumption == NoMessage \notin Message

\* The conversion of an int to the size_t it is compared with.
AsSize(n) == IF n < 0 THEN n + SizeWrap ELSE n

\* The first of the positions in a list that qualify, if there is any.
First(hits) == {i \in hits : \A j \in hits : i <= j}

-----------------------------------------------------------------------------
(* Machines.  esm[s][k] is the run-time part of the k-th                    *)
(* EmbeddedStateMachine of state s.                                        *)

EmbeddedRun ==
  [actual : Protocol \cup {NoProtocol}, planned : Int, replied : BOOLEAN]

Machine ==
  [proto : Protocol,
   cur   : StateId,
   roles : [RoleId -> SUBSET Agent],
   init  : Message \cup {NoMessage},
   esm   : [StateId -> Seq(EmbeddedRun)]]

\* A copy of the factory's machine, with self set.  receivedProxiedReply has
\* no initialiser: a copy carries whatever memory held when the reader built
\* the EmbeddedStateMachine, here the constant-per-load value garbage[p].
NewMachine(p, self, garbage) ==
  [proto |-> p,
   cur   |-> Specification[p].initial,
   roles |-> [r \in RoleId |-> IF r = SelfRole THEN {self} ELSE {}],
   init  |-> NoMessage,
   esm   |-> [s \in StateId |->
                IF s \in StatesOf(p)
                THEN [k \in DOMAIN EmbeddedOf(p, s) |->
                        [actual |-> NoProtocol, planned |-> -1,
                         replied |-> garbage[p]]]
                ELSE <<>>]]

-----------------------------------------------------------------------------
(* Does a message trigger a transition?                                    *)

\* The role id is a regular expression over agent names; role ids and agent
\* names are plain words, so it matches everything or the very same word.
NameMatches(role, agent) == role = AnyRole \/ role = agent

\* A role nobody has been assigned to yet admits everyone.
IsExpected(m, role, agent) ==
  \/ NameMatches(role, agent)
  \/ m.roles[role] = {}
  \/ agent \in m.roles[role]

\* Slip: one expected receiver is enough.
SomeReceiverValid(m, role, msg) ==
  \E a \in msg.receivers : IsExpected(m, role, a)

ValidReceivers(m, role, msg) ==
  /\ msg.receivers # {}
  /\ \A a \in msg.receivers : IsExpected(m, role, a)

\* Slip: the protocol of the message is not compared.
TriggersAnyProtocol(m, msg, t) ==
  /\ msg.perf \in t.perf
  /\ IsExpected(m, t.from, msg.sender)
  /\ ValidReceivers(m, t.to, msg)
  /\ msg.id = m.init.id

Triggers(m, msg, t) ==
  /\ msg.perf \in t.perf
  /\ IsExpected(m, t.from, msg.sender)
  /\ ValidReceivers(m, t.to, msg)
  /\ msg.id = m.init.id
  /\ msg.proto = m.init.proto

\* The initiating message is validated by its performative alone.
Enabling(m, msg, t) ==
  IF m.init = NoMessage THEN msg.perf \in t.perf ELSE Triggers(m, msg, t)

-----------------------------------------------------------------------------
(* StateMachine::consumeMessage                                            *)

UpdateRoleMapping(m, msg, t) ==
  [r \in RoleId |->
     m.roles[r] \cup (IF r = t.from THEN {msg.sender} ELSE {})
                \cup (IF r = t.to THEN msg.receivers ELSE {})]

\* updateRoleMapping, archive the message, enter the target state.
Fire(m, msg, t) ==
  [m EXCEPT !.roles = UpdateRoleMapping(m, msg, t),
            !.init  = IF m.init = NoMessage THEN msg ELSE m.init,
            !.cur   = t.target]

\* The first transition of the current state, in the order of the list.
ConsumeDirectly(m, msg) ==
  LET ts == TransitionsOf(m.proto, m.cur)
  IN  {Fire(m, msg, ts[i]) :
         i \in First({j \in DOMAIN ts : Enabling(m, msg, ts[j])})}

\* A proxied sub-protocol owes the proxied role a reply; nothing is owed for
\* "inform".
AwaitsReply(m, k) ==
  LET run == m.esm[m.cur][k]
  IN  /\ EmbeddedOf(m.proto, m.cur)[k].proxiedTo # NoRole
      /\ run.actual # "inform"
      /\ ~run.replied

\* The transition generated on the fly for the k-th embedded machine: any
\* performative, staying in the state.
ProxiedTransition(m, k) ==
  LET e == EmbeddedOf(m.proto, m.cur)[k]
  IN  [perf |-> Performative, from |-> e.from, to |-> e.proxiedTo,
       target |-> m.cur]

ReplyFits(m, msg, k) ==
  /\ m.init # NoMessage
  /\ AwaitsReply(m, k)
  /\ Triggers(m, msg, ProxiedTransition(m, k))

FittingReply(m, msg) ==
  First({k \in DOMAIN EmbeddedOf(m.proto, m.cur) : ReplyFits(m, msg, k)})

\* Slip: receivedProxiedReply is never set.
ConsumeProxiedAgain(m, msg) ==
  {Fire(m, msg, ProxiedTransition(m, k)) : k \in FittingReply(m, msg)}

ConsumeProxied(m, msg) ==
  {[Fire(m, msg, ProxiedTransition(m, k)) EXCEPT !.esm[m.cur][k].replied = TRUE] :
     k \in FittingReply(m, msg)}

ConsumeMessage(m, msg) ==
  LET direct == ConsumeDirectly(m, msg)
  IN  IF direct # {} THEN direct ELSE ConsumeProxied(m, msg)

-----------------------------------------------------------------------------
(* State::isFinished, StateMachine::inFinalState and inFailureState.  subs  *)
(* is the list of sub machines of the current state; a sub machine has none *)
(* of its own, because only a conversation's machine is ever asked to start *)
(* one.                                                                    *)

InFailureState(m) == m.cur \in FailureStates

EmbeddedDone(m, count) ==
  \A k \in DOMAIN EmbeddedOf(m.proto, m.cur) :
    /\ AsSize(m.esm[m.cur][k].planned) = count
    /\ ~AwaitsReply(m, k)

SubFinished(m) == m.cur \in FinalStatesOf(m.proto) /\ EmbeddedDone(m, 0)

SubOver(m) == SubFinished(m) \/ InFailureState(m)

InFinalState(m, subs) ==
  /\ m.cur \in FinalStatesOf(m.proto)
  /\ \A i \in DOMAIN subs : SubOver(subs[i])
  /\ EmbeddedDone(m, Len(subs))

-----------------------------------------------------------------------------
(* State::consumeSubStateMachineMessage: the results are pairs of the       *)
(* machine and the sub machines of its current state.                      *)

\* A running sub machine that accepts the message takes it; the first wins.
\* One that rejects it is put back as it was.
TakenBySub(m, subs, msg) ==
  LET taken == [i \in DOMAIN subs |->
                  IF SubOver(subs[i]) THEN {} ELSE ConsumeMessage(subs[i], msg)]
  IN  UNION {{[machine |-> m, subs |-> [subs EXCEPT ![i] = sub]] :
                sub \in taken[i]} : i \in First({j \in DOMAIN subs : taken[j] # {}})}

\* Otherwise the first embedded machine of that name whose initiator is the
\* sender, with room for another sub conversation, starts a new sub machine
\* (of which the sender is "self") if that accepts the message.
\* Slip: anybody may start a sub conversation.
FitsAnySender(m, subs, msg, planned, k) ==
  /\ msg.proto \in EmbeddedOf(m.proto, m.cur)[k].name
  /\ Len(subs) < AsSize(planned)

\* Slip: one sub conversation too many.
FitsOneMore(m, subs, msg, planned, k) ==
  LET e == EmbeddedOf(m.proto, m.cur)[k]
  IN  /\ msg.proto \in e.name
      /\ msg.sender \in m.roles[e.from]
      /\ Len(subs) <= AsSize(planned)

Fits(m, subs, msg, planned, k) ==
  LET e == EmbeddedOf(m.proto, m.cur)[k]
  IN  /\ msg.proto \in e.name
      /\ msg.sender \in m.roles[e.from]
      /\ Len(subs) < AsSize(planned)

Recorded(m, k, proto, planned) ==
  [m EXCEPT !.esm[m.cur][k].actual = proto, !.esm[m.cur][k].planned = planned]

StartedSub(m, subs, msg, planned, garbage) ==
  LET fitting == {k \in DOMAIN EmbeddedOf(m.proto, m.cur) :
                    Fits(m, subs, msg, planned, k)}
  IN  {[machine |-> Recorded(m, k, msg.proto, planned),
        subs    |-> Append(subs, sub)] :
         k \in First(fitting),
         sub \in ConsumeMessage(NewMachine(msg.proto, msg.sender, garbage), msg)}

ConsumeSubMessage(m, subs, msg, planned, garbage) ==
  LET taken == TakenBySub(m, subs, msg)
  IN  IF taken # {} THEN taken
      ELSE StartedSub(m, subs, msg, planned, garbage)
=============================================================================
