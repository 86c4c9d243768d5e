--------------------------- MODULE ProtocolLoader ---------------------------
(***************************************************************************)
(* How StateMachineReader::loadSpecification turns the <state>,            *)
(* <transition> and <subprotocol> elements of a protocol file into the     *)
(* StateMachine the factory hands out: default transitions, default        *)
(* states, roles, validation.  A parsed file is a record                   *)
(*    [initial, states, final, trans, esms]                                *)
(* (trans and esms are functions on states); Load gives the records of     *)
(* StateMachine's constant Specification.  An invalid file gives no record *)
(* at all: loadable files are those for which Loadable holds.              *)
(***************************************************************************)
EXTENDS Naturals, SequencesExt

CONSTANTS AllPerformatives, AllProtocols  \* what the expression ".*" stands for

Anyone == ".*"
Self   == "self"

NotUnderstoodState == "not_understood"
CancellingState    == "conversation_cancelling"
CancelSuccessState == "conversation_cancel_success"
CancelFailureState == "conversation_cancel_failure"
FailureState       == "general_failure"

DefaultFinalStates ==
  {NotUnderstoodState, CancelSuccessState, CancelFailureState, FailureState}

DefaultStates == DefaultFinalStates \cup {CancellingState}

-----------------------------------------------------------------------------
(* Transitions.  The expression of performatives is the set it matches.    *)

Transition(perfs, from, to, target) ==
  [perf |-> perfs, from |-> from, to |-> to, target |-> target]

NotUnderstood(from, to) ==
  Transition({"not-understood"}, from, to, NotUnderstoodState)

ConversationCancelling(from, to) ==
  Transition({"cancel"}, from, to, CancellingState)

GeneralFailure == Transition({"failure"}, Anyone, Self, FailureState)

\* State::addTransition keeps the first of two equal transitions.
AddTransition(ts, t) == IF t \in ToSet(ts) THEN ts ELSE Append(ts, t)

AddAll(ts, more) == FoldLeft(AddTransition, ts, more)

BothWays(Default(_, _), a, b) == <<Default(a, b), Default(b, a)>>

\* The defaults one explicit transition brings along; the first of
\* not-understood, cancel and failure it already covers ends the list.
DefaultsFor(t) ==
  IF "not-understood" \in t.perf THEN <<>>
  ELSE BothWays(NotUnderstood, t.from, t.to) \o
       IF "cancel" \in t.perf THEN <<>>
       ELSE BothWays(ConversationCancelling, t.from, t.to) \o
            IF "failure" \in t.perf THEN <<>> ELSE <<GeneralFailure>>

\* The defaults an embedded machine that proxies replies brings along.
ProxyDefaultsFor(e) ==
  IF e.proxiedTo = "no_role" THEN <<>>
  ELSE BothWays(NotUnderstood, e.from, e.proxiedTo) \o
       BothWays(ConversationCancelling, e.from, e.proxiedTo) \o
       <<GeneralFailure>>

\* State::generateDefaultTransitions for a state with transitions ts and
\* embedded machines es.
WithDefaultTransitions(final, ts, es) ==
  IF final /\ es = <<>> THEN ts
  ELSE AddAll(ts, FlattenSeq([i \in DOMAIN ts |-> DefaultsFor(ts[i])]) \o
                  FlattenSeq([k \in DOMAIN es |-> ProxyDefaultsFor(es[k])]))

-----------------------------------------------------------------------------
(* The state machine.                                                      *)

\* Slip: the success of cancelling does not leave the state.
EndlessCancelling ==
  <<Transition({"inform"}, Anyone, Anyone, CancellingState),
    Transition({"failure"}, Anyone, Anyone, CancelFailureState)>>

\* The only default state with transitions.
CancellingTransitions ==
  <<Transition({"inform"}, Anyone, Anyone, CancelSuccessState),
    Transition({"failure"}, Anyone, Anyone, CancelFailureState)>>

\* generateDefaultTransitions for every state, then generateDefaultStates.
TransitionTable(raw) ==
  [s \in raw.states \cup DefaultStates |->
     CASE s \in raw.states    -> WithDefaultTransitions(s \in raw.final,
                                   raw.trans[s], raw.esms[s])
       [] s = CancellingState -> CancellingTransitions
       [] OTHER               -> <<>>]

\* updateRoles: the roles of all transitions, next to "self".
RolesIn(table) ==
  {Self} \cup UNION { {t.from, t.to} : t \in UNION {ToSet(table[s]) :
                                                     s \in DOMAIN table} }

\* A non-final state needs a transition; state ids are unique and not those
\* of the default states; validate: every state referred to exists.
Loadable(raw) ==
  /\ \A s \in raw.states \ raw.final : raw.trans[s] # <<>>
  /\ raw.states \cap DefaultStates = {}
  /\ \A s \in raw.states : \A i \in DOMAIN raw.trans[s] :
       raw.trans[s][i].target \in raw.states \cup DefaultStates

Load(raw) ==
  LET table == TransitionTable(raw)
  IN  [initial |-> raw.initial,
       states  |-> DOMAIN table,
       final   |-> raw.final \cup DefaultFinalStates,
       roles   |-> RolesIn(table),
       trans   |-> table,
       esms    |-> [s \in DOMAIN table |->
                      IF s \in raw.states THEN raw.esms[s] ELSE <<>>]]

-----------------------------------------------------------------------------
(* Parsed files.                                                           *)

\* <transition performative=.. from=.. to=.. target=..>
Trans(perf, from, to, target) == Transition({perf}, from, to, target)

\* <subprotocol name=".*" from=.. proxied_to=..>
AnySubprotocol(from, proxiedTo) ==
  [name |-> AllProtocols, from |-> from, proxiedTo |-> proxiedTo]

\* A file whose states, besides those that have transitions, are final.
File(final, trans, esms) ==
  LET all == DOMAIN trans \cup final
  IN  [initial |-> "1", states |-> all, final |-> final,
       trans |-> [s \in all |-> IF s \in DOMAIN trans THEN trans[s] ELSE <<>>],
       esms  |-> [s \in all |-> IF s \in DOMAIN esms THEN esms[s] ELSE <<>>]]
=============================================================================
