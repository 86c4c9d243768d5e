--------------------------- MODULE MCConversation ---------------------------
(***************************************************************************)
(* Instances of Conversation for TLC.  A configuration chooses protocols   *)
(* by name; their specifications are loaded from the shipped files, and    *)
(* the traffic is every message over the small sets it names.              *)
(***************************************************************************)
EXTENDS Conversation, TLC

CONSTANTS
  Sent,    \* the performatives that are really sent
  Routes   \* the <<protocol, sender, receivers>> that are really used

Files == INSTANCE Protocols
           WITH AllPerformatives <- Performative, AllProtocols <- Protocol

\* @@ makes TLC tabulate the functions instead of evaluating them anew at
\* every application.
Tabulated(f) == f @@ <<>>

Loaded ==
  Tabulated([p \in Protocol |->
    [Files!Load(Files!Shipped[p]) EXCEPT !.trans = Tabulated(@),
                                         !.esms  = Tabulated(@)]])

\* TLC keeps the value of Loaded but would expand a definition named in a
\* configuration file at every use; behind the LET its coverage statistics do
\* not follow the loader there either.
MCSpecification == LET loaded == Loaded IN loaded

\* Every performative, id and language on every route.
Sendable ==
  {[perf |-> perf, sender |-> route[2], receivers |-> route[3],
    proto |-> route[1], id |-> id, lang |-> lang] :
     perf \in Sent, route \in Routes, id \in ConversationId, lang \in Language}

MCTraffic == Sendable

\* An initiator and a broker, the broker and a provider; the provider may
\* also meddle with the brokering itself.
BrokeringRoutes ==
  { <<"brokering", "i", {"b"}>>, <<"brokering", "b", {"i"}>>,
    <<"brokering", "c", {"i"}>>,
    <<"request", "b", {"c"}>>, <<"request", "c", {"b"}>>,
    <<"inform", "b", {"c"}>> }

\* Two agents talk by two protocols; an answer may also go to a third, come
\* from it, or go to nobody.
PeerRoutes ==
  { <<"request", "a", {"b"}>>, <<"request", "b", {"a"}>>,
    <<"request", "b", {"a", "c"}>>, <<"request", "c", {"a"}>>,
    <<"request", "b", {}>>,
    <<"inform", "a", {"b"}>> }

\* An agent makes another propagate something to a third.
PropagateRoutes ==
  { <<"with_single_subprotocol_and_not_proxied", "i", {"b"}>>,
    <<"subscribe", "b", {"c"}>>, <<"subscribe", "c", {"b"}>> }

PropagatePlans == {-1, 1, 2}

\* A size_t has three values there: as one, -1 is 2, the greatest.
BrokeringPlans == {-1, 1}

\* Two agents, and nothing else.
PairRoutes ==
  {<<p, "a", {"b"}>> : p \in Protocol} \cup {<<p, "b", {"a"}>> : p \in Protocol}
=============================================================================
