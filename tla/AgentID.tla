------------------------------- MODULE AgentID -------------------------------
(***************************************************************************)
(* Agent identifiers: their setters and their comparison                   *)
(* (src/src/message_generator/agent_id.cpp and agent_id.h).                *)
(*                                                                         *)
(* An identifier is a value here.  Texts are members of a set; what the    *)
(* setters ask of a text before they store it is the set Checked.          *)
(***************************************************************************)
EXTENDS Naturals, Sequences, SequencesExt, FiniteSets, FiniteSetsExt

CONSTANTS
  Checked,            \* the texts with no "(", ")", " " or NUL that do not
                      \* start with "@", "#", "-" or a digit; the empty text
                      \* is one of them (illegalWordChars, illegalWordStart)
  UndefinedName,      \* AgentID::UNDEFINED
  ComparisonDepth,    \* AgentID::msResolverComparisonDepth
  Nesting             \* how deep resolvers of resolvers nest at most

ASSUME AgentIDAssumption == /\ UndefinedName \in Checked
                            /\ ComparisonDepth \in Nat
                            /\ Nesting \in Nat

(***************************************************************************)
(* Construction.  A setter that throws leaves the object as it was: the    *)
(* caller's guard is membership in Checked.                                *)
(***************************************************************************)
Named(name) ==
  [name |-> name, addresses |-> <<>>, resolvers |-> <<>>, parameters |-> <<>>]

UndefinedAgent == Named(UndefinedName)

AddAddress(aid, address) ==
  IF address \in Checked THEN [aid EXCEPT !.addresses = Append(@, address)]
                         ELSE aid

AddAgentParam(aid, param) == [aid EXCEPT !.parameters = Append(@, param)]

(* The resolvers of its resolvers, depth levels below an identifier.       *)
Nested(aid, depth) ==
  LET nested[d \in 0..depth] ==
        IF d = 0 THEN {aid} ELSE UNION {Range(a.resolvers) : a \in nested[d - 1]}
  IN nested[depth]

(***************************************************************************)
(* Comparison of two lists: element by element of the first list, the      *)
(* first one equal to it that is left in the second is struck from both.   *)
(* (The search starts over then, but passes only elements that no equal    *)
(* one was left for.)  hits are the pairs of positions that hold equal     *)
(* elements, and Struck is what is struck from the second list for the     *)
(* first n of the first.                                                   *)
(***************************************************************************)
Struck(bs, hits, n) ==
  LET struck[i \in 0..n] ==
        IF i = 0 THEN {}
        ELSE LET equal == {j \in DOMAIN bs : <<i, j>> \in hits} \ struck[i - 1]
             IN struck[i - 1] \cup (IF equal = {} THEN {} ELSE {Min(equal)})
  IN struck[n]

NothingLeft(as, bs, hits) ==
  /\ Cardinality(Struck(bs, hits, Len(as))) = Len(as)
  /\ Cardinality(Struck(bs, hits, Len(as))) = Len(bs)

SameTexts(as, bs) ==
  NothingLeft(as, bs, {h \in (DOMAIN as) \X (DOMAIN bs) : as[h[1]] = bs[h[2]]})

(* A slip: the second list may keep elements the first has no equal for.   *)
CompareOneSided(a, b, depth) ==
  /\ a.name = b.name
  /\ SameTexts(a.addresses, b.addresses)
  /\ Range(a.parameters) \subseteq Range(b.parameters)

(* equal[d] holds the pairs of nested identifiers that are equal when they *)
(* are compared to depth d.                                                *)
CompareEqual(a, b, depth) ==
  LET equal[d \in 0..depth] ==
        {p \in Nested(a, depth - d) \X Nested(b, depth - d) :
           /\ p[1].name = p[2].name
           /\ SameTexts(p[1].addresses, p[2].addresses)
           /\ d > 0 =>
                NothingLeft(p[1].resolvers, p[2].resolvers,
                  {h \in (DOMAIN p[1].resolvers) \X (DOMAIN p[2].resolvers) :
                     <<p[1].resolvers[h[1]], p[2].resolvers[h[2]]>> \in equal[d - 1]})
           /\ SameTexts(p[1].parameters, p[2].parameters)}
  IN <<a, b>> \in equal[depth]

AgentEqual(a, b) == CompareEqual(a, b, ComparisonDepth)

SameAgents(as, bs) ==
  NothingLeft(as, bs,
    {h \in (DOMAIN as) \X (DOMAIN bs) : AgentEqual(as[h[1]], bs[h[2]])})

(***************************************************************************)
(* Lists of agents.  Every list refuses an agent equal to one it holds and *)
(* deletes the first one equal to the given agent.                         *)
(***************************************************************************)
Holds(aids, aid) == \E i \in DOMAIN aids : AgentEqual(aids[i], aid)

AppendAgent(aids, aid) == IF Holds(aids, aid) THEN aids ELSE Append(aids, aid)

PrependAgent(aids, aid) == IF Holds(aids, aid) THEN aids ELSE <<aid>> \o aids

DeleteAgent(aids, aid) ==
  IF Holds(aids, aid)
  THEN RemoveAt(aids, CHOOSE i \in DOMAIN aids :
                        /\ AgentEqual(aids[i], aid)
                        /\ \A j \in 1..(i - 1) : ~ AgentEqual(aids[j], aid))
  ELSE aids

AddResolver(aid, resolver) ==
  [aid EXCEPT !.resolvers = AppendAgent(@, resolver)]

DeleteResolver(aid, resolver) ==
  [aid EXCEPT !.resolvers = DeleteAgent(@, resolver)]

==============================================================================
