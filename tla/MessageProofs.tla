---------------------------- MODULE MessageProofs ----------------------------
(***************************************************************************)
(* What holds of the exchange of messages for all texts, agents, contents  *)
(* and representations: the fields that are checked hold checked texts, a  *)
(* message that is read has the addressees of the one sent, and comparing  *)
(* identifiers compares the bags of what they hold.                        *)
(***************************************************************************)
EXTENDS MessageExchange, FiniteSetTheorems, TLAPS

-----------------------------------------------------------------------------
(* Numbers                                                                 *)

\* Among natural numbers there is a smallest one.
LEMMA Smallest ==
  ASSUME NEW T, T \subseteq Nat, T # {}
  PROVE  \E m \in T : \A k \in T : m <= k
<1> DEFINE Heads == {0..m : m \in T}
           R == StrictSubsetOrdering(Nat)
<1>1. IsWellFoundedOn(R, FiniteSubsetsOf(Nat))
  BY FS_StrictSubsetOrderingWellFounded
<1>2. \A m \in T : 0..m \in SUBSET Nat /\ IsFiniteSet(0..m)
  BY FS_Interval
<1>3. Heads \subseteq FiniteSubsetsOf(Nat)
  BY <1>2 DEF FiniteSubsetsOf
<1>4. PICK x \in Heads : \A y \in Heads : ~(<<y, x>> \in R)
  <2> Heads # {}
    OBVIOUS
  <2> HIDE DEF R, Heads
  <2> QED BY <1>1, <1>3, WFMin
<1>5. PICK m \in T : x = 0..m
  BY <1>4
<1>6. ASSUME NEW k \in T, k < m PROVE FALSE
  <2>1. 0..k \in Heads /\ 0..k \subseteq 0..m /\ 0..k # 0..m
    <3>1. m \in 0..m /\ m \notin 0..k
      BY <1>6
    <3> QED BY <1>6, <3>1
  <2>2. <<0..k, x>> \in R
    BY <1>2, <1>5, <2>1 DEF StrictSubsetOrdering
  <2> QED BY <1>4, <2>1, <2>2
<1> QED BY <1>6

\* A set with 0 and every successor is all of Nat.
LEMMA Induction ==
  ASSUME NEW T, 0 \in T, \A n \in Nat : n \in T => n + 1 \in T
  PROVE  Nat \subseteq T
<1> SUFFICES ASSUME NEW n \in Nat, n \notin T PROVE FALSE
  OBVIOUS
<1>1. PICK m \in Nat \ T : \A k \in Nat \ T : m <= k
  BY Smallest
<1>2. m - 1 \in Nat /\ m - 1 \in T
  BY <1>1
<1> QED BY <1>1, <1>2

\* Max of a finite set of numbers is its greatest element.
LEMMA Greatest ==
  ASSUME NEW s, s # {}, NEW n \in Nat, s \subseteq 1..n
  PROVE  Max(s) \in s /\ \A k \in s : k <= Max(s)
<1> DEFINE Bounds == {m \in Nat : \A k \in s : k <= m}
<1>1. PICK m \in Bounds : \A k \in Bounds : m <= k
  <2>1. n \in Bounds
    OBVIOUS
  <2> HIDE DEF Bounds
  <2> Bounds \subseteq Nat
    BY DEF Bounds
  <2> QED BY <2>1, Smallest
<1>2. m \in s
  <2> SUFFICES ASSUME m \notin s PROVE FALSE
    OBVIOUS
  <2>1. \A k \in s : k \in 1..n /\ k <= m /\ k # m
    BY <1>1
  <2>2. m \in Nat /\ \A k \in s : k <= m - 1
    BY <1>1, <2>1
  <2>3. m - 1 \in Bounds
    <3>1. PICK k \in s : k \in 1..n /\ k <= m - 1
      BY <2>1, <2>2
    <3>2. m - 1 \in Nat
      BY <2>2, <3>1
    <3> QED BY <2>2, <3>2
  <2> HIDE DEF Bounds
  <2> QED BY <1>1, <2>2, <2>3
<1>3. Max(s) \in s /\ \A k \in s : Max(s) >= k
  BY <1>1, <1>2 DEF Max
<1> QED BY <1>3

-----------------------------------------------------------------------------
(* Functions that are defined by the value before.                         *)

Smallests(s) == IF s = {} THEN {} ELSE {Min(s)}

\* The operations that lists and messages are folded with, and those of the
\* functions Struck and Nested.
Step(kind, arg, last, n) ==
  CASE kind = "prepend" -> PrependAgent(last, arg[n])
    [] kind = "bits"    -> BuildParameter(last, arg[n])
    [] kind = "text"    -> StoreStringItem(last, arg[n])
    [] kind = "xml"     -> ParseParameter(last, arg[n])
    [] kind = "urls"    -> ReadUrl(last, arg[n])
    [] kind = "append"  -> AppendAgent(last, arg[n])
    [] kind = "label"   -> ParseLabelled(last, arg[n])
    [] kind = "struck"  -> last \cup Smallests(arg[n] \ last)
    [] kind = "nested"  -> UNION {Range(b.resolvers) : b \in last}

Chain(kind, base, arg, n, c) ==
  c = [k \in 0..n |-> IF k = 0 THEN base ELSE Step(kind, arg, c[k - 1], k)]

\* The functions of FoldLeft, over the sets of positions.
Folding(kind, base, arg, n, g) ==
  g = [t \in SUBSET (1..n) |->
         IF t = {} THEN base ELSE Step(kind, arg, g[t \ {Max(t)}], Max(t))]

LEMMA FoldingExists ==
  ASSUME NEW kind, NEW base, NEW arg, NEW n \in Nat
  PROVE  \E g : Folding(kind, base, arg, n, g)
<1> DEFINE T == {k \in Nat : \E g : Folding(kind, base, arg, k, g)}
<1>1. 0 \in T
  <2>1. \A t \in SUBSET (1..0) : t = {}
    OBVIOUS
  <2>2. Folding(kind, base, arg, 0, [t \in SUBSET (1..0) |-> base])
    BY <2>1 DEF Folding
  <2> QED BY <2>2
<1>2. ASSUME NEW k \in Nat, k \in T PROVE k + 1 \in T
  <2>1. PICK g : Folding(kind, base, arg, k, g)
    BY <1>2
  <2> DEFINE m == k + 1
             h == [t \in SUBSET (1..m) |->
                     IF m \in t THEN Step(kind, arg, g[t \ {m}], m) ELSE g[t]]
  <2>2. ASSUME NEW t \in SUBSET (1..m)
        PROVE  h[t] = IF t = {} THEN base ELSE Step(kind, arg, h[t \ {Max(t)}], Max(t))
    <3>1. CASE m \in t
      <4>1. Max(t) = m
        <5>1. t # {} /\ m \in Nat
          BY <3>1
        <5>2. Max(t) \in t /\ \A j \in t : j <= Max(t)
          BY <5>1, Greatest
        <5>3. Max(t) \in 1..m /\ m <= Max(t)
          BY <3>1, <5>2
        <5> QED BY <5>3
      <4>2. t \ {m} \in SUBSET (1..m) /\ m \notin t \ {m} /\ t # {}
        BY <3>1
      <4>3. h[t] = Step(kind, arg, g[t \ {m}], m) /\ h[t \ {m}] = g[t \ {m}]
        BY <3>1, <4>2
      <4> HIDE DEF h
      <4> QED BY <4>1, <4>2, <4>3
    <3>2. CASE m \notin t
      <4>1. t \in SUBSET (1..k)
        BY <3>2
      <4>2. h[t] = g[t]
        BY <3>2
      <4>3. g[t] = IF t = {} THEN base ELSE Step(kind, arg, g[t \ {Max(t)}], Max(t))
        BY <2>1, <4>1 DEF Folding
      <4>4. t # {} => h[t \ {Max(t)}] = g[t \ {Max(t)}]
        <5>1. t \ {Max(t)} \in SUBSET (1..m) /\ m \notin t \ {Max(t)}
          BY <3>2
        <5> QED BY <5>1
      <4> HIDE DEF h
      <4> QED BY <4>2, <4>3, <4>4
    <3> QED BY <3>1, <3>2
  <2>3. h = [t \in SUBSET (1..m) |-> h[t]]
    OBVIOUS
  <2>4. Folding(kind, base, arg, m, h)
    <3> HIDE DEF h
    <3> QED BY <2>2, <2>3, Zenon DEF Folding
  <2> HIDE DEF h
  <2> QED BY <2>4
<1>3. Nat \subseteq T
  <2> HIDE DEF T
  <2> QED BY <1>1, <1>2, Induction
<1> QED BY <1>3

\* What a fold returns is the last of a chain.
LEMMA FoldingChain ==
  ASSUME NEW kind, NEW base, NEW arg, NEW n \in Nat, NEW g,
         Folding(kind, base, arg, n, g)
  PROVE  \E c : Chain(kind, base, arg, n, c) /\ c[n] = g[1..n]
<1> DEFINE c == [k \in 0..n |-> g[1..k]]
<1>1. ASSUME NEW k \in 0..n
      PROVE  c[k] = IF k = 0 THEN base ELSE Step(kind, arg, c[k - 1], k)
  <2>1. 1..k \in SUBSET (1..n) /\ (k = 0 => 1..k = {}) /\ (k # 0 => k \in 1..k)
    OBVIOUS
  <2>2. g[1..k] = IF 1..k = {} THEN base
                  ELSE Step(kind, arg, g[(1..k) \ {Max(1..k)}], Max(1..k))
    BY <2>1 DEF Folding
  <2>3. k # 0 => Max(1..k) = k
    <3> SUFFICES ASSUME k # 0 PROVE Max(1..k) = k
      OBVIOUS
    <3>1. Max(1..k) \in 1..k /\ \A j \in 1..k : j <= Max(1..k)
      BY <2>1, Greatest
    <3> QED BY <2>1, <3>1
  <2>4. k # 0 => (1..k) \ {k} = 1..(k - 1) /\ k - 1 \in 0..n
    OBVIOUS
  <2>5. k # 0 => c[k - 1] = g[1..(k - 1)]
    BY <2>4
  <2>6. c[k] = g[1..k]
    OBVIOUS
  <2> HIDE DEF c
  <2> QED BY <2>1, <2>2, <2>3, <2>4, <2>5, <2>6
<1>2. c = [k \in 0..n |-> c[k]] /\ c[n] = g[1..n]
  OBVIOUS
<1>3. Chain(kind, base, arg, n, c)
  <2> HIDE DEF c
  <2> QED BY <1>1, <1>2, Zenon DEF Chain
<1> HIDE DEF c
<1> QED BY <1>2, <1>3

IsList(s) == Len(s) \in Nat /\ s = [i \in 1..Len(s) |-> s[i]]

\* FoldLeft applies its operation to the elements one after the other.
LEMMA FoldPrepend ==
  ASSUME NEW base, NEW s, IsList(s)
  PROVE  \E c : /\ Chain("prepend", base, s, Len(s), c)
                /\ FoldLeft(PrependAgent, base, s) = c[Len(s)]
<1> DEFINE n == Len(s)
           E(g) == [t \in SUBSET (1..n) |->
                      IF t = {} THEN base ELSE PrependAgent(g[t \ {Max(t)}], s[Max(t)])]
           H == CHOOSE g : g = E(g)
<1>1. n \in Nat /\ DOMAIN s = 1..n
  BY DEF IsList
<1>2. FoldLeft(PrependAgent, base, s) = H[1..n]
  BY <1>1 DEF FoldLeft, MapThenFoldSet
<1>3. \A g : Folding("prepend", base, s, n, g) <=> g = E(g)
  <2>1. \A x, k : Step("prepend", s, x, k) = PrependAgent(x, s[k])
    BY DEF Step
  <2> QED BY <2>1 DEF Folding
<1>4. PICK g : g = E(g)
  <2> HIDE DEF E
  <2> QED BY <1>1, <1>3, FoldingExists
<1>5. Folding("prepend", base, s, n, H)
  <2>1. H = E(H)
    <3> HIDE DEF E
    <3> QED BY <1>4
  <2> HIDE DEF E, H
  <2> QED BY <1>3, <2>1
<1> HIDE DEF H, E
<1> QED BY <1>1, <1>2, <1>5, FoldingChain

LEMMA FoldBits ==
  ASSUME NEW base, NEW s, IsList(s)
  PROVE  \E c : /\ Chain("bits", base, s, Len(s), c)
                /\ FoldLeft(BuildParameter, base, s) = c[Len(s)]
<1> DEFINE n == Len(s)
           E(g) == [t \in SUBSET (1..n) |->
                      IF t = {} THEN base ELSE BuildParameter(g[t \ {Max(t)}], s[Max(t)])]
           H == CHOOSE g : g = E(g)
<1>1. n \in Nat /\ DOMAIN s = 1..n
  BY DEF IsList
<1>2. FoldLeft(BuildParameter, base, s) = H[1..n]
  BY <1>1 DEF FoldLeft, MapThenFoldSet
<1>3. \A g : Folding("bits", base, s, n, g) <=> g = E(g)
  <2>1. \A x, k : Step("bits", s, x, k) = BuildParameter(x, s[k])
    BY DEF Step
  <2> QED BY <2>1 DEF Folding
<1>4. PICK g : g = E(g)
  <2> HIDE DEF E
  <2> QED BY <1>1, <1>3, FoldingExists
<1>5. Folding("bits", base, s, n, H)
  <2>1. H = E(H)
    <3> HIDE DEF E
    <3> QED BY <1>4
  <2> HIDE DEF E, H
  <2> QED BY <1>3, <2>1
<1> HIDE DEF H, E
<1> QED BY <1>1, <1>2, <1>5, FoldingChain

LEMMA FoldText ==
  ASSUME NEW base, NEW s, IsList(s)
  PROVE  \E c : /\ Chain("text", base, s, Len(s), c)
                /\ FoldLeft(StoreStringItem, base, s) = c[Len(s)]
<1> DEFINE n == Len(s)
           E(g) == [t \in SUBSET (1..n) |->
                      IF t = {} THEN base ELSE StoreStringItem(g[t \ {Max(t)}], s[Max(t)])]
           H == CHOOSE g : g = E(g)
<1>1. n \in Nat /\ DOMAIN s = 1..n
  BY DEF IsList
<1>2. FoldLeft(StoreStringItem, base, s) = H[1..n]
  BY <1>1 DEF FoldLeft, MapThenFoldSet
<1>3. \A g : Folding("text", base, s, n, g) <=> g = E(g)
  <2>1. \A x, k : Step("text", s, x, k) = StoreStringItem(x, s[k])
    BY DEF Step
  <2> QED BY <2>1 DEF Folding
<1>4. PICK g : g = E(g)
  <2> HIDE DEF E
  <2> QED BY <1>1, <1>3, FoldingExists
<1>5. Folding("text", base, s, n, H)
  <2>1. H = E(H)
    <3> HIDE DEF E
    <3> QED BY <1>4
  <2> HIDE DEF E, H
  <2> QED BY <1>3, <2>1
<1> HIDE DEF H, E
<1> QED BY <1>1, <1>2, <1>5, FoldingChain

LEMMA FoldXML ==
  ASSUME NEW base, NEW s, IsList(s)
  PROVE  \E c : /\ Chain("xml", base, s, Len(s), c)
                /\ FoldLeft(ParseParameter, base, s) = c[Len(s)]
<1> DEFINE n == Len(s)
           E(g) == [t \in SUBSET (1..n) |->
                      IF t = {} THEN base ELSE ParseParameter(g[t \ {Max(t)}], s[Max(t)])]
           H == CHOOSE g : g = E(g)
<1>1. n \in Nat /\ DOMAIN s = 1..n
  BY DEF IsList
<1>2. FoldLeft(ParseParameter, base, s) = H[1..n]
  BY <1>1 DEF FoldLeft, MapThenFoldSet
<1>3. \A g : Folding("xml", base, s, n, g) <=> g = E(g)
  <2>1. \A x, k : Step("xml", s, x, k) = ParseParameter(x, s[k])
    BY DEF Step
  <2> QED BY <2>1 DEF Folding
<1>4. PICK g : g = E(g)
  <2> HIDE DEF E
  <2> QED BY <1>1, <1>3, FoldingExists
<1>5. Folding("xml", base, s, n, H)
  <2>1. H = E(H)
    <3> HIDE DEF E
    <3> QED BY <1>4
  <2> HIDE DEF E, H
  <2> QED BY <1>3, <2>1
<1> HIDE DEF H, E
<1> QED BY <1>1, <1>2, <1>5, FoldingChain

LEMMA FoldUrls ==
  ASSUME NEW base, NEW s, IsList(s)
  PROVE  \E c : /\ Chain("urls", base, s, Len(s), c)
                /\ FoldLeft(ReadUrl, base, s) = c[Len(s)]
<1> DEFINE n == Len(s)
           E(g) == [t \in SUBSET (1..n) |->
                      IF t = {} THEN base ELSE ReadUrl(g[t \ {Max(t)}], s[Max(t)])]
           H == CHOOSE g : g = E(g)
<1>1. n \in Nat /\ DOMAIN s = 1..n
  BY DEF IsList
<1>2. FoldLeft(ReadUrl, base, s) = H[1..n]
  BY <1>1 DEF FoldLeft, MapThenFoldSet
<1>3. \A g : Folding("urls", base, s, n, g) <=> g = E(g)
  <2>1. \A x, k : Step("urls", s, x, k) = ReadUrl(x, s[k])
    BY DEF Step
  <2> QED BY <2>1 DEF Folding
<1>4. PICK g : g = E(g)
  <2> HIDE DEF E
  <2> QED BY <1>1, <1>3, FoldingExists
<1>5. Folding("urls", base, s, n, H)
  <2>1. H = E(H)
    <3> HIDE DEF E
    <3> QED BY <1>4
  <2> HIDE DEF E, H
  <2> QED BY <1>3, <2>1
<1> HIDE DEF H, E
<1> QED BY <1>1, <1>2, <1>5, FoldingChain

LEMMA FoldAppend ==
  ASSUME NEW base, NEW s, IsList(s)
  PROVE  \E c : /\ Chain("append", base, s, Len(s), c)
                /\ FoldLeft(AppendAgent, base, s) = c[Len(s)]
<1> DEFINE n == Len(s)
           E(g) == [t \in SUBSET (1..n) |->
                      IF t = {} THEN base ELSE AppendAgent(g[t \ {Max(t)}], s[Max(t)])]
           H == CHOOSE g : g = E(g)
<1>1. n \in Nat /\ DOMAIN s = 1..n
  BY DEF IsList
<1>2. FoldLeft(AppendAgent, base, s) = H[1..n]
  BY <1>1 DEF FoldLeft, MapThenFoldSet
<1>3. \A g : Folding("append", base, s, n, g) <=> g = E(g)
  <2>1. \A x, k : Step("append", s, x, k) = AppendAgent(x, s[k])
    BY DEF Step
  <2> QED BY <2>1 DEF Folding
<1>4. PICK g : g = E(g)
  <2> HIDE DEF E
  <2> QED BY <1>1, <1>3, FoldingExists
<1>5. Folding("append", base, s, n, H)
  <2>1. H = E(H)
    <3> HIDE DEF E
    <3> QED BY <1>4
  <2> HIDE DEF E, H
  <2> QED BY <1>3, <2>1
<1> HIDE DEF H, E
<1> QED BY <1>1, <1>2, <1>5, FoldingChain

LEMMA FoldLabel ==
  ASSUME NEW base, NEW s, IsList(s)
  PROVE  \E c : /\ Chain("label", base, s, Len(s), c)
                /\ FoldLeft(ParseLabelled, base, s) = c[Len(s)]
<1> DEFINE n == Len(s)
           E(g) == [t \in SUBSET (1..n) |->
                      IF t = {} THEN base ELSE ParseLabelled(g[t \ {Max(t)}], s[Max(t)])]
           H == CHOOSE g : g = E(g)
<1>1. n \in Nat /\ DOMAIN s = 1..n
  BY DEF IsList
<1>2. FoldLeft(ParseLabelled, base, s) = H[1..n]
  BY <1>1 DEF FoldLeft, MapThenFoldSet
<1>3. \A g : Folding("label", base, s, n, g) <=> g = E(g)
  <2>1. \A x, k : Step("label", s, x, k) = ParseLabelled(x, s[k])
    BY DEF Step
  <2> QED BY <2>1 DEF Folding
<1>4. PICK g : g = E(g)
  <2> HIDE DEF E
  <2> QED BY <1>1, <1>3, FoldingExists
<1>5. Folding("label", base, s, n, H)
  <2>1. H = E(H)
    <3> HIDE DEF E
    <3> QED BY <1>4
  <2> HIDE DEF E, H
  <2> QED BY <1>3, <2>1
<1> HIDE DEF H, E
<1> QED BY <1>1, <1>2, <1>5, FoldingChain

\* One value of a chain after the other.
LEMMA ChainStart ==
  ASSUME NEW kind, NEW base, NEW arg, NEW n \in Nat, NEW c,
         Chain(kind, base, arg, n, c)
  PROVE  c[0] = base
BY DEF Chain

LEMMA ChainAt ==
  ASSUME NEW kind, NEW base, NEW arg, NEW n \in Nat, NEW c,
         Chain(kind, base, arg, n, c)
  PROVE  /\ c[0] = base
         /\ \A k \in 1..n : k - 1 \in Nat /\ c[k] = Step(kind, arg, c[k - 1], k)
<1>1. 0 \in 0..n /\ \A k \in 1..n : k \in 0..n /\ k # 0 /\ k - 1 \in Nat
  OBVIOUS
<1> QED BY <1>1, Zenon DEF Chain

\* Induction up to a number.
LEMMA InductionTo ==
  ASSUME NEW n \in Nat, NEW T, 0 \in T, \A k \in 1..n : k - 1 \in T => k \in T
  PROVE  n \in T
<1> DEFINE U == {k \in Nat : k <= n => k \in T}
<1>1. 0 \in U
  OBVIOUS
<1>2. ASSUME NEW k \in Nat, k \in U PROVE k + 1 \in U
  <2> SUFFICES ASSUME k + 1 <= n PROVE k + 1 \in T
    OBVIOUS
  <2>1. k \in T /\ k + 1 \in 1..n /\ (k + 1) - 1 = k
    BY <1>2
  <2> QED BY <2>1
<1>3. Nat \subseteq U
  <2> HIDE DEF U
  <2> QED BY <1>1, <1>2, Induction
<1> QED BY <1>3

\* Chains that start alike stay alike, however long they are.
LEMMA ChainExists ==
  ASSUME NEW kind, NEW base, NEW arg, NEW n \in Nat
  PROVE  \E c : Chain(kind, base, arg, n, c)
BY FoldingExists, FoldingChain

LEMMA ChainsAgree ==
  ASSUME NEW kind, NEW base, NEW arg, NEW n \in Nat, NEW m \in Nat, n <= m,
         NEW c, Chain(kind, base, arg, n, c), NEW e, Chain(kind, base, arg, m, e)
  PROVE  c[n] = e[n]
<1> DEFINE T == {k \in 0..n : c[k] = e[k]}
<1>1. 0 \in T
  <2>1. c[0] = base /\ e[0] = base
    BY ChainStart
  <2> QED BY <2>1
<1>2. ASSUME NEW k \in 1..n, k - 1 \in T PROVE k \in T
  <2>1. k \in 1..m /\ k \in 0..n
    OBVIOUS
  <2>2. c[k] = Step(kind, arg, c[k - 1], k) /\ e[k] = Step(kind, arg, e[k - 1], k)
    BY <2>1, ChainAt
  <2> QED BY <1>2, <2>1, <2>2
<1>3. n \in T
  <2> HIDE DEF T
  <2> QED BY <1>1, <1>2, InductionTo
<1> QED BY <1>3

-----------------------------------------------------------------------------
(* Identifiers at a depth below an identifier.                             *)

LEMMA NestedIs ==
  ASSUME NEW a, NEW n \in Nat
  PROVE  \E c : Chain("nested", {a}, a, n, c) /\ Nested(a, n) = c[n]
<1> DEFINE E(f) == [d \in 0..n |-> IF d = 0 THEN {a}
                                   ELSE UNION {Range(b.resolvers) : b \in f[d - 1]}]
           H == CHOOSE f : f = E(f)
<1>1. Nested(a, n) = H[n]
  BY DEF Nested
<1>2. \A f : Chain("nested", {a}, a, n, f) <=> f = E(f)
  <2>1. \A x, k : Step("nested", a, x, k) = UNION {Range(b.resolvers) : b \in x}
    BY DEF Step
  <2> QED BY <2>1 DEF Chain
<1>3. PICK f : f = E(f)
  <2> HIDE DEF E
  <2> QED BY <1>2, ChainExists
<1>4. Chain("nested", {a}, a, n, H)
  <2>1. H = E(H)
    <3> HIDE DEF E
    <3> QED BY <1>3
  <2> HIDE DEF E, H
  <2> QED BY <1>2, <2>1
<1> HIDE DEF H, E
<1> QED BY <1>1, <1>4

LEMMA NestedSelf ==
  ASSUME NEW a
  PROVE  Nested(a, 0) = {a}
<1>1. PICK c : Chain("nested", {a}, a, 0, c) /\ Nested(a, 0) = c[0]
  BY NestedIs
<1> QED BY <1>1, ChainStart

LEMMA NestedNext ==
  ASSUME NEW a, NEW n \in Nat
  PROVE  Nested(a, n + 1) = UNION {Range(b.resolvers) : b \in Nested(a, n)}
<1>1. PICK c : Chain("nested", {a}, a, n, c) /\ Nested(a, n) = c[n]
  BY NestedIs
<1>2. PICK e : Chain("nested", {a}, a, n + 1, e) /\ Nested(a, n + 1) = e[n + 1]
  BY NestedIs
<1>3. c[n] = e[n]
  BY <1>1, <1>2, ChainsAgree
<1>4. e[n + 1] = Step("nested", a, e[n], n + 1)
  <2>1. PICK k : k = n + 1
    OBVIOUS
  <2>2. k \in Nat /\ k \in 1..k /\ k - 1 = n
    BY <2>1
  <2>3. Chain("nested", {a}, a, k, e)
    BY <1>2, <2>1
  <2>4. PICK base : base = {a}
    OBVIOUS
  <2>5. \A j \in 1..k : e[j] = Step("nested", a, e[j - 1], j)
    BY <2>2, <2>3, <2>4, ChainAt
  <2> QED BY <2>1, <2>2, <2>5
<1> QED BY <1>1, <1>2, <1>3, <1>4 DEF Step

\* What is one level deeper.
LEMMA NestedBelow ==
  ASSUME NEW a, NEW n \in Nat, NEW b \in Nested(a, n)
  PROVE  Range(b.resolvers) \subseteq Nested(a, n + 1)
BY NestedNext

\* Sets of identifiers that hold an identifier, its resolvers, and so on,
\* hold all that is nested in it.
LEMMA Layers ==
  ASSUME NEW a, NEW n \in Nat, NEW L, a \in L[0],
         \A k \in 0..n : \A b \in L[k] : k # n => Range(b.resolvers) \subseteq L[k + 1]
  PROVE  \A k \in 0..n : Nested(a, k) \subseteq L[k]
<1> DEFINE T == {k \in Nat : k <= n => Nested(a, k) \subseteq L[k]}
<1>1. 0 \in T
  BY NestedSelf
<1>2. ASSUME NEW k \in Nat, k \in T PROVE k + 1 \in T
  <2> SUFFICES ASSUME k + 1 <= n PROVE Nested(a, k + 1) \subseteq L[k + 1]
    OBVIOUS
  <2>1. k \in 0..n /\ k # n /\ Nested(a, k) \subseteq L[k]
    BY <1>2
  <2>2. \A b \in Nested(a, k) : Range(b.resolvers) \subseteq L[k + 1]
    BY <2>1
  <2>3. Nested(a, k + 1) = UNION {Range(b.resolvers) : b \in Nested(a, k)}
    BY NestedNext
  <2> HIDE DEF T
  <2> QED BY <2>2, <2>3
<1>3. Nat \subseteq T
  <2> HIDE DEF T
  <2> QED BY <1>1, <1>2, Induction
<1> QED BY <1>3

-----------------------------------------------------------------------------
(* Functions that go down the resolvers of an identifier: what each of     *)
(* them is at a depth, last being what it is one level deeper.             *)

EqualPairs(x, y, m, d, last) ==
  {p \in Nested(x, m - d) \X Nested(y, m - d) :
     /\ p[1].name = p[2].name
     /\ SameTexts(p[1].addresses, p[2].addresses)
     /\ d > 0 =>
          NothingLeft(p[1].resolvers, p[2].resolvers,
            {h \in (DOMAIN p[1].resolvers) \X (DOMAIN p[2].resolvers) :
               <<p[1].resolvers[h[1]], p[2].resolvers[h[2]]>> \in last})
     /\ SameTexts(p[1].parameters, p[2].parameters)}

AlikePairs(x, y, m, d, last) ==
  {p \in (Nested(x, m - d) \cup Nested(y, m - d)) \X (Nested(x, m - d) \cup Nested(y, m - d)) :
     /\ p[1].name = p[2].name
     /\ SameTextBag(p[1].addresses, p[2].addresses)
     /\ d > 0 => SameBag(p[1].resolvers, p[2].resolvers, last)
     /\ SameTextBag(p[1].parameters, p[2].parameters)}

WrittenBelow(x, m, d, last) ==
  [a \in Nested(x, m - d) |->
     [a EXCEPT !.resolvers = IF d > 0 THEN [i \in DOMAIN @ |-> last[@[i]]] ELSE <<>>]]

BuiltBelow(x, m, d, last) ==
  [a \in Nested(x, m - d) |->
     [a EXCEPT
        !.resolvers  = IF d > 0
                       THEN FoldLeft(AppendAgent, <<>>, [i \in DOMAIN @ |-> last[@[i]]])
                       ELSE <<>>,
        !.parameters = [i \in DOMAIN @ |-> ReadParam(@[i])]]]

ElementBelow(x, m, d, last) ==
  [a \in Nested(x, m - d) |->
     [a EXCEPT !.resolvers  = IF d > 0 THEN [i \in DOMAIN @ |-> last[@[i]]] ELSE <<>>,
               !.parameters = GetUserdefinedParameters(@)]]

ParsedBelow(x, m, d, last) ==
  [a \in Nested(x, m - d) |->
     [ name       |-> AsAttribute[a.name],
       addresses  |-> [i \in DOMAIN a.addresses |-> AsAttribute[a.addresses[i]]],
       resolvers  |-> IF d > 0 THEN [i \in DOMAIN a.resolvers |-> last[a.resolvers[i]]]
                               ELSE <<>>,
       parameters |-> FoldLeft(ParseLabelled, <<>>, a.parameters) ]]

Level(kind, x, y, m, d, last) ==
  CASE kind = "equal"   -> EqualPairs(x, y, m, d, last)
    [] kind = "alike"   -> AlikePairs(x, y, m, d, last)
    [] kind = "written" -> WrittenBelow(x, m, d, last)
    [] kind = "built"   -> BuiltBelow(x, m, d, last)
    [] kind = "element" -> ElementBelow(x, m, d, last)
    [] kind = "parsed"  -> ParsedBelow(x, m, d, last)

Kind == {"equal", "alike", "written", "built", "element", "parsed"}

Levels(kind, x, y, m, n, g) ==
  g = [d \in 0..n |-> Level(kind, x, y, m, d, g[d - 1])]

\* At the deepest level nothing is asked of a deeper one.
LEMMA DeepestLevel ==
  ASSUME NEW kind \in Kind, NEW x, NEW y, NEW m, NEW u, NEW v
  PROVE  Level(kind, x, y, m, 0, u) = Level(kind, x, y, m, 0, v)
<1>0. ~ (0 > 0)
  OBVIOUS
<1>1. EqualPairs(x, y, m, 0, u) = EqualPairs(x, y, m, 0, v)
  BY <1>0, Zenon DEF EqualPairs
<1>2. WrittenBelow(x, m, 0, u) = WrittenBelow(x, m, 0, v)
  BY <1>0 DEF WrittenBelow
<1>3. BuiltBelow(x, m, 0, u) = BuiltBelow(x, m, 0, v)
  BY <1>0 DEF BuiltBelow
<1>4. ElementBelow(x, m, 0, u) = ElementBelow(x, m, 0, v)
  BY <1>0 DEF ElementBelow
<1>5. ParsedBelow(x, m, 0, u) = ParsedBelow(x, m, 0, v)
  BY <1>0 DEF ParsedBelow
<1>6. AlikePairs(x, y, m, 0, u) = AlikePairs(x, y, m, 0, v)
  BY <1>0, Zenon DEF AlikePairs
<1> QED BY <1>1, <1>2, <1>3, <1>4, <1>5, <1>6 DEF Level, Kind

LEMMA LevelsExist ==
  ASSUME NEW kind \in Kind, NEW x, NEW y, NEW m, NEW n \in Nat
  PROVE  \E g : Levels(kind, x, y, m, n, g)
<1> DEFINE T == {k \in Nat : \E g : Levels(kind, x, y, m, k, g)}
<1>1. 0 \in T
  <2> DEFINE g == [d \in 0..0 |-> Level(kind, x, y, m, 0, {})]
  <2>1. g = [d \in 0..0 |-> Level(kind, x, y, m, d, g[d - 1])]
    <3>1. \A d \in 0..0 : d = 0
      OBVIOUS
    <3>2. \A d \in 0..0 : g[d] = Level(kind, x, y, m, d, g[d - 1])
      <4>1. g[0] = Level(kind, x, y, m, 0, {})
        OBVIOUS
      <4>2. Level(kind, x, y, m, 0, {}) = Level(kind, x, y, m, 0, g[0 - 1])
        BY DeepestLevel
      <4> HIDE DEF g
      <4> QED BY <3>1, <4>1, <4>2
    <3>3. g = [d \in 0..0 |-> g[d]]
      OBVIOUS
    <3> HIDE DEF g
    <3> QED BY <3>2, <3>3, Zenon
  <2>2. Levels(kind, x, y, m, 0, g)
    BY <2>1 DEF Levels
  <2> HIDE DEF g
  <2> QED BY <2>2
<1>2. ASSUME NEW k \in Nat, k \in T PROVE k + 1 \in T
  <2>1. PICK g : Levels(kind, x, y, m, k, g)
    BY <1>2
  <2> DEFINE l == k + 1
             h == [d \in 0..l |-> IF d = l THEN Level(kind, x, y, m, l, g[l - 1]) ELSE g[d]]
  <2>2. ASSUME NEW d \in 0..l
        PROVE  h[d] = Level(kind, x, y, m, d, h[d - 1])
    <3>1. CASE d = l
      <4>1. h[d] = Level(kind, x, y, m, l, g[l - 1]) /\ h[l - 1] = g[l - 1]
        BY <3>1
      <4> HIDE DEF h
      <4> QED BY <3>1, <4>1
    <3>2. CASE d # l
      <4>1. d \in 0..k
        BY <3>2
      <4>2. g[d] = Level(kind, x, y, m, d, g[d - 1])
        BY <2>1, <4>1 DEF Levels
      <4>3. h[d] = g[d]
        BY <3>2
      <4>4. d # 0 => h[d - 1] = g[d - 1]
        <5>1. d # 0 => d - 1 \in 0..l /\ d - 1 # l
          BY <4>1
        <5> QED BY <5>1
      <4>5. Level(kind, x, y, m, 0, g[0 - 1]) = Level(kind, x, y, m, 0, h[0 - 1])
        BY DeepestLevel
      <4> HIDE DEF h
      <4>6. CASE d = 0
        BY <4>2, <4>3, <4>5, <4>6
      <4>7. CASE d # 0
        BY <4>2, <4>3, <4>4, <4>7
      <4> QED BY <4>6, <4>7
    <3> QED BY <3>1, <3>2
  <2>3. h = [d \in 0..l |-> h[d]]
    OBVIOUS
  <2>4. Levels(kind, x, y, m, l, h)
    <3> HIDE DEF h
    <3> QED BY <2>2, <2>3, Zenon DEF Levels
  <2> HIDE DEF h
  <2> QED BY <2>4
<1>3. Nat \subseteq T
  <2> HIDE DEF T
  <2> QED BY <1>1, <1>2, Induction
<1> QED BY <1>3


\* The functions of the model are such functions.
LEMMA CompareUnfolds ==
  ASSUME NEW a, NEW b, NEW m \in Nat
  PROVE  \E g : /\ Levels("equal", a, b, m, m, g)
                /\ CompareEqual(a, b, m) <=> <<a, b>> \in g[m]
<1> DEFINE E(f) == [d \in 0..m |-> Level("equal", a, b, m, d, f[d - 1])]
           H == CHOOSE f : f = E(f)
<1>1. CompareEqual(a, b, m) <=> <<a, b>> \in H[m]
  BY Zenon DEF CompareEqual, Level, EqualPairs
<1>2. PICK g : Levels("equal", a, b, m, m, g)
  <2>1. m \in Nat /\ "equal" \in Kind
    BY AgentIDAssumption, BitefficientAssumption DEF Kind
  <2> QED BY <2>1, LevelsExist
<1>3. H = E(H)
  <2>1. g = E(g)
    BY <1>2 DEF Levels
  <2> HIDE DEF E
  <2> QED BY <2>1
<1>4. Levels("equal", a, b, m, m, H)
  <2> HIDE DEF H
  <2> QED BY <1>3 DEF Levels
<1> HIDE DEF H
<1> QED BY <1>1, <1>4

LEMMA WrittenUnfolds ==
  ASSUME NEW a, NEW m \in Nat
  PROVE  \E g : /\ Levels("written", a, a, m, m, g)
                /\ WrittenAgent(a, m) = g[m][a]
<1> DEFINE E(f) == [d \in 0..m |-> Level("written", a, a, m, d, f[d - 1])]
           H == CHOOSE f : f = E(f)
<1>1. WrittenAgent(a, m) = H[m][a]
  BY Zenon DEF WrittenAgent, Level, WrittenBelow
<1>2. PICK g : Levels("written", a, a, m, m, g)
  <2>1. m \in Nat /\ "written" \in Kind
    BY AgentIDAssumption, BitefficientAssumption DEF Kind
  <2> QED BY <2>1, LevelsExist
<1>3. H = E(H)
  <2>1. g = E(g)
    BY <1>2 DEF Levels
  <2> HIDE DEF E
  <2> QED BY <2>1
<1>4. Levels("written", a, a, m, m, H)
  <2> HIDE DEF H
  <2> QED BY <1>3 DEF Levels
<1> HIDE DEF H
<1> QED BY <1>1, <1>4

LEMMA BuiltUnfolds ==
  ASSUME NEW a
  PROVE  \E g : /\ Levels("built", a, a, ResolverDepth, ResolverDepth, g)
                /\ BuildAgentID(a) = g[ResolverDepth][a]
<1> DEFINE E(f) == [d \in 0..ResolverDepth |-> Level("built", a, a, ResolverDepth, d, f[d - 1])]
           H == CHOOSE f : f = E(f)
<1>1. BuildAgentID(a) = H[ResolverDepth][a]
  BY Zenon DEF BuildAgentID, Level, BuiltBelow
<1>2. PICK g : Levels("built", a, a, ResolverDepth, ResolverDepth, g)
  <2>1. ResolverDepth \in Nat /\ "built" \in Kind
    BY AgentIDAssumption, BitefficientAssumption DEF Kind
  <2> QED BY <2>1, LevelsExist
<1>3. H = E(H)
  <2>1. g = E(g)
    BY <1>2 DEF Levels
  <2> HIDE DEF E
  <2> QED BY <2>1
<1>4. Levels("built", a, a, ResolverDepth, ResolverDepth, H)
  <2> HIDE DEF H
  <2> QED BY <1>3 DEF Levels
<1> HIDE DEF H
<1> QED BY <1>1, <1>4

LEMMA ElementUnfolds ==
  ASSUME NEW a
  PROVE  \E g : /\ Levels("element", a, a, Nesting, Nesting, g)
                /\ GetAgentID(a) = g[Nesting][a]
<1> DEFINE E(f) == [d \in 0..Nesting |-> Level("element", a, a, Nesting, d, f[d - 1])]
           H == CHOOSE f : f = E(f)
<1>1. GetAgentID(a) = H[Nesting][a]
  BY Zenon DEF GetAgentID, Level, ElementBelow
<1>2. PICK g : Levels("element", a, a, Nesting, Nesting, g)
  <2>1. Nesting \in Nat /\ "element" \in Kind
    BY AgentIDAssumption, BitefficientAssumption DEF Kind
  <2> QED BY <2>1, LevelsExist
<1>3. H = E(H)
  <2>1. g = E(g)
    BY <1>2 DEF Levels
  <2> HIDE DEF E
  <2> QED BY <2>1
<1>4. Levels("element", a, a, Nesting, Nesting, H)
  <2> HIDE DEF H
  <2> QED BY <1>3 DEF Levels
<1> HIDE DEF H
<1> QED BY <1>1, <1>4

LEMMA ParsedUnfolds ==
  ASSUME NEW a
  PROVE  \E g : /\ Levels("parsed", a, a, Nesting, Nesting, g)
                /\ ParseAgentID(a) = g[Nesting][a]
<1> DEFINE E(f) == [d \in 0..Nesting |-> Level("parsed", a, a, Nesting, d, f[d - 1])]
           H == CHOOSE f : f = E(f)
<1>1. ParseAgentID(a) = H[Nesting][a]
  BY Zenon DEF ParseAgentID, Level, ParsedBelow
<1>2. PICK g : Levels("parsed", a, a, Nesting, Nesting, g)
  <2>1. Nesting \in Nat /\ "parsed" \in Kind
    BY AgentIDAssumption, BitefficientAssumption DEF Kind
  <2> QED BY <2>1, LevelsExist
<1>3. H = E(H)
  <2>1. g = E(g)
    BY <1>2 DEF Levels
  <2> HIDE DEF E
  <2> QED BY <2>1
<1>4. Levels("parsed", a, a, Nesting, Nesting, H)
  <2> HIDE DEF H
  <2> QED BY <1>3 DEF Levels
<1> HIDE DEF H
<1> QED BY <1>1, <1>4

-----------------------------------------------------------------------------
(* Identifiers and lists of them.                                          *)

AgentField == {"name", "addresses", "resolvers", "parameters"}

LEMMA AgentDomain == DOMAIN UndefinedAgent = AgentField
BY DEF UndefinedAgent, Named, AgentField

\* Equal identifiers have the same name.
LEMMA EqualNames ==
  ASSUME NEW a, NEW b, NEW m \in Nat, CompareEqual(a, b, m)
  PROVE  a.name = b.name
<1>1. PICK g : Levels("equal", a, b, m, m, g) /\ (CompareEqual(a, b, m) <=> <<a, b>> \in g[m])
  BY CompareUnfolds
<1>2. g[m] = Level("equal", a, b, m, m, g[m - 1])
  BY <1>1 DEF Levels
<1>3. <<a, b>> \in EqualPairs(a, b, m, m, g[m - 1])
  <2>1. Level("equal", a, b, m, m, g[m - 1]) = EqualPairs(a, b, m, m, g[m - 1])
    BY DEF Level
  <2> QED BY <1>1, <1>2, <2>1
<1>4. <<a, b>>[1].name = <<a, b>>[2].name
  BY <1>3, Zenon DEF EqualPairs
<1> QED BY <1>4

\* What the two generators write of an identifier and what the three
\* parsers make of it, as far as its name and its addresses go.
LEMMA WrittenKeeps ==
  ASSUME NEW a, DOMAIN a = AgentField, NEW m \in Nat
  PROVE  /\ DOMAIN WrittenAgent(a, m) = AgentField
         /\ WrittenAgent(a, m).name = a.name
         /\ WrittenAgent(a, m).addresses = a.addresses
<1>1. PICK g : Levels("written", a, a, m, m, g) /\ WrittenAgent(a, m) = g[m][a]
  BY WrittenUnfolds
<1>2. g[m] = Level("written", a, a, m, m, g[m - 1])
  BY <1>1 DEF Levels
<1>3. g[m] = WrittenBelow(a, m, m, g[m - 1])
  BY <1>2 DEF Level
<1>4. a \in Nested(a, m - m)
  <2>1. m - m = 0
    OBVIOUS
  <2> QED BY <2>1, NestedSelf
<1>5. \E r : g[m][a] = [a EXCEPT !.resolvers = r]
  BY <1>3, <1>4, Zenon DEF WrittenBelow
<1> QED BY <1>1, <1>5 DEF AgentField

LEMMA BuiltKeeps ==
  ASSUME NEW a, DOMAIN a = AgentField
  PROVE  /\ DOMAIN BuildAgentID(a) = AgentField
         /\ BuildAgentID(a).name = a.name
         /\ BuildAgentID(a).addresses = a.addresses
<1> DEFINE m == ResolverDepth
<1>0. m \in Nat
  BY BitefficientAssumption
<1>1. PICK g : Levels("built", a, a, m, m, g) /\ BuildAgentID(a) = g[m][a]
  BY BuiltUnfolds
<1> HIDE DEF m
<1>2. g[m] = Level("built", a, a, m, m, g[m - 1])
  BY <1>0, <1>1 DEF Levels
<1>3. g[m] = BuiltBelow(a, m, m, g[m - 1])
  BY <1>2 DEF Level
<1>4. a \in Nested(a, m - m)
  <2>1. m - m = 0
    BY <1>0
  <2> QED BY <2>1, NestedSelf
<1>5. /\ DOMAIN g[m][a] = AgentField
      /\ g[m][a].name = a.name
      /\ g[m][a].addresses = a.addresses
  BY <1>3, <1>4 DEF BuiltBelow, AgentField
<1> QED BY <1>1, <1>5

LEMMA ElementKeeps ==
  ASSUME NEW a, DOMAIN a = AgentField
  PROVE  /\ DOMAIN GetAgentID(a) = AgentField
         /\ GetAgentID(a).name = a.name
         /\ GetAgentID(a).addresses = a.addresses
<1> DEFINE m == Nesting
<1>0. m \in Nat
  BY AgentIDAssumption
<1>1. PICK g : Levels("element", a, a, m, m, g) /\ GetAgentID(a) = g[m][a]
  BY ElementUnfolds
<1> HIDE DEF m
<1>2. g[m] = Level("element", a, a, m, m, g[m - 1])
  BY <1>0, <1>1 DEF Levels
<1>3. g[m] = ElementBelow(a, m, m, g[m - 1])
  BY <1>2 DEF Level
<1>4. a \in Nested(a, m - m)
  <2>1. m - m = 0
    BY <1>0
  <2> QED BY <2>1, NestedSelf
<1>5. /\ DOMAIN g[m][a] = AgentField
      /\ g[m][a].name = a.name
      /\ g[m][a].addresses = a.addresses
  BY <1>3, <1>4 DEF ElementBelow, AgentField
<1> QED BY <1>1, <1>5

LEMMA ParsedIs ==
  ASSUME NEW a
  PROVE  /\ DOMAIN ParseAgentID(a) = AgentField
         /\ ParseAgentID(a).name = AsAttribute[a.name]
         /\ ParseAgentID(a).addresses = [i \in DOMAIN a.addresses |-> AsAttribute[a.addresses[i]]]
<1> DEFINE m == Nesting
<1>0. m \in Nat
  BY AgentIDAssumption
<1>1. PICK g : Levels("parsed", a, a, m, m, g) /\ ParseAgentID(a) = g[m][a]
  BY ParsedUnfolds
<1> HIDE DEF m
<1>2. g[m] = Level("parsed", a, a, m, m, g[m - 1])
  BY <1>0, <1>1 DEF Levels
<1>3. g[m] = ParsedBelow(a, m, m, g[m - 1])
  BY <1>2 DEF Level
<1>4. a \in Nested(a, m - m)
  <2>1. m - m = 0
    BY <1>0
  <2> QED BY <2>1, NestedSelf
<1>5. PICK last, s, urls : /\ last = g[m - 1] /\ s = Nested(a, m - m)
                           /\ urls = [i \in DOMAIN a.addresses |-> AsAttribute[a.addresses[i]]]
  OBVIOUS
<1>6. PICK r, p : g[m][a] = [ name |-> AsAttribute[a.name], addresses |-> urls,
                              resolvers |-> r, parameters |-> p ]
  <2>1. g[m] = ParsedBelow(a, m, m, last)
    BY <1>3, <1>5
  <2>2. a \in s
    BY <1>4, <1>5
  <2>3. DOMAIN g[m] = s /\ g[m][a] =
          [ name       |-> AsAttribute[a.name],
            addresses  |-> urls,
            resolvers  |-> IF m > 0 THEN [i \in DOMAIN a.resolvers |-> last[a.resolvers[i]]]
                                    ELSE <<>>,
            parameters |-> FoldLeft(ParseLabelled, <<>>, a.parameters) ]
    BY <1>5, <2>1, <2>2 DEF ParsedBelow
  <2> QED BY <2>3
<1> QED BY <1>1, <1>5, <1>6 DEF AgentField

\* An address list without the empty addresses holds no new ones.
LEMMA UrlsKept ==
  ASSUME NEW S, NEW urls \in Seq(S)
  PROVE  ReadUrlSequence(urls) \in Seq(S)
<1> DEFINE n == Len(urls)
<1>1. IsList(urls) /\ n \in Nat /\ \A k \in 1..n : urls[k] \in S
  BY DEF IsList
<1>0. PICK e : e = <<>>
  OBVIOUS
<1>2. PICK c : Chain("urls", e, urls, n, c) /\ ReadUrlSequence(urls) = c[n]
  BY <1>0, <1>1, FoldUrls DEF ReadUrlSequence
<1> DEFINE T == {k \in 0..n : c[k] \in Seq(S)}
<1> HIDE DEF n
<1>3. 0 \in T
  <2>1. c[0] = e
    BY <1>1, <1>2, ChainStart
  <2>2. 0 \in 0..n /\ e \in Seq(S)
    BY <1>0, <1>1
  <2> QED BY <2>1, <2>2
<1>4. ASSUME NEW k \in 1..n, k - 1 \in T PROVE k \in T
  <2>1. c[k - 1] \in Seq(S) /\ urls[k] \in S
    BY <1>1, <1>4
  <2>2. c[k] = ReadUrl(c[k - 1], urls[k])
    <3>1. c[k] = Step("urls", urls, c[k - 1], k)
      BY <1>1, <1>2, ChainAt
    <3> QED BY <3>1 DEF Step
  <2>3. \A s \in Seq(S), u \in S : ReadUrl(s, u) \in Seq(S)
    BY DEF ReadUrl
  <2>4. c[k] \in Seq(S)
    <3> HIDE DEF T
    <3> QED BY <2>1, <2>2, <2>3, Zenon
  <2> QED BY <1>1, <2>4
<1>5. n \in T
  <2> HIDE DEF T
  <2> QED BY <1>1, <1>3, <1>4, InductionTo
<1> QED BY <1>2, <1>5

LEMMA ReadIs ==
  ASSUME NEW a, a.addresses \in Seq(Checked)
  PROVE  /\ DOMAIN ReadAgentIdentifier(a) = AgentField
         /\ ReadAgentIdentifier(a).name = IF a.parameters = <<>> THEN a.name ELSE Garbled
         /\ ReadAgentIdentifier(a).addresses \in Seq(Checked)
BY UrlsKept DEF ReadAgentIdentifier, ReadResolver, AgentField

\* Lists that are made of lists.
LEMMA ListOf ==
  ASSUME NEW S, NEW s \in Seq(S)
  PROVE  s \in Seq(Range(s)) /\ Range(s) \subseteq S /\ IsList(s)
BY DEF Range, IsList

LEMMA AsLong ==
  ASSUME NEW s, s \in Seq(Range(s)), NEW t, t = [i \in DOMAIN s |-> t[i]]
  PROVE  t \in Seq(Range(t)) /\ Len(t) = Len(s) /\ Range(t) = {t[i] : i \in DOMAIN s}
<1>1. PICK n : n \in Nat /\ DOMAIN s = 1..n /\ n = Len(s)
  OBVIOUS
<1>2. DOMAIN t = 1..n /\ \A i \in 1..n : t[i] \in Range(t)
  BY <1>1 DEF Range
<1>3. \A S : (\A i \in 1..n : t[i] \in S) => [i \in 1..n |-> t[i]] \in Seq(S)
  BY <1>1
<1>4. t = [i \in 1..n |-> t[i]]
  BY <1>1
<1>5. t \in Seq(Range(t))
  BY <1>2, <1>3, <1>4, Zenon
<1>6. Len(t) = n
  BY <1>1, <1>2, <1>5
<1> QED BY <1>1, <1>2, <1>5, <1>6 DEF Range

Along(t, s) == t = [i \in DOMAIN s |-> t[i]]

LEMMA AlongAsLong ==
  ASSUME NEW s, s \in Seq(Range(s)), NEW t, Along(t, s)
  PROVE  t \in Seq(Range(t)) /\ Range(t) = {t[i] : i \in DOMAIN s}
BY AsLong DEF Along

LEMMA AppendedList ==
  ASSUME NEW S, NEW s \in Seq(S)
  PROVE  FoldLeft(AppendAgent, <<>>, s) \in Seq(S)
<1> DEFINE n == Len(s)
<1>1. IsList(s) /\ n \in Nat /\ \A k \in 1..n : s[k] \in S
  BY DEF IsList
<1>0. PICK e : e = <<>>
  OBVIOUS
<1>2. PICK c : Chain("append", e, s, n, c) /\ FoldLeft(AppendAgent, <<>>, s) = c[n]
  BY <1>0, <1>1, FoldAppend
<1> DEFINE T == {k \in 0..n : c[k] \in Seq(S)}
<1> HIDE DEF n
<1>3. 0 \in T
  <2>1. c[0] = e
    BY <1>1, <1>2, ChainStart
  <2>2. 0 \in 0..n /\ e \in Seq(S)
    BY <1>0, <1>1
  <2> QED BY <2>1, <2>2
<1>4. ASSUME NEW k \in 1..n, k - 1 \in T PROVE k \in T
  <2>1. c[k - 1] \in Seq(S) /\ s[k] \in S
    BY <1>1, <1>4
  <2>2. c[k] = AppendAgent(c[k - 1], s[k])
    <3>1. c[k] = Step("append", s, c[k - 1], k)
      BY <1>1, <1>2, ChainAt
    <3> QED BY <3>1 DEF Step
  <2>3. \A q \in Seq(S), u \in S : AppendAgent(q, u) \in Seq(S)
    BY DEF AppendAgent
  <2>4. c[k] \in Seq(S)
    <3> HIDE DEF T
    <3> QED BY <2>1, <2>2, <2>3, Zenon
  <2> QED BY <1>1, <2>4
<1>5. n \in T
  <2> HIDE DEF T
  <2> QED BY <1>1, <1>3, <1>4, InductionTo
<1> QED BY <1>2, <1>5

\* The parameters of an agent are records, read or not.
Records(ps) == \A p \in Range(ps) : IsRecord(p)

LEMMA PairIsRecord ==
  ASSUME NEW x, NEW y
  PROVE  IsRecord([name |-> x, value |-> y])
BY DEF IsRecord

LEMMA ReadIsRecord ==
  ASSUME NEW p
  PROVE  IsRecord(ReadParam(p))
BY DEF IsRecord, ReadParam

LEMMA LabelledList ==
  ASSUME NEW s, s \in Seq(Range(s)), NEW t, t = FoldLeft(ParseLabelled, <<>>, s)
  PROVE  t \in Seq(Range(t)) /\ Records(t)
<1> DEFINE n == Len(s)
           S == {ParseUserdefinedParameter(elem) : elem \in Range(s)}
<1>1. IsList(s) /\ n \in Nat /\ \A k \in 1..n : s[k] \in Range(s)
  BY DEF IsList
<1>0. PICK e : e = <<>>
  OBVIOUS
<1>2. PICK c : Chain("label", e, s, n, c) /\ t = c[n]
  BY <1>0, <1>1, FoldLabel
<1> DEFINE T == {k \in 0..n : c[k] \in Seq(S)}
<1> HIDE DEF n
<1>3. 0 \in T
  <2>1. c[0] = e
    BY <1>1, <1>2, ChainStart
  <2>2. 0 \in 0..n /\ e \in Seq(S)
    BY <1>0, <1>1
  <2> QED BY <2>1, <2>2
<1>4. ASSUME NEW k \in 1..n, k - 1 \in T PROVE k \in T
  <2>1. c[k - 1] \in Seq(S) /\ s[k] \in Range(s)
    BY <1>1, <1>4
  <2>2. c[k] = ParseLabelled(c[k - 1], s[k])
    <3>1. c[k] = Step("label", s, c[k - 1], k)
      BY <1>1, <1>2, ChainAt
    <3> QED BY <3>1 DEF Step
  <2>3. ASSUME NEW q \in Seq(S), NEW u \in Range(s) PROVE ParseLabelled(q, u) \in Seq(S)
    <3>1. PICK p : p = ParseUserdefinedParameter(u)
      OBVIOUS
    <3>2. p \in S
      BY <3>1
    <3>3. ParseLabelled(q, u) \in {Append(q, p), q}
      BY <3>1 DEF ParseLabelled
    <3> HIDE DEF S
    <3> QED BY <3>2, <3>3
  <2>4. c[k] \in Seq(S)
    <3> HIDE DEF T, S
    <3> QED BY <2>1, <2>2, <2>3, Zenon
  <2> QED BY <1>1, <2>4
<1>5. n \in T
  <2> HIDE DEF T
  <2> QED BY <1>1, <1>3, <1>4, InductionTo
<1>6. t \in Seq(S)
  BY <1>2, <1>5
<1>7. \A p \in S : IsRecord(p)
  BY PairIsRecord DEF ParseUserdefinedParameter
<1> HIDE DEF S
<1> QED BY <1>6, <1>7, ListOf DEF Records

-----------------------------------------------------------------------------
(* Identifiers whose fields are in order, down to the deepest resolver.    *)

Proper(b) ==
  /\ DOMAIN b = AgentField
  /\ b.name \in Checked /\ b.addresses \in Seq(Checked)
  /\ b.parameters \in Seq(Range(b.parameters)) /\ Records(b.parameters)
  /\ b.resolvers \in Seq(Range(b.resolvers))

LEMMA AgentNested ==
  ASSUME NEW a, AgentOK(a), NEW k \in 0..Nesting, NEW b \in Nested(a, k)
  PROVE  Proper(b) /\ (k = Nesting => b.resolvers = <<>>)
BY AgentDomain DEF AgentOK, Proper, Records

LEMMA AgentProper ==
  ASSUME NEW a, AgentOK(a)
  PROVE  Proper(a)
<1>1. 0 \in 0..Nesting /\ a \in Nested(a, 0)
  BY AgentIDAssumption, NestedSelf
<1> QED BY <1>1, AgentNested

LEMMA LayersOK ==
  ASSUME NEW a, NEW L, a \in L[0],
         \A k \in 0..Nesting : \A b \in L[k] :
           /\ Proper(b)
           /\ k = Nesting => b.resolvers = <<>>
           /\ k # Nesting => Range(b.resolvers) \subseteq L[k + 1]
  PROVE  AgentOK(a)
<1>1. \A k \in 0..Nesting : Nested(a, k) \subseteq L[k]
  BY AgentIDAssumption, Layers
<1>2. ASSUME NEW k \in 0..Nesting, NEW b \in Nested(a, k)
      PROVE  Proper(b) /\ (k = Nesting => b.resolvers = <<>>)
  BY <1>1
<1> QED BY <1>2, AgentDomain DEF AgentOK, Proper, Records

LEMMA UndefinedOK == AgentOK(UndefinedAgent)
<1> DEFINE L == [k \in 0..Nesting |-> IF k = 0 THEN {UndefinedAgent} ELSE {}]
<1>1. UndefinedAgent \in L[0]
  BY AgentIDAssumption
<1>2. Proper(UndefinedAgent) /\ UndefinedAgent.resolvers = <<>> /\ Range(<<>>) = {}
  BY AgentIDAssumption, AgentDomain DEF Proper, Records, UndefinedAgent, Named, Range
<1>3. \A k \in 0..Nesting : \A b \in L[k] : b = UndefinedAgent
  OBVIOUS
<1> HIDE DEF L
<1> QED BY <1>1, <1>2, <1>3, LayersOK

\* What a function that is defined level by level makes of one identifier,
\* last being what it makes of those one level deeper.
Maps(x, b, last, deepest) ==
  /\ Proper(x)
  /\ deepest => x.resolvers = <<>>
  /\ ~ deepest => Range(x.resolvers) \subseteq {last[y] : y \in Range(b.resolvers)}

LEMMA MappedOK ==
  ASSUME NEW a, AgentOK(a), NEW m \in Nat, NEW g,
         \A k \in 0..m : k <= Nesting =>
           \A b \in Nested(a, k) : Maps(g[m - k][b], b, g[(m - k) - 1], m - k = 0)
  PROVE  AgentOK(g[m][a])
<1> DEFINE L == [k \in 0..Nesting |-> IF k <= m THEN {g[m - k][b] : b \in Nested(a, k)} ELSE {}]
<1>0. Nesting \in Nat
  BY AgentIDAssumption
<1>1. g[m][a] \in L[0]
  <2>1. L[0] = {g[m - 0][b] : b \in Nested(a, 0)} /\ m - 0 = m
    BY <1>0
  <2> HIDE DEF L
  <2> QED BY <2>1, NestedSelf
<1>2. ASSUME NEW k \in 0..Nesting, NEW x \in L[k]
      PROVE  /\ Proper(x)
             /\ k = Nesting => x.resolvers = <<>>
             /\ k # Nesting => Range(x.resolvers) \subseteq L[k + 1]
  <2>1. k <= m /\ x \in {g[m - k][b] : b \in Nested(a, k)}
    BY <1>2
  <2>2. PICK b \in Nested(a, k) : x = g[m - k][b]
    BY <2>1
  <2>3. PICK d : d = m - k
    OBVIOUS
  <2>4. Maps(x, b, g[d - 1], d = 0)
    <3>1. k \in 0..m /\ k <= Nesting
      BY <1>0, <2>1
    <3> HIDE DEF L
    <3> QED BY <2>2, <2>3, <3>1
  <2>5. Proper(x) /\ (k = Nesting => b.resolvers = <<>>)
    <3> HIDE DEF L
    <3> QED BY <2>4, AgentNested DEF Maps
  <2>6. CASE d = 0
    <3>1. x.resolvers = <<>> /\ Range(<<>>) = {}
      BY <2>4, <2>6 DEF Maps, Range
    <3> HIDE DEF L
    <3> QED BY <2>5, <3>1
  <2>7. CASE d # 0
    <3>1. Range(x.resolvers) \subseteq {g[d - 1][y] : y \in Range(b.resolvers)}
      BY <2>4, <2>7 DEF Maps
    <3>2. b.resolvers = <<>> => x.resolvers = <<>>
      <4>1. ASSUME b.resolvers = <<>> PROVE x.resolvers = <<>>
        <5>1. Range(b.resolvers) = {}
          BY <4>1 DEF Range
        <5>2. Range(x.resolvers) = {}
          BY <3>1, <5>1
        <5>3. x.resolvers \in Seq({})
          <6> HIDE DEF L
          <6> QED BY <2>5, <5>2 DEF Proper
        <5> QED BY <5>3
      <4> QED BY <4>1
    <3>3. ASSUME k # Nesting PROVE Range(x.resolvers) \subseteq L[k + 1]
      <4>1. Range(b.resolvers) \subseteq Nested(a, k + 1)
        BY <1>0, NestedBelow
      <4>2. k + 1 \in 0..Nesting /\ k + 1 <= m /\ m - (k + 1) = d - 1
        BY <1>0, <2>1, <2>3, <2>7, <3>3
      <4>3. L[k + 1] = {g[d - 1][y] : y \in Nested(a, k + 1)}
        BY <4>2
      <4> HIDE DEF L
      <4> QED BY <3>1, <4>1, <4>3
    <3> HIDE DEF L
    <3> QED BY <2>5, <3>2, <3>3
  <2> QED BY <2>6, <2>7
<1> HIDE DEF L
<1> QED BY <1>1, <1>2, LayersOK

\* So the two generators and the three parsers treat identifiers.
LEMMA WrittenOK ==
  ASSUME NEW a, AgentOK(a), NEW m \in Nat
  PROVE  AgentOK(WrittenAgent(a, m))
<1>1. PICK g : Levels("written", a, a, m, m, g) /\ WrittenAgent(a, m) = g[m][a]
  BY WrittenUnfolds
<1>2. ASSUME NEW k \in 0..m, k <= Nesting, NEW b \in Nested(a, k)
      PROVE  Maps(g[m - k][b], b, g[(m - k) - 1], m - k = 0)
  <2>1. PICK d : d = m - k
    OBVIOUS
  <2>2. d \in 0..m /\ m - d = k
    BY <2>1
  <2>3. PICK last : last = g[d - 1]
    OBVIOUS
  <2>4. g[d] = WrittenBelow(a, m, d, last)
    BY <1>1, <2>2, <2>3 DEF Levels, Level
  <2>5. PICK x : x = g[d][b]
    OBVIOUS
  <2>6. x = [b EXCEPT !.resolvers = IF d > 0 THEN [i \in DOMAIN @ |-> last[@[i]]] ELSE <<>>]
    BY <2>2, <2>4, <2>5, Zenon DEF WrittenBelow
  <2>7. Proper(b)
    BY <1>2, AgentIDAssumption, AgentNested
  <2>8. PICK t : t = [i \in DOMAIN b.resolvers |-> last[b.resolvers[i]]]
    OBVIOUS
  <2>9. t \in Seq(Range(t)) /\ Range(t) = {last[y] : y \in Range(b.resolvers)}
    <3>1. PICK s : s = b.resolvers
      OBVIOUS
    <3>2. s \in Seq(Range(s))
      BY <2>7, <3>1 DEF Proper
    <3>3. t = [i \in DOMAIN s |-> t[i]] /\ \A i \in DOMAIN s : t[i] = last[s[i]]
      BY <2>8, <3>1
    <3>4. t \in Seq(Range(t)) /\ Range(t) = {t[i] : i \in DOMAIN s}
      <4>1. Along(t, s)
        BY <3>3 DEF Along
      <4> QED BY <3>2, <4>1, AlongAsLong
    <3>5. {t[i] : i \in DOMAIN s} = {last[y] : y \in Range(s)}
      BY <3>3 DEF Range
    <3> QED BY <3>1, <3>4, <3>5
  <2>10. /\ DOMAIN x = AgentField /\ x.name = b.name /\ x.addresses = b.addresses
         /\ x.parameters = b.parameters
         /\ x.resolvers = IF d > 0 THEN t ELSE <<>>
    BY <2>6, <2>7, <2>8 DEF Proper, AgentField
  <2>11. Maps(x, b, last, d = 0)
    <3>1. <<>> \in Seq(Range(<<>>)) /\ (d > 0 <=> d # 0)
      BY <2>2
    <3> QED BY <2>7, <2>9, <2>10, <3>1 DEF Maps, Proper
  <2> QED BY <2>1, <2>3, <2>5, <2>11
<1> QED BY <1>1, <1>2, MappedOK

LEMMA BuiltOK ==
  ASSUME NEW a, AgentOK(a)
  PROVE  AgentOK(BuildAgentID(a))
<1>0. PICK m : m = ResolverDepth /\ m \in Nat
  BY BitefficientAssumption
<1>1. PICK g : Levels("built", a, a, m, m, g) /\ BuildAgentID(a) = g[m][a]
  BY <1>0, BuiltUnfolds
<1>2. ASSUME NEW k \in 0..m, k <= Nesting, NEW b \in Nested(a, k)
      PROVE  Maps(g[m - k][b], b, g[(m - k) - 1], m - k = 0)
  <2>1. PICK d : d = m - k
    OBVIOUS
  <2>2. d \in 0..m /\ m - d = k
    BY <1>0, <2>1
  <2>3. PICK last : last = g[d - 1]
    OBVIOUS
  <2>4. g[d] = BuiltBelow(a, m, d, last)
    BY <1>1, <2>2, <2>3 DEF Levels, Level
  <2>5. PICK x : x = g[d][b]
    OBVIOUS
  <2>6. Proper(b)
    BY <1>0, <1>2, AgentIDAssumption, AgentNested
  <2>7. PICK t : t = [i \in DOMAIN b.resolvers |-> last[b.resolvers[i]]]
    OBVIOUS
  <2>8. PICK ps : ps = [i \in DOMAIN b.parameters |-> ReadParam(b.parameters[i])]
    OBVIOUS
  <2>9. /\ DOMAIN x = AgentField /\ x.name = b.name /\ x.addresses = b.addresses
        /\ x.parameters = ps
        /\ x.resolvers = IF d > 0 THEN FoldLeft(AppendAgent, <<>>, t) ELSE <<>>
    <3>1. x = [b EXCEPT
                 !.resolvers  = IF d > 0
                                THEN FoldLeft(AppendAgent, <<>>, [i \in DOMAIN @ |-> last[@[i]]])
                                ELSE <<>>,
                 !.parameters = [i \in DOMAIN @ |-> ReadParam(@[i])]]
      BY <2>2, <2>4, <2>5, Zenon DEF BuiltBelow
    <3>2. x = [b EXCEPT !.resolvers = IF d > 0 THEN FoldLeft(AppendAgent, <<>>, t) ELSE <<>>,
                        !.parameters = ps]
      BY <2>7, <2>8, <3>1
    <3> QED BY <2>6, <3>2 DEF Proper, AgentField
  <2>10. t \in Seq(Range(t)) /\ Range(t) = {last[y] : y \in Range(b.resolvers)}
    <3>1. PICK s : s = b.resolvers
      OBVIOUS
    <3>2. s \in Seq(Range(s))
      BY <2>6, <3>1 DEF Proper
    <3>3. t = [i \in DOMAIN s |-> t[i]] /\ \A i \in DOMAIN s : t[i] = last[s[i]]
      BY <2>7, <3>1
    <3>4. t \in Seq(Range(t)) /\ Range(t) = {t[i] : i \in DOMAIN s}
      <4>1. Along(t, s)
        BY <3>3 DEF Along
      <4> QED BY <3>2, <4>1, AlongAsLong
    <3>5. {t[i] : i \in DOMAIN s} = {last[y] : y \in Range(s)}
      BY <3>3 DEF Range
    <3> QED BY <3>1, <3>4, <3>5
  <2>11. PICK rs : rs = FoldLeft(AppendAgent, <<>>, t)
    OBVIOUS
  <2>12. rs \in Seq(Range(rs)) /\ Range(rs) \subseteq Range(t)
    BY <2>10, <2>11, AppendedList, ListOf
  <2>13. ps \in Seq(Range(ps)) /\ Records(ps)
    <3>1. b.parameters \in Seq(Range(b.parameters))
      BY <2>6 DEF Proper
    <3>2. Along(ps, b.parameters)
      BY <2>8 DEF Along
    <3>3. \A i \in DOMAIN b.parameters : IsRecord(ps[i])
      BY <2>8, ReadIsRecord
    <3> QED BY <3>1, <3>2, <3>3, AlongAsLong DEF Records
  <2>14. Maps(x, b, last, d = 0)
    <3>1. <<>> \in Seq(Range(<<>>)) /\ (d > 0 <=> d # 0)
      BY <1>0, <2>2
    <3> QED BY <2>6, <2>9, <2>10, <2>11, <2>12, <2>13, <3>1 DEF Maps, Proper
  <2> QED BY <2>1, <2>3, <2>5, <2>14
<1> QED BY <1>0, <1>1, <1>2, MappedOK

LEMMA ElementOK ==
  ASSUME NEW a, AgentOK(a)
  PROVE  AgentOK(GetAgentID(a))
<1>0. PICK m : m = Nesting /\ m \in Nat
  BY AgentIDAssumption
<1>1. PICK g : Levels("element", a, a, m, m, g) /\ GetAgentID(a) = g[m][a]
  BY <1>0, ElementUnfolds
<1>2. ASSUME NEW k \in 0..m, k <= Nesting, NEW b \in Nested(a, k)
      PROVE  Maps(g[m - k][b], b, g[(m - k) - 1], m - k = 0)
  <2>1. PICK d : d = m - k
    OBVIOUS
  <2>2. d \in 0..m /\ m - d = k
    BY <1>0, <2>1
  <2>3. PICK last : last = g[d - 1]
    OBVIOUS
  <2>4. g[d] = ElementBelow(a, m, d, last)
    BY <1>1, <2>2, <2>3 DEF Levels, Level
  <2>5. PICK x : x = g[d][b]
    OBVIOUS
  <2>6. Proper(b)
    BY <1>0, <1>2, AgentIDAssumption, AgentNested
  <2>7. PICK t : t = [i \in DOMAIN b.resolvers |-> last[b.resolvers[i]]]
    OBVIOUS
  <2>8. PICK ps : ps = GetUserdefinedParameters(b.parameters)
    OBVIOUS
  <2>9. /\ DOMAIN x = AgentField /\ x.name = b.name /\ x.addresses = b.addresses
        /\ x.parameters = ps
        /\ x.resolvers = IF d > 0 THEN t ELSE <<>>
    <3>1. x = [b EXCEPT
                 !.resolvers  = IF d > 0 THEN [i \in DOMAIN @ |-> last[@[i]]] ELSE <<>>,
                 !.parameters = GetUserdefinedParameters(@)]
      BY <2>2, <2>4, <2>5, Zenon DEF ElementBelow
    <3>2. x = [b EXCEPT !.resolvers = IF d > 0 THEN t ELSE <<>>, !.parameters = ps]
      BY <2>7, <2>8, <3>1
    <3> QED BY <2>6, <3>2 DEF Proper, AgentField
  <2>10. t \in Seq(Range(t)) /\ Range(t) = {last[y] : y \in Range(b.resolvers)}
    <3>1. PICK s : s = b.resolvers
      OBVIOUS
    <3>2. s \in Seq(Range(s))
      BY <2>6, <3>1 DEF Proper
    <3>3. t = [i \in DOMAIN s |-> t[i]] /\ \A i \in DOMAIN s : t[i] = last[s[i]]
      BY <2>7, <3>1
    <3>4. t \in Seq(Range(t)) /\ Range(t) = {t[i] : i \in DOMAIN s}
      <4>1. Along(t, s)
        BY <3>3 DEF Along
      <4> QED BY <3>2, <4>1, AlongAsLong
    <3>5. {t[i] : i \in DOMAIN s} = {last[y] : y \in Range(s)}
      BY <3>3 DEF Range
    <3> QED BY <3>1, <3>4, <3>5
  <2>11. ps \in Seq(Range(ps)) /\ Records(ps)
    <3>1. b.parameters \in Seq(Range(b.parameters))
      BY <2>6 DEF Proper
    <3>2. Along(ps, b.parameters)
      BY <2>8 DEF GetUserdefinedParameters, Along
    <3>3. \A i \in DOMAIN b.parameters : IsRecord(ps[i])
      BY <2>8 DEF GetUserdefinedParameters, IsRecord
    <3> QED BY <3>1, <3>2, <3>3, AlongAsLong DEF Records
  <2>12. Maps(x, b, last, d = 0)
    <3>1. <<>> \in Seq(Range(<<>>)) /\ (d > 0 <=> d # 0)
      BY <1>0, <2>2
    <3> QED BY <2>6, <2>9, <2>10, <2>11, <3>1 DEF Maps, Proper
  <2> QED BY <2>1, <2>3, <2>5, <2>12
<1> QED BY <1>0, <1>1, <1>2, MappedOK

LEMMA ParsedOK ==
  ASSUME NEW a, AgentOK(a), XMLAgentReadable(a)
  PROVE  AgentOK(ParseAgentID(a))
<1>0. PICK m : m = Nesting /\ m \in Nat
  BY AgentIDAssumption
<1>1. PICK g : Levels("parsed", a, a, m, m, g) /\ ParseAgentID(a) = g[m][a]
  BY <1>0, ParsedUnfolds
<1>2. ASSUME NEW k \in 0..m, k <= Nesting, NEW b \in Nested(a, k)
      PROVE  Maps(g[m - k][b], b, g[(m - k) - 1], m - k = 0)
  <2>1. PICK d : d = m - k
    OBVIOUS
  <2>2. d \in 0..m /\ m - d = k
    BY <1>0, <2>1
  <2>3. PICK last : last = g[d - 1]
    OBVIOUS
  <2>4. g[d] = ParsedBelow(a, m, d, last)
    BY <1>1, <2>2, <2>3 DEF Levels, Level
  <2>5. PICK x : x = g[d][b]
    OBVIOUS
  <2>6. Proper(b)
    BY <1>0, <1>2, AgentIDAssumption, AgentNested
  <2>7. PICK t : t = [i \in DOMAIN b.resolvers |-> last[b.resolvers[i]]]
    OBVIOUS
  <2>8. PICK ps : ps = FoldLeft(ParseLabelled, <<>>, b.parameters)
    OBVIOUS
  <2>9. PICK urls : urls = [i \in DOMAIN b.addresses |-> AsAttribute[b.addresses[i]]]
    OBVIOUS
  <2>10. /\ DOMAIN x = AgentField /\ x.name = AsAttribute[b.name] /\ x.addresses = urls
         /\ x.parameters = ps
         /\ x.resolvers = IF d > 0 THEN t ELSE <<>>
    BY <2>2, <2>4, <2>5, <2>7, <2>8, <2>9 DEF ParsedBelow, AgentField
  <2>11. t \in Seq(Range(t)) /\ Range(t) = {last[y] : y \in Range(b.resolvers)}
    <3>1. PICK s : s = b.resolvers
      OBVIOUS
    <3>2. s \in Seq(Range(s))
      BY <2>6, <3>1 DEF Proper
    <3>3. t = [i \in DOMAIN s |-> t[i]] /\ \A i \in DOMAIN s : t[i] = last[s[i]]
      BY <2>7, <3>1
    <3>4. t \in Seq(Range(t)) /\ Range(t) = {t[i] : i \in DOMAIN s}
      <4>1. Along(t, s)
        BY <3>3 DEF Along
      <4> QED BY <3>2, <4>1, AlongAsLong
    <3>5. {t[i] : i \in DOMAIN s} = {last[y] : y \in Range(s)}
      BY <3>3 DEF Range
    <3> QED BY <3>1, <3>4, <3>5
  <2>12. ps \in Seq(Range(ps)) /\ Records(ps)
    BY <2>6, <2>8, LabelledList DEF Proper
  <2>13. \A text \in {b.name} \cup Range(b.addresses) : AsAttribute[text] \in Checked
    BY <1>0 DEF XMLAgentReadable
  <2>14. urls \in Seq(Checked)
    <3>1. b.addresses \in Seq(Checked)
      BY <2>6 DEF Proper
    <3>2. \A i \in DOMAIN b.addresses : AsAttribute[b.addresses[i]] \in Checked
      BY <2>13 DEF Range
    <3>3. Len(b.addresses) \in Nat /\ DOMAIN b.addresses = 1..Len(b.addresses)
      BY <3>1
    <3> QED BY <2>9, <3>2, <3>3
  <2>15. Maps(x, b, last, d = 0)
    <3>1. <<>> \in Seq(Range(<<>>)) /\ (d > 0 <=> d # 0)
      BY <1>0, <2>2
    <3> QED BY <2>10, <2>11, <2>12, <2>13, <2>14, <3>1 DEF Maps, Proper
  <2> QED BY <2>1, <2>3, <2>5, <2>15
<1> QED BY <1>0, <1>1, <1>2, MappedOK

LEMMA ReadOK ==
  ASSUME NEW a, AgentOK(a)
  PROVE  AgentOK(ReadAgentIdentifier(a))
<1>0. PICK r : r = ReadAgentIdentifier(a)
  OBVIOUS
<1> DEFINE L == [k \in 0..Nesting |-> IF k = 0 THEN {r} ELSE IF k = 1 THEN Range(r.resolvers)
                                      ELSE {}]
<1>1. Nesting \in Nat /\ Garbled \in Checked
  BY AgentIDAssumption, StringAssumption, EncodingAssumption
<1>2. Proper(a) /\ (Nesting = 0 => a.resolvers = <<>>)
  BY <1>1, AgentProper, AgentNested, NestedSelf
<1>3. ASSUME NEW b, Proper(b)
      PROVE  Proper(ReadResolver(b)) /\ ReadResolver(b).resolvers = <<>>
  <2>1. ReadUrlSequence(b.addresses) \in Seq(Checked)
    BY <1>3, UrlsKept DEF Proper
  <2>2. <<>> \in Seq(Range(<<>>)) /\ Records(<<>>)
    BY DEF Records, Range
  <2> QED BY <1>1, <1>3, <2>1, <2>2 DEF ReadResolver, Proper, AgentField
<1>4. \A b \in Range(a.resolvers) : Proper(b)
  <2>1. CASE Nesting = 0
    BY <1>2, <2>1 DEF Range
  <2>2. CASE Nesting # 0
    <3>1. Range(a.resolvers) \subseteq Nested(a, 0 + 1)
      BY NestedSelf, NestedBelow
    <3>2. 1 \in 0..Nesting /\ 0 + 1 = 1
      BY <1>1, <2>2
    <3> QED BY <3>1, <3>2, AgentNested
  <2> QED BY <2>1, <2>2
<1>5. PICK t : t = [i \in DOMAIN a.resolvers |-> ReadResolver(a.resolvers[i])]
  OBVIOUS
<1>6. /\ DOMAIN r = AgentField
      /\ r.name = ReadResolver(a).name /\ r.addresses = ReadResolver(a).addresses
      /\ r.parameters = ReadResolver(a).parameters /\ r.resolvers = t
  BY <1>0, <1>5 DEF ReadAgentIdentifier, ReadResolver, AgentField
<1>7. t \in Seq(Range(t)) /\ Len(t) = Len(a.resolvers) /\ Range(t) = {t[i] : i \in DOMAIN a.resolvers}
  <2>1. a.resolvers \in Seq(Range(a.resolvers)) /\ t = [i \in DOMAIN a.resolvers |-> t[i]]
    BY <1>2, <1>5 DEF Proper
  <2> QED BY <2>1, AsLong
<1>8. \A b \in Range(t) : Proper(b) /\ b.resolvers = <<>>
  <2>1. \A i \in DOMAIN a.resolvers : t[i] = ReadResolver(a.resolvers[i])
                                      /\ a.resolvers[i] \in Range(a.resolvers)
    BY <1>5 DEF Range
  <2> QED BY <1>3, <1>4, <1>7, <2>1
<1>9. Proper(r)
  BY <1>2, <1>3, <1>6, <1>7 DEF Proper
<1>10. Nesting = 0 => r.resolvers = <<>>
  BY <1>2, <1>6, <1>7
<1>11. Range(<<>>) = {}
  BY DEF Range
<1>12. r \in L[0]
  BY <1>1
<1>13. ASSUME NEW k \in 0..Nesting, NEW b \in L[k]
       PROVE  /\ Proper(b)
              /\ k = Nesting => b.resolvers = <<>>
              /\ k # Nesting => Range(b.resolvers) \subseteq L[k + 1]
  <2>1. CASE k = 0
    <3>1. b = r
      BY <2>1
    <3>2. Nesting # 0 => L[0 + 1] = Range(r.resolvers)
      BY <1>1
    <3> HIDE DEF L
    <3> QED BY <1>9, <1>10, <2>1, <3>1, <3>2
  <2>2. CASE k = 1
    <3>1. b \in Range(t)
      BY <1>6, <2>2
    <3> HIDE DEF L
    <3> QED BY <1>8, <1>11, <3>1
  <2>3. CASE k \notin {0, 1}
    BY <2>3
  <2> QED BY <2>1, <2>2, <2>3
<1> HIDE DEF L
<1> QED BY <1>0, <1>12, <1>13, LayersOK

-----------------------------------------------------------------------------
(* Striking equal elements from two lists.                                 *)

\* How often v is among the first k of p.
Places(p, k, v) == {i \in 1..k : p[i] = v}

Occurs(p, k, v) == Cardinality(Places(p, k, v))

LEMMA OccursNone ==
  ASSUME NEW p, NEW v
  PROVE  Occurs(p, 0, v) = 0
<1>1. {i \in 1..0 : p[i] = v} = {}
  OBVIOUS
<1> QED BY <1>1, FS_EmptySet DEF Occurs, Places

LEMMA OccursNat ==
  ASSUME NEW p, NEW k \in Nat, NEW v
  PROVE  Occurs(p, k, v) \in Nat /\ IsFiniteSet(Places(p, k, v))
<1>1. IsFiniteSet(1..k) /\ Places(p, k, v) \subseteq 1..k
  BY FS_Interval DEF Places
<1>2. IsFiniteSet(Places(p, k, v))
  BY <1>1, FS_Subset
<1> QED BY <1>2, FS_CardinalityType DEF Occurs

LEMMA OccursNext ==
  ASSUME NEW p, NEW k \in Nat, k # 0, NEW v
  PROVE  Occurs(p, k, v) = Occurs(p, k - 1, v) + (IF p[k] = v THEN 1 ELSE 0)
<1> DEFINE now == Places(p, k, v)
           was == Places(p, k - 1, v)
<1>1. k - 1 \in Nat /\ 1..k = (1..(k - 1)) \cup {k} /\ k \notin 1..(k - 1)
  OBVIOUS
<1>2. Occurs(p, k, v) = Cardinality(now) /\ Occurs(p, k - 1, v) = Cardinality(was)
  BY DEF Occurs
<1>3. IsFiniteSet(was) /\ Cardinality(was) \in Nat /\ k \notin was
  <2>1. PICK l : l = k - 1
    OBVIOUS
  <2>2. Occurs(p, l, v) \in Nat /\ IsFiniteSet(Places(p, l, v))
    BY <1>1, <2>1, OccursNat
  <2> QED BY <1>1, <1>2, <2>1, <2>2 DEF Places
<1>4. now = IF p[k] = v THEN was \cup {k} ELSE was
  BY <1>1 DEF Places
<1> HIDE DEF now, was
<1>5. CASE p[k] = v
  <2>1. Cardinality(was \cup {k}) = Cardinality(was) + 1
    BY <1>3, FS_AddElement
  <2> QED BY <1>2, <1>4, <1>5, <2>1
<1>6. CASE p[k] # v
  BY <1>2, <1>3, <1>4, <1>6
<1> QED BY <1>5, <1>6

Nothing == {}

\* The positions of bs that each of the first n of a list hits.
HitsOf(bs, hits, n, arg) ==
  \A k \in 1..n : \A j : j \in arg[k] <=> j \in DOMAIN bs /\ <<k, j>> \in hits

LEMMA StruckIs ==
  ASSUME NEW bs, NEW hits, NEW n \in Nat, NEW arg, HitsOf(bs, hits, n, arg)
  PROVE  \E c : Chain("struck", Nothing, arg, n, c) /\ Struck(bs, hits, n) = c[n]
<1> DEFINE E(f) == [i \in 0..n |->
                      IF i = 0 THEN {}
                      ELSE LET equal == {j \in DOMAIN bs : <<i, j>> \in hits} \ f[i - 1]
                           IN f[i - 1] \cup (IF equal = {} THEN {} ELSE {Min(equal)})]
           H == CHOOSE f : f = E(f)
<1>1. Struck(bs, hits, n) = H[n]
  BY DEF Struck
<1>2. \A f : Chain("struck", Nothing, arg, n, f) <=> f = E(f)
  <2>1. \A x : \A k \in 1..n :
          Step("struck", arg, x, k)
            = LET equal == {j \in DOMAIN bs : <<k, j>> \in hits} \ x
              IN x \cup (IF equal = {} THEN {} ELSE {Min(equal)})
    <3>1. \A k \in 1..n : arg[k] = {j \in DOMAIN bs : <<k, j>> \in hits}
      BY DEF HitsOf
    <3> QED BY <3>1 DEF Step, Smallests
  <2>2. \A k \in 0..n : k # 0 => k \in 1..n
    OBVIOUS
  <2>3. ASSUME NEW f
        PROVE  E(f) = [k \in 0..n |-> IF k = 0 THEN {} ELSE Step("struck", arg, f[k - 1], k)]
    BY <2>1, <2>2
  <2> HIDE DEF E
  <2> QED BY <2>3 DEF Chain, Nothing
<1>3. PICK f : f = E(f)
  <2>1. \E f : Chain("struck", Nothing, arg, n, f)
    BY ChainExists
  <2> HIDE DEF E
  <2> QED BY <1>2, <2>1
<1>4. Chain("struck", Nothing, arg, n, H)
  <2>1. H = E(H)
    <3> HIDE DEF E
    <3> QED BY <1>3
  <2> HIDE DEF E, H
  <2> QED BY <1>2, <2>1
<1> HIDE DEF H, E
<1> QED BY <1>1, <1>4

\* The elements of q that are struck for the first k of p: if there was one
\* for each of them, they are as many of every value, and if not, there is a
\* value that p has more of than q.
Matched(p, q, m, k, struck) ==
  /\ struck \subseteq 1..m /\ Cardinality(struck) <= k
  /\ Cardinality(struck) = k =>
       \A v : Occurs(p, k, v) = Cardinality({j \in struck : q[j] = v})
  /\ Cardinality(struck) # k =>
       \E i \in 1..k : Occurs(p, k, p[i]) > Occurs(q, m, p[i])

LEMMA MatchedNext ==
  ASSUME NEW p, NEW q, NEW m \in Nat, NEW k \in Nat, k # 0, NEW last, NEW struck,
         Matched(p, q, m, k - 1, last),
         struck = last \cup Smallests({j \in 1..m : q[j] = p[k]} \ last)
  PROVE  Matched(p, q, m, k, struck)
<1> DEFINE left == {j \in 1..m : q[j] = p[k]} \ last
           Of(s, v) == {j \in s : q[j] = v}
<1>1. k - 1 \in Nat /\ k \in 1..k /\ \A i \in 1..(k - 1) : i \in 1..k
  OBVIOUS
<1>2. last \subseteq 1..m /\ Cardinality(last) <= k - 1
  BY DEF Matched
<1>3. \A s \in SUBSET (1..m) : IsFiniteSet(s) /\ Cardinality(s) \in Nat
  <2>1. IsFiniteSet(1..m)
    BY FS_Interval
  <2> QED BY <2>1, FS_Subset, FS_CardinalityType
<1>4. \A v : /\ Occurs(p, k, v) = Occurs(p, k - 1, v) + (IF p[k] = v THEN 1 ELSE 0)
             /\ Occurs(p, k - 1, v) \in Nat /\ Occurs(q, m, v) \in Nat
  BY <1>1, OccursNext, OccursNat
<1>5. ASSUME Cardinality(last) # k - 1
      PROVE  \E i \in 1..k : Occurs(p, k, p[i]) > Occurs(q, m, p[i])
  <2>1. PICK i \in 1..(k - 1) : Occurs(p, k - 1, p[i]) > Occurs(q, m, p[i])
    BY <1>5 DEF Matched
  <2>2. PICK v : v = p[i]
    OBVIOUS
  <2>3. Occurs(p, k, v) > Occurs(q, m, v)
    BY <1>4, <2>1, <2>2
  <2> QED BY <1>1, <2>2, <2>3
<1>6. CASE left = {}
  <2>1. struck = last
    BY <1>6 DEF Smallests
  <2>2. Cardinality(last) \in Nat /\ Cardinality(struck) <= k /\ Cardinality(struck) # k
    <3>1. Cardinality(last) \in Nat
      BY <1>2, <1>3
    <3>2. PICK l : l = Cardinality(last)
      OBVIOUS
    <3>3. l \in Nat /\ l <= k - 1
      BY <1>2, <3>1, <3>2
    <3>4. l <= k /\ l # k
      BY <3>3
    <3> QED BY <2>1, <3>1, <3>2, <3>4
  <2>3. ASSUME Cardinality(last) = k - 1
        PROVE  Occurs(p, k, p[k]) > Occurs(q, m, p[k])
    <3>1. PICK v : v = p[k]
      OBVIOUS
    <3>2. Occurs(p, k - 1, v) = Cardinality(Of(last, v))
      BY <2>3 DEF Matched
    <3>3. Of(last, v) = {j \in 1..m : q[j] = v}
      BY <1>2, <1>6, <3>1
    <3>4. Occurs(p, k - 1, v) = Occurs(q, m, v)
      BY <3>2, <3>3 DEF Occurs, Places
    <3>5. Occurs(p, k, v) = Occurs(p, k - 1, v) + 1
      BY <1>4, <3>1
    <3> QED BY <1>4, <3>1, <3>4, <3>5
  <2> QED BY <1>1, <1>2, <1>5, <2>1, <2>2, <2>3 DEF Matched
<1>7. CASE left # {}
  <2>1. PICK j : j = Min(left)
    OBVIOUS
  <2>2. j \in left
    <3>1. left \subseteq Nat
      OBVIOUS
    <3>2. PICK l \in left : \A i \in left : l <= i
      <4> HIDE DEF left
      <4> QED BY <1>7, <3>1, Smallest
    <3> HIDE DEF left
    <3> QED BY <2>1, <3>2 DEF Min
  <2>3. struck = last \cup {j}
    BY <1>7, <2>1 DEF Smallests
  <2>4. j \in 1..m /\ j \notin last /\ q[j] = p[k]
    BY <2>2
  <2>5. Cardinality(struck) = Cardinality(last) + 1 /\ Cardinality(last) \in Nat
    BY <1>2, <1>3, <2>3, <2>4, FS_AddElement
  <2>6. ASSUME Cardinality(last) = k - 1, NEW v
        PROVE  Occurs(p, k, v) = Cardinality(Of(struck, v))
    <3>1. Occurs(p, k - 1, v) = Cardinality(Of(last, v))
      BY <2>6 DEF Matched
    <3>2. Of(struck, v) = IF q[j] = v THEN Of(last, v) \cup {j} ELSE Of(last, v)
      BY <2>3
    <3>3. IsFiniteSet(Of(last, v)) /\ j \notin Of(last, v)
      BY <1>2, <1>3, <2>4
    <3> HIDE DEF Of
    <3>4. Cardinality(Of(last, v) \cup {j}) = Cardinality(Of(last, v)) + 1
      BY <3>3, FS_AddElement
    <3>5. CASE p[k] = v
      BY <1>4, <2>4, <3>1, <3>2, <3>4, <3>5
    <3>6. CASE p[k] # v
      BY <1>4, <2>4, <3>1, <3>2, <3>6
    <3> QED BY <3>5, <3>6
  <2>7. struck \subseteq 1..m /\ Cardinality(struck) <= k
        /\ (Cardinality(struck) = k <=> Cardinality(last) = k - 1)
    BY <1>2, <2>3, <2>4, <2>5
  <2> HIDE DEF left
  <2> QED BY <1>5, <2>6, <2>7 DEF Matched
<1> QED BY <1>6, <1>7

Equals(p, q, n, m, arg) ==
  \A k \in 1..n : \A j : j \in arg[k] <=> j \in 1..m /\ q[j] = p[k]

AsOften(p, q, n, m) ==
  /\ \A i \in 1..n : Occurs(p, n, p[i]) = Occurs(q, m, p[i])
  /\ \A j \in 1..m : Occurs(p, n, q[j]) = Occurs(q, m, q[j])

\* All are struck exactly if every value is as often in p as in q.
LEMMA Matching ==
  ASSUME NEW p, NEW q, NEW n \in Nat, NEW m \in Nat, NEW arg,
         Equals(p, q, n, m, arg),
         NEW c, Chain("struck", Nothing, arg, n, c)
  PROVE  Cardinality(c[n]) = n /\ Cardinality(c[n]) = m
           <=> AsOften(p, q, n, m)
<1> DEFINE T == {k \in 0..n : Matched(p, q, m, k, c[k])}
<1>1. 0 \in T
  <2>1. c[0] = Nothing
    BY ChainStart
  <2>2. PICK s : s = c[0]
    OBVIOUS
  <2>4. Cardinality({}) = 0 /\ \A v : {j \in {} : q[j] = v} = {}
    BY FS_EmptySet
  <2>5. Matched(p, q, m, 0, {})
    BY <2>4, OccursNone DEF Matched
  <2>6. Matched(p, q, m, 0, s)
    BY <2>1, <2>2, <2>5 DEF Nothing
  <2> QED BY <2>2, <2>6
<1>2. ASSUME NEW k \in 1..n, k - 1 \in T PROVE k \in T
  <2>1. PICK last, struck : last = c[k - 1] /\ struck = c[k]
    OBVIOUS
  <2>2. struck = Step("struck", arg, last, k)
    <3>1. \A l \in 1..n : c[l] = Step("struck", arg, c[l - 1], l)
      BY ChainAt
    <3> QED BY <2>1, <3>1
  <2>3. struck = last \cup Smallests({j \in 1..m : q[j] = p[k]} \ last)
    <3>1. arg[k] = {j \in 1..m : q[j] = p[k]}
      BY DEF Equals
    <3> QED BY <2>2, <3>1 DEF Step
  <2>4. Matched(p, q, m, k - 1, last) /\ k \in Nat /\ k # 0
    BY <1>2, <2>1
  <2>5. Matched(p, q, m, k, struck)
    BY <2>3, <2>4, MatchedNext
  <2> QED BY <2>1, <2>5
<1>3. n \in T
  <2> HIDE DEF T
  <2> QED BY <1>1, <1>2, InductionTo
<1>4. PICK s : s = c[n]
  OBVIOUS
<1>5. Matched(p, q, m, n, s)
  BY <1>3, <1>4
<1>6. IsFiniteSet(1..m) /\ Cardinality(1..m) = m
  BY FS_Interval
<1>7. s \subseteq 1..m
  BY <1>5 DEF Matched
<1> HIDE DEF T
<1>8. ASSUME Cardinality(s) = n, Cardinality(s) = m
      PROVE  \A v : Occurs(p, n, v) = Occurs(q, m, v)
  <2>1. s = 1..m
    BY <1>6, <1>7, <1>8, FS_Subset
  <2>2. ASSUME NEW v PROVE Occurs(p, n, v) = Occurs(q, m, v)
    BY <1>5, <1>8, <2>1 DEF Matched, Occurs, Places
  <2> QED BY <2>2
<1>9. ASSUME \A i \in 1..n : Occurs(p, n, p[i]) = Occurs(q, m, p[i]),
             \A j \in 1..m : Occurs(p, n, q[j]) = Occurs(q, m, q[j])
      PROVE  Cardinality(s) = n /\ Cardinality(s) = m
  <2>1. Cardinality(s) = n
    <3>1. ASSUME NEW i \in 1..n, Occurs(p, n, p[i]) > Occurs(q, m, p[i]) PROVE FALSE
      <4>1. PICK o : o = Occurs(q, m, p[i])
        OBVIOUS
      <4>2. PICK v : v = p[i]
        OBVIOUS
      <4>3. Occurs(q, m, v) \in Nat
        BY OccursNat
      <4> QED BY <1>9, <3>1, <4>1, <4>2, <4>3
    <3> QED BY <1>5, <3>1 DEF Matched
  <2>2. ASSUME NEW l \in 1..m PROVE l \in s
    <3>1. PICK v : v = q[l]
      OBVIOUS
    <3> DEFINE mine == {j \in s : q[j] = v}
               all  == Places(q, m, v)
    <3>2. Cardinality(mine) = Cardinality(all)
      <4>1. Occurs(p, n, v) = Occurs(q, m, v)
        BY <1>9, <3>1
      <4>2. Occurs(p, n, v) = Cardinality(mine)
        BY <1>5, <2>1 DEF Matched
      <4> QED BY <4>1, <4>2 DEF Occurs, Places
    <3>3. IsFiniteSet(all) /\ mine \subseteq all
      <4>1. IsFiniteSet(all)
        BY OccursNat
      <4>2. mine \subseteq all
        BY <1>7 DEF Places
      <4> QED BY <4>1, <4>2
    <3>4. l \in all
      BY <3>1 DEF Places
    <3>5. mine = all
      <4> HIDE DEF mine, all
      <4> QED BY <3>2, <3>3, FS_Subset
    <3> QED BY <3>4, <3>5
  <2>3. s = 1..m
    BY <1>7, <2>2
  <2> QED BY <1>6, <2>1, <2>3
<1> QED BY <1>4, <1>8, <1>9 DEF AsOften

\* How often the elements of a list have each of the keys.
Counted(s, key, keys) == [v \in keys |-> Cardinality({i \in DOMAIN s : key[s[i]] = v})]

InKeys(s, key, keys) == \A x \in Range(s) : key[x] \in keys

SameByKey(s, t, same, key) ==
  \A x, y \in Range(s) \cup Range(t) : <<x, y>> \in same <=> key[x] = key[y]

HitsByKey(s, t, hits, key) ==
  \A i \in DOMAIN s, j \in DOMAIN t : <<i, j>> \in hits <=> key[s[i]] = key[t[j]]

\* Two lists whose elements are the same exactly if their keys are equal:
\* the comparison and the bags agree.
LEMMA ByKey ==
  ASSUME NEW s, s \in Seq(Range(s)), NEW t, t \in Seq(Range(t)), NEW same, NEW key, NEW keys,
         SameByKey(s, t, same, key), InKeys(s, key, keys), InKeys(t, key, keys)
  PROVE  SameBag(s, t, same) <=> Counted(s, key, keys) = Counted(t, key, keys)
<1>1. ASSUME NEW e \in Range(s) \cup Range(t)
      PROVE  /\ {i \in DOMAIN s : <<s[i], e>> \in same} = {i \in DOMAIN s : key[s[i]] = key[e]}
             /\ {i \in DOMAIN t : <<t[i], e>> \in same} = {i \in DOMAIN t : key[t[i]] = key[e]}
  <2>1. /\ \A i \in DOMAIN s : s[i] \in Range(s) \cup Range(t)
        /\ \A i \in DOMAIN t : t[i] \in Range(s) \cup Range(t)
    BY DEF Range
  <2> QED BY <2>1 DEF SameByKey
<1> DEFINE S(v) == Cardinality({i \in DOMAIN s : key[s[i]] = v})
           U(v) == Cardinality({i \in DOMAIN t : key[t[i]] = v})
<1>2. SameBag(s, t, same) <=> \A e \in Range(s) \cup Range(t) : S(key[e]) = U(key[e])
  BY <1>1 DEF SameBag
<1>3. ASSUME NEW v, \A e \in Range(s) \cup Range(t) : key[e] # v
      PROVE  S(v) = U(v)
  <2>1. {i \in DOMAIN s : key[s[i]] = v} = {} /\ {i \in DOMAIN t : key[t[i]] = v} = {}
    BY <1>3 DEF Range
  <2> QED BY <2>1
<1>4. (\A e \in Range(s) \cup Range(t) : S(key[e]) = U(key[e])) <=> \A v \in keys : S(v) = U(v)
  <2> HIDE DEF S, U
  <2>1. ASSUME \A e \in Range(s) \cup Range(t) : S(key[e]) = U(key[e]), NEW v \in keys
        PROVE  S(v) = U(v)
    <3>1. CASE \E e \in Range(s) \cup Range(t) : key[e] = v
      BY <2>1, <3>1
    <3>2. CASE \A e \in Range(s) \cup Range(t) : key[e] # v
      BY <1>3, <3>2
    <3> QED BY <3>1, <3>2
  <2> QED BY <2>1 DEF InKeys
<1>5. (\A v \in keys : S(v) = U(v)) <=> Counted(s, key, keys) = Counted(t, key, keys)
  <2>1. Counted(s, key, keys) = [v \in keys |-> S(v)] /\ Counted(t, key, keys) = [v \in keys |-> U(v)]
    BY DEF Counted
  <2> HIDE DEF S, U
  <2> QED BY <2>1
<1> HIDE DEF S, U
<1> QED BY <1>2, <1>4, <1>5

LEMMA Compared ==
  ASSUME NEW s, s \in Seq(Range(s)), NEW t, t \in Seq(Range(t)), NEW hits, NEW key, NEW keys,
         HitsByKey(s, t, hits, key), InKeys(s, key, keys), InKeys(t, key, keys)
  PROVE  NothingLeft(s, t, hits) <=> Counted(s, key, keys) = Counted(t, key, keys)
<1>1. PICK n \in Nat : n = Len(s) /\ DOMAIN s = 1..n
  OBVIOUS
<1>2. PICK m \in Nat : m = Len(t) /\ DOMAIN t = 1..m
  OBVIOUS
<1>3. PICK p : p = [i \in 1..n |-> key[s[i]]]
  OBVIOUS
<1>4. PICK q : q = [j \in 1..m |-> key[t[j]]]
  OBVIOUS
<1>5. PICK arg : HitsOf(t, hits, n, arg)
  <2> DEFINE Hit(k) == {j \in DOMAIN t : <<k, j>> \in hits}
  <2>1. PICK arg : arg = [k \in 1..n |-> Hit(k)]
    OBVIOUS
  <2>2. ASSUME NEW k \in 1..n PROVE \A j : j \in arg[k] <=> j \in DOMAIN t /\ <<k, j>> \in hits
    <3>1. \A j : j \in Hit(k) <=> j \in DOMAIN t /\ <<k, j>> \in hits
      BY Zenon
    <3> HIDE DEF Hit
    <3>2. arg[k] = Hit(k)
      BY <2>1
    <3> QED BY <3>1, <3>2
  <2>3. HitsOf(t, hits, n, arg)
    BY <2>2 DEF HitsOf
  <2> QED BY <2>3
<1>6. Equals(p, q, n, m, arg)
  <2>1. ASSUME NEW k \in 1..n, NEW j \in 1..m PROVE <<k, j>> \in hits <=> q[j] = p[k]
    <3>1. <<k, j>> \in hits <=> key[s[k]] = key[t[j]]
      BY <1>1, <1>2 DEF HitsByKey
    <3>2. p[k] = key[s[k]]
      BY <1>3
    <3>3. q[j] = key[t[j]]
      BY <1>4
    <3> QED BY <3>1, <3>2, <3>3
  <2> QED BY <1>2, <1>5, <2>1 DEF HitsOf, Equals
<1>7. PICK c : Chain("struck", Nothing, arg, n, c) /\ Struck(t, hits, n) = c[n]
  <2>1. n \in Nat
    BY <1>1
  <2> QED BY <1>5, <2>1, StruckIs
<1>8. NothingLeft(s, t, hits) <=> Cardinality(c[n]) = n /\ Cardinality(c[n]) = m
  BY <1>1, <1>2, <1>7 DEF NothingLeft
<1>9. Cardinality(c[n]) = n /\ Cardinality(c[n]) = m
        <=> AsOften(p, q, n, m)
  <2>1. n \in Nat /\ m \in Nat /\ Chain("struck", Nothing, arg, n, c)
    BY <1>1, <1>2, <1>7
  <2> QED BY <1>6, <2>1, Matching
<1>10. ASSUME NEW v
       PROVE  /\ {i \in DOMAIN s : key[s[i]] = v} = {i \in 1..n : p[i] = v}
              /\ {j \in DOMAIN t : key[t[j]] = v} = {j \in 1..m : q[j] = v}
  BY <1>1, <1>2, <1>3, <1>4
<1>11. \A v : /\ Cardinality({i \in DOMAIN s : key[s[i]] = v}) = Occurs(p, n, v)
              /\ Cardinality({j \in DOMAIN t : key[t[j]] = v}) = Occurs(q, m, v)
  BY <1>10 DEF Occurs, Places
<1>12. Counted(s, key, keys) = Counted(t, key, keys)
         <=> \A v \in keys : Occurs(p, n, v) = Occurs(q, m, v)
  <2>1. Counted(s, key, keys) = [v \in keys |-> Occurs(p, n, v)]
        /\ Counted(t, key, keys) = [v \in keys |-> Occurs(q, m, v)]
    BY <1>11 DEF Counted
  <2> QED BY <2>1
<1>13. (\A v \in keys : Occurs(p, n, v) = Occurs(q, m, v))
         <=> AsOften(p, q, n, m)
  <2>1. (\A i \in 1..n : p[i] \in keys) /\ (\A j \in 1..m : q[j] \in keys)
    BY <1>1, <1>2, <1>3, <1>4 DEF Range, InKeys
  <2>2. ASSUME NEW v \in keys, \A i \in 1..n : p[i] # v, \A j \in 1..m : q[j] # v
        PROVE  Occurs(p, n, v) = Occurs(q, m, v)
    <3>1. {i \in 1..n : p[i] = v} = {} /\ {j \in 1..m : q[j] = v} = {}
      BY <2>2
    <3> QED BY <3>1 DEF Occurs, Places
  <2> QED BY <2>1, <2>2 DEF AsOften
<1> QED BY <1>8, <1>9, <1>12, <1>13

LEMMA AlikeUnfolds ==
  ASSUME NEW x, NEW y, NEW m \in Nat
  PROVE  \E g : Levels("alike", x, y, m, m, g) /\ (SameAgent(x, y, m) <=> <<x, y>> \in g[m])
<1> DEFINE E(f) == [d \in 0..m |-> AlikePairs(x, y, m, d, f[d - 1])]
           H == CHOOSE f : f = E(f)
<1>1. SameAgent(x, y, m) <=> <<x, y>> \in H[m]
  BY DEF SameAgent, AlikePairs
<1>2. \A f : Levels("alike", x, y, m, m, f) <=> f = E(f)
  <2>1. \A d, last : Level("alike", x, y, m, d, last) = AlikePairs(x, y, m, d, last)
    BY DEF Level
  <2> QED BY <2>1 DEF Levels
<1>3. PICK f : f = E(f)
  <2> HIDE DEF E
  <2> QED BY <1>2, LevelsExist DEF Kind
<1>4. Levels("alike", x, y, m, m, H)
  <2>1. H = E(H)
    <3> HIDE DEF E
    <3> QED BY <1>3
  <2> HIDE DEF E, H
  <2> QED BY <1>2, <2>1
<1> HIDE DEF H, E
<1> QED BY <1>1, <1>4

-----------------------------------------------------------------------------
(* Comparing identifiers is comparing the bags of their resolvers.         *)

LEMMA NestedProper ==
  ASSUME NEW a, AgentOK(a), NEW k \in Nat, NEW b \in Nested(a, k)
  PROVE  Proper(b)
<1>1. \A l \in Nat : l > Nesting => Nested(a, l) = {}
  <2> DEFINE T == {l \in Nat : l > Nesting => Nested(a, l) = {}}
  <2>1. 0 \in T
    BY AgentIDAssumption
  <2>2. ASSUME NEW l \in Nat, l \in T PROVE l + 1 \in T
    <3>1. Nested(a, l + 1) = UNION {Range(c.resolvers) : c \in Nested(a, l)}
      BY NestedNext
    <3>2. CASE l > Nesting
      BY <2>2, <3>1, <3>2, AgentIDAssumption
    <3>3. CASE l = Nesting
      <4>1. ASSUME NEW c \in Nested(a, l) PROVE Range(c.resolvers) = {}
        <5>1. l \in 0..Nesting
          BY <3>3
        <5>2. c.resolvers = <<>>
          BY <3>3, <5>1, AgentNested
        <5> QED BY <5>2 DEF Range
      <4> QED BY <3>1, <4>1
    <3>4. CASE l < Nesting
      BY <3>4, AgentIDAssumption
    <3> QED BY <3>2, <3>3, <3>4, AgentIDAssumption
  <2>3. Nat \subseteq T
    <3> HIDE DEF T
    <3> QED BY <2>1, <2>2, Induction
  <2> QED BY <2>3
<1>2. k \in 0..Nesting
  BY <1>1, AgentIDAssumption
<1> QED BY <1>2, AgentNested

\* Texts are their own keys.
Itself(self, V) == self = [v \in V |-> v]

LEMMA TextsByKey ==
  ASSUME NEW s, s \in Seq(Range(s)), NEW t, t \in Seq(Range(t)),
         NEW V, Range(s) \subseteq V, Range(t) \subseteq V, NEW self, Itself(self, V)
  PROVE  /\ SameTextBag(s, t) <=> Counted(s, self, V) = Counted(t, self, V)
         /\ SameTexts(s, t) <=> Counted(s, self, V) = Counted(t, self, V)
<1>1. InKeys(s, self, V) /\ InKeys(t, self, V)
  BY DEF InKeys, Itself
<1>2. SameTextBag(s, t) <=> Counted(s, self, V) = Counted(t, self, V)
  <2>1. PICK same : same = {<<x, x>> : x \in Range(s) \cup Range(t)}
    OBVIOUS
  <2>2. SameByKey(s, t, same, self)
    <3>1. \A x, y \in Range(s) \cup Range(t) : <<x, y>> \in same <=> x = y
      BY <2>1
    <3> QED BY <3>1 DEF SameByKey, Itself
  <2>3. SameTextBag(s, t) <=> SameBag(s, t, same)
    BY <2>1 DEF SameTextBag
  <2> QED BY <1>1, <2>2, <2>3, ByKey
<1>3. SameTexts(s, t) <=> Counted(s, self, V) = Counted(t, self, V)
  <2>1. PICK hits : hits = {h \in (DOMAIN s) \X (DOMAIN t) : s[h[1]] = t[h[2]]}
    OBVIOUS
  <2>2. HitsByKey(s, t, hits, self)
    <3>1. \A i \in DOMAIN s, j \in DOMAIN t : <<i, j>> \in hits <=> s[i] = t[j]
      BY <2>1
    <3>2. (\A i \in DOMAIN s : s[i] \in V) /\ (\A j \in DOMAIN t : t[j] \in V)
      BY DEF Range
    <3> QED BY <3>1, <3>2 DEF HitsByKey, Itself
  <2>3. SameTexts(s, t) <=> NothingLeft(s, t, hits)
    BY <2>1 DEF SameTexts
  <2> QED BY <1>1, <2>2, <2>3, Compared
<1> QED BY <1>2, <1>3

\* Keys that tell which of the identifiers in A and B are the same, for both
\* comparisons.
Keyed(A, B, equal, alike, key, keys) ==
  /\ \A x \in A \cup B : key[x] \in keys
  /\ \A x, y \in A \cup B : <<x, y>> \in alike <=> key[x] = key[y]
  /\ \A x \in A, y \in B : <<x, y>> \in equal <=> key[x] = key[y]

\* The key of an identifier, last being the keys of those one level deeper.
KeyOf(x, V, self, deepest, last, keys) ==
  [ name       |-> x.name,
    addresses  |-> Counted(x.addresses, self, V),
    resolvers  |-> IF deepest THEN <<>> ELSE Counted(x.resolvers, last, keys),
    parameters |-> Counted(x.parameters, self, V) ]

LEMMA KeyedLevel ==
  ASSUME NEW a, AgentOK(a), NEW b, AgentOK(b), NEW m \in Nat, NEW d \in 0..m,
         NEW equal, NEW alike,
         d # 0 => \E key, keys : Keyed(Nested(a, m - (d - 1)), Nested(b, m - (d - 1)),
                                       equal, alike, key, keys)
  PROVE  \E key, keys : Keyed(Nested(a, m - d), Nested(b, m - d),
                              EqualPairs(a, b, m, d, equal),
                              AlikePairs(a, b, m, d, alike), key, keys)
<1>1. PICK A, B : A = Nested(a, m - d) /\ B = Nested(b, m - d)
  OBVIOUS
<1>2. PICK U : U = A \cup B
  OBVIOUS
<1>3. m - d \in Nat
  OBVIOUS
<1>4. \A x \in U : Proper(x)
  <2>1. PICK k : k = m - d
    OBVIOUS
  <2> QED BY <1>1, <1>2, <1>3, <2>1, NestedProper
<1>5. \A x \in U : x.addresses \in Seq(Range(x.addresses))
  BY <1>4, ListOf DEF Proper
<1>6. PICK V : V = UNION {Range(x.addresses) \cup Range(x.parameters) : x \in U}
  OBVIOUS
<1>7. PICK self : Itself(self, V)
  BY DEF Itself
<1>8. PICK A1, B1 : A1 = Nested(a, m - (d - 1)) /\ B1 = Nested(b, m - (d - 1))
  OBVIOUS
<1>9. PICK last, keys : d # 0 => Keyed(A1, B1, equal, alike, last, keys)
  BY <1>8
<1>10. \A x \in A : Range(x.resolvers) \subseteq A1
  <2>1. (m - d) + 1 = m - (d - 1)
    OBVIOUS
  <2>2. PICK k : k = m - d
    OBVIOUS
  <2>3. \A x \in Nested(a, k) : Range(x.resolvers) \subseteq Nested(a, k + 1)
    BY <1>3, <2>2, NestedBelow
  <2> QED BY <1>1, <1>8, <2>1, <2>2, <2>3
<1>11. \A x \in B : Range(x.resolvers) \subseteq B1
  <2>1. (m - d) + 1 = m - (d - 1)
    OBVIOUS
  <2>2. PICK k : k = m - d
    OBVIOUS
  <2>3. \A x \in Nested(b, k) : Range(x.resolvers) \subseteq Nested(b, k + 1)
    BY <1>3, <2>2, NestedBelow
  <2> QED BY <1>1, <1>8, <2>1, <2>2, <2>3
<1> DEFINE K(x) == KeyOf(x, V, self, d = 0, last, keys)
<1>12. ASSUME NEW x \in U, NEW y \in U
       PROVE  /\ SameTextBag(x.addresses, y.addresses)
                   <=> Counted(x.addresses, self, V) = Counted(y.addresses, self, V)
              /\ SameTexts(x.addresses, y.addresses)
                   <=> Counted(x.addresses, self, V) = Counted(y.addresses, self, V)
              /\ SameTextBag(x.parameters, y.parameters)
                   <=> Counted(x.parameters, self, V) = Counted(y.parameters, self, V)
              /\ SameTexts(x.parameters, y.parameters)
                   <=> Counted(x.parameters, self, V) = Counted(y.parameters, self, V)
  <2>1. PICK s, t : s = x.addresses /\ t = y.addresses
    OBVIOUS
  <2>2. PICK p, q : p = x.parameters /\ q = y.parameters
    OBVIOUS
  <2>3. /\ s \in Seq(Range(s)) /\ t \in Seq(Range(t))
        /\ p \in Seq(Range(p)) /\ q \in Seq(Range(q))
    BY <1>4, <1>5, <2>1, <2>2 DEF Proper
  <2>4. Range(s) \subseteq V /\ Range(t) \subseteq V /\ Range(p) \subseteq V /\ Range(q) \subseteq V
    BY <1>6, <2>1, <2>2
  <2>5. /\ SameTextBag(s, t) <=> Counted(s, self, V) = Counted(t, self, V)
        /\ SameTexts(s, t) <=> Counted(s, self, V) = Counted(t, self, V)
    BY <1>7, <2>3, <2>4, TextsByKey
  <2>6. /\ SameTextBag(p, q) <=> Counted(p, self, V) = Counted(q, self, V)
        /\ SameTexts(p, q) <=> Counted(p, self, V) = Counted(q, self, V)
    BY <1>7, <2>3, <2>4, TextsByKey
  <2> QED BY <2>1, <2>2, <2>5, <2>6
<1>13. ASSUME NEW x \in U, NEW y \in U, d # 0
       PROVE  SameBag(x.resolvers, y.resolvers, alike)
                <=> Counted(x.resolvers, last, keys) = Counted(y.resolvers, last, keys)
  <2>1. PICK s, t : s = x.resolvers /\ t = y.resolvers
    OBVIOUS
  <2>2. s \in Seq(Range(s)) /\ t \in Seq(Range(t))
    BY <1>4, <2>1 DEF Proper
  <2>3. Range(s) \subseteq A1 \cup B1 /\ Range(t) \subseteq A1 \cup B1
    BY <1>2, <1>10, <1>11, <2>1
  <2>4. SameByKey(s, t, alike, last) /\ InKeys(s, last, keys) /\ InKeys(t, last, keys)
    BY <1>9, <1>13, <2>3 DEF Keyed, SameByKey, InKeys
  <2>5. SameBag(s, t, alike) <=> Counted(s, last, keys) = Counted(t, last, keys)
    BY <2>2, <2>4, ByKey
  <2> QED BY <2>1, <2>5
<1>14. ASSUME NEW x \in A, NEW y \in B, d # 0
       PROVE  NothingLeft(x.resolvers, y.resolvers,
                {h \in (DOMAIN x.resolvers) \X (DOMAIN y.resolvers) :
                   <<x.resolvers[h[1]], y.resolvers[h[2]]>> \in equal})
                <=> Counted(x.resolvers, last, keys) = Counted(y.resolvers, last, keys)
  <2>1. PICK s, t : s = x.resolvers /\ t = y.resolvers
    OBVIOUS
  <2>2. s \in Seq(Range(s)) /\ t \in Seq(Range(t))
    BY <1>2, <1>4, <2>1 DEF Proper
  <2>3. Range(s) \subseteq A1 /\ Range(t) \subseteq B1
    BY <1>10, <1>11, <2>1
  <2>4. PICK hits : hits = {h \in (DOMAIN s) \X (DOMAIN t) : <<s[h[1]], t[h[2]]>> \in equal}
    OBVIOUS
  <2>5. HitsByKey(s, t, hits, last)
    <3>1. \A i \in DOMAIN s, j \in DOMAIN t : <<i, j>> \in hits <=> <<s[i], t[j]>> \in equal
      BY <2>4
    <3>2. (\A i \in DOMAIN s : s[i] \in A1) /\ (\A j \in DOMAIN t : t[j] \in B1)
      BY <2>3 DEF Range
    <3>3. \A x1 \in A1, y1 \in B1 : <<x1, y1>> \in equal <=> last[x1] = last[y1]
      BY <1>9, <1>14 DEF Keyed
    <3>4. ASSUME NEW i \in DOMAIN s, NEW j \in DOMAIN t
          PROVE  <<i, j>> \in hits <=> last[s[i]] = last[t[j]]
      <4>1. s[i] \in A1 /\ t[j] \in B1
        BY <3>2
      <4>2. <<s[i], t[j]>> \in equal <=> last[s[i]] = last[t[j]]
        BY <3>3, <4>1
      <4> QED BY <3>1, <4>2
    <3> QED BY <3>4 DEF HitsByKey
  <2>6. InKeys(s, last, keys) /\ InKeys(t, last, keys)
    BY <1>9, <1>14, <2>3 DEF Keyed, InKeys
  <2>7. NothingLeft(s, t, hits) <=> Counted(s, last, keys) = Counted(t, last, keys)
    BY <2>2, <2>5, <2>6, Compared
  <2> QED BY <2>1, <2>4, <2>7
<1>15. ASSUME NEW x, NEW y
       PROVE  K(x) = K(y) <=>
                /\ x.name = y.name
                /\ Counted(x.addresses, self, V) = Counted(y.addresses, self, V)
                /\ d # 0 => Counted(x.resolvers, last, keys) = Counted(y.resolvers, last, keys)
                /\ Counted(x.parameters, self, V) = Counted(y.parameters, self, V)
  BY DEF KeyOf
<1>16. PICK e : e = EqualPairs(a, b, m, d, equal)
  OBVIOUS
<1>17. PICK f : f = AlikePairs(a, b, m, d, alike)
  OBVIOUS
<1>18. d > 0 <=> d # 0
  OBVIOUS
<1>19. ASSUME NEW x \in U, NEW y \in U
       PROVE  <<x, y>> \in f <=> K(x) = K(y)
  <2>1. <<x, y>> \in f <=>
          /\ x.name = y.name
          /\ SameTextBag(x.addresses, y.addresses)
          /\ d > 0 => SameBag(x.resolvers, y.resolvers, alike)
          /\ SameTextBag(x.parameters, y.parameters)
    BY <1>1, <1>2, <1>17 DEF AlikePairs
  <2> HIDE DEF K
  <2> QED BY <1>12, <1>13, <1>15, <1>18, <2>1
<1>20. ASSUME NEW x \in A, NEW y \in B
       PROVE  <<x, y>> \in e <=> K(x) = K(y)
  <2>1. <<x, y>> \in e <=>
          /\ x.name = y.name
          /\ SameTexts(x.addresses, y.addresses)
          /\ d > 0 =>
               NothingLeft(x.resolvers, y.resolvers,
                 {h \in (DOMAIN x.resolvers) \X (DOMAIN y.resolvers) :
                    <<x.resolvers[h[1]], y.resolvers[h[2]]>> \in equal})
          /\ SameTexts(x.parameters, y.parameters)
    BY <1>1, <1>16 DEF EqualPairs
  <2>2. x \in U /\ y \in U
    BY <1>2
  <2> HIDE DEF K
  <2> QED BY <1>12, <1>14, <1>15, <1>18, <2>1, <2>2
<1>21. PICK key : key = [x \in U |-> K(x)]
  OBVIOUS
<1>22. PICK ks : ks = {K(x) : x \in U}
  OBVIOUS
<1>23. Keyed(A, B, e, f, key, ks)
  <2> HIDE DEF K
  <2>1. \A x \in U : key[x] = K(x) /\ key[x] \in ks
    BY <1>21, <1>22
  <2>2. ASSUME NEW x \in U, NEW y \in U PROVE <<x, y>> \in f <=> key[x] = key[y]
    <3>1. key[x] = K(x) /\ key[y] = K(y)
      BY <2>1
    <3> QED BY <1>19, <3>1
  <2>3. ASSUME NEW x \in A, NEW y \in B PROVE <<x, y>> \in e <=> key[x] = key[y]
    <3>1. key[x] = K(x) /\ key[y] = K(y)
      BY <1>2, <2>1
    <3> QED BY <1>20, <3>1
  <2> QED BY <1>2, <2>1, <2>2, <2>3 DEF Keyed
<1> QED BY <1>1, <1>16, <1>17, <1>23

LEMMA Exact ==
  ASSUME NEW a, AgentOK(a), NEW b, AgentOK(b), NEW m \in Nat
  PROVE  CompareEqual(a, b, m) <=> SameAgent(a, b, m)
<1>1. PICK e : Levels("equal", a, b, m, m, e) /\ (CompareEqual(a, b, m) <=> <<a, b>> \in e[m])
  BY CompareUnfolds
<1>2. PICK f : Levels("alike", a, b, m, m, f) /\ (SameAgent(a, b, m) <=> <<a, b>> \in f[m])
  BY AlikeUnfolds
<1> DEFINE Have(d) == \E key, keys : Keyed(Nested(a, m - d), Nested(b, m - d), e[d], f[d], key, keys)
           T == {d \in 0..m : Have(d)}
<1>3. ASSUME NEW d \in 0..m, d # 0 => Have(d - 1) PROVE Have(d)
  <2>1. PICK equal, alike : equal = e[d - 1] /\ alike = f[d - 1]
    OBVIOUS
  <2>2. d # 0 => \E key, keys : Keyed(Nested(a, m - (d - 1)), Nested(b, m - (d - 1)),
                                      equal, alike, key, keys)
    BY <1>3, <2>1
  <2>3. \E key, keys : Keyed(Nested(a, m - d), Nested(b, m - d),
                             EqualPairs(a, b, m, d, equal),
                             AlikePairs(a, b, m, d, alike), key, keys)
    BY <2>2, KeyedLevel
  <2>4. e[d] = EqualPairs(a, b, m, d, equal) /\ f[d] = AlikePairs(a, b, m, d, alike)
    BY <1>1, <1>2, <2>1 DEF Levels, Level
  <2> QED BY <2>3, <2>4
<1> HIDE DEF Have
<1>4. 0 \in T
  <2>1. 0 \in 0..m
    OBVIOUS
  <2> QED BY <1>3, <2>1
<1>5. ASSUME NEW d \in 1..m, d - 1 \in T PROVE d \in T
  <2>1. d \in 0..m /\ Have(d - 1)
    BY <1>5
  <2> QED BY <1>3, <2>1
<1>6. m \in T
  <2> HIDE DEF T
  <2> QED BY <1>4, <1>5, InductionTo
<1>7. PICK key, keys : Keyed(Nested(a, 0), Nested(b, 0), e[m], f[m], key, keys)
  <2>1. Have(m) /\ m - m = 0
    BY <1>6
  <2> QED BY <2>1 DEF Have
<1>8. a \in Nested(a, 0) /\ b \in Nested(b, 0)
  BY NestedSelf
<1>9. <<a, b>> \in e[m] <=> <<a, b>> \in f[m]
  BY <1>7, <1>8 DEF Keyed
<1> QED BY <1>1, <1>2, <1>9

\* A list of agents into which one is put names that one too, unless it
\* named it before.
LEMMA PrependNames ==
  ASSUME NEW S, NEW s \in Seq(S), NEW a \in S
  PROVE  /\ PrependAgent(s, a) \in Seq(S)
         /\ NamesOf(PrependAgent(s, a)) = NamesOf(s) \cup {a.name}
<1>1. CASE Holds(s, a)
  <2>1. PICK i \in DOMAIN s : AgentEqual(s[i], a)
    BY <1>1 DEF Holds
  <2>2. s[i].name = a.name
    BY <2>1, AgentIDAssumption, EqualNames DEF AgentEqual
  <2>3. a.name \in NamesOf(s)
    BY <2>1, <2>2 DEF NamesOf, Range
  <2> QED BY <1>1, <2>3 DEF PrependAgent
<1>2. CASE ~ Holds(s, a)
  <2>1. PrependAgent(s, a) = <<a>> \o s
    BY <1>2 DEF PrependAgent
  <2>2. <<a>> \o s \in Seq(S)
    OBVIOUS
  <2>3. Range(<<a>> \o s) = Range(s) \cup {a}
    <3> DEFINE t == <<a>> \o s
    <3>1. /\ DOMAIN t = 1..(Len(s) + 1) /\ t[1] = a
          /\ \A i \in 1..Len(s) : t[i + 1] = s[i]
          /\ Len(s) \in Nat /\ DOMAIN s = 1..Len(s)
      OBVIOUS
    <3> HIDE DEF t
    <3>2. Range(t) \subseteq Range(s) \cup {a}
      <4> SUFFICES ASSUME NEW i \in DOMAIN t, i # 1 PROVE t[i] \in Range(s)
        BY <3>1 DEF Range
      <4>1. i - 1 \in 1..Len(s) /\ (i - 1) + 1 = i
        BY <3>1
      <4>2. t[i] = s[i - 1]
        BY <3>1, <4>1
      <4> QED BY <3>1, <4>1, <4>2 DEF Range
    <3>3. Range(s) \cup {a} \subseteq Range(t)
      <4>1. 1 \in DOMAIN t /\ \A i \in 1..Len(s) : i + 1 \in DOMAIN t
        BY <3>1
      <4> QED BY <3>1, <4>1 DEF Range
    <3> QED BY <3>2, <3>3 DEF t
  <2> QED BY <2>1, <2>2, <2>3 DEF NamesOf
<1> QED BY <1>1, <1>2

\* So it is when a list is put into it one by one.
NamedUpTo(ag, k) == {ag[i].name : i \in 1..k}

LEMMA NamedNext ==
  ASSUME NEW ag, NEW k \in Nat, k # 0
  PROVE  NamedUpTo(ag, k) = NamedUpTo(ag, k - 1) \cup {ag[k].name}
<1>1. 1..k = (1..(k - 1)) \cup {k}
  OBVIOUS
<1> QED BY <1>1 DEF NamedUpTo

LEMMA NamedAll ==
  ASSUME NEW ag, IsList(ag)
  PROVE  NamedUpTo(ag, 0) = {} /\ NamedUpTo(ag, Len(ag)) = NamesOf(ag)
<1>1. DOMAIN ag = 1..Len(ag) /\ 1..0 = {}
  BY DEF IsList
<1> QED BY <1>1 DEF NamedUpTo, NamesOf, Range

LEMMA AddedNames ==
  ASSUME NEW S, NEW s \in Seq(S), NEW ag \in Seq(S)
  PROVE  /\ FoldLeft(PrependAgent, s, ag) \in Seq(S)
         /\ NamesOf(FoldLeft(PrependAgent, s, ag)) = NamesOf(s) \cup NamesOf(ag)
<1>1. PICK n : n = Len(ag)
  OBVIOUS
<1>2. IsList(ag) /\ n \in Nat
  BY <1>1 DEF IsList
<1>3. \A k \in 1..n : ag[k] \in S
  BY <1>1
<1>4. PICK c : Chain("prepend", s, ag, n, c) /\ FoldLeft(PrependAgent, s, ag) = c[n]
  BY <1>1, <1>2, FoldPrepend
<1>5. c[0] = s
  BY <1>2, <1>4, ChainStart
<1> DEFINE T == {k \in 0..n : c[k] \in Seq(S) /\ NamesOf(c[k]) = NamesOf(s) \cup NamedUpTo(ag, k)}
<1>7. 0 \in T
  BY <1>2, <1>5, NamedAll
<1>8. ASSUME NEW k \in 1..n, k - 1 \in T PROVE k \in T
  <2>1. c[k - 1] \in Seq(S) /\ NamesOf(c[k - 1]) = NamesOf(s) \cup NamedUpTo(ag, k - 1)
    BY <1>8
  <2>2. ag[k] \in S /\ c[k] = PrependAgent(c[k - 1], ag[k])
    <3>1. c[k] = Step("prepend", ag, c[k - 1], k)
      BY <1>2, <1>4, ChainAt
    <3> QED BY <1>3, <3>1 DEF Step
  <2>3. c[k] \in Seq(S) /\ NamesOf(c[k]) = NamesOf(c[k - 1]) \cup {ag[k].name}
    <3>1. \A q \in Seq(S) : \A a \in S :
            /\ PrependAgent(q, a) \in Seq(S)
            /\ NamesOf(PrependAgent(q, a)) = NamesOf(q) \cup {a.name}
      BY PrependNames
    <3> HIDE DEF T
    <3> QED BY <2>1, <2>2, <3>1, Zenon
  <2>4. k \in 0..n /\ k \in Nat /\ k # 0
    BY <1>2
  <2>5. NamedUpTo(ag, k) = NamedUpTo(ag, k - 1) \cup {ag[k].name}
    BY <2>4, NamedNext
  <2> QED BY <2>1, <2>3, <2>4, <2>5
<1>9. n \in T
  <2> HIDE DEF T
  <2> QED BY <1>2, <1>7, <1>8, InductionTo
<1> QED BY <1>1, <1>2, <1>4, <1>9, NamedAll

AgentList(ag) == ag \in Seq(Range(ag)) /\ \A a \in Range(ag) : AgentOK(a)

LEMMA AddedList ==
  ASSUME NEW s, NEW ag, AgentList(s), AgentList(ag)
  PROVE  /\ AgentList(FoldLeft(PrependAgent, s, ag))
         /\ NamesOf(FoldLeft(PrependAgent, s, ag)) = NamesOf(s) \cup NamesOf(ag)
<1> DEFINE S == Range(s) \cup Range(ag)
           t == FoldLeft(PrependAgent, s, ag)
<1>1. s \in Seq(S) /\ ag \in Seq(S) /\ \A a \in S : AgentOK(a)
  <2>1. \A U, V, q : q \in Seq(U) /\ U \subseteq V => q \in Seq(V)
    OBVIOUS
  <2> QED BY <2>1 DEF AgentList
<1> HIDE DEF S
<1>2. t \in Seq(S) /\ NamesOf(t) = NamesOf(s) \cup NamesOf(ag)
  BY <1>1, AddedNames
<1> HIDE DEF t
<1>3. AgentList(t)
  BY <1>1, <1>2, ListOf DEF AgentList
<1> QED BY <1>2, <1>3 DEF t

\* The agents of a list, one by one.
LEMMA MappedList ==
  ASSUME NEW ag, ag \in Seq(Range(ag)), NEW bs, bs = [i \in DOMAIN ag |-> bs[i]],
         \A i \in DOMAIN ag : AgentOK(bs[i])
  PROVE  /\ AgentList(bs)
         /\ NamesOf(bs) = {bs[i].name : i \in DOMAIN ag}
         /\ bs # <<>> <=> ag # <<>>
<1>1. DOMAIN bs = DOMAIN ag /\ Range(bs) = {bs[i] : i \in DOMAIN ag}
  BY DEF Range
<1>2. PICK n : n \in Nat /\ DOMAIN ag = 1..n /\ (ag # <<>> <=> n # 0)
  <2>1. Len(ag) \in Nat /\ DOMAIN ag = 1..Len(ag) /\ (ag # <<>> <=> Len(ag) # 0)
    OBVIOUS
  <2> QED BY <2>1
<1>3. bs \in Seq(Range(bs)) /\ (bs # <<>> <=> n # 0)
  <2>1. \A S : (\A i \in 1..n : bs[i] \in S) => [i \in 1..n |-> bs[i]] \in Seq(S)
    BY <1>2
  <2>2. bs = [i \in 1..n |-> bs[i]] /\ \A i \in 1..n : bs[i] \in Range(bs)
    BY <1>1, <1>2 DEF Range
  <2>3. bs \in Seq(Range(bs))
    BY <2>1, <2>2, Zenon
  <2>4. Len(bs) = n
    BY <1>1, <1>2, <2>3
  <2> QED BY <2>3, <2>4
<1>4. NamesOf(bs) = {bs[i].name : i \in DOMAIN ag}
  BY <1>1 DEF NamesOf
<1>5. \A a \in Range(bs) : AgentOK(a)
  BY <1>1
<1> QED BY <1>2, <1>3, <1>4, <1>5 DEF AgentList

-----------------------------------------------------------------------------
(* Messages: what a parser does to the one it builds.                      *)

LEMMA MessageField ==
  DOMAIN NewMessage = {"performative", "sender", "receivers", "replyTo", "texts",
                       "protocol", "replyBy", "parameters", "content"}
BY DEF NewMessage

\* What a field of a message holds.
FieldOK(f, v) ==
  CASE f \in {"performative", "protocol"} -> v \in Checked
    [] f = "sender"                   -> AgentOK(v)
    [] f \in {"receivers", "replyTo"} -> AgentList(v)
    [] f = "texts"                    -> v = [g \in TextField |-> v[g]]
    [] f = "replyBy"                  -> v \in Time
    [] f = "parameters" -> v \in Seq(Range(v)) /\ \A p \in Range(v) : IsParam(p)
    [] f = "content"                  -> v \in Content

LEMMA MessageParts ==
  ASSUME NEW m
  PROVE  MessageOK(m) <=>
           /\ DOMAIN m = DOMAIN NewMessage
           /\ m.performative \in Checked /\ m.protocol \in Checked
           /\ m.texts = [f \in TextField |-> m.texts[f]]
           /\ m.parameters \in Seq(Range(m.parameters))
           /\ \A p \in Range(m.parameters) : IsParam(p)
           /\ m.replyBy \in Time /\ m.content \in Content
           /\ AgentOK(m.sender)
           /\ AgentList(m.receivers) /\ AgentList(m.replyTo)
BY DEF MessageOK, AgentList

LEMMA FieldSet ==
  ASSUME NEW m, MessageOK(m), NEW f \in DOMAIN NewMessage, NEW v, FieldOK(f, v),
         NEW n, n = [m EXCEPT ![f] = v]
  PROVE  /\ MessageOK(n) /\ n[f] = v
         /\ \A g \in DOMAIN NewMessage : g # f => n[g] = m[g]
<1>1. DOMAIN m = DOMAIN NewMessage
  BY MessageParts
<1>2. /\ DOMAIN n = DOMAIN m /\ n[f] = v
      /\ \A g \in DOMAIN NewMessage : g # f => n[g] = m[g]
  BY <1>1
<1>3. \A g \in DOMAIN NewMessage : FieldOK(g, n[g])
  <2>1. \A g \in DOMAIN NewMessage : FieldOK(g, m[g])
    BY MessageParts, MessageField DEF FieldOK
  <2> QED BY <1>2, <2>1
<1>4. MessageOK(n)
  BY <1>1, <1>2, <1>3, MessageParts, MessageField DEF FieldOK
<1> QED BY <1>2, <1>4

\* The fields that NoAddresseeLost is about are those of another message.
Same(m, n) ==
  /\ m.performative = n.performative
  /\ m.receivers = n.receivers
  /\ m.replyTo = n.replyTo
  /\ m.content = n.content

LEMMA TextSet ==
  ASSUME NEW m, MessageOK(m), NEW f \in TextField, NEW v, NEW n, n = [m EXCEPT !.texts[f] = v]
  PROVE  MessageOK(n) /\ Same(n, m)
<1>1. PICK w : w = [m.texts EXCEPT ![f] = v]
  OBVIOUS
<1>2. n = [m EXCEPT !["texts"] = w] /\ FieldOK("texts", w)
  BY <1>1, MessageParts DEF FieldOK
<1> QED BY <1>2, FieldSet, MessageField DEF Same

LEMMA SenderSet ==
  ASSUME NEW m, MessageOK(m), NEW v, AgentOK(v), NEW n, n = [m EXCEPT !.sender = v]
  PROVE  MessageOK(n) /\ Same(n, m)
<1>1. n = [m EXCEPT !["sender"] = v] /\ FieldOK("sender", v)
  BY DEF FieldOK
<1> QED BY <1>1, FieldSet, MessageField DEF Same

LEMMA ReplyBySet ==
  ASSUME NEW m, MessageOK(m), NEW v \in Time, NEW n, n = [m EXCEPT !.replyBy = v]
  PROVE  MessageOK(n) /\ Same(n, m)
<1>1. n = [m EXCEPT !["replyBy"] = v] /\ FieldOK("replyBy", v)
  BY DEF FieldOK
<1> QED BY <1>1, FieldSet, MessageField DEF Same

LEMMA ProtocolStored ==
  ASSUME NEW m, MessageOK(m), NEW v \in Checked, NEW n, n = [m EXCEPT !.protocol = v]
  PROVE  /\ MessageOK(n) /\ n.protocol = v
         /\ \A g \in DOMAIN NewMessage : g # "protocol" => n[g] = m[g]
<1>1. n = [m EXCEPT !["protocol"] = v] /\ FieldOK("protocol", v)
  BY DEF FieldOK
<1> QED BY <1>1, FieldSet, MessageField

LEMMA ProtocolSet ==
  ASSUME NEW m, MessageOK(m), NEW v, NEW n, n = SetProtocol(m, v)
  PROVE  MessageOK(n) /\ Same(n, m)
<1>1. CASE v \in Checked
  <2>1. n = [m EXCEPT !.protocol = v]
    BY <1>1 DEF SetProtocol
  <2>2. MessageOK(n) /\ \A g \in DOMAIN NewMessage : g # "protocol" => n[g] = m[g]
    BY <1>1, <2>1, ProtocolStored
  <2> QED BY <2>2, MessageField DEF Same
<1>2. CASE v \notin Checked
  BY <1>2 DEF SetProtocol, Same
<1> QED BY <1>1, <1>2

LEMMA ParametersSet ==
  ASSUME NEW m, MessageOK(m), NEW v, v \in Seq(Range(v)), \A p \in Range(v) : IsParam(p),
         NEW n, n = [m EXCEPT !.parameters = v]
  PROVE  MessageOK(n) /\ Same(n, m)
<1>1. n = [m EXCEPT !["parameters"] = v] /\ FieldOK("parameters", v)
  BY DEF FieldOK
<1> QED BY <1>1, FieldSet, MessageField DEF Same

LEMMA ParameterAdded ==
  ASSUME NEW m, MessageOK(m), NEW p, IsParam(p), NEW n, n = AddUserdefParam(m, p)
  PROVE  MessageOK(n) /\ Same(n, m)
<1>1. CASE p \in Range(m.parameters)
  BY <1>1 DEF AddUserdefParam, Same
<1>2. CASE p \notin Range(m.parameters)
  <2>1. PICK v : v = <<p>> \o m.parameters
    OBVIOUS
  <2>2. n = [m EXCEPT !.parameters = v]
    BY <1>2, <2>1 DEF AddUserdefParam
  <2>3. m.parameters \in Seq(Range(m.parameters)) /\ \A q \in Range(m.parameters) : IsParam(q)
    BY MessageParts
  <2>4. v \in Seq(Range(m.parameters) \cup {p})
    BY <2>1, <2>3
  <2>5. v \in Seq(Range(v)) /\ Range(v) \subseteq Range(m.parameters) \cup {p}
    BY <2>4, ListOf
  <2> QED BY <2>2, <2>3, <2>5, ParametersSet
<1> QED BY <1>1, <1>2

LEMMA ReceiversSet ==
  ASSUME NEW m, MessageOK(m), NEW v, AgentList(v), NEW n, n = [m EXCEPT !.receivers = v]
  PROVE  /\ MessageOK(n)
         /\ n.performative = m.performative
         /\ n.receivers = v
         /\ n.replyTo = m.replyTo
         /\ n.content = m.content
<1>1. n = [m EXCEPT !["receivers"] = v] /\ FieldOK("receivers", v)
  BY DEF FieldOK
<1> QED BY <1>1, FieldSet, MessageField

LEMMA ReplyToSet ==
  ASSUME NEW m, MessageOK(m), NEW v, AgentList(v), NEW n, n = [m EXCEPT !.replyTo = v]
  PROVE  /\ MessageOK(n)
         /\ n.performative = m.performative
         /\ n.receivers = m.receivers
         /\ n.replyTo = v
         /\ n.content = m.content
<1>1. n = [m EXCEPT !["replyTo"] = v] /\ FieldOK("replyTo", v)
  BY DEF FieldOK
<1> QED BY <1>1, FieldSet, MessageField

LEMMA ContentSet ==
  ASSUME NEW m, MessageOK(m), NEW v \in Content, NEW n, n = [m EXCEPT !.content = v]
  PROVE  /\ MessageOK(n)
         /\ n.performative = m.performative
         /\ n.receivers = m.receivers
         /\ n.replyTo = m.replyTo
         /\ n.content = v
<1>1. n = [m EXCEPT !["content"] = v] /\ FieldOK("content", v)
  BY DEF FieldOK
<1> QED BY <1>1, FieldSet, MessageField

LEMMA PerformativeStored ==
  ASSUME NEW m, MessageOK(m), NEW v \in Checked, NEW n, n = [m EXCEPT !.performative = v]
  PROVE  MessageOK(n)
<1>1. n = [m EXCEPT !["performative"] = v] /\ FieldOK("performative", v)
  BY DEF FieldOK
<1> QED BY <1>1, FieldSet, MessageField

LEMMA PerformativeSet ==
  ASSUME NEW m, MessageOK(m), NEW v, NEW n, n = SetPerformative(m, v)
  PROVE  MessageOK(n)
<1>1. CASE v \in Checked
  <2>1. n = [m EXCEPT !.performative = v]
    BY <1>1 DEF SetPerformative
  <2> QED BY <1>1, <2>1, PerformativeStored
<1>2. CASE v \notin Checked
  BY <1>2 DEF SetPerformative
<1> QED BY <1>1, <1>2

LEMMA NewOK == MessageOK(NewMessage)
<1>1. "inform" \in Checked /\ EmptyText \in Checked
  <2>1. 8 \in DOMAIN PerformativeTxt /\ PerformativeTxt[8] = "inform"
    BY DEF PerformativeTxt
  <2> QED BY <2>1, ACLMessageAssumption DEF Range
<1>2. AgentOK(UndefinedAgent)
  BY UndefinedOK
<1>3. AgentList(<<>>) /\ <<>> \in Seq(Range(<<>>))
  BY DEF AgentList, Range
<1>4. NoTime \in Time /\ NoContent \in Content /\ Range(<<>>) = {}
  BY DEF Time, Content, Range
<1> QED BY <1>1, <1>2, <1>3, <1>4, MessageParts DEF NewMessage

-----------------------------------------------------------------------------
(* The items a message is written as.                                      *)

LEMMA Behind ==
  ASSUME NEW s, NEW t, IsList(s), IsList(t)
  PROVE  IsList(s \o t) /\ Range(s \o t) = Range(s) \cup Range(t)
<1>1. s \in Seq(Range(s)) /\ t \in Seq(Range(t)) /\ DOMAIN s = 1..Len(s) /\ DOMAIN t = 1..Len(t)
  <2>1. \A r : IsList(r) => r \in Seq(Range(r)) /\ DOMAIN r = 1..Len(r)
    <3> SUFFICES ASSUME NEW r, IsList(r) PROVE r \in Seq(Range(r)) /\ DOMAIN r = 1..Len(r)
      OBVIOUS
    <3>1. DOMAIN r = 1..Len(r) /\ Len(r) \in Nat
      BY DEF IsList
    <3>2. \A i \in 1..Len(r) : r[i] \in Range(r)
      BY <3>1 DEF Range
    <3>3. [i \in 1..Len(r) |-> r[i]] \in Seq(Range(r))
      BY <3>1, <3>2
    <3> QED BY <3>1, <3>3 DEF IsList
  <2> QED BY <2>1
<1>2. PICK u : u = s \o t
  OBVIOUS
<1>3. /\ Len(u) = Len(s) + Len(t) /\ DOMAIN u = 1..(Len(s) + Len(t))
      /\ Len(s) \in Nat /\ Len(t) \in Nat
      /\ \A i \in 1..Len(s) : u[i] = s[i]
      /\ \A i \in 1..Len(t) : u[i + Len(s)] = t[i]
  BY <1>1, <1>2
<1>4. IsList(u)
  <2>1. u \in Seq(Range(s) \cup Range(t))
    BY <1>1, <1>2
  <2> QED BY <2>1, ListOf
<1>5. Range(s) \subseteq Range(u) /\ Range(t) \subseteq Range(u)
  <2>1. ASSUME NEW i \in 1..Len(s) PROVE s[i] \in Range(u)
    BY <1>3 DEF Range
  <2>2. ASSUME NEW i \in 1..Len(t) PROVE t[i] \in Range(u)
    <3>1. i + Len(s) \in DOMAIN u
      BY <1>3
    <3> QED BY <1>3, <3>1 DEF Range
  <2> QED BY <1>1, <2>1, <2>2 DEF Range
<1>6. ASSUME NEW i \in DOMAIN u PROVE u[i] \in Range(s) \cup Range(t)
  <2>1. CASE i <= Len(s)
    <3>1. i \in 1..Len(s)
      BY <1>3, <2>1
    <3> QED BY <1>1, <1>3, <3>1 DEF Range
  <2>2. CASE ~ (i <= Len(s))
    <3>1. i - Len(s) \in 1..Len(t) /\ (i - Len(s)) + Len(s) = i
      BY <1>3, <2>2
    <3>2. u[i] = t[i - Len(s)]
      BY <1>3, <3>1
    <3> QED BY <1>1, <3>1, <3>2 DEF Range
  <2> QED BY <2>1, <2>2
<1>7. Range(u) = Range(s) \cup Range(t)
  BY <1>5, <1>6 DEF Range
<1> QED BY <1>2, <1>4, <1>7

\* Twelve parts for the fields of a message and one for its parameters.
LEMMA ThreeMore ==
  ASSUME NEW s, NEW t, NEW u, NEW v, IsList(s), IsList(t), IsList(u), IsList(v)
  PROVE  /\ IsList(s \o t \o u \o v)
         /\ Range(s \o t \o u \o v) = Range(s) \cup Range(t) \cup Range(u) \cup Range(v)
<1>1. PICK q : q = s \o t
  OBVIOUS
<1>2. PICK r : r = q \o u
  OBVIOUS
<1>3. IsList(q) /\ Range(q) = Range(s) \cup Range(t)
  BY <1>1, Behind
<1>4. IsList(r) /\ Range(r) = Range(q) \cup Range(u)
  BY <1>2, <1>3, Behind
<1>5. IsList(r \o v) /\ Range(r \o v) = Range(r) \cup Range(v)
  BY <1>4, Behind
<1> QED BY <1>1, <1>2, <1>3, <1>4, <1>5

Lists(p) == \A i \in 1..13 : IsList(p[i])

Joined(p) == p[1] \o p[2] \o p[3] \o p[4] \o p[5] \o p[6] \o p[7] \o p[8] \o p[9]
               \o p[10] \o p[11] \o p[12] \o p[13]

LEMMA Thirteen ==
  ASSUME NEW p, Lists(p), NEW items, items = Joined(p)
  PROVE  /\ IsList(items)
         /\ \A i \in 1..13 : Range(p[i]) \subseteq Range(items)
         /\ \A item \in Range(items) : \E i \in 1..13 : item \in Range(p[i])
<1>0. /\ IsList(p[1])
      /\ IsList(p[2])
      /\ IsList(p[3])
      /\ IsList(p[4])
      /\ IsList(p[5])
      /\ IsList(p[6])
      /\ IsList(p[7])
      /\ IsList(p[8])
      /\ IsList(p[9])
      /\ IsList(p[10])
      /\ IsList(p[11])
      /\ IsList(p[12])
      /\ IsList(p[13])
  BY DEF Lists
<1>1. PICK q : q = p[1] \o p[2] \o p[3] \o p[4]
  OBVIOUS
<1>2. IsList(q) /\ Range(q) = Range(p[1]) \cup Range(p[2]) \cup Range(p[3]) \cup Range(p[4])
  BY <1>0, <1>1, ThreeMore
<1>3. PICK r : r = q \o p[5] \o p[6] \o p[7]
  OBVIOUS
<1>4. IsList(r) /\ Range(r) = Range(q) \cup Range(p[5]) \cup Range(p[6]) \cup Range(p[7])
  BY <1>0, <1>2, <1>3, ThreeMore
<1>5. PICK s : s = r \o p[8] \o p[9] \o p[10]
  OBVIOUS
<1>6. IsList(s) /\ Range(s) = Range(r) \cup Range(p[8]) \cup Range(p[9]) \cup Range(p[10])
  BY <1>0, <1>4, <1>5, ThreeMore
<1>7. items = s \o p[11] \o p[12] \o p[13]
  BY <1>1, <1>3, <1>5 DEF Joined
<1>8. IsList(items) /\ Range(items) = Range(s) \cup Range(p[11]) \cup Range(p[12]) \cup Range(p[13])
  BY <1>0, <1>6, <1>7, ThreeMore
<1>9. \A x : x \in Range(items) <=>
        \/ x \in Range(p[1])
        \/ x \in Range(p[2])
        \/ x \in Range(p[3])
        \/ x \in Range(p[4])
        \/ x \in Range(p[5])
        \/ x \in Range(p[6])
        \/ x \in Range(p[7])
        \/ x \in Range(p[8])
        \/ x \in Range(p[9])
        \/ x \in Range(p[10])
        \/ x \in Range(p[11])
        \/ x \in Range(p[12])
        \/ x \in Range(p[13])
  BY <1>2, <1>4, <1>6, <1>8
<1>10. \A i \in 1..13 : i \in {1, 2, 3, 4, 5, 6, 7, 8, 9, 10, 11, 12, 13}
  OBVIOUS
<1>11. ASSUME NEW i \in 1..13 PROVE Range(p[i]) \subseteq Range(items)
  <2>1. i \in {1, 2, 3, 4, 5, 6, 7, 8, 9, 10, 11, 12, 13}
    BY <1>10
  <2>2. ASSUME NEW x \in Range(p[i]) PROVE x \in Range(items)
    BY <1>9, <2>1
  <2> QED BY <2>2
<1>12. ASSUME NEW item \in Range(items) PROVE \E i \in 1..13 : item \in Range(p[i])
  <2>1. \E i \in {1, 2, 3, 4, 5, 6, 7, 8, 9, 10, 11, 12, 13} : item \in Range(p[i])
    BY <1>9
  <2>2. \A i \in {1, 2, 3, 4, 5, 6, 7, 8, 9, 10, 11, 12, 13} : i \in 1..13
    OBVIOUS
  <2> QED BY <2>1, <2>2
<1> QED BY <1>8, <1>11, <1>12

\* One item, or none.
AtMostOne(s, code, data) == s \in {<<>>, << [code |-> code, data |-> data] >>}

LEMMA ItemIs ==
  ASSUME NEW s, NEW code, NEW data, AtMostOne(s, code, data)
  PROVE  /\ IsList(s)
         /\ \A x \in Range(s) : x.code = code /\ x.data = data /\ s # <<>>
         /\ s # <<>> => \E x \in Range(s) : x.code = code
<1>1. PICK x : x = [code |-> code, data |-> data]
  OBVIOUS
<1>2. s = <<>> \/ s = <<x>>
  BY <1>1 DEF AtMostOne
<1>3. IsList(s)
  <2>1. <<>> \in Seq({x}) /\ <<x>> \in Seq({x})
    OBVIOUS
  <2>2. s \in Seq({x})
    BY <1>2, <2>1, Zenon
  <2> QED BY <2>2, ListOf
<1>4. Range(s) = IF s = <<>> THEN {} ELSE {x}
  BY <1>2 DEF Range
<1> QED BY <1>1, <1>3, <1>4

Coded(items, ps, code) == \A i \in DOMAIN ps : items[i].code = code

LEMMA ParametersAre ==
  ASSUME NEW ps, ps \in Seq(Range(ps)), NEW code, NEW items,
         Along(items, ps), Coded(items, ps, code)
  PROVE  IsList(items) /\ \A item \in Range(items) : item.code = code
<1>0. /\ items = [i \in DOMAIN ps |-> items[i]]
      /\ \A i \in DOMAIN ps : items[i].code = code
  BY DEF Along, Coded
<1>1. PICK n : n \in Nat /\ DOMAIN ps = 1..n
  <2>1. Len(ps) \in Nat /\ DOMAIN ps = 1..Len(ps)
    OBVIOUS
  <2> QED BY <2>1
<1>2. items \in Seq(Range(items))
  <2>1. items = [i \in 1..n |-> items[i]] /\ \A i \in 1..n : items[i] \in Range(items)
    BY <1>0, <1>1 DEF Range
  <2>2. \A S : (\A i \in 1..n : items[i] \in S) => [i \in 1..n |-> items[i]] \in Seq(S)
    BY <1>1
  <2> QED BY <2>1, <2>2, Zenon
<1> QED BY <1>0, <1>1, <1>2, ListOf DEF Range

-----------------------------------------------------------------------------
(* What the parser has made of the first k items.                          *)

Seen(items, k, code) == \E i \in 1..k : items[i].code = code

Told(n, items, k, codes, want) ==
  /\ MessageOK(n)
  /\ n.performative = want.performative
  /\ NamesOf(n.receivers) = IF Seen(items, k, codes.receivers) THEN want.receivers ELSE {}
  /\ NamesOf(n.replyTo) = IF Seen(items, k, codes.replyTo) THEN want.replyTo ELSE {}
  /\ n.content = IF Seen(items, k, codes.content) THEN want.content ELSE NoContent

Distinct(codes) ==
  /\ codes.receivers # codes.replyTo
  /\ codes.receivers # codes.content
  /\ codes.replyTo # codes.content

LEMMA SeenNext ==
  ASSUME NEW items, NEW k \in Nat, k # 0, NEW code
  PROVE  Seen(items, k, code) <=> Seen(items, k - 1, code) \/ items[k].code = code
<1>1. 1..k = (1..(k - 1)) \cup {k}
  OBVIOUS
<1> QED BY <1>1 DEF Seen

LEMMA ToldFirst ==
  ASSUME NEW p \in Checked, NEW items, NEW codes, NEW want, want.performative = p
  PROVE  Told(SetPerformative(NewMessage, p), items, 0, codes, want)
<1>1. PICK n : n = SetPerformative(NewMessage, p)
  OBVIOUS
<1>2. /\ DOMAIN n = DOMAIN NewMessage /\ n.performative = p
      /\ n.protocol = NewMessage.protocol /\ n.texts = NewMessage.texts
      /\ n.parameters = NewMessage.parameters /\ n.sender = NewMessage.sender
      /\ n.receivers = <<>> /\ n.replyTo = <<>> /\ n.content = NoContent
      /\ NewMessage.receivers = <<>> /\ NewMessage.replyTo = <<>>
  BY <1>1 DEF SetPerformative, NewMessage
<1>3. MessageOK(n)
  BY <1>1, NewOK, PerformativeSet
<1>4. \A code : ~ Seen(items, 0, code)
  BY DEF Seen
<1>5. NamesOf(<<>>) = {}
  BY DEF NamesOf, Range
<1> QED BY <1>1, <1>2, <1>3, <1>4, <1>5 DEF Told

LEMMA ToldSame ==
  ASSUME NEW items, NEW codes, NEW want, NEW k \in Nat, k # 0,
         NEW n, Told(n, items, k - 1, codes, want),
         items[k].code \notin {codes.receivers, codes.replyTo, codes.content},
         NEW r, MessageOK(r), Same(r, n)
  PROVE  Told(r, items, k, codes, want)
<1>1. \A code \in {codes.receivers, codes.replyTo, codes.content} :
        Seen(items, k, code) <=> Seen(items, k - 1, code)
  BY SeenNext
<1> QED BY <1>1 DEF Told, Same

LEMMA ToldReceivers ==
  ASSUME NEW items, NEW codes, Distinct(codes), NEW want, NEW k \in Nat, k # 0,
         NEW n, Told(n, items, k - 1, codes, want),
         items[k].code = codes.receivers,
         NEW v, AgentList(v),
         NamesOf(v) \in {want.receivers, NamesOf(n.receivers) \cup want.receivers}
  PROVE  Told([n EXCEPT !.receivers = v], items, k, codes, want)
<1>1. /\ Seen(items, k, codes.receivers)
      /\ Seen(items, k, codes.replyTo) <=> Seen(items, k - 1, codes.replyTo)
      /\ Seen(items, k, codes.content) <=> Seen(items, k - 1, codes.content)
  BY SeenNext DEF Distinct
<1>2. PICK r : r = [n EXCEPT !.receivers = v]
  OBVIOUS
<1>3. /\ MessageOK(r) /\ r.performative = n.performative /\ r.content = n.content
      /\ r.receivers = v /\ r.replyTo = n.replyTo
  BY <1>2, ReceiversSet DEF Told
<1>4. NamesOf(v) = want.receivers
  BY DEF Told
<1> QED BY <1>1, <1>2, <1>3, <1>4 DEF Told

LEMMA ToldReplyTo ==
  ASSUME NEW items, NEW codes, Distinct(codes), NEW want, NEW k \in Nat, k # 0,
         NEW n, Told(n, items, k - 1, codes, want),
         items[k].code = codes.replyTo,
         NEW v, AgentList(v),
         NamesOf(v) \in {want.replyTo, NamesOf(n.replyTo) \cup want.replyTo}
  PROVE  Told([n EXCEPT !.replyTo = v], items, k, codes, want)
<1>1. /\ Seen(items, k, codes.replyTo)
      /\ Seen(items, k, codes.receivers) <=> Seen(items, k - 1, codes.receivers)
      /\ Seen(items, k, codes.content) <=> Seen(items, k - 1, codes.content)
  BY SeenNext DEF Distinct
<1>2. PICK r : r = [n EXCEPT !.replyTo = v]
  OBVIOUS
<1>3. /\ MessageOK(r) /\ r.performative = n.performative /\ r.content = n.content
      /\ r.receivers = n.receivers /\ r.replyTo = v
  BY <1>2, ReplyToSet DEF Told
<1>4. NamesOf(v) = want.replyTo
  BY DEF Told
<1> QED BY <1>1, <1>2, <1>3, <1>4 DEF Told

LEMMA ToldContent ==
  ASSUME NEW items, NEW codes, Distinct(codes), NEW want, NEW k \in Nat, k # 0,
         NEW n, Told(n, items, k - 1, codes, want),
         items[k].code = codes.content, want.content \in Content
  PROVE  Told([n EXCEPT !.content = want.content], items, k, codes, want)
<1>1. /\ Seen(items, k, codes.content)
      /\ Seen(items, k, codes.receivers) <=> Seen(items, k - 1, codes.receivers)
      /\ Seen(items, k, codes.replyTo) <=> Seen(items, k - 1, codes.replyTo)
  BY SeenNext DEF Distinct
<1>2. PICK r : r = [n EXCEPT !.content = want.content]
  OBVIOUS
<1>3. /\ MessageOK(r) /\ r.performative = n.performative /\ r.content = want.content
      /\ r.receivers = n.receivers /\ r.replyTo = n.replyTo
  BY <1>2, ContentSet DEF Told
<1> QED BY <1>1, <1>2, <1>3 DEF Told

-----------------------------------------------------------------------------
(* The message that is read tells what the one sent does.                  *)

Wanted(m) ==
  [ performative |-> m.performative,
    receivers    |-> NamesOf(m.receivers),
    replyTo      |-> NamesOf(m.replyTo),
    content      |-> m.content ]

LEMMA SeenItem ==
  ASSUME NEW items, IsList(items), NEW item \in Range(items)
  PROVE  Seen(items, Len(items), item.code)
BY DEF IsList, Seen, Range

LEMMA PartSeen ==
  ASSUME NEW items, IsList(items), NEW s, Range(s) \subseteq Range(items),
         NEW code, NEW data, AtMostOne(s, code, data), s # <<>>
  PROVE  Seen(items, Len(items), code)
<1>1. PICK x \in Range(s) : x.code = code
  BY ItemIs
<1> QED BY <1>1, SeenItem

\* The date that is read is the one of the digits that were written.
TwoDigits(byte, d, e) == byte = 16 * (d + 1) + e + 1

LEMMA DigitsRead ==
  ASSUME NEW d \in 0..9, NEW e \in 0..9, NEW byte, TwoDigits(byte, d, e)
  PROVE  byte \in Nat /\ byte # 0 /\ NumberToken(byte) = <<d, e>>
<1>1. byte = 16 * (d + 1) + (e + 1) /\ e + 1 \in 0..15 /\ d + 1 \in Nat
  BY DEF TwoDigits
<1>2. byte \div 16 = d + 1 /\ byte % 16 = e + 1 /\ byte \in Nat /\ byte # 0
  BY <1>1
<1> QED BY <1>2 DEF NumberToken

LEMMA DateRead ==
  ASSUME NEW t \in Time, t # NoTime
  PROVE  /\ TimeOf(DateDigits(t)) \in Time
         /\ DateReadable(BinDate(t))
         /\ ReadDate(BinDate(t)) = TimeOf(DateDigits(t))
<1>1. PICK ds : ds = DateDigits(t) /\ ds \in [1..17 -> 0..9]
  BY DEF Time, DateDigits
<1>2. PICK bin : bin = SubSeq(ds, 1, 14) \o <<0>> \o SubSeq(ds, 15, 17)
  OBVIOUS
<1>3. /\ Len(bin) = 18 /\ bin[15] = 0
      /\ \A i \in 1..14 : bin[i] = ds[i]
      /\ bin[16] = ds[15] /\ bin[17] = ds[16] /\ bin[18] = ds[17]
  BY <1>1, <1>2
<1>4. \A i \in 1..18 : bin[i] \in 0..9
  BY <1>1, <1>3
<1>5. PICK bytes : bytes = BinDate(t)
  OBVIOUS
<1>6. /\ Len(bytes) = 9 /\ DOMAIN bytes = 1..9
      /\ \A i \in 1..9 : TwoDigits(bytes[i], bin[2 * i - 1], bin[2 * i])
  <2>1. bytes = CodedNaturalNumber(bin)
    BY <1>1, <1>2, <1>5 DEF BinDate
  <2>2. Len(bin) \div 2 = 9
    BY <1>3
  <2>3. bytes = [i \in 1..9 |-> 16 * (bin[2 * i - 1] + 1) + bin[2 * i] + 1]
    BY <2>1, <2>2 DEF CodedNaturalNumber
  <2> QED BY <2>3 DEF TwoDigits
<1>7. \A i \in 1..9 : bytes[i] # 0 /\ NumberToken(bytes[i]) = <<bin[2 * i - 1], bin[2 * i]>>
  <2> SUFFICES ASSUME NEW i \in 1..9
               PROVE  bytes[i] # 0 /\ NumberToken(bytes[i]) = <<bin[2 * i - 1], bin[2 * i]>>
    OBVIOUS
  <2>1. 2 * i - 1 \in 1..18 /\ 2 * i \in 1..18
    OBVIOUS
  <2>2. PICK d, e : d = bin[2 * i - 1] /\ e = bin[2 * i]
    OBVIOUS
  <2>3. d \in 0..9 /\ e \in 0..9 /\ TwoDigits(bytes[i], d, e)
    BY <1>4, <1>6, <2>1, <2>2
  <2> QED BY <2>2, <2>3, DigitsRead
<1>8. DateReadable(bytes)
  BY <1>6, <1>7 DEF DateReadable, Range
<1>9. PICK digits : digits = [i \in 1..(2 * Len(bytes)) |-> NumberToken(bytes[(i + 1) \div 2])[2 - (i % 2)]]
  OBVIOUS
<1>10. digits = [i \in 1..18 |-> bin[i]]
  <2>1. ASSUME NEW i \in 1..18
        PROVE  NumberToken(bytes[(i + 1) \div 2])[2 - (i % 2)] = bin[i]
    <3>1. PICK j : j = (i + 1) \div 2
      OBVIOUS
    <3>2. j \in 1..9 /\ ((i = 2 * j /\ i % 2 = 0) \/ (i = 2 * j - 1 /\ i % 2 = 1))
      BY <3>1
    <3>3. NumberToken(bytes[j]) = <<bin[2 * j - 1], bin[2 * j]>>
      BY <1>7, <3>2
    <3>6. PICK q : q = 2 - (i % 2)
      OBVIOUS
    <3>4. CASE i = 2 * j /\ i % 2 = 0
      <4>1. q = 2
        BY <3>4, <3>6
      <4>2. 2 * j = i
        BY <3>4
      <4> QED BY <3>1, <3>3, <3>6, <4>1, <4>2
    <3>5. CASE i = 2 * j - 1 /\ i % 2 = 1
      <4>1. q = 1 /\ 2 * j - 1 = i
        BY <3>5, <3>6
      <4> QED BY <3>1, <3>3, <3>6, <4>1
    <3> QED BY <3>2, <3>4, <3>5
  <2>2. digits = [i \in 1..18 |-> NumberToken(bytes[(i + 1) \div 2])[2 - (i % 2)]]
    BY <1>6, <1>9
  <2> QED BY <2>1, <2>2
<1>11. SubSeq(digits, 1, 14) \o SubSeq(digits, 16, 18) = ds
  <2>1. \A i \in 1..18 : digits[i] \in 0..9
    BY <1>4, <1>10
  <2>2. \A i \in 1..14 : digits[i] = ds[i]
    BY <1>3, <1>10
  <2>3. digits[16] = ds[15] /\ digits[17] = ds[16] /\ digits[18] = ds[17]
    BY <1>3, <1>10
  <2>4. PICK u : u = SubSeq(digits, 1, 14) \o SubSeq(digits, 16, 18)
    OBVIOUS
  <2>5. u \in Seq(0..9) /\ Len(u) = 17
    <3>1. Len(u) = 17
      BY <2>4
    <3>2. u \in Seq(0..9)
      BY <2>1, <2>4
    <3> QED BY <3>1, <3>2
  <2>6. \A i \in 1..17 : u[i] = ds[i]
    <3>1. \A i \in 1..14 : u[i] = digits[i]
      <4>1. PICK v, w : v = SubSeq(digits, 1, 14) /\ w = SubSeq(digits, 16, 18)
        OBVIOUS
      <4>2. v = [i \in 1..14 |-> digits[i]] /\ Len(v) = 14 /\ Len(w) = 3
        BY <4>1
      <4>3. \A i \in 1..14 : u[i] = v[i]
        BY <2>4, <4>1, <4>2
      <4> QED BY <4>2, <4>3
    <3>2. u[15] = digits[16] /\ u[16] = digits[17] /\ u[17] = digits[18]
      BY <2>4
    <3>3. \A i \in 1..17 : i \in 1..14 \/ i = 15 \/ i = 16 \/ i = 17
      OBVIOUS
    <3> QED BY <2>2, <2>3, <3>1, <3>2, <3>3
  <2>7. u = [i \in 1..17 |-> u[i]] /\ ds = [i \in 1..17 |-> ds[i]]
    BY <1>1, <2>5
  <2> QED BY <2>4, <2>6, <2>7
<1>12. ReadDate(bytes) = TimeOf(ds)
  BY <1>9, <1>11 DEF ReadDate
<1>13. TimeOf(ds) \in Time
  BY <1>1 DEF TimeOf, Time
<1> QED BY <1>1, <1>5, <1>8, <1>12, <1>13

\* The bit-efficient encoding.
BitCodes == [receivers |-> 3, replyTo |-> 8, content |-> 4]

BitItem(item, m) ==
  /\ item.code \in {0, 2, 3, 4, 5, 6, 7, 8, 9, 10, 11, 12, 13}
  /\ item.code = 0 => item.data \in Range(m.parameters)
  /\ item.code = 2 => m.sender.name # EmptyText /\ item.data = WrittenAgent(m.sender, ResolverDepth)
  /\ item.code = 3 => m.receivers # <<>> /\ item.data = WrittenAgents(m.receivers)
  /\ item.code = 5 => m.texts["reply-with"] # EmptyText /\ item.data = m.texts["reply-with"]
  /\ item.code = 6 => m.replyBy # NoTime /\ item.data = BinDate(m.replyBy)
  /\ item.code = 7 => m.texts["in-reply-to"] # EmptyText /\ item.data = m.texts["in-reply-to"]
  /\ item.code = 8 => m.replyTo # <<>> /\ item.data = WrittenAgents(m.replyTo)
  /\ item.code = 9 => m.texts["language"] # EmptyText /\ item.data = m.texts["language"]
  /\ item.code = 10 => m.texts["encoding"] # EmptyText /\ item.data = m.texts["encoding"]
  /\ item.code = 11 => m.texts["ontology"] # EmptyText /\ item.data = m.texts["ontology"]
  /\ item.code = 12 => m.protocol # EmptyText /\ item.data = m.protocol
  /\ item.code = 13 => m.texts["conversation-id"] # EmptyText /\ item.data = m.texts["conversation-id"]
  /\ item.code = 4 => m.content # NoContent /\ item.data = ContentItem(m.content)

BitParts(m) ==
  << Item(m.sender.name # EmptyText, 2, WrittenAgent(m.sender, ResolverDepth)),
     Item(m.receivers # <<>>, 3, WrittenAgents(m.receivers)),
     Item(m.texts["reply-with"] # EmptyText, 5, m.texts["reply-with"]),
     Item(m.replyBy # NoTime, 6, BinDate(m.replyBy)),
     Item(m.texts["in-reply-to"] # EmptyText, 7, m.texts["in-reply-to"]),
     Item(m.replyTo # <<>>, 8, WrittenAgents(m.replyTo)),
     Item(m.texts["language"] # EmptyText, 9, m.texts["language"]),
     Item(m.texts["encoding"] # EmptyText, 10, m.texts["encoding"]),
     Item(m.texts["ontology"] # EmptyText, 11, m.texts["ontology"]),
     Item(m.protocol # EmptyText, 12, m.protocol),
     Item(m.texts["conversation-id"] # EmptyText, 13, m.texts["conversation-id"]),
     [i \in DOMAIN m.parameters |-> [code |-> 0, data |-> m.parameters[i]]],
     Item(m.content # NoContent, 4, ContentItem(m.content)) >>

LEMMA BitItems ==
  ASSUME NEW m, MessageOK(m), NEW items, items = WrittenItems(m)
  PROVE  /\ IsList(items)
         /\ \A i \in 1..Len(items) : BitItem(items[i], m)
         /\ m.sender.name # EmptyText => Seen(items, Len(items), 2)
         /\ m.receivers # <<>> => Seen(items, Len(items), 3)
         /\ m.texts["reply-with"] # EmptyText => Seen(items, Len(items), 5)
         /\ m.replyBy # NoTime => Seen(items, Len(items), 6)
         /\ m.texts["in-reply-to"] # EmptyText => Seen(items, Len(items), 7)
         /\ m.replyTo # <<>> => Seen(items, Len(items), 8)
         /\ m.texts["language"] # EmptyText => Seen(items, Len(items), 9)
         /\ m.texts["encoding"] # EmptyText => Seen(items, Len(items), 10)
         /\ m.texts["ontology"] # EmptyText => Seen(items, Len(items), 11)
         /\ m.protocol # EmptyText => Seen(items, Len(items), 12)
         /\ m.texts["conversation-id"] # EmptyText => Seen(items, Len(items), 13)
         /\ m.content # NoContent => Seen(items, Len(items), 4)
         /\ \A u \in Range(m.parameters) : \E i \in 1..Len(items) :
              items[i].code = 0 /\ items[i].data = u
<1>1. PICK p : p = BitParts(m)
  OBVIOUS
<1>2. items = Joined(p)
  BY <1>1 DEF WrittenItems, BitParts, Joined
<1>3. /\ AtMostOne(p[1], 2, WrittenAgent(m.sender, ResolverDepth))
      /\ AtMostOne(p[2], 3, WrittenAgents(m.receivers))
      /\ AtMostOne(p[3], 5, m.texts["reply-with"])
      /\ AtMostOne(p[4], 6, BinDate(m.replyBy))
      /\ AtMostOne(p[5], 7, m.texts["in-reply-to"])
      /\ AtMostOne(p[6], 8, WrittenAgents(m.replyTo))
      /\ AtMostOne(p[7], 9, m.texts["language"])
      /\ AtMostOne(p[8], 10, m.texts["encoding"])
      /\ AtMostOne(p[9], 11, m.texts["ontology"])
      /\ AtMostOne(p[10], 12, m.protocol)
      /\ AtMostOne(p[11], 13, m.texts["conversation-id"])
      /\ AtMostOne(p[13], 4, ContentItem(m.content))
  BY <1>1 DEF BitParts, Item, AtMostOne
<1>4. /\ IsList(p[12]) /\ \A item \in Range(p[12]) : item.code = 0
      /\ \A item \in Range(p[12]) : item.data \in Range(m.parameters)
      /\ \A u \in Range(m.parameters) : \E item \in Range(p[12]) : item.data = u
  <2>1. PICK us : us = m.parameters /\ us \in Seq(Range(us))
    BY MessageParts
  <2>2. PICK ps : ps = p[12]
    OBVIOUS
  <2>3. Along(ps, us) /\ \A i \in DOMAIN us : ps[i].code = 0 /\ ps[i].data = us[i]
    <3>1. ps = [i \in DOMAIN us |-> [code |-> 0, data |-> us[i]]]
      BY <1>1, <2>1, <2>2 DEF BitParts
    <3> QED BY <3>1 DEF Along
  <2>4. IsList(ps) /\ \A item \in Range(ps) : item.code = 0
    <3>1. Coded(ps, us, 0) /\ Along(ps, us)
      BY <2>3 DEF Coded
    <3> QED BY <2>1, <3>1, ParametersAre
  <2>5. DOMAIN ps = DOMAIN us
    BY <2>3 DEF Along
  <2> QED BY <2>1, <2>2, <2>3, <2>4, <2>5 DEF Range
<1>5. Lists(p)
  <2>1. \A i \in 1..13 : i \in {1, 2, 3, 4, 5, 6, 7, 8, 9, 10, 11, 12, 13}
    OBVIOUS
  <2>2. \A i \in {1, 2, 3, 4, 5, 6, 7, 8, 9, 10, 11, 12, 13} : IsList(p[i])
    BY <1>3, <1>4, ItemIs
  <2> QED BY <2>1, <2>2 DEF Lists
<1>6. /\ IsList(items)
      /\ \A i \in 1..13 : Range(p[i]) \subseteq Range(items)
      /\ \A item \in Range(items) : \E i \in 1..13 : item \in Range(p[i])
  BY <1>2, <1>5, Thirteen
<1>7. ASSUME NEW item \in Range(items) PROVE BitItem(item, m)
  <2>1. PICK i \in 1..13 : item \in Range(p[i])
    BY <1>6
  <2>2. CASE i = 1
    <3>1. item.code = 2 /\ item.data = WrittenAgent(m.sender, ResolverDepth) /\ p[1] # <<>>
      BY <1>3, <2>1, <2>2, ItemIs
    <3>2. m.sender.name # EmptyText
      BY <1>1, <3>1 DEF BitParts, Item
    <3> QED BY <3>1, <3>2 DEF BitItem
  <2>3. CASE i = 2
    <3>1. item.code = 3 /\ item.data = WrittenAgents(m.receivers) /\ p[2] # <<>>
      BY <1>3, <2>1, <2>3, ItemIs
    <3>2. m.receivers # <<>>
      BY <1>1, <3>1 DEF BitParts, Item
    <3> QED BY <3>1, <3>2 DEF BitItem
  <2>4. CASE i = 3
    <3>1. item.code = 5 /\ item.data = m.texts["reply-with"] /\ p[3] # <<>>
      BY <1>3, <2>1, <2>4, ItemIs
    <3>2. m.texts["reply-with"] # EmptyText
      BY <1>1, <3>1 DEF BitParts, Item
    <3> QED BY <3>1, <3>2 DEF BitItem
  <2>5. CASE i = 4
    <3>1. item.code = 6 /\ item.data = BinDate(m.replyBy) /\ p[4] # <<>>
      BY <1>3, <2>1, <2>5, ItemIs
    <3>2. m.replyBy # NoTime
      BY <1>1, <3>1 DEF BitParts, Item
    <3> QED BY <3>1, <3>2 DEF BitItem
  <2>6. CASE i = 5
    <3>1. item.code = 7 /\ item.data = m.texts["in-reply-to"] /\ p[5] # <<>>
      BY <1>3, <2>1, <2>6, ItemIs
    <3>2. m.texts["in-reply-to"] # EmptyText
      BY <1>1, <3>1 DEF BitParts, Item
    <3> QED BY <3>1, <3>2 DEF BitItem
  <2>7. CASE i = 6
    <3>1. item.code = 8 /\ item.data = WrittenAgents(m.replyTo) /\ p[6] # <<>>
      BY <1>3, <2>1, <2>7, ItemIs
    <3>2. m.replyTo # <<>>
      BY <1>1, <3>1 DEF BitParts, Item
    <3> QED BY <3>1, <3>2 DEF BitItem
  <2>8. CASE i = 7
    <3>1. item.code = 9 /\ item.data = m.texts["language"] /\ p[7] # <<>>
      BY <1>3, <2>1, <2>8, ItemIs
    <3>2. m.texts["language"] # EmptyText
      BY <1>1, <3>1 DEF BitParts, Item
    <3> QED BY <3>1, <3>2 DEF BitItem
  <2>9. CASE i = 8
    <3>1. item.code = 10 /\ item.data = m.texts["encoding"] /\ p[8] # <<>>
      BY <1>3, <2>1, <2>9, ItemIs
    <3>2. m.texts["encoding"] # EmptyText
      BY <1>1, <3>1 DEF BitParts, Item
    <3> QED BY <3>1, <3>2 DEF BitItem
  <2>10. CASE i = 9
    <3>1. item.code = 11 /\ item.data = m.texts["ontology"] /\ p[9] # <<>>
      BY <1>3, <2>1, <2>10, ItemIs
    <3>2. m.texts["ontology"] # EmptyText
      BY <1>1, <3>1 DEF BitParts, Item
    <3> QED BY <3>1, <3>2 DEF BitItem
  <2>11. CASE i = 10
    <3>1. item.code = 12 /\ item.data = m.protocol /\ p[10] # <<>>
      BY <1>3, <2>1, <2>11, ItemIs
    <3>2. m.protocol # EmptyText
      BY <1>1, <3>1 DEF BitParts, Item
    <3> QED BY <3>1, <3>2 DEF BitItem
  <2>12. CASE i = 11
    <3>1. item.code = 13 /\ item.data = m.texts["conversation-id"] /\ p[11] # <<>>
      BY <1>3, <2>1, <2>12, ItemIs
    <3>2. m.texts["conversation-id"] # EmptyText
      BY <1>1, <3>1 DEF BitParts, Item
    <3> QED BY <3>1, <3>2 DEF BitItem
  <2>13. CASE i = 12
    BY <1>4, <2>1, <2>13 DEF BitItem
  <2>14. CASE i = 13
    <3>1. item.code = 4 /\ item.data = ContentItem(m.content) /\ p[13] # <<>>
      BY <1>3, <2>1, <2>14, ItemIs
    <3>2. m.content # NoContent
      BY <1>1, <3>1 DEF BitParts, Item
    <3> QED BY <3>1, <3>2 DEF BitItem
  <2> QED BY <2>2, <2>3, <2>4, <2>5, <2>6, <2>7, <2>8, <2>9, <2>10, <2>11, <2>12, <2>13, <2>14
<1>8. \A i \in 1..Len(items) : BitItem(items[i], m)
  <2>1. \A i \in 1..Len(items) : items[i] \in Range(items)
    BY <1>6 DEF IsList, Range
  <2> QED BY <1>7, <2>1
<1>9. \A u \in Range(m.parameters) : \E i \in 1..Len(items) :
        items[i].code = 0 /\ items[i].data = u
  <2>1. \A u \in Range(m.parameters) : \E x \in Range(items) : x.code = 0 /\ x.data = u
    BY <1>4, <1>6
  <2>2. \A x \in Range(items) : \E i \in 1..Len(items) : items[i] = x
    BY <1>6 DEF IsList, Range
  <2> QED BY <2>1, <2>2
<1>10. m.sender.name # EmptyText => Seen(items, Len(items), 2)
  <2> SUFFICES ASSUME m.sender.name # EmptyText PROVE Seen(items, Len(items), 2)
    OBVIOUS
  <2>1. p[1] # <<>>
    BY <1>1 DEF BitParts, Item
  <2>2. Range(p[1]) \subseteq Range(items)
    BY <1>6
  <2> QED BY <1>3, <1>6, <2>1, <2>2, PartSeen
<1>11. m.receivers # <<>> => Seen(items, Len(items), 3)
  <2> SUFFICES ASSUME m.receivers # <<>> PROVE Seen(items, Len(items), 3)
    OBVIOUS
  <2>1. p[2] # <<>>
    BY <1>1 DEF BitParts, Item
  <2>2. Range(p[2]) \subseteq Range(items)
    BY <1>6
  <2> QED BY <1>3, <1>6, <2>1, <2>2, PartSeen
<1>12. m.texts["reply-with"] # EmptyText => Seen(items, Len(items), 5)
  <2> SUFFICES ASSUME m.texts["reply-with"] # EmptyText PROVE Seen(items, Len(items), 5)
    OBVIOUS
  <2>1. p[3] # <<>>
    BY <1>1 DEF BitParts, Item
  <2>2. Range(p[3]) \subseteq Range(items)
    BY <1>6
  <2> QED BY <1>3, <1>6, <2>1, <2>2, PartSeen
<1>13. m.replyBy # NoTime => Seen(items, Len(items), 6)
  <2> SUFFICES ASSUME m.replyBy # NoTime PROVE Seen(items, Len(items), 6)
    OBVIOUS
  <2>1. p[4] # <<>>
    BY <1>1 DEF BitParts, Item
  <2>2. Range(p[4]) \subseteq Range(items)
    BY <1>6
  <2> QED BY <1>3, <1>6, <2>1, <2>2, PartSeen
<1>14. m.texts["in-reply-to"] # EmptyText => Seen(items, Len(items), 7)
  <2> SUFFICES ASSUME m.texts["in-reply-to"] # EmptyText PROVE Seen(items, Len(items), 7)
    OBVIOUS
  <2>1. p[5] # <<>>
    BY <1>1 DEF BitParts, Item
  <2>2. Range(p[5]) \subseteq Range(items)
    BY <1>6
  <2> QED BY <1>3, <1>6, <2>1, <2>2, PartSeen
<1>15. m.replyTo # <<>> => Seen(items, Len(items), 8)
  <2> SUFFICES ASSUME m.replyTo # <<>> PROVE Seen(items, Len(items), 8)
    OBVIOUS
  <2>1. p[6] # <<>>
    BY <1>1 DEF BitParts, Item
  <2>2. Range(p[6]) \subseteq Range(items)
    BY <1>6
  <2> QED BY <1>3, <1>6, <2>1, <2>2, PartSeen
<1>16. m.texts["language"] # EmptyText => Seen(items, Len(items), 9)
  <2> SUFFICES ASSUME m.texts["language"] # EmptyText PROVE Seen(items, Len(items), 9)
    OBVIOUS
  <2>1. p[7] # <<>>
    BY <1>1 DEF BitParts, Item
  <2>2. Range(p[7]) \subseteq Range(items)
    BY <1>6
  <2> QED BY <1>3, <1>6, <2>1, <2>2, PartSeen
<1>17. m.texts["encoding"] # EmptyText => Seen(items, Len(items), 10)
  <2> SUFFICES ASSUME m.texts["encoding"] # EmptyText PROVE Seen(items, Len(items), 10)
    OBVIOUS
  <2>1. p[8] # <<>>
    BY <1>1 DEF BitParts, Item
  <2>2. Range(p[8]) \subseteq Range(items)
    BY <1>6
  <2> QED BY <1>3, <1>6, <2>1, <2>2, PartSeen
<1>18. m.texts["ontology"] # EmptyText => Seen(items, Len(items), 11)
  <2> SUFFICES ASSUME m.texts["ontology"] # EmptyText PROVE Seen(items, Len(items), 11)
    OBVIOUS
  <2>1. p[9] # <<>>
    BY <1>1 DEF BitParts, Item
  <2>2. Range(p[9]) \subseteq Range(items)
    BY <1>6
  <2> QED BY <1>3, <1>6, <2>1, <2>2, PartSeen
<1>19. m.protocol # EmptyText => Seen(items, Len(items), 12)
  <2> SUFFICES ASSUME m.protocol # EmptyText PROVE Seen(items, Len(items), 12)
    OBVIOUS
  <2>1. p[10] # <<>>
    BY <1>1 DEF BitParts, Item
  <2>2. Range(p[10]) \subseteq Range(items)
    BY <1>6
  <2> QED BY <1>3, <1>6, <2>1, <2>2, PartSeen
<1>20. m.texts["conversation-id"] # EmptyText => Seen(items, Len(items), 13)
  <2> SUFFICES ASSUME m.texts["conversation-id"] # EmptyText PROVE Seen(items, Len(items), 13)
    OBVIOUS
  <2>1. p[11] # <<>>
    BY <1>1 DEF BitParts, Item
  <2>2. Range(p[11]) \subseteq Range(items)
    BY <1>6
  <2> QED BY <1>3, <1>6, <2>1, <2>2, PartSeen
<1>21. m.content # NoContent => Seen(items, Len(items), 4)
  <2> SUFFICES ASSUME m.content # NoContent PROVE Seen(items, Len(items), 4)
    OBVIOUS
  <2>1. p[13] # <<>>
    BY <1>1 DEF BitParts, Item
  <2>2. Range(p[13]) \subseteq Range(items)
    BY <1>6
  <2> QED BY <1>3, <1>6, <2>1, <2>2, PartSeen
<1> QED BY <1>6, <1>8, <1>9, <1>10, <1>11, <1>12, <1>13, <1>14, <1>15, <1>16, <1>17, <1>18, <1>19, <1>20, <1>21

\* An agent that was written and read has the name and the addresses it had.
LEMMA BitAgent ==
  ASSUME NEW a, AgentOK(a)
  PROVE  /\ AgentOK(BuildAgentID(WrittenAgent(a, ResolverDepth)))
         /\ BuildAgentID(WrittenAgent(a, ResolverDepth)).name = a.name
<1>1. PICK w : w = WrittenAgent(a, ResolverDepth)
  OBVIOUS
<1>2. AgentOK(w) /\ Proper(w) /\ w.name = a.name
  <2>1. Proper(a) /\ ResolverDepth \in Nat
    BY AgentProper, BitefficientAssumption
  <2>2. AgentOK(w)
    BY <1>1, <2>1, WrittenOK
  <2> QED BY <1>1, <2>1, <2>2, AgentProper, WrittenKeeps DEF Proper
<1>3. BuildAgentID(w).name = w.name
  BY <1>2, BuiltKeeps DEF Proper
<1> QED BY <1>1, <1>2, <1>3, BuiltOK

LEMMA BitAgents ==
  ASSUME NEW ag, AgentList(ag), NEW bs, bs = BuildAgentIDs(WrittenAgents(ag))
  PROVE  AgentList(bs) /\ NamesOf(bs) = NamesOf(ag)
<1>1. PICK ws : ws = WrittenAgents(ag)
  OBVIOUS
<1>2. DOMAIN ws = DOMAIN ag /\ \A i \in DOMAIN ag : ws[i] = WrittenAgent(ag[i], ResolverDepth)
  BY <1>1 DEF WrittenAgents
<1>3. /\ bs = [i \in DOMAIN ag |-> bs[i]]
      /\ \A i \in DOMAIN ag : bs[i] = BuildAgentID(ws[i])
  BY <1>1, <1>2 DEF BuildAgentIDs
<1>4. \A i \in DOMAIN ag : AgentOK(ag[i])
  BY DEF AgentList, Range
<1>5. \A i \in DOMAIN ag : AgentOK(bs[i]) /\ bs[i].name = ag[i].name
  BY <1>2, <1>3, <1>4, BitAgent
<1>6. AgentList(bs) /\ NamesOf(bs) = {bs[i].name : i \in DOMAIN ag}
  <2>1. ag \in Seq(Range(ag))
    BY DEF AgentList
  <2> QED BY <1>3, <1>5, <2>1, MappedList
<1>7. NamesOf(ag) = {ag[i].name : i \in DOMAIN ag}
  BY DEF NamesOf, Range
<1>8. {bs[i].name : i \in DOMAIN ag} = {ag[i].name : i \in DOMAIN ag}
  BY <1>5
<1> QED BY <1>6, <1>7, <1>8

\* One item more.
LEMMA BitStep ==
  ASSUME NEW m, MessageOK(m), NEW items, NEW k \in Nat, k # 0, BitItem(items[k], m),
         NEW n, n # Escaped, Told(n, items, k - 1, BitCodes, Wanted(m))
  PROVE  \/ BuildParameter(n, items[k]) = Escaped
         \/ Told(BuildParameter(n, items[k]), items, k, BitCodes, Wanted(m))
<1> DEFINE item == items[k]
           r == BuildParameter(n, item)
<1>0. /\ BitCodes.receivers = 3 /\ BitCodes.replyTo = 8 /\ BitCodes.content = 4
      /\ Distinct(BitCodes) /\ MessageOK(n)
      /\ Wanted(m).receivers = NamesOf(m.receivers)
      /\ Wanted(m).replyTo = NamesOf(m.replyTo)
      /\ Wanted(m).content = m.content
  BY DEF BitCodes, Distinct, Told, Wanted
<1>. m.content \in Content
  BY MessageParts
<1>1. MessageOK(r) /\ Same(r, n) /\ item.code \notin {3, 4, 8} =>
        Told(r, items, k, BitCodes, Wanted(m))
  BY <1>0, ToldSame
<1>2. ASSUME NEW name, NEW value
      PROVE  MessageOK(StoreText(n, name, value)) /\ Same(StoreText(n, name, value), n)
  <2>0. PICK s : s = StoreText(n, name, value)
    OBVIOUS
  <2>1. CASE name \in TextField
    <3>1. s = [n EXCEPT !.texts[name] = value]
      BY <2>0, <2>1 DEF StoreText, TextField
    <3> QED BY <1>0, <2>0, <2>1, <3>1, TextSet
  <2>2. CASE name = "protocol" /\ value \in Checked
    <3>1. s = SetProtocol(n, value)
      BY <2>0, <2>2 DEF StoreText, TextField
    <3> QED BY <1>0, <2>0, <3>1, ProtocolSet
  <2>3. CASE name \notin TextField /\ ~ (name = "protocol" /\ value \in Checked)
    <3>1. s = AddUserdefParam(n, [name |-> name, value |-> value])
      BY <2>0, <2>3 DEF StoreText
    <3>2. IsParam([name |-> name, value |-> value])
      BY DEF IsParam
    <3> QED BY <1>0, <2>0, <3>1, <3>2, ParameterAdded
  <2> QED BY <2>1, <2>2, <2>3
<1>3. CASE item.code = 0
  <2>1. r = Escaped \/ r = StoreText(n, ItemName(item), AsLiteral[item.data.value])
    BY <1>3 DEF BuildParameter
  <2> QED BY <1>1, <1>2, <1>3, <2>1
<1>4. CASE item.code \in {5, 7, 9, 10, 11, 13}
  <2>1. r = StoreText(n, ItemName(item), AsLiteral[item.data])
    BY <1>4 DEF BuildParameter
  <2> QED BY <1>1, <1>2, <1>4, <2>1
<1>5. CASE item.code = 12
  <2>1. PICK s : s = SetProtocol(n, item.data)
    OBVIOUS
  <2>2. r = s
    BY <1>5, <2>1 DEF BuildParameter
  <2>3. MessageOK(s) /\ Same(s, n)
    BY <1>0, <2>1, ProtocolSet
  <2> QED BY <1>1, <1>5, <2>2, <2>3
<1>6. CASE item.code = 6
  <2>1. PICK s : s = [n EXCEPT !.replyBy = ReadDate(item.data)]
    OBVIOUS
  <2>2. r = s
    BY <1>6, <2>1 DEF BuildParameter
  <2>3. ReadDate(item.data) \in Time
    <3>1. m.replyBy \in Time /\ m.replyBy # NoTime /\ item.data = BinDate(m.replyBy)
      BY <1>6, MessageParts DEF BitItem
    <3> QED BY <3>1, DateRead
  <2>4. MessageOK(s) /\ Same(s, n)
    BY <1>0, <2>1, <2>3, ReplyBySet
  <2> QED BY <1>1, <1>6, <2>2, <2>4
<1>7. CASE item.code = 2
  <2>1. PICK s : s = [n EXCEPT !.sender = BuildAgentID(item.data)]
    OBVIOUS
  <2>2. r = s
    BY <1>7, <2>1 DEF BuildParameter
  <2>3. AgentOK(BuildAgentID(item.data))
    <3>1. AgentOK(m.sender)
      BY MessageParts
    <3>2. item.data = WrittenAgent(m.sender, ResolverDepth)
      BY <1>7 DEF BitItem
    <3> QED BY <3>1, <3>2, BitAgent
  <2>4. MessageOK(s) /\ Same(s, n)
    BY <1>0, <2>1, <2>3, SenderSet
  <2> QED BY <1>1, <1>7, <2>2, <2>4
<1>8. CASE item.code = 3
  <2>1. PICK v : v = FoldLeft(PrependAgent, n.receivers, BuildAgentIDs(item.data))
    OBVIOUS
  <2>2. r = [n EXCEPT !.receivers = v]
    BY <1>8, <2>1 DEF BuildParameter, AddReceivers
  <2>3. AgentList(v) /\ NamesOf(v) = NamesOf(n.receivers) \cup NamesOf(m.receivers)
    <3>1. PICK bs : bs = BuildAgentIDs(WrittenAgents(m.receivers))
      OBVIOUS
    <3>2. AgentList(bs) /\ NamesOf(bs) = NamesOf(m.receivers)
      BY <3>1, BitAgents, MessageParts
    <3>3. AgentList(n.receivers)
      BY <1>0, MessageParts
    <3>4. v = FoldLeft(PrependAgent, n.receivers, bs)
      BY <1>8, <2>1, <3>1 DEF BitItem
    <3> QED BY <3>2, <3>3, <3>4, AddedList
  <2> QED BY <1>0, <1>8, <2>2, <2>3, ToldReceivers
<1>9. CASE item.code = 8
  <2>1. PICK v : v = FoldLeft(PrependAgent, n.replyTo, BuildAgentIDs(item.data))
    OBVIOUS
  <2>2. r = [n EXCEPT !.replyTo = v]
    BY <1>9, <2>1 DEF BuildParameter, AddReplyTos
  <2>3. AgentList(v) /\ NamesOf(v) = NamesOf(n.replyTo) \cup NamesOf(m.replyTo)
    <3>1. PICK bs : bs = BuildAgentIDs(WrittenAgents(m.replyTo))
      OBVIOUS
    <3>2. AgentList(bs) /\ NamesOf(bs) = NamesOf(m.replyTo)
      BY <3>1, BitAgents, MessageParts
    <3>3. AgentList(n.replyTo)
      BY <1>0, MessageParts
    <3>4. v = FoldLeft(PrependAgent, n.replyTo, bs)
      BY <1>9, <2>1, <3>1 DEF BitItem
    <3> QED BY <3>2, <3>3, <3>4, AddedList
  <2> QED BY <1>0, <1>9, <2>2, <2>3, ToldReplyTo
<1>10. CASE item.code = 4
  <2>1. item.data.body = m.content
    BY <1>10 DEF BitItem, ContentItem
  <2>2. r = [n EXCEPT !.content = m.content]
    BY <1>10, <2>1 DEF BuildParameter
  <2> QED BY <1>0, <1>10, <2>2, ToldContent
<1> QED BY <1>3, <1>4, <1>5, <1>6, <1>7, <1>8, <1>9, <1>10 DEF BitItem

\* What a reader gets of a message, unless it gets none.
ToldAll(r, want) ==
  /\ MessageOK(r)
  /\ r.performative = want.performative
  /\ NamesOf(r.receivers) = want.receivers
  /\ NamesOf(r.replyTo) = want.replyTo
  /\ r.content = want.content

LEMMA BitTold ==
  ASSUME NEW m, MessageOK(m), Transferred(m) \notin NoMessage
  PROVE  ToldAll(Transferred(m), Wanted(m))
<1>1. PICK items : items = WrittenItems(m)
  OBVIOUS
<1>2. PICK n : n = Len(items)
  OBVIOUS
<1>3. /\ IsList(items) /\ n \in Nat
      /\ \A i \in 1..n : BitItem(items[i], m)
      /\ m.receivers # <<>> => Seen(items, n, 3)
      /\ m.replyTo # <<>> => Seen(items, n, 8)
      /\ m.content # NoContent => Seen(items, n, 4)
  BY <1>1, <1>2, BitItems DEF IsList
<1>4. PICK first : first = SetPerformative(NewMessage, m.performative)
  OBVIOUS
<1>5. Transferred(m) = FoldLeft(BuildParameter, first, items)
  <2>1. m.performative # EmptyText
    BY DEF Transferred, Written, NoMessage
  <2>2. PICK wire : wire = [type |-> WrittenType(m.performative), items |-> items]
    OBVIOUS
  <2>3. wire = Written(m) /\ wire.items = items /\ wire.type = WrittenType(m.performative)
    BY <1>1, <2>1, <2>2 DEF Written
  <2>4. Transferred(m) = ParseData(wire)
    <3>1. wire # NotWritten
      BY <2>3 DEF Transferred, NoMessage
    <3> QED BY <2>3, <3>1 DEF Transferred
  <2>5. (IF wire.type.code = 0 THEN wire.type.data ELSE predefinedMessageType[wire.type.code])
          = m.performative
    <3>1. CASE m.performative \in Range(PerformativeTxt)
      <4>1. \E i \in DOMAIN PerformativeTxt : PerformativeTxt[i] = m.performative
        BY <3>1 DEF Range
      <4>2. PICK c : c = CHOOSE i \in DOMAIN PerformativeTxt : PerformativeTxt[i] = m.performative
        OBVIOUS
      <4>3. c \in DOMAIN PerformativeTxt /\ PerformativeTxt[c] = m.performative
        BY <4>1, <4>2
      <4>4. wire.type.code = c
        BY <2>3, <3>1, <4>2 DEF WrittenType
      <4>5. PerformativeTxt = predefinedMessageType /\ 0 \notin DOMAIN PerformativeTxt
        BY DEF PerformativeTxt, predefinedMessageType
      <4> QED BY <4>3, <4>4, <4>5
    <3>2. CASE m.performative \notin Range(PerformativeTxt)
      BY <2>3, <3>2 DEF WrittenType
    <3> QED BY <3>1, <3>2
  <2>6. ParseData(wire) # Unreadable
    BY <2>4 DEF NoMessage
  <2> QED BY <1>4, <2>3, <2>4, <2>5, <2>6 DEF ParseData
<1>6. PICK c : Chain("bits", first, items, n, c) /\ FoldLeft(BuildParameter, first, items) = c[n]
  BY <1>2, <1>3, FoldBits
<1> DEFINE T == {k \in 0..n : c[k] = Escaped \/ Told(c[k], items, k, BitCodes, Wanted(m))}
<1>7. 0 \in T
  <2>1. c[0] = first
    BY <1>3, <1>6, ChainStart
  <2>2. m.performative \in Checked /\ Wanted(m).performative = m.performative
    BY MessageParts DEF Wanted
  <2>3. Told(first, items, 0, BitCodes, Wanted(m))
    BY <1>4, <2>2, ToldFirst
  <2> QED BY <1>3, <2>1, <2>3
<1>8. ASSUME NEW k \in 1..n, k - 1 \in T PROVE k \in T
  <2>1. PICK x : x = c[k - 1]
    OBVIOUS
  <2>2. c[k] = BuildParameter(x, items[k])
    <3>1. c[k] = Step("bits", items, c[k - 1], k)
      BY <1>3, <1>6, ChainAt
    <3> QED BY <2>1, <3>1 DEF Step
  <2>3. k \in Nat /\ k # 0 /\ k \in 0..n
    BY <1>3
  <2>4. CASE x = Escaped
    <3>1. c[k] = Escaped
      BY <2>2, <2>4 DEF BuildParameter
    <3> QED BY <2>3, <3>1
  <2>5. CASE x # Escaped
    <3>1. Told(x, items, k - 1, BitCodes, Wanted(m))
      BY <1>8, <2>1, <2>5
    <3>2. BitItem(items[k], m)
      BY <1>3
    <3>3. c[k] = Escaped \/ Told(c[k], items, k, BitCodes, Wanted(m))
      <4> HIDE DEF T
      <4> QED BY <2>2, <2>3, <2>5, <3>1, <3>2, BitStep
    <3> QED BY <2>3, <3>3
  <2> QED BY <2>4, <2>5
<1>9. n \in T
  <2> HIDE DEF T
  <2> QED BY <1>3, <1>7, <1>8, InductionTo
<1>10. PICK r : r = Transferred(m)
  OBVIOUS
<1>11. Told(r, items, n, BitCodes, Wanted(m))
  BY <1>5, <1>6, <1>9, <1>10 DEF NoMessage
<1>12. /\ Seen(items, n, BitCodes.receivers) \/ Wanted(m).receivers = {}
       /\ Seen(items, n, BitCodes.replyTo) \/ Wanted(m).replyTo = {}
       /\ Seen(items, n, BitCodes.content) \/ Wanted(m).content = NoContent
  <2>1. NamesOf(<<>>) = {}
    BY DEF NamesOf, Range
  <2> QED BY <1>3, <2>1 DEF BitCodes, Wanted
<1> QED BY <1>10, <1>11, <1>12 DEF Told, ToldAll

-----------------------------------------------------------------------------
(* The text representation.                                                *)

NamedCodes == [receivers |-> "receiver", replyTo |-> "reply-to", content |-> "content"]

TextItem(item, m) ==
  /\ item.code \in TextField \cup {"sender", "receiver", "reply-to", "content", "reply-by",
                                   "protocol", "X-"}
  /\ item.code = "X-" => item.data \in Range(m.parameters)
  /\ item.code = "sender" => IsValid(m.sender) /\ item.data = m.sender
  /\ item.code = "receiver" => m.receivers # <<>> /\ item.data = m.receivers
  /\ item.code = "content" => m.content # NoContent /\ item.data = m.content
  /\ item.code = "reply-by" => m.replyBy # NoTime /\ item.data = DateDigits(m.replyBy)
  /\ item.code = "reply-to" => m.replyTo # <<>> /\ item.data = m.replyTo
  /\ item.code = "protocol" => m.protocol # EmptyText /\ item.data = m.protocol
  /\ item.code \in TextField =>
       m.texts[item.code] # EmptyText /\ item.data = m.texts[item.code]

TextParts(m) ==
  << Item(IsValid(m.sender), "sender", m.sender),
     Item(m.receivers # <<>>, "receiver", m.receivers),
     Item(m.content # NoContent, "content", m.content),
     Item(m.texts["reply-with"] # EmptyText, "reply-with", m.texts["reply-with"]),
     Item(m.replyBy # NoTime, "reply-by", DateDigits(m.replyBy)),
     Item(m.texts["in-reply-to"] # EmptyText, "in-reply-to", m.texts["in-reply-to"]),
     Item(m.replyTo # <<>>, "reply-to", m.replyTo),
     Item(m.texts["language"] # EmptyText, "language", m.texts["language"]),
     Item(m.texts["encoding"] # EmptyText, "encoding", m.texts["encoding"]),
     Item(m.texts["ontology"] # EmptyText, "ontology", m.texts["ontology"]),
     Item(m.protocol # EmptyText, "protocol", m.protocol),
     Item(m.texts["conversation-id"] # EmptyText, "conversation-id", m.texts["conversation-id"]),
     [i \in DOMAIN m.parameters |-> [code |-> "X-", data |-> m.parameters[i]]] >>

LEMMA TextItems ==
  ASSUME NEW m, MessageOK(m), NEW items, items = StringItems(m)
  PROVE  /\ IsList(items)
         /\ \A i \in 1..Len(items) : TextItem(items[i], m)
         /\ IsValid(m.sender) => Seen(items, Len(items), "sender")
         /\ m.receivers # <<>> => Seen(items, Len(items), "receiver")
         /\ m.content # NoContent => Seen(items, Len(items), "content")
         /\ m.texts["reply-with"] # EmptyText => Seen(items, Len(items), "reply-with")
         /\ m.replyBy # NoTime => Seen(items, Len(items), "reply-by")
         /\ m.texts["in-reply-to"] # EmptyText => Seen(items, Len(items), "in-reply-to")
         /\ m.replyTo # <<>> => Seen(items, Len(items), "reply-to")
         /\ m.texts["language"] # EmptyText => Seen(items, Len(items), "language")
         /\ m.texts["encoding"] # EmptyText => Seen(items, Len(items), "encoding")
         /\ m.texts["ontology"] # EmptyText => Seen(items, Len(items), "ontology")
         /\ m.protocol # EmptyText => Seen(items, Len(items), "protocol")
         /\ m.texts["conversation-id"] # EmptyText => Seen(items, Len(items), "conversation-id")
         /\ \A u \in Range(m.parameters) : \E i \in 1..Len(items) :
              items[i].code = "X-" /\ items[i].data = u
<1>1. PICK p : p = TextParts(m)
  OBVIOUS
<1>2. items = Joined(p)
  BY <1>1 DEF StringItems, TextParts, Joined
<1>3. /\ AtMostOne(p[1], "sender", m.sender)
      /\ AtMostOne(p[2], "receiver", m.receivers)
      /\ AtMostOne(p[3], "content", m.content)
      /\ AtMostOne(p[4], "reply-with", m.texts["reply-with"])
      /\ AtMostOne(p[5], "reply-by", DateDigits(m.replyBy))
      /\ AtMostOne(p[6], "in-reply-to", m.texts["in-reply-to"])
      /\ AtMostOne(p[7], "reply-to", m.replyTo)
      /\ AtMostOne(p[8], "language", m.texts["language"])
      /\ AtMostOne(p[9], "encoding", m.texts["encoding"])
      /\ AtMostOne(p[10], "ontology", m.texts["ontology"])
      /\ AtMostOne(p[11], "protocol", m.protocol)
      /\ AtMostOne(p[12], "conversation-id", m.texts["conversation-id"])
  BY <1>1 DEF TextParts, Item, AtMostOne
<1>4. /\ IsList(p[13]) /\ \A item \in Range(p[13]) : item.code = "X-"
      /\ \A item \in Range(p[13]) : item.data \in Range(m.parameters)
      /\ \A u \in Range(m.parameters) : \E item \in Range(p[13]) : item.data = u
  <2>1. PICK us : us = m.parameters /\ us \in Seq(Range(us))
    BY MessageParts
  <2>2. PICK ps : ps = p[13]
    OBVIOUS
  <2>3. Along(ps, us) /\ \A i \in DOMAIN us : ps[i].code = "X-" /\ ps[i].data = us[i]
    <3>1. ps = [i \in DOMAIN us |-> [code |-> "X-", data |-> us[i]]]
      BY <1>1, <2>1, <2>2 DEF TextParts
    <3> QED BY <3>1 DEF Along
  <2>4. IsList(ps) /\ \A item \in Range(ps) : item.code = "X-"
    <3>1. Coded(ps, us, "X-") /\ Along(ps, us)
      BY <2>3 DEF Coded
    <3> QED BY <2>1, <3>1, ParametersAre
  <2>5. DOMAIN ps = DOMAIN us
    BY <2>3 DEF Along
  <2> QED BY <2>1, <2>2, <2>3, <2>4, <2>5 DEF Range
<1>5. Lists(p)
  <2>1. \A i \in 1..13 : i \in {1, 2, 3, 4, 5, 6, 7, 8, 9, 10, 11, 12, 13}
    OBVIOUS
  <2>2. \A i \in {1, 2, 3, 4, 5, 6, 7, 8, 9, 10, 11, 12, 13} : IsList(p[i])
    BY <1>3, <1>4, ItemIs
  <2> QED BY <2>1, <2>2 DEF Lists
<1>6. /\ IsList(items)
      /\ \A i \in 1..13 : Range(p[i]) \subseteq Range(items)
      /\ \A item \in Range(items) : \E i \in 1..13 : item \in Range(p[i])
  BY <1>2, <1>5, Thirteen
<1>7. ASSUME NEW item \in Range(items) PROVE TextItem(item, m)
  <2>1. PICK i \in 1..13 : item \in Range(p[i])
    BY <1>6
  <2>2. CASE i = 1
    <3>1. item.code = "sender" /\ item.data = m.sender /\ p[1] # <<>>
      BY <1>3, <2>1, <2>2, ItemIs
    <3>2. IsValid(m.sender)
      BY <1>1, <3>1 DEF TextParts, Item
    <3> QED BY <3>1, <3>2 DEF TextItem, TextField
  <2>3. CASE i = 2
    <3>1. item.code = "receiver" /\ item.data = m.receivers /\ p[2] # <<>>
      BY <1>3, <2>1, <2>3, ItemIs
    <3>2. m.receivers # <<>>
      BY <1>1, <3>1 DEF TextParts, Item
    <3> QED BY <3>1, <3>2 DEF TextItem, TextField
  <2>4. CASE i = 3
    <3>1. item.code = "content" /\ item.data = m.content /\ p[3] # <<>>
      BY <1>3, <2>1, <2>4, ItemIs
    <3>2. m.content # NoContent
      BY <1>1, <3>1 DEF TextParts, Item
    <3> QED BY <3>1, <3>2 DEF TextItem, TextField
  <2>5. CASE i = 4
    <3>1. item.code = "reply-with" /\ item.data = m.texts["reply-with"] /\ p[4] # <<>>
      BY <1>3, <2>1, <2>5, ItemIs
    <3>2. m.texts["reply-with"] # EmptyText
      BY <1>1, <3>1 DEF TextParts, Item
    <3> QED BY <3>1, <3>2 DEF TextItem, TextField
  <2>6. CASE i = 5
    <3>1. item.code = "reply-by" /\ item.data = DateDigits(m.replyBy) /\ p[5] # <<>>
      BY <1>3, <2>1, <2>6, ItemIs
    <3>2. m.replyBy # NoTime
      BY <1>1, <3>1 DEF TextParts, Item
    <3> QED BY <3>1, <3>2 DEF TextItem, TextField
  <2>7. CASE i = 6
    <3>1. item.code = "in-reply-to" /\ item.data = m.texts["in-reply-to"] /\ p[6] # <<>>
      BY <1>3, <2>1, <2>7, ItemIs
    <3>2. m.texts["in-reply-to"] # EmptyText
      BY <1>1, <3>1 DEF TextParts, Item
    <3> QED BY <3>1, <3>2 DEF TextItem, TextField
  <2>8. CASE i = 7
    <3>1. item.code = "reply-to" /\ item.data = m.replyTo /\ p[7] # <<>>
      BY <1>3, <2>1, <2>8, ItemIs
    <3>2. m.replyTo # <<>>
      BY <1>1, <3>1 DEF TextParts, Item
    <3> QED BY <3>1, <3>2 DEF TextItem, TextField
  <2>9. CASE i = 8
    <3>1. item.code = "language" /\ item.data = m.texts["language"] /\ p[8] # <<>>
      BY <1>3, <2>1, <2>9, ItemIs
    <3>2. m.texts["language"] # EmptyText
      BY <1>1, <3>1 DEF TextParts, Item
    <3> QED BY <3>1, <3>2 DEF TextItem, TextField
  <2>10. CASE i = 9
    <3>1. item.code = "encoding" /\ item.data = m.texts["encoding"] /\ p[9] # <<>>
      BY <1>3, <2>1, <2>10, ItemIs
    <3>2. m.texts["encoding"] # EmptyText
      BY <1>1, <3>1 DEF TextParts, Item
    <3> QED BY <3>1, <3>2 DEF TextItem, TextField
  <2>11. CASE i = 10
    <3>1. item.code = "ontology" /\ item.data = m.texts["ontology"] /\ p[10] # <<>>
      BY <1>3, <2>1, <2>11, ItemIs
    <3>2. m.texts["ontology"] # EmptyText
      BY <1>1, <3>1 DEF TextParts, Item
    <3> QED BY <3>1, <3>2 DEF TextItem, TextField
  <2>12. CASE i = 11
    <3>1. item.code = "protocol" /\ item.data = m.protocol /\ p[11] # <<>>
      BY <1>3, <2>1, <2>12, ItemIs
    <3>2. m.protocol # EmptyText
      BY <1>1, <3>1 DEF TextParts, Item
    <3> QED BY <3>1, <3>2 DEF TextItem, TextField
  <2>13. CASE i = 12
    <3>1. item.code = "conversation-id" /\ item.data = m.texts["conversation-id"] /\ p[12] # <<>>
      BY <1>3, <2>1, <2>13, ItemIs
    <3>2. m.texts["conversation-id"] # EmptyText
      BY <1>1, <3>1 DEF TextParts, Item
    <3> QED BY <3>1, <3>2 DEF TextItem, TextField
  <2>14. CASE i = 13
    BY <1>4, <2>1, <2>14 DEF TextItem, TextField
  <2> QED BY <2>2, <2>3, <2>4, <2>5, <2>6, <2>7, <2>8, <2>9, <2>10, <2>11, <2>12, <2>13, <2>14
<1>8. \A i \in 1..Len(items) : TextItem(items[i], m)
  <2>1. \A i \in 1..Len(items) : items[i] \in Range(items)
    BY <1>6 DEF IsList, Range
  <2> QED BY <1>7, <2>1
<1>9. \A u \in Range(m.parameters) : \E i \in 1..Len(items) :
        items[i].code = "X-" /\ items[i].data = u
  <2>1. \A u \in Range(m.parameters) : \E x \in Range(items) : x.code = "X-" /\ x.data = u
    BY <1>4, <1>6
  <2>2. \A x \in Range(items) : \E i \in 1..Len(items) : items[i] = x
    BY <1>6 DEF IsList, Range
  <2> QED BY <2>1, <2>2
<1>10. IsValid(m.sender) => Seen(items, Len(items), "sender")
  <2> SUFFICES ASSUME IsValid(m.sender) PROVE Seen(items, Len(items), "sender")
    OBVIOUS
  <2>1. p[1] # <<>>
    BY <1>1 DEF TextParts, Item
  <2>2. Range(p[1]) \subseteq Range(items)
    BY <1>6
  <2> QED BY <1>3, <1>6, <2>1, <2>2, PartSeen
<1>11. m.receivers # <<>> => Seen(items, Len(items), "receiver")
  <2> SUFFICES ASSUME m.receivers # <<>> PROVE Seen(items, Len(items), "receiver")
    OBVIOUS
  <2>1. p[2] # <<>>
    BY <1>1 DEF TextParts, Item
  <2>2. Range(p[2]) \subseteq Range(items)
    BY <1>6
  <2> QED BY <1>3, <1>6, <2>1, <2>2, PartSeen
<1>12. m.content # NoContent => Seen(items, Len(items), "content")
  <2> SUFFICES ASSUME m.content # NoContent PROVE Seen(items, Len(items), "content")
    OBVIOUS
  <2>1. p[3] # <<>>
    BY <1>1 DEF TextParts, Item
  <2>2. Range(p[3]) \subseteq Range(items)
    BY <1>6
  <2> QED BY <1>3, <1>6, <2>1, <2>2, PartSeen
<1>13. m.texts["reply-with"] # EmptyText => Seen(items, Len(items), "reply-with")
  <2> SUFFICES ASSUME m.texts["reply-with"] # EmptyText PROVE Seen(items, Len(items), "reply-with")
    OBVIOUS
  <2>1. p[4] # <<>>
    BY <1>1 DEF TextParts, Item
  <2>2. Range(p[4]) \subseteq Range(items)
    BY <1>6
  <2> QED BY <1>3, <1>6, <2>1, <2>2, PartSeen
<1>14. m.replyBy # NoTime => Seen(items, Len(items), "reply-by")
  <2> SUFFICES ASSUME m.replyBy # NoTime PROVE Seen(items, Len(items), "reply-by")
    OBVIOUS
  <2>1. p[5] # <<>>
    BY <1>1 DEF TextParts, Item
  <2>2. Range(p[5]) \subseteq Range(items)
    BY <1>6
  <2> QED BY <1>3, <1>6, <2>1, <2>2, PartSeen
<1>15. m.texts["in-reply-to"] # EmptyText => Seen(items, Len(items), "in-reply-to")
  <2> SUFFICES ASSUME m.texts["in-reply-to"] # EmptyText PROVE Seen(items, Len(items), "in-reply-to")
    OBVIOUS
  <2>1. p[6] # <<>>
    BY <1>1 DEF TextParts, Item
  <2>2. Range(p[6]) \subseteq Range(items)
    BY <1>6
  <2> QED BY <1>3, <1>6, <2>1, <2>2, PartSeen
<1>16. m.replyTo # <<>> => Seen(items, Len(items), "reply-to")
  <2> SUFFICES ASSUME m.replyTo # <<>> PROVE Seen(items, Len(items), "reply-to")
    OBVIOUS
  <2>1. p[7] # <<>>
    BY <1>1 DEF TextParts, Item
  <2>2. Range(p[7]) \subseteq Range(items)
    BY <1>6
  <2> QED BY <1>3, <1>6, <2>1, <2>2, PartSeen
<1>17. m.texts["language"] # EmptyText => Seen(items, Len(items), "language")
  <2> SUFFICES ASSUME m.texts["language"] # EmptyText PROVE Seen(items, Len(items), "language")
    OBVIOUS
  <2>1. p[8] # <<>>
    BY <1>1 DEF TextParts, Item
  <2>2. Range(p[8]) \subseteq Range(items)
    BY <1>6
  <2> QED BY <1>3, <1>6, <2>1, <2>2, PartSeen
<1>18. m.texts["encoding"] # EmptyText => Seen(items, Len(items), "encoding")
  <2> SUFFICES ASSUME m.texts["encoding"] # EmptyText PROVE Seen(items, Len(items), "encoding")
    OBVIOUS
  <2>1. p[9] # <<>>
    BY <1>1 DEF TextParts, Item
  <2>2. Range(p[9]) \subseteq Range(items)
    BY <1>6
  <2> QED BY <1>3, <1>6, <2>1, <2>2, PartSeen
<1>19. m.texts["ontology"] # EmptyText => Seen(items, Len(items), "ontology")
  <2> SUFFICES ASSUME m.texts["ontology"] # EmptyText PROVE Seen(items, Len(items), "ontology")
    OBVIOUS
  <2>1. p[10] # <<>>
    BY <1>1 DEF TextParts, Item
  <2>2. Range(p[10]) \subseteq Range(items)
    BY <1>6
  <2> QED BY <1>3, <1>6, <2>1, <2>2, PartSeen
<1>20. m.protocol # EmptyText => Seen(items, Len(items), "protocol")
  <2> SUFFICES ASSUME m.protocol # EmptyText PROVE Seen(items, Len(items), "protocol")
    OBVIOUS
  <2>1. p[11] # <<>>
    BY <1>1 DEF TextParts, Item
  <2>2. Range(p[11]) \subseteq Range(items)
    BY <1>6
  <2> QED BY <1>3, <1>6, <2>1, <2>2, PartSeen
<1>21. m.texts["conversation-id"] # EmptyText => Seen(items, Len(items), "conversation-id")
  <2> SUFFICES ASSUME m.texts["conversation-id"] # EmptyText PROVE Seen(items, Len(items), "conversation-id")
    OBVIOUS
  <2>1. p[12] # <<>>
    BY <1>1 DEF TextParts, Item
  <2>2. Range(p[12]) \subseteq Range(items)
    BY <1>6
  <2> QED BY <1>3, <1>6, <2>1, <2>2, PartSeen
<1> QED BY <1>6, <1>8, <1>9, <1>10, <1>11, <1>12, <1>13, <1>14, <1>15, <1>16, <1>17, <1>18, <1>19, <1>20, <1>21

TextName(a) == IF a.parameters = <<>> THEN a.name ELSE Garbled

TextNames(ag) == {TextName(a) : a \in Range(ag)}

TextWanted(m) ==
  [ performative |-> m.performative,
    receivers    |-> TextNames(m.receivers),
    replyTo      |-> TextNames(m.replyTo),
    content      |-> m.content ]

LEMMA TextAgent ==
  ASSUME NEW a, AgentOK(a)
  PROVE  AgentOK(ReadAgentIdentifier(a)) /\ ReadAgentIdentifier(a).name = TextName(a)
<1>1. Proper(a)
  BY AgentProper
<1>2. ReadAgentIdentifier(a).name = TextName(a)
  BY <1>1, ReadIs DEF TextName, Proper
<1> QED BY <1>2, ReadOK

LEMMA TextAgents ==
  ASSUME NEW ag, AgentList(ag), NEW bs, bs = ReadAgentIdentifierSet(ag)
  PROVE  AgentList(bs) /\ NamesOf(bs) = TextNames(ag)
<1>1. /\ bs = [i \in DOMAIN ag |-> bs[i]]
      /\ \A i \in DOMAIN ag : bs[i] = ReadAgentIdentifier(ag[i])
  BY DEF ReadAgentIdentifierSet
<1>2. \A i \in DOMAIN ag : AgentOK(ag[i])
  BY DEF AgentList, Range
<1>3. \A i \in DOMAIN ag : AgentOK(bs[i]) /\ bs[i].name = TextName(ag[i])
  BY <1>1, <1>2, TextAgent
<1>4. AgentList(bs) /\ NamesOf(bs) = {bs[i].name : i \in DOMAIN ag}
  <2>1. ag \in Seq(Range(ag))
    BY DEF AgentList
  <2> QED BY <1>1, <1>3, <2>1, MappedList
<1>5. TextNames(ag) = {TextName(ag[i]) : i \in DOMAIN ag}
  BY DEF TextNames, Range
<1>6. {bs[i].name : i \in DOMAIN ag} = {TextName(ag[i]) : i \in DOMAIN ag}
  BY <1>3
<1> QED BY <1>4, <1>5, <1>6

LEMMA TextStep ==
  ASSUME NEW m, MessageOK(m), NEW items, NEW k \in Nat, k # 0, TextItem(items[k], m),
         NEW n, Told(n, items, k - 1, NamedCodes, TextWanted(m))
  PROVE  Told(StoreStringItem(n, items[k]), items, k, NamedCodes, TextWanted(m))
<1>1. PICK item : item = items[k]
  OBVIOUS
<1>2. PICK r : r = StoreStringItem(n, item)
  OBVIOUS
<1> SUFFICES Told(r, items, k, NamedCodes, TextWanted(m))
  BY <1>1, <1>2
<1>3. /\ NamedCodes.receivers = "receiver" /\ NamedCodes.replyTo = "reply-to"
      /\ NamedCodes.content = "content" /\ Distinct(NamedCodes) /\ MessageOK(n)
      /\ TextWanted(m).receivers = TextNames(m.receivers)
      /\ TextWanted(m).replyTo = TextNames(m.replyTo)
      /\ TextWanted(m).content = m.content /\ m.content \in Content
  BY MessageParts DEF NamedCodes, Distinct, Told, TextWanted
<1>4. MessageOK(r) /\ Same(r, n) /\ item.code \notin {"receiver", "reply-to", "content"} =>
        Told(r, items, k, NamedCodes, TextWanted(m))
  BY <1>1, <1>3, ToldSame
<1>5. AgentOK(m.sender) /\ AgentList(m.receivers) /\ AgentList(m.replyTo)
  BY MessageParts
<1>6. CASE item.code \in TextField
  <2>1. r = [n EXCEPT !.texts[item.code] = item.data]
    BY <1>2, <1>6 DEF StoreStringItem, TextField
  <2>2. MessageOK(r) /\ Same(r, n)
    BY <1>3, <1>6, <2>1, TextSet
  <2>3. item.code \notin {"receiver", "reply-to", "content"}
    BY <1>6 DEF TextField
  <2> QED BY <1>4, <2>2, <2>3
<1>7. CASE item.code = "sender"
  <2>1. r = [n EXCEPT !.sender = ReadAgentIdentifier(item.data)]
    BY <1>2, <1>7 DEF StoreStringItem
  <2>2. AgentOK(ReadAgentIdentifier(item.data))
    BY <1>1, <1>5, <1>7, TextAgent DEF TextItem
  <2>3. MessageOK(r) /\ Same(r, n)
    BY <1>3, <2>1, <2>2, SenderSet
  <2> QED BY <1>4, <1>7, <2>3
<1>8. CASE item.code = "receiver"
  <2>1. PICK v : v = ReadAgentIdentifierSet(m.receivers)
    OBVIOUS
  <2>2. r = [n EXCEPT !.receivers = v]
    BY <1>1, <1>2, <1>8, <2>1 DEF StoreStringItem, TextItem
  <2>3. AgentList(v) /\ NamesOf(v) = TextNames(m.receivers)
    BY <1>5, <2>1, TextAgents
  <2> QED BY <1>1, <1>2, <1>3, <1>8, <2>2, <2>3, ToldReceivers
<1>9. CASE item.code = "reply-to"
  <2>1. PICK v : v = ReadAgentIdentifierSet(m.replyTo)
    OBVIOUS
  <2>2. r = [n EXCEPT !.replyTo = v]
    BY <1>1, <1>2, <1>9, <2>1 DEF StoreStringItem, TextItem
  <2>3. AgentList(v) /\ NamesOf(v) = TextNames(m.replyTo)
    BY <1>5, <2>1, TextAgents
  <2> QED BY <1>1, <1>2, <1>3, <1>9, <2>2, <2>3, ToldReplyTo
<1>10. CASE item.code = "content"
  <2>1. r = [n EXCEPT !.content = m.content]
    BY <1>1, <1>2, <1>10 DEF StoreStringItem, TextItem
  <2> QED BY <1>1, <1>2, <1>3, <1>10, <2>1, ToldContent
<1>11. CASE item.code = "reply-by"
  <2>1. r = [n EXCEPT !.replyBy = ReadDateTime(item.data)]
    BY <1>2, <1>11 DEF StoreStringItem
  <2>2. ReadDateTime(item.data) \in Time
    <3>1. m.replyBy \in Time /\ m.replyBy # NoTime /\ item.data = DateDigits(m.replyBy)
      BY <1>1, <1>11, MessageParts DEF TextItem
    <3> QED BY <3>1, DateRead DEF ReadDateTime
  <2>3. MessageOK(r) /\ Same(r, n)
    BY <1>3, <2>1, <2>2, ReplyBySet
  <2> QED BY <1>4, <1>11, <2>3
<1>12. CASE item.code = "protocol"
  <2>1. r = SetProtocol(n, item.data)
    BY <1>2, <1>12 DEF StoreStringItem
  <2>2. MessageOK(r) /\ Same(r, n)
    BY <1>3, <2>1, ProtocolSet
  <2> QED BY <1>4, <1>12, <2>2
<1>13. CASE item.code = "X-"
  <2>1. r = AddUserdefParam(n, item.data)
    BY <1>2, <1>13 DEF StoreStringItem
  <2>2. IsParam(item.data)
    BY <1>1, <1>13, MessageParts DEF TextItem
  <2>3. MessageOK(r) /\ Same(r, n)
    BY <1>3, <2>1, <2>2, ParameterAdded
  <2> QED BY <1>4, <1>13, <2>3
<1> QED BY <1>1, <1>6, <1>7, <1>8, <1>9, <1>10, <1>11, <1>12, <1>13 DEF TextItem

LEMMA TextTold ==
  ASSUME NEW m, MessageOK(m), StringTransferred(m) \notin NoMessage
  PROVE  ToldAll(StringTransferred(m), TextWanted(m))
<1>1. PICK items : items = StringItems(m)
  OBVIOUS
<1>2. PICK n : n = Len(items)
  OBVIOUS
<1>3. /\ IsList(items) /\ n \in Nat
      /\ \A i \in 1..n : TextItem(items[i], m)
      /\ m.receivers # <<>> => Seen(items, n, "receiver")
      /\ m.replyTo # <<>> => Seen(items, n, "reply-to")
      /\ m.content # NoContent => Seen(items, n, "content")
  BY <1>1, <1>2, TextItems DEF IsList
<1>4. PICK first : first = SetPerformative(NewMessage, m.performative)
  OBVIOUS
<1>5. StringTransferred(m) = FoldLeft(StoreStringItem, first, items)
  BY <1>1, <1>4 DEF StringTransferred, NoMessage
<1>6. PICK c : Chain("text", first, items, n, c) /\ FoldLeft(StoreStringItem, first, items) = c[n]
  BY <1>2, <1>3, FoldText
<1> DEFINE T == {k \in 0..n : Told(c[k], items, k, NamedCodes, TextWanted(m))}
<1>7. 0 \in T
  <2>1. c[0] = first
    BY <1>3, <1>6, ChainStart
  <2>2. m.performative \in Checked /\ TextWanted(m).performative = m.performative
    BY MessageParts DEF TextWanted
  <2>3. Told(first, items, 0, NamedCodes, TextWanted(m))
    BY <1>4, <2>2, ToldFirst
  <2> QED BY <1>3, <2>1, <2>3
<1>8. ASSUME NEW k \in 1..n, k - 1 \in T PROVE k \in T
  <2>1. PICK x : x = c[k - 1]
    OBVIOUS
  <2>2. c[k] = StoreStringItem(x, items[k])
    <3>1. c[k] = Step("text", items, c[k - 1], k)
      BY <1>3, <1>6, ChainAt
    <3> QED BY <2>1, <3>1 DEF Step
  <2>3. k \in Nat /\ k # 0 /\ k \in 0..n
    BY <1>3
  <2>4. Told(x, items, k - 1, NamedCodes, TextWanted(m))
    BY <1>8, <2>1
  <2>5. TextItem(items[k], m)
    BY <1>3
  <2>6. Told(c[k], items, k, NamedCodes, TextWanted(m))
    <3> HIDE DEF T
    <3> QED BY <2>2, <2>3, <2>4, <2>5, TextStep
  <2> QED BY <2>3, <2>6
<1>9. n \in T
  <2> HIDE DEF T
  <2> QED BY <1>3, <1>7, <1>8, InductionTo
<1>10. PICK r : r = StringTransferred(m)
  OBVIOUS
<1>11. Told(r, items, n, NamedCodes, TextWanted(m))
  BY <1>5, <1>6, <1>9, <1>10
<1>12. /\ Seen(items, n, NamedCodes.receivers) \/ TextWanted(m).receivers = {}
       /\ Seen(items, n, NamedCodes.replyTo) \/ TextWanted(m).replyTo = {}
       /\ Seen(items, n, NamedCodes.content) \/ TextWanted(m).content = NoContent
  <2>1. TextNames(<<>>) = {}
    BY DEF TextNames, Range
  <2> QED BY <1>3, <2>1 DEF NamedCodes, TextWanted
<1> QED BY <1>10, <1>11, <1>12 DEF Told, ToldAll

-----------------------------------------------------------------------------
(* XML.                                                                    *)

Element(u) == [element |-> "user-defined", href |-> u.name, text |-> u.value]

XMLItem(item, m) ==
  /\ item.code \in TextField \cup {"sender", "receiver", "reply-to", "content", "reply-by",
                                   "protocol", "user-defined"}
  /\ item.code = "user-defined" => \E u \in Range(m.parameters) : item.data = Element(u)
  /\ item.code = "receiver" => m.receivers # <<>> /\ item.data = GetAgentIDSequence(m.receivers)
  /\ item.code = "sender" => IsValid(m.sender) /\ item.data = GetAgentID(m.sender)
  /\ item.code = "content" => m.content # NoContent /\ item.data = m.content
  /\ item.code = "protocol" => m.protocol # EmptyText /\ item.data = m.protocol
  /\ item.code = "reply-by" => m.replyBy # NoTime /\ item.data = DateDigits(m.replyBy)
  /\ item.code = "reply-to" => m.replyTo # <<>> /\ item.data = GetAgentIDSequence(m.replyTo)
  /\ item.code \in TextField =>
       m.texts[item.code] # EmptyText /\ item.data = m.texts[item.code]

XMLParts(m) ==
  << Item(m.receivers # <<>>, "receiver", GetAgentIDSequence(m.receivers)),
     Item(IsValid(m.sender), "sender", GetAgentID(m.sender)),
     Item(m.content # NoContent, "content", m.content),
     Item(m.texts["language"] # EmptyText, "language", m.texts["language"]),
     Item(m.texts["encoding"] # EmptyText, "encoding", m.texts["encoding"]),
     Item(m.texts["ontology"] # EmptyText, "ontology", m.texts["ontology"]),
     Item(m.protocol # EmptyText, "protocol", m.protocol),
     Item(m.texts["reply-with"] # EmptyText, "reply-with", m.texts["reply-with"]),
     Item(m.texts["in-reply-to"] # EmptyText, "in-reply-to", m.texts["in-reply-to"]),
     Item(m.replyBy # NoTime, "reply-by", DateDigits(m.replyBy)),
     Item(m.replyTo # <<>>, "reply-to", GetAgentIDSequence(m.replyTo)),
     Item(m.texts["conversation-id"] # EmptyText, "conversation-id", m.texts["conversation-id"]),
     [i \in DOMAIN m.parameters |->
       [code |-> "user-defined", data |-> GetUserdefinedParameters(m.parameters)[i]]] >>

LEMMA XMLItemsAre ==
  ASSUME NEW m, MessageOK(m), NEW items, items = XMLItems(m)
  PROVE  /\ IsList(items)
         /\ \A i \in 1..Len(items) : XMLItem(items[i], m)
         /\ m.receivers # <<>> => Seen(items, Len(items), "receiver")
         /\ IsValid(m.sender) => Seen(items, Len(items), "sender")
         /\ m.content # NoContent => Seen(items, Len(items), "content")
         /\ m.texts["language"] # EmptyText => Seen(items, Len(items), "language")
         /\ m.texts["encoding"] # EmptyText => Seen(items, Len(items), "encoding")
         /\ m.texts["ontology"] # EmptyText => Seen(items, Len(items), "ontology")
         /\ m.protocol # EmptyText => Seen(items, Len(items), "protocol")
         /\ m.texts["reply-with"] # EmptyText => Seen(items, Len(items), "reply-with")
         /\ m.texts["in-reply-to"] # EmptyText => Seen(items, Len(items), "in-reply-to")
         /\ m.replyBy # NoTime => Seen(items, Len(items), "reply-by")
         /\ m.replyTo # <<>> => Seen(items, Len(items), "reply-to")
         /\ m.texts["conversation-id"] # EmptyText => Seen(items, Len(items), "conversation-id")
         /\ \A u \in Range(m.parameters) : \E i \in 1..Len(items) :
              items[i].code = "user-defined" /\ items[i].data = Element(u)
<1>1. PICK p : p = XMLParts(m)
  OBVIOUS
<1>2. items = Joined(p)
  BY <1>1 DEF XMLItems, XMLParts, Joined
<1>3. /\ AtMostOne(p[1], "receiver", GetAgentIDSequence(m.receivers))
      /\ AtMostOne(p[2], "sender", GetAgentID(m.sender))
      /\ AtMostOne(p[3], "content", m.content)
      /\ AtMostOne(p[4], "language", m.texts["language"])
      /\ AtMostOne(p[5], "encoding", m.texts["encoding"])
      /\ AtMostOne(p[6], "ontology", m.texts["ontology"])
      /\ AtMostOne(p[7], "protocol", m.protocol)
      /\ AtMostOne(p[8], "reply-with", m.texts["reply-with"])
      /\ AtMostOne(p[9], "in-reply-to", m.texts["in-reply-to"])
      /\ AtMostOne(p[10], "reply-by", DateDigits(m.replyBy))
      /\ AtMostOne(p[11], "reply-to", GetAgentIDSequence(m.replyTo))
      /\ AtMostOne(p[12], "conversation-id", m.texts["conversation-id"])
  BY <1>1 DEF XMLParts, Item, AtMostOne
<1>4. /\ IsList(p[13]) /\ \A item \in Range(p[13]) : item.code = "user-defined"
      /\ \A item \in Range(p[13]) : \E u \in Range(m.parameters) : item.data = Element(u)
      /\ \A u \in Range(m.parameters) : \E item \in Range(p[13]) : item.data = Element(u)
  <2>1. PICK us : us = m.parameters /\ us \in Seq(Range(us))
    BY MessageParts
  <2>2. PICK ps : ps = p[13]
    OBVIOUS
  <2>3. Along(ps, us) /\ \A i \in DOMAIN us : ps[i].code = "user-defined" /\ ps[i].data = Element(us[i])
    <3>1. ps = [i \in DOMAIN us |-> [code |-> "user-defined", data |-> GetUserdefinedParameters(us)[i]]]
      BY <1>1, <2>1, <2>2 DEF XMLParts
    <3> QED BY <3>1 DEF Along, GetUserdefinedParameters, Element
  <2>4. IsList(ps) /\ \A item \in Range(ps) : item.code = "user-defined"
    <3>1. Coded(ps, us, "user-defined") /\ Along(ps, us)
      BY <2>3 DEF Coded
    <3> QED BY <2>1, <3>1, ParametersAre
  <2>5. DOMAIN ps = DOMAIN us
    BY <2>3 DEF Along
  <2> QED BY <2>1, <2>2, <2>3, <2>4, <2>5 DEF Range
<1>5. Lists(p)
  <2>1. \A i \in 1..13 : i \in {1, 2, 3, 4, 5, 6, 7, 8, 9, 10, 11, 12, 13}
    OBVIOUS
  <2>2. \A i \in {1, 2, 3, 4, 5, 6, 7, 8, 9, 10, 11, 12, 13} : IsList(p[i])
    BY <1>3, <1>4, ItemIs
  <2> QED BY <2>1, <2>2 DEF Lists
<1>6. /\ IsList(items)
      /\ \A i \in 1..13 : Range(p[i]) \subseteq Range(items)
      /\ \A item \in Range(items) : \E i \in 1..13 : item \in Range(p[i])
  BY <1>2, <1>5, Thirteen
<1>7. ASSUME NEW item \in Range(items) PROVE XMLItem(item, m)
  <2>1. PICK i \in 1..13 : item \in Range(p[i])
    BY <1>6
  <2>2. CASE i = 1
    <3>1. item.code = "receiver" /\ item.data = GetAgentIDSequence(m.receivers) /\ p[1] # <<>>
      BY <1>3, <2>1, <2>2, ItemIs
    <3>2. m.receivers # <<>>
      BY <1>1, <3>1 DEF XMLParts, Item
    <3> QED BY <3>1, <3>2 DEF XMLItem, TextField
  <2>3. CASE i = 2
    <3>1. item.code = "sender" /\ item.data = GetAgentID(m.sender) /\ p[2] # <<>>
      BY <1>3, <2>1, <2>3, ItemIs
    <3>2. IsValid(m.sender)
      BY <1>1, <3>1 DEF XMLParts, Item
    <3> QED BY <3>1, <3>2 DEF XMLItem, TextField
  <2>4. CASE i = 3
    <3>1. item.code = "content" /\ item.data = m.content /\ p[3] # <<>>
      BY <1>3, <2>1, <2>4, ItemIs
    <3>2. m.content # NoContent
      BY <1>1, <3>1 DEF XMLParts, Item
    <3> QED BY <3>1, <3>2 DEF XMLItem, TextField
  <2>5. CASE i = 4
    <3>1. item.code = "language" /\ item.data = m.texts["language"] /\ p[4] # <<>>
      BY <1>3, <2>1, <2>5, ItemIs
    <3>2. m.texts["language"] # EmptyText
      BY <1>1, <3>1 DEF XMLParts, Item
    <3> QED BY <3>1, <3>2 DEF XMLItem, TextField
  <2>6. CASE i = 5
    <3>1. item.code = "encoding" /\ item.data = m.texts["encoding"] /\ p[5] # <<>>
      BY <1>3, <2>1, <2>6, ItemIs
    <3>2. m.texts["encoding"] # EmptyText
      BY <1>1, <3>1 DEF XMLParts, Item
    <3> QED BY <3>1, <3>2 DEF XMLItem, TextField
  <2>7. CASE i = 6
    <3>1. item.code = "ontology" /\ item.data = m.texts["ontology"] /\ p[6] # <<>>
      BY <1>3, <2>1, <2>7, ItemIs
    <3>2. m.texts["ontology"] # EmptyText
      BY <1>1, <3>1 DEF XMLParts, Item
    <3> QED BY <3>1, <3>2 DEF XMLItem, TextField
  <2>8. CASE i = 7
    <3>1. item.code = "protocol" /\ item.data = m.protocol /\ p[7] # <<>>
      BY <1>3, <2>1, <2>8, ItemIs
    <3>2. m.protocol # EmptyText
      BY <1>1, <3>1 DEF XMLParts, Item
    <3> QED BY <3>1, <3>2 DEF XMLItem, TextField
  <2>9. CASE i = 8
    <3>1. item.code = "reply-with" /\ item.data = m.texts["reply-with"] /\ p[8] # <<>>
      BY <1>3, <2>1, <2>9, ItemIs
    <3>2. m.texts["reply-with"] # EmptyText
      BY <1>1, <3>1 DEF XMLParts, Item
    <3> QED BY <3>1, <3>2 DEF XMLItem, TextField
  <2>10. CASE i = 9
    <3>1. item.code = "in-reply-to" /\ item.data = m.texts["in-reply-to"] /\ p[9] # <<>>
      BY <1>3, <2>1, <2>10, ItemIs
    <3>2. m.texts["in-reply-to"] # EmptyText
      BY <1>1, <3>1 DEF XMLParts, Item
    <3> QED BY <3>1, <3>2 DEF XMLItem, TextField
  <2>11. CASE i = 10
    <3>1. item.code = "reply-by" /\ item.data = DateDigits(m.replyBy) /\ p[10] # <<>>
      BY <1>3, <2>1, <2>11, ItemIs
    <3>2. m.replyBy # NoTime
      BY <1>1, <3>1 DEF XMLParts, Item
    <3> QED BY <3>1, <3>2 DEF XMLItem, TextField
  <2>12. CASE i = 11
    <3>1. item.code = "reply-to" /\ item.data = GetAgentIDSequence(m.replyTo) /\ p[11] # <<>>
      BY <1>3, <2>1, <2>12, ItemIs
    <3>2. m.replyTo # <<>>
      BY <1>1, <3>1 DEF XMLParts, Item
    <3> QED BY <3>1, <3>2 DEF XMLItem, TextField
  <2>13. CASE i = 12
    <3>1. item.code = "conversation-id" /\ item.data = m.texts["conversation-id"] /\ p[12] # <<>>
      BY <1>3, <2>1, <2>13, ItemIs
    <3>2. m.texts["conversation-id"] # EmptyText
      BY <1>1, <3>1 DEF XMLParts, Item
    <3> QED BY <3>1, <3>2 DEF XMLItem, TextField
  <2>14. CASE i = 13
    BY <1>4, <2>1, <2>14 DEF XMLItem, TextField
  <2> QED BY <2>2, <2>3, <2>4, <2>5, <2>6, <2>7, <2>8, <2>9, <2>10, <2>11, <2>12, <2>13, <2>14
<1>8. \A i \in 1..Len(items) : XMLItem(items[i], m)
  <2>1. \A i \in 1..Len(items) : items[i] \in Range(items)
    BY <1>6 DEF IsList, Range
  <2> QED BY <1>7, <2>1
<1>9. \A u \in Range(m.parameters) : \E i \in 1..Len(items) :
        items[i].code = "user-defined" /\ items[i].data = Element(u)
  <2>1. \A u \in Range(m.parameters) : \E x \in Range(items) : x.code = "user-defined" /\ x.data = Element(u)
    BY <1>4, <1>6
  <2>2. \A x \in Range(items) : \E i \in 1..Len(items) : items[i] = x
    BY <1>6 DEF IsList, Range
  <2> QED BY <2>1, <2>2
<1>10. m.receivers # <<>> => Seen(items, Len(items), "receiver")
  <2> SUFFICES ASSUME m.receivers # <<>> PROVE Seen(items, Len(items), "receiver")
    OBVIOUS
  <2>1. p[1] # <<>>
    BY <1>1 DEF XMLParts, Item
  <2>2. Range(p[1]) \subseteq Range(items)
    BY <1>6
  <2> QED BY <1>3, <1>6, <2>1, <2>2, PartSeen
<1>11. IsValid(m.sender) => Seen(items, Len(items), "sender")
  <2> SUFFICES ASSUME IsValid(m.sender) PROVE Seen(items, Len(items), "sender")
    OBVIOUS
  <2>1. p[2] # <<>>
    BY <1>1 DEF XMLParts, Item
  <2>2. Range(p[2]) \subseteq Range(items)
    BY <1>6
  <2> QED BY <1>3, <1>6, <2>1, <2>2, PartSeen
<1>12. m.content # NoContent => Seen(items, Len(items), "content")
  <2> SUFFICES ASSUME m.content # NoContent PROVE Seen(items, Len(items), "content")
    OBVIOUS
  <2>1. p[3] # <<>>
    BY <1>1 DEF XMLParts, Item
  <2>2. Range(p[3]) \subseteq Range(items)
    BY <1>6
  <2> QED BY <1>3, <1>6, <2>1, <2>2, PartSeen
<1>13. m.texts["language"] # EmptyText => Seen(items, Len(items), "language")
  <2> SUFFICES ASSUME m.texts["language"] # EmptyText PROVE Seen(items, Len(items), "language")
    OBVIOUS
  <2>1. p[4] # <<>>
    BY <1>1 DEF XMLParts, Item
  <2>2. Range(p[4]) \subseteq Range(items)
    BY <1>6
  <2> QED BY <1>3, <1>6, <2>1, <2>2, PartSeen
<1>14. m.texts["encoding"] # EmptyText => Seen(items, Len(items), "encoding")
  <2> SUFFICES ASSUME m.texts["encoding"] # EmptyText PROVE Seen(items, Len(items), "encoding")
    OBVIOUS
  <2>1. p[5] # <<>>
    BY <1>1 DEF XMLParts, Item
  <2>2. Range(p[5]) \subseteq Range(items)
    BY <1>6
  <2> QED BY <1>3, <1>6, <2>1, <2>2, PartSeen
<1>15. m.texts["ontology"] # EmptyText => Seen(items, Len(items), "ontology")
  <2> SUFFICES ASSUME m.texts["ontology"] # EmptyText PROVE Seen(items, Len(items), "ontology")
    OBVIOUS
  <2>1. p[6] # <<>>
    BY <1>1 DEF XMLParts, Item
  <2>2. Range(p[6]) \subseteq Range(items)
    BY <1>6
  <2> QED BY <1>3, <1>6, <2>1, <2>2, PartSeen
<1>16. m.protocol # EmptyText => Seen(items, Len(items), "protocol")
  <2> SUFFICES ASSUME m.protocol # EmptyText PROVE Seen(items, Len(items), "protocol")
    OBVIOUS
  <2>1. p[7] # <<>>
    BY <1>1 DEF XMLParts, Item
  <2>2. Range(p[7]) \subseteq Range(items)
    BY <1>6
  <2> QED BY <1>3, <1>6, <2>1, <2>2, PartSeen
<1>17. m.texts["reply-with"] # EmptyText => Seen(items, Len(items), "reply-with")
  <2> SUFFICES ASSUME m.texts["reply-with"] # EmptyText PROVE Seen(items, Len(items), "reply-with")
    OBVIOUS
  <2>1. p[8] # <<>>
    BY <1>1 DEF XMLParts, Item
  <2>2. Range(p[8]) \subseteq Range(items)
    BY <1>6
  <2> QED BY <1>3, <1>6, <2>1, <2>2, PartSeen
<1>18. m.texts["in-reply-to"] # EmptyText => Seen(items, Len(items), "in-reply-to")
  <2> SUFFICES ASSUME m.texts["in-reply-to"] # EmptyText PROVE Seen(items, Len(items), "in-reply-to")
    OBVIOUS
  <2>1. p[9] # <<>>
    BY <1>1 DEF XMLParts, Item
  <2>2. Range(p[9]) \subseteq Range(items)
    BY <1>6
  <2> QED BY <1>3, <1>6, <2>1, <2>2, PartSeen
<1>19. m.replyBy # NoTime => Seen(items, Len(items), "reply-by")
  <2> SUFFICES ASSUME m.replyBy # NoTime PROVE Seen(items, Len(items), "reply-by")
    OBVIOUS
  <2>1. p[10] # <<>>
    BY <1>1 DEF XMLParts, Item
  <2>2. Range(p[10]) \subseteq Range(items)
    BY <1>6
  <2> QED BY <1>3, <1>6, <2>1, <2>2, PartSeen
<1>20. m.replyTo # <<>> => Seen(items, Len(items), "reply-to")
  <2> SUFFICES ASSUME m.replyTo # <<>> PROVE Seen(items, Len(items), "reply-to")
    OBVIOUS
  <2>1. p[11] # <<>>
    BY <1>1 DEF XMLParts, Item
  <2>2. Range(p[11]) \subseteq Range(items)
    BY <1>6
  <2> QED BY <1>3, <1>6, <2>1, <2>2, PartSeen
<1>21. m.texts["conversation-id"] # EmptyText => Seen(items, Len(items), "conversation-id")
  <2> SUFFICES ASSUME m.texts["conversation-id"] # EmptyText PROVE Seen(items, Len(items), "conversation-id")
    OBVIOUS
  <2>1. p[12] # <<>>
    BY <1>1 DEF XMLParts, Item
  <2>2. Range(p[12]) \subseteq Range(items)
    BY <1>6
  <2> QED BY <1>3, <1>6, <2>1, <2>2, PartSeen
<1> QED BY <1>6, <1>8, <1>9, <1>10, <1>11, <1>12, <1>13, <1>14, <1>15, <1>16, <1>17, <1>18, <1>19, <1>20, <1>21

XMLNames(ag) == {AsAttribute[name] : name \in NamesOf(ag)}

XMLWanted(m) ==
  [ performative |-> AsAttribute[m.performative],
    receivers    |-> XMLNames(m.receivers),
    replyTo      |-> XMLNames(m.replyTo),
    content      |-> CData(m.content) ]

LEMMA XMLAgent ==
  ASSUME NEW a, AgentOK(a), XMLAgentReadable(GetAgentID(a))
  PROVE  /\ AgentOK(ParseAgentID(GetAgentID(a)))
         /\ ParseAgentID(GetAgentID(a)).name = AsAttribute[a.name]
<1>1. PICK e : e = GetAgentID(a)
  OBVIOUS
<1>2. AgentOK(e) /\ e.name = a.name
  BY <1>1, AgentProper, ElementKeeps, ElementOK DEF Proper
<1>3. AgentOK(ParseAgentID(e))
  BY <1>1, <1>2, ParsedOK
<1> QED BY <1>1, <1>2, <1>3, ParsedIs

LEMMA XMLAgents ==
  ASSUME NEW ag, AgentList(ag), NEW es, es = GetAgentIDSequence(ag),
         \A e \in Range(es) : XMLAgentReadable(e),
         NEW bs, bs = ParseAgentIDSequence(es)
  PROVE  AgentList(bs) /\ NamesOf(bs) = XMLNames(ag)
<1>1. DOMAIN es = DOMAIN ag /\ \A i \in DOMAIN ag : es[i] = GetAgentID(ag[i])
  BY DEF GetAgentIDSequence
<1>2. /\ bs = [i \in DOMAIN ag |-> bs[i]]
      /\ \A i \in DOMAIN ag : bs[i] = ParseAgentID(es[i])
  BY <1>1 DEF ParseAgentIDSequence
<1>3. \A i \in DOMAIN ag : AgentOK(ag[i]) /\ XMLAgentReadable(es[i])
  BY <1>1 DEF AgentList, Range
<1>4. \A i \in DOMAIN ag : AgentOK(bs[i]) /\ bs[i].name = AsAttribute[ag[i].name]
  BY <1>1, <1>2, <1>3, XMLAgent
<1>5. AgentList(bs) /\ NamesOf(bs) = {bs[i].name : i \in DOMAIN ag}
  <2>1. ag \in Seq(Range(ag))
    BY DEF AgentList
  <2> QED BY <1>2, <1>4, <2>1, MappedList
<1>6. XMLNames(ag) = {AsAttribute[ag[i].name] : i \in DOMAIN ag}
  BY DEF XMLNames, NamesOf, Range
<1>7. {bs[i].name : i \in DOMAIN ag} = {AsAttribute[ag[i].name] : i \in DOMAIN ag}
  BY <1>4
<1> QED BY <1>5, <1>6, <1>7

LEMMA XMLStep ==
  ASSUME NEW m, MessageOK(m), NEW items, NEW k \in Nat, k # 0, XMLItem(items[k], m),
         NEW n, n \notin {Unreadable, Escaped}, Told(n, items, k - 1, NamedCodes, XMLWanted(m))
  PROVE  \/ ParseParameter(n, items[k]) \in {Unreadable, Escaped}
         \/ Told(ParseParameter(n, items[k]), items, k, NamedCodes, XMLWanted(m))
<1>1. PICK item : item = items[k]
  OBVIOUS
<1>2. PICK r : r = ParseParameter(n, item)
  OBVIOUS
<1> SUFFICES ASSUME r \notin {Unreadable, Escaped}
             PROVE  Told(r, items, k, NamedCodes, XMLWanted(m))
  BY <1>1, <1>2
<1>3. /\ NamedCodes.receivers = "receiver" /\ NamedCodes.replyTo = "reply-to"
      /\ NamedCodes.content = "content" /\ Distinct(NamedCodes) /\ MessageOK(n)
      /\ XMLWanted(m).receivers = XMLNames(m.receivers)
      /\ XMLWanted(m).replyTo = XMLNames(m.replyTo)
      /\ XMLWanted(m).content = CData(m.content) /\ CData(m.content) \in Content
  <2>1. m.content \in Content
    BY MessageParts
  <2>2. CData(m.content) \in Content
    <3>1. CASE m.content.nul = 0
      BY <2>1, <3>1 DEF CData
    <3>2. CASE m.content.nul # 0
      <4>1. m.content.nul \in Nat
        BY <2>1, <3>2, ACLMessageAssumption DEF Content
      <4> QED BY <3>2, <4>1 DEF CData, Content
    <3> QED BY <3>1, <3>2
  <2> QED BY <2>2 DEF NamedCodes, Distinct, Told, XMLWanted
<1>4. MessageOK(r) /\ Same(r, n) /\ item.code \notin {"receiver", "reply-to", "content"} =>
        Told(r, items, k, NamedCodes, XMLWanted(m))
  BY <1>1, <1>3, ToldSame
<1>5. AgentOK(m.sender) /\ AgentList(m.receivers) /\ AgentList(m.replyTo)
  BY MessageParts
<1>6. CASE item.code \in TextField
  <2>1. r = [n EXCEPT !.texts[item.code] = AsElement[item.data]]
    BY <1>2, <1>6 DEF ParseParameter, TextField
  <2>2. MessageOK(r) /\ Same(r, n)
    BY <1>3, <1>6, <2>1, TextSet
  <2>3. item.code \notin {"receiver", "reply-to", "content"}
    BY <1>6 DEF TextField
  <2> QED BY <1>4, <2>2, <2>3
<1>7. CASE item.code = "sender"
  <2>1. r = [n EXCEPT !.sender = ParseAgentID(item.data)] /\ XMLAgentReadable(item.data)
    BY <1>2, <1>7 DEF ParseParameter
  <2>2. AgentOK(ParseAgentID(item.data))
    BY <1>1, <1>5, <1>7, <2>1, XMLAgent DEF XMLItem
  <2>3. MessageOK(r) /\ Same(r, n)
    BY <1>3, <2>1, <2>2, SenderSet
  <2> QED BY <1>4, <1>7, <2>3
<1>8. CASE item.code = "receiver"
  <2>1. PICK es : es = GetAgentIDSequence(m.receivers)
    OBVIOUS
  <2>2. PICK bs : bs = ParseAgentIDSequence(es)
    OBVIOUS
  <2>3. item.data = es
    BY <1>1, <1>8, <2>1 DEF XMLItem
  <2>4. PICK v : v = FoldLeft(PrependAgent, n.receivers, bs)
    OBVIOUS
  <2>5. r = [n EXCEPT !.receivers = v] /\ \A e \in Range(es) : XMLAgentReadable(e)
    BY <1>2, <1>8, <2>2, <2>3, <2>4 DEF ParseParameter, AddReceivers
  <2>6. AgentList(bs) /\ NamesOf(bs) = XMLNames(m.receivers)
    BY <1>5, <2>1, <2>2, <2>5, XMLAgents
  <2>7. AgentList(n.receivers)
    BY <1>3, MessageParts
  <2>8. AgentList(v) /\ NamesOf(v) = NamesOf(n.receivers) \cup XMLNames(m.receivers)
    BY <2>4, <2>6, <2>7, AddedList
  <2> QED BY <1>1, <1>2, <1>3, <1>8, <2>5, <2>8, ToldReceivers
<1>9. CASE item.code = "reply-to"
  <2>1. PICK es : es = GetAgentIDSequence(m.replyTo)
    OBVIOUS
  <2>2. PICK v : v = ParseAgentIDSequence(es)
    OBVIOUS
  <2>3. item.data = es
    BY <1>1, <1>9, <2>1 DEF XMLItem
  <2>4. r = [n EXCEPT !.replyTo = v] /\ \A e \in Range(es) : XMLAgentReadable(e)
    BY <1>2, <1>9, <2>2, <2>3 DEF ParseParameter
  <2>5. AgentList(v) /\ NamesOf(v) = XMLNames(m.replyTo)
    BY <1>5, <2>1, <2>2, <2>4, XMLAgents
  <2> QED BY <1>1, <1>2, <1>3, <1>9, <2>4, <2>5, ToldReplyTo
<1>10. CASE item.code = "content"
  <2>1. r = [n EXCEPT !.content = CData(m.content)]
    BY <1>1, <1>2, <1>10 DEF ParseParameter, XMLItem
  <2> QED BY <1>1, <1>2, <1>3, <1>10, <2>1, ToldContent
<1>11. CASE item.code = "reply-by"
  <2>1. r = [n EXCEPT !.replyBy = StrToDate(item.data)]
    BY <1>2, <1>11 DEF ParseParameter
  <2>2. StrToDate(item.data) \in Time
    <3>1. m.replyBy \in Time /\ m.replyBy # NoTime /\ item.data = DateDigits(m.replyBy)
      BY <1>1, <1>11, MessageParts DEF XMLItem
    <3> QED BY <3>1, DateRead DEF StrToDate
  <2>3. MessageOK(r) /\ Same(r, n)
    BY <1>3, <2>1, <2>2, ReplyBySet
  <2> QED BY <1>4, <1>11, <2>3
<1>12. CASE item.code = "protocol"
  <2>1. r = SetProtocol(n, AsElement[item.data])
    BY <1>2, <1>12 DEF ParseParameter
  <2>2. MessageOK(r) /\ Same(r, n)
    BY <1>3, <2>1, ProtocolSet
  <2> QED BY <1>4, <1>12, <2>2
<1>13. CASE item.code = "user-defined"
  <2>1. r = AddUserdefParam(n, ParseUserdefinedParameter(item.data))
    BY <1>2, <1>13 DEF ParseParameter
  <2>2. IsParam(ParseUserdefinedParameter(item.data))
    BY DEF IsParam, ParseUserdefinedParameter
  <2>3. MessageOK(r) /\ Same(r, n)
    BY <1>3, <2>1, <2>2, ParameterAdded
  <2> QED BY <1>4, <1>13, <2>3
<1> QED BY <1>1, <1>6, <1>7, <1>8, <1>9, <1>10, <1>11, <1>12, <1>13 DEF XMLItem

LEMMA XMLTold ==
  ASSUME NEW m, MessageOK(m), XMLTransferred(m) \notin NoMessage
  PROVE  ToldAll(XMLTransferred(m), XMLWanted(m))
<1>1. PICK items : items = XMLItems(m)
  OBVIOUS
<1>2. PICK n : n = Len(items)
  OBVIOUS
<1>3. /\ IsList(items) /\ n \in Nat
      /\ \A i \in 1..n : XMLItem(items[i], m)
      /\ m.receivers # <<>> => Seen(items, n, "receiver")
      /\ m.replyTo # <<>> => Seen(items, n, "reply-to")
      /\ m.content # NoContent => Seen(items, n, "content")
  BY <1>1, <1>2, XMLItemsAre DEF IsList
<1>4. PICK first : first = SetPerformative(NewMessage, AsAttribute[m.performative])
  OBVIOUS
<1>5. /\ XMLTransferred(m) = FoldLeft(ParseParameter, first, items)
      /\ AsAttribute[m.performative] \in Checked
  BY <1>1, <1>4 DEF XMLTransferred, NoMessage
<1>6. PICK c : Chain("xml", first, items, n, c) /\ FoldLeft(ParseParameter, first, items) = c[n]
  BY <1>2, <1>3, FoldXML
<1> DEFINE T == {k \in 0..n : \/ c[k] \in {Unreadable, Escaped}
                              \/ Told(c[k], items, k, NamedCodes, XMLWanted(m))}
<1>7. 0 \in T
  <2>1. c[0] = first
    BY <1>3, <1>6, ChainStart
  <2>2. XMLWanted(m).performative = AsAttribute[m.performative]
    BY DEF XMLWanted
  <2>3. Told(first, items, 0, NamedCodes, XMLWanted(m))
    BY <1>4, <1>5, <2>2, ToldFirst
  <2> QED BY <1>3, <2>1, <2>3
<1>8. ASSUME NEW k \in 1..n, k - 1 \in T PROVE k \in T
  <2>1. PICK x : x = c[k - 1]
    OBVIOUS
  <2>2. c[k] = ParseParameter(x, items[k])
    <3>1. c[k] = Step("xml", items, c[k - 1], k)
      BY <1>3, <1>6, ChainAt
    <3> QED BY <2>1, <3>1 DEF Step
  <2>3. k \in Nat /\ k # 0 /\ k \in 0..n
    BY <1>3
  <2>4. CASE x \in {Unreadable, Escaped}
    <3>1. c[k] = x
      BY <2>2, <2>4 DEF ParseParameter
    <3> QED BY <2>3, <2>4, <3>1
  <2>5. CASE x \notin {Unreadable, Escaped}
    <3>1. Told(x, items, k - 1, NamedCodes, XMLWanted(m))
      BY <1>8, <2>1, <2>5
    <3>2. XMLItem(items[k], m)
      BY <1>3
    <3>3. \/ c[k] \in {Unreadable, Escaped}
          \/ Told(c[k], items, k, NamedCodes, XMLWanted(m))
      <4> HIDE DEF T
      <4> QED BY <2>2, <2>3, <2>5, <3>1, <3>2, XMLStep
    <3> QED BY <2>3, <3>3
  <2> QED BY <2>4, <2>5
<1>9. n \in T
  <2> HIDE DEF T
  <2> QED BY <1>3, <1>7, <1>8, InductionTo
<1>10. PICK r : r = XMLTransferred(m)
  OBVIOUS
<1>11. Told(r, items, n, NamedCodes, XMLWanted(m))
  BY <1>5, <1>6, <1>9, <1>10 DEF NoMessage
<1>12. /\ Seen(items, n, NamedCodes.receivers) \/ XMLWanted(m).receivers = {}
       /\ Seen(items, n, NamedCodes.replyTo) \/ XMLWanted(m).replyTo = {}
       /\ Seen(items, n, NamedCodes.content) \/ XMLWanted(m).content = NoContent
  <2>1. XMLNames(<<>>) = {}
    <3>1. NamesOf(<<>>) = {}
      BY DEF NamesOf, Range
    <3> QED BY <3>1 DEF XMLNames
  <2>2. CData(NoContent) = NoContent
    BY ACLMessageAssumption DEF CData
  <2> QED BY <1>3, <2>1, <2>2 DEF NamedCodes, XMLWanted
<1> QED BY <1>10, <1>11, <1>12 DEF Told, ToldAll

-----------------------------------------------------------------------------
(* Theorems.                                                               *)

\* A message that is read in one of the three representations.
LEMMA TransferTold ==
  ASSUME NEW m, MessageOK(m), NEW representation \in Representation,
         TransferredAs(m, representation) \notin NoMessage
  PROVE  /\ representation = "BITEFFICIENT" =>
              ToldAll(TransferredAs(m, representation), Wanted(m))
         /\ representation = "STRING_REP" =>
              ToldAll(TransferredAs(m, representation), TextWanted(m))
         /\ representation = "XML" =>
              ToldAll(TransferredAs(m, representation), XMLWanted(m))
<1>1. CASE representation = "BITEFFICIENT"
  <2>1. TransferredAs(m, representation) = Transferred(m)
    BY <1>1 DEF TransferredAs
  <2> QED BY <1>1, <2>1, BitTold
<1>2. CASE representation = "STRING_REP"
  <2>1. TransferredAs(m, representation) = StringTransferred(m)
    BY <1>2 DEF TransferredAs
  <2> QED BY <1>2, <2>1, TextTold
<1>3. CASE representation = "XML"
  <2>1. TransferredAs(m, representation) = XMLTransferred(m)
    BY <1>3 DEF TransferredAs
  <2> QED BY <1>3, <2>1, XMLTold
<1> QED BY <1>1, <1>2, <1>3 DEF Representation

\* The identifiers and lists that the setters are given.
LEMMA GivenOK ==
  /\ \A a \in Agents : AgentOK(a)
  /\ \A list \in AgentLists : AgentList(list)
BY GivenAssumption DEF AgentList

\* Setters keep messages well formed.
LEMMA AgentPut ==
  ASSUME NEW s, AgentList(s), NEW a, AgentOK(a)
  PROVE  AgentList(PrependAgent(s, a)) /\ AgentList(DeleteAgent(s, a))
<1>1. AgentList(PrependAgent(s, a))
  <2> DEFINE S == Range(s) \cup {a}
  <2>1. s \in Seq(S)
    <3>1. \A U, V, q : q \in Seq(U) /\ U \subseteq V => q \in Seq(V)
      OBVIOUS
    <3> QED BY <3>1 DEF AgentList
  <2>2. \A x \in S : AgentOK(x)
    BY DEF AgentList
  <2>3. PrependAgent(s, a) \in Seq(S)
    <3> a \in S
      OBVIOUS
    <3> HIDE DEF S
    <3> QED BY <2>1, PrependNames
  <2> HIDE DEF S
  <2> QED BY <2>2, <2>3, ListOf DEF AgentList
<1>2. AgentList(DeleteAgent(s, a))
  <2>1. s \in Seq(Range(s)) /\ \A x \in Range(s) : AgentOK(x)
    BY DEF AgentList
  <2>2. DeleteAgent(s, a) \in Seq(Range(s))
    <3>1. CASE Holds(s, a)
      <4>1. PICK i : i = CHOOSE q \in DOMAIN s :
                        /\ AgentEqual(s[q], a)
                        /\ \A j \in 1..(q - 1) : ~ AgentEqual(s[j], a)
        OBVIOUS
      <4>2. DeleteAgent(s, a) = RemoveAt(s, i)
        BY <3>1, <4>1 DEF DeleteAgent
      <4>3. i \in DOMAIN s
        <5> DEFINE P == {j \in Nat : j \in DOMAIN s /\ AgentEqual(s[j], a)}
        <5>1. DOMAIN s = 1..Len(s) /\ Len(s) \in Nat
          BY <2>1
        <5>2. P # {}
          BY <3>1, <5>1 DEF Holds
        <5>3. PICK j \in P : \A l \in P : j <= l
          <6> P \subseteq Nat
            OBVIOUS
          <6> HIDE DEF P
          <6> QED BY <5>2, Smallest
        <5>4. /\ j \in DOMAIN s /\ AgentEqual(s[j], a)
              /\ \A l \in 1..(j - 1) : ~ AgentEqual(s[l], a)
          BY <5>1, <5>3
        <5> HIDE DEF P
        <5> QED BY <4>1, <5>4
      <4>4. RemoveAt(s, i) \in Seq(Range(s))
        BY <2>1, <4>3 DEF RemoveAt
      <4> QED BY <4>2, <4>4
    <3>2. CASE ~ Holds(s, a)
      BY <2>1, <3>2 DEF DeleteAgent
    <3> QED BY <3>1, <3>2
  <2> QED BY <2>1, <2>2, ListOf DEF AgentList
<1> QED BY <1>1, <1>2

\* Every setter call leaves a message whose checked fields hold checked
\* texts.
LEMMA EditedOK ==
  ASSUME MessageOK(msg), NEW m,
         \/ EditPerformative /\ msg' = m
         \/ EditProtocol /\ msg' = m
         \/ EditText /\ msg' = m
         \/ EditSender /\ msg' = m
         \/ EditReplyBy /\ msg' = m
         \/ EditContent /\ msg' = m
         \/ EditReceivers /\ msg' = m
         \/ EditReplyTo /\ msg' = m
         \/ EditParameters /\ msg' = m
  PROVE  MessageOK(m)
<1>1. AgentList(msg.receivers) /\ AgentList(msg.replyTo)
  BY MessageParts
<1>2. \A a \in Agents : AgentOK(a)
  BY GivenOK
<1>3. CASE EditPerformative /\ msg' = m
  <2>1. PICK p \in Words : m = SetPerformative(msg, p)
    BY <1>3 DEF EditPerformative, Edited
  <2> QED BY <2>1, PerformativeSet
<1>4. CASE EditProtocol /\ msg' = m
  <2>1. PICK p \in Words : m = SetProtocol(msg, p)
    BY <1>4 DEF EditProtocol, Edited
  <2> QED BY <2>1, ProtocolSet
<1>5. CASE EditText /\ msg' = m
  <2>1. PICK f \in TextField, t \in Texts : m = [msg EXCEPT !.texts[f] = t]
    BY <1>5 DEF EditText, Edited
  <2> QED BY <2>1, TextSet
<1>6. CASE EditSender /\ msg' = m
  <2>1. PICK a \in Agents : m = [msg EXCEPT !.sender = a]
    BY <1>6 DEF EditSender, Edited
  <2> QED BY <1>2, <2>1, SenderSet
<1>7. CASE EditReplyBy /\ msg' = m
  <2>1. PICK t \in Times : m = [msg EXCEPT !.replyBy = t]
    BY <1>7 DEF EditReplyBy, Edited
  <2> QED BY <2>1, GivenAssumption, ReplyBySet
<1>8. CASE EditContent /\ msg' = m
  <2>1. PICK c \in Contents : m = [msg EXCEPT !.content = c]
    BY <1>8 DEF EditContent, Edited
  <2> QED BY <2>1, GivenAssumption, ContentSet
<1>9. CASE EditReceivers /\ msg' = m
  <2>1. PICK v : AgentList(v) /\ m = [msg EXCEPT !.receivers = v]
    <3>1. CASE \E a \in Agents : Edited(AddReceiver(msg, a))
      <4>1. PICK a \in Agents : Edited(AddReceiver(msg, a))
        BY <3>1
      <4>2. m = [msg EXCEPT !.receivers = PrependAgent(msg.receivers, a)]
        BY <1>9, <4>1 DEF Edited, AddReceiver
      <4>3. AgentList(PrependAgent(msg.receivers, a))
        BY <1>1, <1>2, AgentPut
      <4> QED BY <4>2, <4>3
    <3>2. CASE \E a \in Agents : msg.receivers # <<>> /\ Edited(DeleteReceiver(msg, a))
      <4>1. PICK a \in Agents : Edited(DeleteReceiver(msg, a))
        BY <3>2
      <4>2. m = [msg EXCEPT !.receivers = DeleteAgent(msg.receivers, a)]
        BY <1>9, <4>1 DEF Edited, DeleteReceiver
      <4>3. AgentList(DeleteAgent(msg.receivers, a))
        BY <1>1, <1>2, AgentPut
      <4> QED BY <4>2, <4>3
    <3>3. CASE \E list \in AgentLists : Edited([msg EXCEPT !.receivers = list])
      BY <1>9, <3>3, GivenOK DEF Edited
    <3> QED BY <1>9, <3>1, <3>2, <3>3 DEF EditReceivers
  <2> QED BY <2>1, ReceiversSet
<1>10. CASE EditReplyTo /\ msg' = m
  <2>1. PICK v : AgentList(v) /\ m = [msg EXCEPT !.replyTo = v]
    <3>1. CASE \E a \in Agents : Edited(AddReplyTo(msg, a))
      <4>1. PICK a \in Agents : Edited(AddReplyTo(msg, a))
        BY <3>1
      <4>2. m = [msg EXCEPT !.replyTo = PrependAgent(msg.replyTo, a)]
        BY <1>10, <4>1 DEF Edited, AddReplyTo
      <4>3. AgentList(PrependAgent(msg.replyTo, a))
        BY <1>1, <1>2, AgentPut
      <4> QED BY <4>2, <4>3
    <3>2. CASE \E a \in Agents : msg.replyTo # <<>> /\ Edited(DeleteReplyTo(msg, a))
      <4>1. PICK a \in Agents : Edited(DeleteReplyTo(msg, a))
        BY <3>2
      <4>2. m = [msg EXCEPT !.replyTo = DeleteAgent(msg.replyTo, a)]
        BY <1>10, <4>1 DEF Edited, DeleteReplyTo
      <4>3. AgentList(DeleteAgent(msg.replyTo, a))
        BY <1>1, <1>2, AgentPut
      <4> QED BY <4>2, <4>3
    <3>3. CASE \E list \in AgentLists : Edited([msg EXCEPT !.replyTo = list])
      BY <1>10, <3>3, GivenOK DEF Edited
    <3> QED BY <1>10, <3>1, <3>2, <3>3 DEF EditReplyTo
  <2> QED BY <2>1, ReplyToSet
<1>11. CASE EditParameters /\ msg' = m
  <2>1. CASE \E p \in Params : Edited(AddUserdefParam(msg, p))
    <3>1. PICK p \in Params : m = AddUserdefParam(msg, p)
      BY <1>11, <2>1 DEF Edited
    <3> QED BY <3>1, GivenAssumption, ParameterAdded
  <2>2. CASE \E ps \in ParamLists : Edited([msg EXCEPT !.parameters = ps])
    <3>1. PICK ps \in ParamLists : m = [msg EXCEPT !.parameters = ps]
      BY <1>11, <2>2 DEF Edited
    <3>2. ps \in Seq(Range(ps)) /\ \A p \in Range(ps) : IsParam(p)
      BY GivenAssumption
    <3> QED BY <3>1, <3>2, ParametersSet
  <2> QED BY <1>11, <2>1, <2>2 DEF EditParameters
<1> QED BY <1>3, <1>4, <1>5, <1>6, <1>7, <1>8, <1>9, <1>10, <1>11

Edit ==
  \/ EditPerformative \/ EditProtocol \/ EditText \/ EditSender \/ EditReplyBy
  \/ EditContent \/ EditReceivers \/ EditReplyTo \/ EditParameters

LEMMA EditIs ==
  ASSUME Edit
  PROVE  /\ received = NotSent /\ edits < MaxEdits
         /\ edits' = edits + 1 /\ origin' = NotSent /\ route' = <<>> /\ received' = received
<1>1. PICK m : Edited(m)
  BY DEF Edit, EditPerformative, EditProtocol, EditText, EditSender, EditReplyBy,
         EditContent, EditReceivers, EditReplyTo, EditParameters
<1> QED BY <1>1 DEF Edited

\* What a reader got is what the message it was sent reads as: the agent
\* that holds the message does not edit it before it is passed on.
ReadAsSent ==
  received # NotSent => route # <<>> /\ received = TransferredAs(msg, Last(route))

IInv == TypeOK /\ ReadAsSent

LEMMA Initially == Init => IInv
<1> SUFFICES ASSUME Init PROVE IInv
  OBVIOUS
<1>1. MessageOK(msg)
  BY NewOK DEF Init
<1>2. route \in Seq(Representation) /\ Len(route) = 0
  BY DEF Init
<1> QED BY <1>1, <1>2, ExchangeAssumption DEF Init, IInv, TypeOK, ReadAsSent, NoMessage

LEMMA Delivered ==
  ASSUME IInv, NEW r \in Representation, Deliver(r)
  PROVE  IInv'
<1>1. MessageOK(msg) /\ msg' = msg /\ edits' = edits
  BY DEF IInv, TypeOK, Deliver
<1>2. received' = TransferredAs(msg, r) /\ route' = Append(route, r)
  BY DEF Deliver
<1>3. received' \in NoMessage \/ MessageOK(received')
  BY <1>1, <1>2, TransferTold DEF ToldAll, Representation
<1>4. origin' = NotSent \/ MessageOK(origin')
  BY <1>1 DEF IInv, TypeOK, Deliver
<1>5. route \in Seq(Representation) /\ Len(route) < MaxHops /\ MaxHops \in Nat
  BY ExchangeAssumption DEF IInv, TypeOK, Deliver
<1>6. route' \in Seq(Representation) /\ Len(route') = Len(route) + 1 /\ route'[Len(route')] = r
  BY <1>2, <1>5
<1>7. Len(route') <= MaxHops /\ route' # <<>> /\ Last(route') = r
  BY <1>5, <1>6 DEF Last
<1>8. MessageOK(msg') /\ edits' \in 0..MaxEdits
  BY <1>1 DEF IInv, TypeOK
<1>9. NoMessage' = NoMessage
  BY DEF NoMessage
<1> QED BY <1>1, <1>2, <1>3, <1>4, <1>6, <1>7, <1>8, <1>9 DEF IInv, TypeOK, ReadAsSent

LEMMA Inductive == IInv /\ [Next]_vars => IInv'
<1> SUFFICES ASSUME IInv, [Next]_vars PROVE IInv'
  OBVIOUS
<1>1. CASE Edit
  <2>1. MessageOK(msg')
    <3>1. PICK m : m = msg'
      OBVIOUS
    <3>2. MessageOK(msg)
      BY DEF IInv, TypeOK
    <3> QED BY <1>1, <3>1, <3>2, EditedOK DEF Edit
  <2>2. <<>> \in Seq(Representation) /\ Len(<<>>) = 0
    OBVIOUS
  <2> QED BY <1>1, <2>1, <2>2, EditIs, ExchangeAssumption
          DEF IInv, TypeOK, ReadAsSent, NoMessage
<1>2. CASE \E r \in Representation : Deliver(r)
  BY <1>2, Delivered
<1>3. CASE PassOn
  BY <1>3 DEF PassOn, IInv, TypeOK, ReadAsSent, NoMessage
<1>4. CASE UNCHANGED vars
  BY <1>4 DEF vars, IInv, TypeOK, ReadAsSent, NoMessage
<1> QED BY <1>1, <1>2, <1>3, <1>4 DEF Next, Edit

\* Whatever setters are called and however often a message is passed on,
\* the message an agent holds and the one its reader got have every field,
\* and those that the setters check hold what passes the check: a parser
\* never stores an unchecked text.
THEOREM TypeCorrect == Spec => []TypeOK
<1>1. IInv => TypeOK
  BY DEF IInv
<1> QED BY <1>1, Initially, Inductive, PTL DEF Spec

LEMMA AddresseesKept == IInv => NoAddresseeLost
<1> SUFFICES ASSUME IInv, received \notin NoMessage PROVE NoAddresseeLost
  BY DEF NoAddresseeLost
<1>1. PICK r : r = Last(route)
  OBVIOUS
<1>2. received # NotSent
  BY DEF NoMessage
<1>3. route # <<>> /\ received = TransferredAs(msg, r) /\ MessageOK(msg)
  BY <1>1, <1>2 DEF IInv, TypeOK, ReadAsSent
<1>4. r \in Representation
  <2>1. route \in Seq(Representation)
    BY DEF IInv, TypeOK
  <2> QED BY <1>1, <1>3, <2>1 DEF Last
<1>5. /\ r = "BITEFFICIENT" => ToldAll(received, Wanted(msg))
      /\ r = "STRING_REP" => ToldAll(received, TextWanted(msg))
      /\ r = "XML" => ToldAll(received, XMLWanted(msg))
  BY <1>3, <1>4, TransferTold
<1>6. ASSUME NamesKept(msg, r)
      PROVE  /\ NamesOf(received.receivers) = NamesOf(msg.receivers)
             /\ NamesOf(received.replyTo) = NamesOf(msg.replyTo)
  <2>1. CASE r = "BITEFFICIENT"
    BY <1>5, <2>1 DEF ToldAll, Wanted
  <2>2. CASE r = "STRING_REP"
    <3>1. \A a \in Range(msg.receivers) \cup Range(msg.replyTo) : TextName(a) = a.name
      BY <1>6, <2>2 DEF NamesKept, TextName
    <3>2. /\ TextNames(msg.receivers) = NamesOf(msg.receivers)
          /\ TextNames(msg.replyTo) = NamesOf(msg.replyTo)
      BY <3>1 DEF TextNames, NamesOf
    <3> QED BY <1>5, <2>2, <3>2 DEF ToldAll, TextWanted
  <2>3. CASE r = "XML"
    <3>1. \A a \in Range(msg.receivers) \cup Range(msg.replyTo) : AsAttribute[a.name] = a.name
      BY <1>6, <2>3 DEF NamesKept, AttributeKept
    <3>2. /\ XMLNames(msg.receivers) = NamesOf(msg.receivers)
          /\ XMLNames(msg.replyTo) = NamesOf(msg.replyTo)
      BY <3>1 DEF XMLNames, NamesOf
    <3> QED BY <1>5, <2>3, <3>2 DEF ToldAll, XMLWanted
  <2> QED BY <1>4, <2>1, <2>2, <2>3 DEF Representation
<1>7. r # "XML" \/ AttributeKept(msg.performative) => received.performative = msg.performative
  BY <1>4, <1>5 DEF Representation, ToldAll, Wanted, TextWanted, XMLWanted, AttributeKept
<1>8. r # "XML" \/ msg.content.nul = 0 => received.content = msg.content
  BY <1>4, <1>5 DEF Representation, ToldAll, Wanted, TextWanted, XMLWanted, CData
<1> QED BY <1>1, <1>6, <1>7, <1>8 DEF NoAddresseeLost

\* A message that is read names the receivers and the agents to reply to
\* of the message sent and no others, and has its performative and its
\* content, whatever the message, the representation and the path it took:
\* the three generators write and the three parsers read every one of them.
THEOREM AddresseesReach == Spec => []NoAddresseeLost
BY Initially, Inductive, AddresseesKept, PTL DEF Spec

LEMMA ComparedExactly == TypeOK => ComparisonIsExact
<1> SUFFICES ASSUME TypeOK, NEW a \in AgentsOf(msg),
                    NEW b \in AgentsOf(msg) \cup AgentsOf(received) \cup Agents,
                    NEW depth \in 0..2
             PROVE  CompareEqual(a, b, depth) <=> SameAgent(a, b, depth)
  BY DEF ComparisonIsExact
<1>1. AgentOK(a)
  BY DEF TypeOK, AgentsOf, MessageOK
<1>2. AgentOK(b)
  <2>1. b \in AgentsOf(received) => AgentOK(b)
    BY DEF TypeOK, AgentsOf, MessageOK
  <2>2. b \in AgentsOf(msg) => AgentOK(b)
    BY DEF TypeOK, AgentsOf, MessageOK
  <2> QED BY <2>1, <2>2, GivenAssumption
<1>3. depth \in Nat
  OBVIOUS
<1> QED BY <1>1, <1>2, <1>3, Exact

\* The search that strikes equal elements from copies of both lists answers
\* for any two identifiers a message can hold, however many addresses,
\* parameters and resolvers they have and however these are ordered or
\* repeated, whether they are equal as bags at every depth: a match is never
\* used up by an element another one needed.
THEOREM ComparisonExact == Spec => []ComparisonIsExact
BY TypeCorrect, ComparedExactly, PTL

==============================================================================
