------------------------ MODULE MessageArrivalProofs ------------------------
(***************************************************************************)
(* Arrives, for every set of agents, texts and dates: a message that the   *)
(* bit-efficient, the string or the XML representation took arrives with   *)
(* the fields it was given, or is refused by the parser.  First, what      *)
(* comparing two identifiers tells of them; then what each generator       *)
(* writes of an identifier and of a field, and what the parser makes of    *)
(* it; then, field by field, the message that the parser puts together.    *)
(***************************************************************************)
EXTENDS MessageProofs

(***************************************************************************)
(* What arrives: identifiers as AgentID::operator== compares them          *)
(***************************************************************************)
\* Two identifiers whose resolvers are left aside, and the positions at which
\* two lists of resolvers hold such identifiers.
Flat(a, b) ==
  /\ a.name = b.name
  /\ SameTexts(a.addresses, b.addresses)
  /\ SameTexts(a.parameters, b.parameters)

HitsFlat(s, t, hits) ==
  \A i \in DOMAIN s, j \in DOMAIN t : <<i, j>> \in hits <=> Flat(s[i], t[j])

\* compareEqual to depth 0 leaves the resolvers aside.
LEMMA FlatIs ==
  ASSUME NEW a, NEW b
  PROVE  CompareEqual(a, b, 0) <=> Flat(a, b)
<1>1. PICK g : Levels("equal", a, b, 0, 0, g) /\ (CompareEqual(a, b, 0) <=> <<a, b>> \in g[0])
  BY CompareUnfolds
<1>2. PICK last : g[0] = EqualPairs(a, b, 0, 0, last)
  BY <1>1 DEF Levels, Level
<1>3. Nested(a, 0) = {a} /\ Nested(b, 0) = {b}
  BY NestedSelf
<1>4. 0 - 0 = 0 /\ ~ (0 > 0)
  OBVIOUS
<1>5. <<a, b>> \in g[0] <=> Flat(a, b)
  BY <1>2, <1>3, <1>4 DEF EqualPairs, Flat
<1> QED BY <1>1, <1>5

\* operator== compares the resolvers as compareEqual to depth 0 does.
LEMMA AgentEqualIs ==
  ASSUME NEW a, NEW b
  PROVE  \E hits : /\ HitsFlat(a.resolvers, b.resolvers, hits)
                   /\ AgentEqual(a, b) <=>
                        Flat(a, b) /\ NothingLeft(a.resolvers, b.resolvers, hits)
<1>1. PICK g : Levels("equal", a, b, 1, 1, g) /\ (CompareEqual(a, b, 1) <=> <<a, b>> \in g[1])
  BY CompareUnfolds
<1>2. g[1] = EqualPairs(a, b, 1, 1, g[0])
  <2>1. 1 \in 0..1 /\ 1 - 1 = 0
    OBVIOUS
  <2> QED BY <1>1, <2>1 DEF Levels, Level
<1>3. PICK last : g[0] = EqualPairs(a, b, 1, 0, last)
  BY <1>1 DEF Levels, Level
<1>4. Nested(a, 0) = {a} /\ Nested(b, 0) = {b}
  BY NestedSelf
<1>5. PICK A, B : A = Nested(a, 1) /\ B = Nested(b, 1)
  OBVIOUS
<1>6. Range(a.resolvers) \subseteq A /\ Range(b.resolvers) \subseteq B
  <2>1. 0 + 1 = 1 /\ 0 \in Nat
    OBVIOUS
  <2>2. \A x \in Nested(a, 0) : Range(x.resolvers) \subseteq Nested(a, 0 + 1)
    BY NestedBelow
  <2>3. \A x \in Nested(b, 0) : Range(x.resolvers) \subseteq Nested(b, 0 + 1)
    BY NestedBelow
  <2> QED BY <1>4, <1>5, <2>1, <2>2, <2>3
<1>7. PICK equal : equal = g[0]
  OBVIOUS
<1>8. \A x \in A, y \in B : <<x, y>> \in equal <=> Flat(x, y)
  <2>1. 1 - 0 = 1 /\ ~ (0 > 0)
    OBVIOUS
  <2> QED BY <1>3, <1>5, <1>7, <2>1 DEF EqualPairs, Flat
<1>9. PICK s, t : s = a.resolvers /\ t = b.resolvers
  OBVIOUS
<1>10. PICK hits : hits = {h \in (DOMAIN s) \X (DOMAIN t) : <<s[h[1]], t[h[2]]>> \in equal}
  OBVIOUS
<1>11. HitsFlat(s, t, hits)
  <2>1. \A i \in DOMAIN s, j \in DOMAIN t : <<i, j>> \in hits <=> <<s[i], t[j]>> \in equal
    BY <1>10
  <2>2. (\A i \in DOMAIN s : s[i] \in A) /\ (\A j \in DOMAIN t : t[j] \in B)
    BY <1>6, <1>9 DEF Range
  <2>3. ASSUME NEW i \in DOMAIN s, NEW j \in DOMAIN t
        PROVE  <<i, j>> \in hits <=> Flat(s[i], t[j])
    <3>1. s[i] \in A /\ t[j] \in B
      BY <2>2
    <3>2. <<s[i], t[j]>> \in equal <=> Flat(s[i], t[j])
      BY <1>8, <3>1
    <3> QED BY <2>1, <3>2
  <2> QED BY <2>3 DEF HitsFlat
<1>12. <<a, b>> \in g[1] <=> Flat(a, b) /\ NothingLeft(s, t, hits)
  <2>1. 1 - 1 = 0 /\ 1 > 0
    OBVIOUS
  <2> QED BY <1>2, <1>4, <1>7, <1>9, <1>10, <2>1 DEF EqualPairs, Flat
<1>13. AgentEqual(a, b) <=> <<a, b>> \in g[1]
  BY <1>1, DepthAssumption DEF AgentEqual
<1> QED BY <1>9, <1>11, <1>12, <1>13

\* One identifier repeats another to the depth to which they are compared.
Copy(r, a) ==
  /\ r.name = a.name /\ r.addresses = a.addresses /\ r.parameters = a.parameters
  /\ DOMAIN r.resolvers = DOMAIN a.resolvers
  /\ \A i \in DOMAIN a.resolvers :
       /\ r.resolvers[i].name = a.resolvers[i].name
       /\ r.resolvers[i].addresses = a.resolvers[i].addresses
       /\ r.resolvers[i].parameters = a.resolvers[i].parameters

AllOK(W) == \A x \in W : AgentOK(x)

\* The two comparisons, given by keys of the identifiers in a set.
KeyedFlat(R, flat) == \A x, y \in R : Flat(x, y) <=> flat[x] = flat[y]
KeyedBy(W, key) ==
  /\ \A x, y \in W : AgentEqual(x, y) <=> key[x] = key[y]
  /\ \A x, y \in W : Copy(x, y) => key[x] = key[y]

FlatKey(x, V, self) ==
  [ name       |-> x.name,
    addresses  |-> Counted(x.addresses, self, V),
    parameters |-> Counted(x.parameters, self, V) ]

LEMMA FlatKeys ==
  ASSUME NEW R, \A x \in R : Proper(x)
  PROVE  \E flat, V, self : KeyedFlat(R, flat) /\ flat = [x \in R |-> FlatKey(x, V, self)]
<1>1. PICK V : V = UNION {Range(x.addresses) \cup Range(x.parameters) : x \in R}
  OBVIOUS
<1>2. PICK self : Itself(self, V)
  BY DEF Itself
<1>3. ASSUME NEW x \in R, NEW y \in R
      PROVE  Flat(x, y) <=> FlatKey(x, V, self) = FlatKey(y, V, self)
  <2>1. PICK s, t : s = x.addresses /\ t = y.addresses
    OBVIOUS
  <2>2. PICK p, q : p = x.parameters /\ q = y.parameters
    OBVIOUS
  <2>3. /\ s \in Seq(Range(s)) /\ t \in Seq(Range(t))
        /\ p \in Seq(Range(p)) /\ q \in Seq(Range(q))
    <3>1. s \in Seq(Checked) /\ t \in Seq(Checked)
      BY <2>1 DEF Proper
    <3>2. s \in Seq(Range(s)) /\ t \in Seq(Range(t))
      BY <3>1, ListOf
    <3> QED BY <2>2, <3>2 DEF Proper
  <2>4. Range(s) \subseteq V /\ Range(t) \subseteq V /\ Range(p) \subseteq V /\ Range(q) \subseteq V
    BY <1>1, <2>1, <2>2
  <2>5. SameTexts(s, t) <=> Counted(s, self, V) = Counted(t, self, V)
    BY <1>2, <2>3, <2>4, TextsByKey
  <2>6. SameTexts(p, q) <=> Counted(p, self, V) = Counted(q, self, V)
    BY <1>2, <2>3, <2>4, TextsByKey
  <2> QED BY <2>1, <2>2, <2>5, <2>6 DEF Flat, FlatKey
<1>4. PICK flat : flat = [x \in R |-> FlatKey(x, V, self)]
  OBVIOUS
<1>5. KeyedFlat(R, flat)
  BY <1>3, <1>4 DEF KeyedFlat
<1> QED BY <1>4, <1>5

LEMMA AgentKeys ==
  ASSUME NEW W, AllOK(W)
  PROVE  \E key : KeyedBy(W, key)
<1>1. PICK R : R = W \cup UNION {Range(x.resolvers) : x \in W}
  OBVIOUS
<1>2. \A x \in R : Proper(x)
  <2>1. \A x \in W : Proper(x)
    BY AgentProper DEF AllOK
  <2>2. ASSUME NEW x \in W, NEW y \in Range(x.resolvers)
        PROVE  Proper(y)
    <3>1. x \in Nested(x, 0)
      BY NestedSelf
    <3>2. PICK k \in Nat : k = 0 + 1
      OBVIOUS
    <3>3. Range(x.resolvers) \subseteq Nested(x, k)
      BY <3>1, <3>2, NestedBelow
    <3> QED BY <3>3, NestedProper DEF AllOK
  <2> QED BY <1>1, <2>1, <2>2
<1>3. PICK flat, V, self : KeyedFlat(R, flat) /\ flat = [x \in R |-> FlatKey(x, V, self)]
  BY <1>2, FlatKeys
<1>4. PICK fkeys : fkeys = {flat[x] : x \in R}
  OBVIOUS
<1> DEFINE K(x) == [flat |-> flat[x], resolvers |-> Counted(x.resolvers, flat, fkeys)]
<1>5. ASSUME NEW x, NEW y
      PROVE  K(x) = K(y) <=>
               flat[x] = flat[y] /\ Counted(x.resolvers, flat, fkeys) = Counted(y.resolvers, flat, fkeys)
  OBVIOUS
<1>6. ASSUME NEW x \in W, NEW y \in W
      PROVE  AgentEqual(x, y) <=> K(x) = K(y)
  <2>1. PICK hits : /\ HitsFlat(x.resolvers, y.resolvers, hits)
                    /\ AgentEqual(x, y) <=>
                         Flat(x, y) /\ NothingLeft(x.resolvers, y.resolvers, hits)
    BY AgentEqualIs
  <2>2. PICK s, t : s = x.resolvers /\ t = y.resolvers
    OBVIOUS
  <2>3. s \in Seq(Range(s)) /\ t \in Seq(Range(t))
    BY <1>1, <1>2, <2>2 DEF Proper
  <2>4. Range(s) \subseteq R /\ Range(t) \subseteq R
    BY <1>1, <2>2
  <2>5. HitsByKey(s, t, hits, flat)
    <3>1. (\A i \in DOMAIN s : s[i] \in R) /\ (\A j \in DOMAIN t : t[j] \in R)
      BY <2>4 DEF Range
    <3>2. ASSUME NEW i \in DOMAIN s, NEW j \in DOMAIN t
          PROVE  <<i, j>> \in hits <=> flat[s[i]] = flat[t[j]]
      <4>1. <<i, j>> \in hits <=> Flat(s[i], t[j])
        BY <2>1, <2>2 DEF HitsFlat
      <4>2. s[i] \in R /\ t[j] \in R
        BY <3>1
      <4>3. Flat(s[i], t[j]) <=> flat[s[i]] = flat[t[j]]
        BY <1>3, <4>2 DEF KeyedFlat
      <4> QED BY <4>1, <4>3
    <3> QED BY <3>2 DEF HitsByKey
  <2>6. InKeys(s, flat, fkeys) /\ InKeys(t, flat, fkeys)
    BY <1>4, <2>4 DEF InKeys
  <2>7. NothingLeft(s, t, hits) <=> Counted(s, flat, fkeys) = Counted(t, flat, fkeys)
    BY <2>3, <2>5, <2>6, Compared
  <2>8. Flat(x, y) <=> flat[x] = flat[y]
    BY <1>1, <1>3 DEF KeyedFlat
  <2> HIDE DEF K
  <2> QED BY <1>5, <2>1, <2>2, <2>7, <2>8
<1>7. ASSUME NEW x \in W, NEW y \in W, Copy(x, y)
      PROVE  K(x) = K(y)
  <2>1. PICK s, t : s = x.resolvers /\ t = y.resolvers
    OBVIOUS
  <2>2. flat[x] = flat[y]
    BY <1>1, <1>3, <1>7 DEF Copy, FlatKey
  <2>3. DOMAIN s = DOMAIN t
    BY <1>7, <2>1 DEF Copy
  <2>4. (\A i \in DOMAIN s : s[i] \in R) /\ (\A j \in DOMAIN t : t[j] \in R)
    BY <1>1, <2>1 DEF Range
  <2>5. ASSUME NEW i \in DOMAIN s
        PROVE  flat[s[i]] = flat[t[i]]
    <3>1. s[i] \in R /\ t[i] \in R
      BY <2>3, <2>4
    <3>2. s[i].name = t[i].name /\ s[i].addresses = t[i].addresses /\ s[i].parameters = t[i].parameters
      BY <1>7, <2>1, <2>3 DEF Copy
    <3> QED BY <1>3, <3>1, <3>2 DEF FlatKey
  <2>6. \A v : {i \in DOMAIN s : flat[s[i]] = v} = {i \in DOMAIN t : flat[t[i]] = v}
    BY <2>3, <2>5
  <2>7. Counted(s, flat, fkeys) = Counted(t, flat, fkeys)
    BY <2>6 DEF Counted
  <2> HIDE DEF K
  <2> QED BY <1>5, <2>1, <2>2, <2>7
<1>8. PICK key : key = [x \in W |-> K(x)]
  OBVIOUS
<1>9. KeyedBy(W, key)
  <2> HIDE DEF K
  <2> QED BY <1>6, <1>7, <1>8 DEF KeyedBy
<1> QED BY <1>9

-----------------------------------------------------------------------------
(***************************************************************************)
(* Lists of agents                                                         *)
(***************************************************************************)
KeysOf(s, key) == {key[s[i]] : i \in DOMAIN s}
OnceEach(s, key) == \A i, j \in DOMAIN s : i # j => key[s[i]] # key[s[j]]

LEMMA SameAgentsByKey ==
  ASSUME NEW W, NEW key, KeyedBy(W, key),
         NEW s, s \in Seq(Range(s)), Range(s) \subseteq W,
         NEW t, t \in Seq(Range(t)), Range(t) \subseteq W,
         NEW keys, \A x \in W : key[x] \in keys
  PROVE  SameAgents(s, t) <=> Counted(s, key, keys) = Counted(t, key, keys)
<1>1. PICK hits : hits = {h \in (DOMAIN s) \X (DOMAIN t) : AgentEqual(s[h[1]], t[h[2]])}
  OBVIOUS
<1>2. (\A i \in DOMAIN s : s[i] \in W) /\ (\A j \in DOMAIN t : t[j] \in W)
  BY DEF Range
<1>3. ASSUME NEW i \in DOMAIN s, NEW j \in DOMAIN t
      PROVE  <<i, j>> \in hits <=> key[s[i]] = key[t[j]]
  <2>1. <<i, j>> \in hits <=> AgentEqual(s[i], t[j])
    BY <1>1
  <2>2. s[i] \in W /\ t[j] \in W
    BY <1>2
  <2> QED BY <2>1, <2>2 DEF KeyedBy
<1>4. HitsByKey(s, t, hits, key)
  BY <1>3 DEF HitsByKey
<1>5. InKeys(s, key, keys) /\ InKeys(t, key, keys)
  BY DEF InKeys
<1>6. NothingLeft(s, t, hits) <=> Counted(s, key, keys) = Counted(t, key, keys)
  BY <1>4, <1>5, Compared
<1> QED BY <1>1, <1>6 DEF SameAgents

\* Lists that hold the same keys, each of them once, are equal.
LEMMA OnceEachSame ==
  ASSUME NEW s, NEW t, NEW key, NEW keys, OnceEach(s, key), OnceEach(t, key),
         KeysOf(s, key) = KeysOf(t, key)
  PROVE  Counted(s, key, keys) = Counted(t, key, keys)
<1>1. ASSUME NEW v
      PROVE  Cardinality({i \in DOMAIN s : key[s[i]] = v}) = Cardinality({i \in DOMAIN t : key[t[i]] = v})
  <2>1. PICK S, T : S = {i \in DOMAIN s : key[s[i]] = v} /\ T = {i \in DOMAIN t : key[t[i]] = v}
    OBVIOUS
  <2>2. CASE v \in KeysOf(s, key)
    <3>1. PICK i \in DOMAIN s : key[s[i]] = v
      BY <2>2 DEF KeysOf
    <3>2. PICK j \in DOMAIN t : key[t[j]] = v
      BY <2>2 DEF KeysOf
    <3>3. S = {i}
      BY <2>1, <3>1 DEF OnceEach
    <3>4. T = {j}
      BY <2>1, <3>2 DEF OnceEach
    <3> QED BY <2>1, <3>3, <3>4, FS_Singleton
  <2>3. CASE v \notin KeysOf(s, key)
    <3>1. S = {}
      BY <2>1, <2>3 DEF KeysOf
    <3>2. T = {}
      BY <2>1, <2>3 DEF KeysOf
    <3> QED BY <2>1, <3>1, <3>2
  <2> QED BY <2>2, <2>3
<1> QED BY <1>1 DEF Counted

\* What a list holds is held by every list that is equal to it.
LEMMA HeldToo ==
  ASSUME NEW s, s \in Seq(Range(s)), NEW t, t \in Seq(Range(t)),
         NEW key, NEW keys, Counted(s, key, keys) = Counted(t, key, keys),
         NEW v \in keys, v \in KeysOf(t, key)
  PROVE  v \in KeysOf(s, key)
<1>1. PICK S, T : S = {i \in DOMAIN s : key[s[i]] = v} /\ T = {i \in DOMAIN t : key[t[i]] = v}
  OBVIOUS
<1>2. Cardinality(S) = Cardinality(T)
  BY <1>1 DEF Counted
<1>3. IsFiniteSet(T) /\ IsFiniteSet(S)
  <2>1. Len(t) \in Nat /\ T \subseteq 1..Len(t)
    BY <1>1
  <2>2. Len(s) \in Nat /\ S \subseteq 1..Len(s)
    BY <1>1
  <2>3. IsFiniteSet(1..Len(t)) /\ IsFiniteSet(1..Len(s))
    BY <2>1, <2>2, FS_Interval
  <2> QED BY <2>1, <2>2, <2>3, FS_Subset
<1>4. T # {}
  BY <1>1 DEF KeysOf
<1>5. Cardinality(T) # 0
  BY <1>3, <1>4, FS_EmptySet
<1>6. S # {}
  BY <1>2, <1>3, <1>5, FS_EmptySet
<1> QED BY <1>1, <1>6 DEF KeysOf

\* One agent more is put into a list.
LEMMA PrependKeys ==
  ASSUME NEW W, NEW key, KeyedBy(W, key), NEW s \in Seq(W), OnceEach(s, key), NEW a \in W,
         NEW r, r = PrependAgent(s, a)
  PROVE  /\ r \in Seq(W) /\ OnceEach(r, key)
         /\ KeysOf(r, key) = KeysOf(s, key) \cup {key[a]}
         /\ key[a] \in KeysOf(s, key) => r = s
<1>1. \A i \in DOMAIN s : s[i] \in W /\ (AgentEqual(s[i], a) <=> key[s[i]] = key[a])
  BY DEF KeyedBy
<1>2. Holds(s, a) <=> key[a] \in KeysOf(s, key)
  BY <1>1 DEF Holds, KeysOf
<1>3. CASE Holds(s, a)
  BY <1>2, <1>3 DEF PrependAgent
<1>4. CASE ~ Holds(s, a)
  <2>1. r = <<a>> \o s
    BY <1>4 DEF PrependAgent
  <2>2. r \in Seq(W) /\ Len(r) = Len(s) + 1 /\ Len(s) \in Nat
    BY <2>1
  <2>3. r[1] = a /\ \A i \in 2..Len(r) : i - 1 \in DOMAIN s /\ r[i] = s[i - 1]
    BY <2>1
  <2>4. DOMAIN r = 1..Len(r) /\ DOMAIN s = 1..Len(s)
    BY <2>2
  <2>5. KeysOf(r, key) = KeysOf(s, key) \cup {key[a]}
    <3>1. ASSUME NEW i \in DOMAIN s PROVE key[s[i]] \in KeysOf(r, key)
      <4>1. i + 1 \in DOMAIN r /\ i + 1 \in 2..Len(r) /\ (i + 1) - 1 = i
        BY <2>2, <2>4
      <4>2. r[i + 1] = s[i]
        BY <2>3, <4>1
      <4> QED BY <4>1, <4>2 DEF KeysOf
    <3>2. key[a] \in KeysOf(r, key)
      <4>1. 1 \in DOMAIN r
        BY <2>2, <2>4
      <4> QED BY <2>3, <4>1 DEF KeysOf
    <3>3. ASSUME NEW i \in DOMAIN r PROVE key[r[i]] \in KeysOf(s, key) \cup {key[a]}
      <4>1. i = 1 \/ i \in 2..Len(r)
        BY <2>4, <2>2
      <4> QED BY <2>3, <4>1 DEF KeysOf
    <3> QED BY <3>1, <3>2, <3>3 DEF KeysOf
  <2>6. OnceEach(r, key)
    <3>1. ASSUME NEW i \in DOMAIN r, NEW j \in DOMAIN r, i # j, key[r[i]] = key[r[j]]
          PROVE  FALSE
      <4>1. i = 1 \/ i \in 2..Len(r)
        BY <2>4, <2>2
      <4>2. j = 1 \/ j \in 2..Len(r)
        BY <2>4, <2>2
      <4>3. \A k \in DOMAIN s : key[s[k]] # key[a]
        BY <1>2, <1>4 DEF KeysOf
      <4>4. CASE i = 1
        BY <2>3, <3>1, <4>2, <4>3, <4>4
      <4>5. CASE j = 1
        BY <2>3, <3>1, <4>1, <4>3, <4>5
      <4>6. CASE i # 1 /\ j # 1
        <5>1. i - 1 \in DOMAIN s /\ j - 1 \in DOMAIN s
          BY <2>3, <4>1, <4>2, <4>6
        <5>2. r[i] = s[i - 1] /\ r[j] = s[j - 1]
          BY <2>3, <4>1, <4>2, <4>6
        <5>3. i - 1 # j - 1
          BY <2>2, <2>4, <3>1
        <5> QED BY <3>1, <5>1, <5>2, <5>3 DEF OnceEach
      <4> QED BY <4>4, <4>5, <4>6
    <3> QED BY <3>1 DEF OnceEach
  <2> QED BY <1>2, <1>4, <2>2, <2>5, <2>6
<1> QED BY <1>3, <1>4

\* A list with all of its elements put into it in turn stays as it is; put
\* into an empty list, they make a list of the same elements.
Copies(bs, t) == DOMAIN bs = DOMAIN t /\ \A i \in DOMAIN t : Copy(bs[i], t[i])

LEMMA AddedKeys ==
  ASSUME NEW W, NEW key, KeyedBy(W, key), NEW bs \in Seq(W), NEW s \in Seq(W),
         NEW r, r = FoldLeft(PrependAgent, s, bs)
  PROVE  /\ KeysOf(bs, key) \subseteq KeysOf(s, key) => r = s
         /\ s = <<>> => r \in Seq(W) /\ OnceEach(r, key) /\ KeysOf(r, key) = KeysOf(bs, key)
<1>1. IsList(bs)
  BY ListOf
<1>2. PICK n \in Nat : n = Len(bs)
  OBVIOUS
<1>3. PICK c : Chain("prepend", s, bs, n, c) /\ r = c[n]
  BY <1>1, <1>2, FoldPrepend
<1>4. /\ c[0] = s
      /\ \A k \in 1..n : k - 1 \in Nat /\ c[k] = Step("prepend", bs, c[k - 1], k)
  <2>1. ASSUME NEW k \in 1..n
        PROVE  k - 1 \in Nat /\ c[k] = Step("prepend", bs, c[k - 1], k)
    BY <1>2, <1>3, ChainAt
  <2>2. c[0] = s
    BY <1>2, <1>3, ChainStart
  <2> QED BY <2>1, <2>2
<1>5. \A k \in 1..n : bs[k] \in W /\ k \in DOMAIN bs
  BY <1>2
<1>6. ASSUME KeysOf(bs, key) \subseteq KeysOf(s, key)
      PROVE  r = s
  <2> DEFINE T == {k \in 0..n : c[k] = s}
  <2>1. 0 \in T
    BY <1>4
  <2>2. ASSUME NEW k \in 1..n, k - 1 \in T
        PROVE  k \in T
    <3>1. key[bs[k]] \in KeysOf(s, key)
      BY <1>5, <1>6 DEF KeysOf
    <3>2. Holds(s, bs[k])
      <4>1. PICK i \in DOMAIN s : key[s[i]] = key[bs[k]]
        BY <3>1 DEF KeysOf
      <4>2. s[i] \in W
        OBVIOUS
      <4>3. AgentEqual(s[i], bs[k])
        BY <1>5, <4>1, <4>2 DEF KeyedBy
      <4> QED BY <4>1, <4>3 DEF Holds
    <3>3. c[k] = PrependAgent(s, bs[k])
      BY <1>4, <2>2 DEF Step
    <3>4. c[k] = s
      BY <3>2, <3>3 DEF PrependAgent
    <3>5. k \in 0..n
      BY <1>2
    <3> QED BY <3>4, <3>5
  <2>3. n \in T
    <3> HIDE DEF T
    <3> QED BY <2>1, <2>2, InductionTo
  <2> QED BY <1>3, <2>3
<1>7. ASSUME s = <<>>
      PROVE  r \in Seq(W) /\ OnceEach(r, key) /\ KeysOf(r, key) = KeysOf(bs, key)
  <2> DEFINE Upto(k) == {key[bs[i]] : i \in 1..k}
             Good(k) == c[k] \in Seq(W) /\ OnceEach(c[k], key) /\ KeysOf(c[k], key) = Upto(k)
             T == {k \in 0..n : Good(k)}
  <2>1. 0 \in T
    <3>1. 0 \in 0..n /\ Upto(0) = {} /\ c[0] = <<>>
      BY <1>2, <1>4, <1>7
    <3>2. OnceEach(<<>>, key) /\ KeysOf(<<>>, key) = {} /\ <<>> \in Seq(W)
      BY DEF OnceEach, KeysOf
    <3> QED BY <3>1, <3>2
  <2>2. ASSUME NEW k \in 1..n, k - 1 \in T
        PROVE  k \in T
    <3>1. c[k] = PrependAgent(c[k - 1], bs[k])
      BY <1>4 DEF Step
    <3>2. PICK last : last = c[k - 1]
      OBVIOUS
    <3>3. last \in Seq(W) /\ OnceEach(last, key) /\ KeysOf(last, key) = Upto(k - 1)
      BY <2>2, <3>2
    <3>4. PICK a : a = bs[k]
      OBVIOUS
    <3>5. PICK next : next = PrependAgent(last, a)
      OBVIOUS
    <3>6. a \in W
      BY <1>5, <3>4
    <3>7. last \in Seq(W) /\ OnceEach(last, key)
      BY <3>3
    <3>8. /\ next \in Seq(W) /\ OnceEach(next, key)
           /\ KeysOf(next, key) = KeysOf(last, key) \cup {key[a]}
      BY <3>5, <3>6, <3>7, PrependKeys
    <3>9. Upto(k) = Upto(k - 1) \cup {key[bs[k]]}
      <4>1. 1..k = (1..(k - 1)) \cup {k}
        OBVIOUS
      <4> QED BY <4>1
    <3>10. c[k] = next
      BY <3>1, <3>2, <3>4, <3>5
    <3>11. Good(k)
      BY <3>3, <3>4, <3>9, <3>10, <3>8
    <3> HIDE DEF Good
    <3> QED BY <1>2, <3>11
  <2>3. n \in T
    <3> HIDE DEF T
    <3> QED BY <2>1, <2>2, InductionTo
  <2>4. Upto(n) = KeysOf(bs, key)
    BY <1>2 DEF KeysOf
  <2> QED BY <1>3, <2>3, <2>4
<1> QED BY <1>6, <1>7

\* What the lists of a message are when their agents arrive one by one or as
\* a whole.
LEMMA ListArrives ==
  ASSUME NEW t, AgentList(t), NEW bs, AgentList(bs), Copies(bs, t),
         NEW s, AgentList(s)
  PROVE  /\ SameAgents(bs, t) /\ SameAgents(t, t)
         /\ NoDuplicates(t) /\ (s = <<>> \/ SameAgents(s, t)) =>
              SameAgents(FoldLeft(PrependAgent, s, bs), t)
<1>1. PICK W : W = Range(t) \cup Range(bs) \cup Range(s)
  OBVIOUS
<1>2. AllOK(W)
  BY <1>1 DEF AllOK, AgentList
<1>3. PICK key : KeyedBy(W, key)
  BY <1>2, AgentKeys
<1>4. PICK keys : keys = {key[x] : x \in W}
  OBVIOUS
<1>5. \A x \in W : key[x] \in keys
  BY <1>4
<1>6. /\ t \in Seq(Range(t)) /\ bs \in Seq(Range(bs)) /\ s \in Seq(Range(s))
      /\ Range(t) \subseteq W /\ Range(bs) \subseteq W /\ Range(s) \subseteq W
  BY <1>1 DEF AgentList
<1>7. \A i \in DOMAIN t : t[i] \in W /\ bs[i] \in W /\ i \in DOMAIN bs
  BY <1>6 DEF Copies, Range
<1>8. \A i \in DOMAIN t : key[bs[i]] = key[t[i]]
  BY <1>3, <1>7 DEF Copies, KeyedBy
<1>9. Counted(bs, key, keys) = Counted(t, key, keys)
  <2>1. DOMAIN bs = DOMAIN t
    BY DEF Copies
  <2>2. \A v : {i \in DOMAIN bs : key[bs[i]] = v} = {i \in DOMAIN t : key[t[i]] = v}
    BY <1>8, <2>1
  <2> QED BY <2>2 DEF Counted
<1>10. SameAgents(bs, t)
  BY <1>3, <1>5, <1>6, <1>9, SameAgentsByKey
<1>11. SameAgents(t, t)
  BY <1>3, <1>5, <1>6, SameAgentsByKey
<1>12. KeysOf(bs, key) = KeysOf(t, key)
  BY <1>8 DEF KeysOf, Copies
<1>13. s \in Seq(W) /\ bs \in Seq(W)
  BY <1>6
<1>14. PICK r : r = FoldLeft(PrependAgent, s, bs)
  OBVIOUS
<1>15. /\ KeysOf(bs, key) \subseteq KeysOf(s, key) => r = s
       /\ s = <<>> => r \in Seq(W) /\ OnceEach(r, key) /\ KeysOf(r, key) = KeysOf(bs, key)
  BY <1>3, <1>13, <1>14, AddedKeys
<1>16. ASSUME SameAgents(s, t)
       PROVE  SameAgents(r, t)
  <2>1. Counted(s, key, keys) = Counted(t, key, keys)
    BY <1>3, <1>5, <1>6, <1>16, SameAgentsByKey
  <2>2. KeysOf(t, key) \subseteq keys
    BY <1>5, <1>7 DEF KeysOf
  <2>3. KeysOf(t, key) \subseteq KeysOf(s, key)
    BY <1>6, <2>1, <2>2, HeldToo
  <2>4. r = s
    BY <1>12, <1>15, <2>3
  <2> QED BY <1>16, <2>4
<1>17. ASSUME NoDuplicates(t), s = <<>>
       PROVE  SameAgents(r, t)
  <2>1. OnceEach(t, key)
    BY <1>3, <1>7, <1>17 DEF OnceEach, NoDuplicates, KeyedBy
  <2>2. r \in Seq(W) /\ OnceEach(r, key) /\ KeysOf(r, key) = KeysOf(t, key)
    BY <1>12, <1>15, <1>17
  <2>3. Counted(r, key, keys) = Counted(t, key, keys)
    BY <2>1, <2>2, OnceEachSame
  <2>4. r \in Seq(Range(r)) /\ Range(r) \subseteq W
    BY <2>2, ListOf
  <2>5. t \in Seq(Range(t)) /\ Range(t) \subseteq W
    BY <1>6
  <2>6. SameAgents(r, t) <=> Counted(r, key, keys) = Counted(t, key, keys)
    BY <1>3, <1>5, <2>4, <2>5, SameAgentsByKey
  <2> QED BY <2>3, <2>6
<1> QED BY <1>10, <1>11, <1>14, <1>16, <1>17

LEMMA AgentArrives ==
  ASSUME NEW a, AgentOK(a)
  PROVE  /\ AgentEqual(a, a)
         /\ \A r : AgentOK(r) /\ Copy(r, a) => AgentEqual(r, a)
<1>1. ASSUME NEW r, AgentOK(r), Copy(r, a)
      PROVE  AgentEqual(r, a)
  <2>1. PICK W : W = {a, r}
    OBVIOUS
  <2>2. AllOK(W)
    BY <1>1, <2>1 DEF AllOK
  <2>3. PICK key : KeyedBy(W, key)
    BY <2>2, AgentKeys
  <2>4. key[r] = key[a]
    BY <1>1, <2>1, <2>3 DEF KeyedBy
  <2> QED BY <2>1, <2>3, <2>4 DEF KeyedBy
<1>2. Copy(a, a)
  BY DEF Copy
<1> QED BY <1>1, <1>2

\* Parameters that are different from one another.
LEMMA SameParameters ==
  ASSUME NEW s, s \in Seq(Range(s)), IsInjective(s),
         NEW t, t \in Seq(Range(t)), IsInjective(t), Range(s) = Range(t)
  PROVE  SameTexts(s, t)
<1>1. PICK V : V = Range(t)
  OBVIOUS
<1>2. PICK self : self = [v \in V |-> v]
  OBVIOUS
<1>3. (\A i \in DOMAIN s : self[s[i]] = s[i]) /\ (\A i \in DOMAIN t : self[t[i]] = t[i])
  BY <1>1, <1>2 DEF Range
<1>4. OnceEach(s, self) /\ OnceEach(t, self)
  BY <1>3 DEF OnceEach, IsInjective
<1>5. KeysOf(s, self) = KeysOf(t, self)
  <2>1. KeysOf(s, self) = Range(s)
    BY <1>3 DEF KeysOf, Range
  <2>2. KeysOf(t, self) = Range(t)
    BY <1>3 DEF KeysOf, Range
  <2> QED BY <2>1, <2>2
<1>6. Counted(s, self, V) = Counted(t, self, V)
  BY <1>4, <1>5, OnceEachSame
<1>7. Itself(self, V)
  BY <1>2 DEF Itself
<1> QED BY <1>1, <1>6, <1>7, TextsByKey

-----------------------------------------------------------------------------
(***************************************************************************)
(* Identifiers on the way                                                  *)
(***************************************************************************)
\* What two identifiers have in common that differ in their resolvers.
Alike(x, b) == x.name = b.name /\ x.addresses = b.addresses /\ x.parameters = b.parameters

\* The resolvers of what is made of an identifier: what is made of them, or
\* none at the last level.
ResolversOf(x, b, last, d) ==
  x.resolvers = IF d # 0 THEN [i \in DOMAIN b.resolvers |-> last[b.resolvers[i]]] ELSE <<>>

LEMMA WrittenLevel ==
  ASSUME NEW a, AgentOK(a), NEW m \in Nat, NEW g, Levels("written", a, a, m, m, g),
         NEW k \in 0..m, NEW b \in Nested(a, k), NEW d, d = m - k
  PROVE  Alike(g[d][b], b) /\ ResolversOf(g[d][b], b, g[d - 1], d)
<1>1. d \in 0..m /\ m - d = k /\ k \in Nat
  OBVIOUS
<1>2. PICK last : last = g[d - 1]
  OBVIOUS
<1>3. g[d] = WrittenBelow(a, m, d, last)
  BY <1>1, <1>2 DEF Levels, Level
<1>4. PICK x : x = g[d][b]
  OBVIOUS
<1>5. x = [b EXCEPT !.resolvers = IF d > 0 THEN [i \in DOMAIN @ |-> last[@[i]]] ELSE <<>>]
  BY <1>1, <1>3, <1>4, Zenon DEF WrittenBelow
<1>6. DOMAIN b = AgentField
  BY <1>1, NestedProper DEF Proper
<1>7. d > 0 <=> d # 0
  BY <1>1
<1>8. PICK t : t = [i \in DOMAIN b.resolvers |-> last[b.resolvers[i]]]
  OBVIOUS
<1>9. Alike(x, b) /\ x.resolvers = IF d > 0 THEN t ELSE <<>>
  BY <1>5, <1>6, <1>8 DEF AgentField, Alike
<1> QED BY <1>2, <1>4, <1>7, <1>8, <1>9 DEF ResolversOf

\* Whatever is nested in a written identifier was written for what is nested
\* in the identifier.
LEMMA WrittenNested ==
  ASSUME NEW a, AgentOK(a), NEW m \in Nat, NEW k \in 0..m, NEW x \in Nested(WrittenAgent(a, m), k)
  PROVE  \E b \in Nested(a, k) : Alike(x, b)
<1>1. PICK g : Levels("written", a, a, m, m, g) /\ WrittenAgent(a, m) = g[m][a]
  BY WrittenUnfolds
<1> DEFINE L == [j \in 0..m |-> {g[m - j][b] : b \in Nested(a, j)}]
<1>2. g[m][a] \in L[0]
  <2>1. L[0] = {g[m - 0][b] : b \in Nested(a, 0)} /\ m - 0 = m
    OBVIOUS
  <2> HIDE DEF L
  <2> QED BY <2>1, NestedSelf
<1>3. ASSUME NEW j \in 0..m, NEW y \in L[j], j # m
      PROVE  Range(y.resolvers) \subseteq L[j + 1]
  <2>1. PICK b \in Nested(a, j) : y = g[m - j][b]
    OBVIOUS
  <2>2. PICK d : d = m - j
    OBVIOUS
  <2>3. y.resolvers = [i \in DOMAIN b.resolvers |-> g[d - 1][b.resolvers[i]]]
    <3>1. ResolversOf(g[d][b], b, g[d - 1], d)
      <4> HIDE DEF L
      <4> QED BY <1>1, <2>2, WrittenLevel
    <3>2. d # 0
      BY <1>3, <2>2
    <3> HIDE DEF L
    <3> QED BY <2>1, <2>2, <3>1, <3>2 DEF ResolversOf
  <2>4. Range(b.resolvers) \subseteq Nested(a, j + 1)
    <3>1. j \in Nat
      OBVIOUS
    <3> HIDE DEF L
    <3> QED BY <2>1, <3>1, NestedBelow
  <2>5. j + 1 \in 0..m /\ m - (j + 1) = d - 1
    BY <1>3, <2>2
  <2>6. L[j + 1] = {g[d - 1][c] : c \in Nested(a, j + 1)}
    BY <2>5
  <2> HIDE DEF L
  <2> QED BY <2>3, <2>4, <2>6 DEF Range
<1>4. PICK w : w = g[m][a]
  OBVIOUS
<1>5. Nested(w, k) \subseteq L[k]
  <2> HIDE DEF L
  <2> QED BY <1>2, <1>3, <1>4, Layers
<1>6. PICK b \in Nested(a, k) : x = g[m - k][b]
  BY <1>1, <1>4, <1>5
<1>7. Alike(g[m - k][b], b)
  <2>1. PICK d : d = m - k
    OBVIOUS
  <2> HIDE DEF L
  <2> QED BY <1>1, <1>6, <2>1, WrittenLevel
<1> QED BY <1>6, <1>7

LEMMA WrittenReadable ==
  ASSUME NEW a, AgentOK(a), AgentReadable(a)
  PROVE  AgentReadable(WrittenAgent(a, ResolverDepth))
<1>1. PICK m \in Nat : m = ResolverDepth
  BY BitefficientAssumption
<1>2. PICK w : w = WrittenAgent(a, m)
  OBVIOUS
<1>3. ASSUME NEW k \in 0..m, NEW x \in Nested(w, k)
      PROVE  /\ WordReadable(x.name)
             /\ \A address \in Range(x.addresses) : WordReadable(address)
             /\ \A p \in Range(x.parameters) : ParamReadable(p)
  <2>1. PICK b \in Nested(a, k) : Alike(x, b)
    BY <1>1, <1>2, WrittenNested
  <2>2. /\ WordReadable(b.name)
        /\ \A address \in Range(b.addresses) : WordReadable(address)
        /\ \A p \in Range(b.parameters) : ParamReadable(p)
    BY <1>1, <2>1 DEF AgentReadable
  <2> QED BY <2>1, <2>2 DEF Alike
<1> QED BY <1>1, <1>2, <1>3 DEF AgentReadable

LEMMA ResolverNested ==
  ASSUME NEW a, AgentOK(a)
  PROVE  /\ \A i \in DOMAIN a.resolvers : a.resolvers[i] \in Nested(a, 1) /\ Proper(a.resolvers[i])
         /\ Proper(a)
<1>1. PICK k \in Nat : k = 1 /\ k = 0 + 1
  OBVIOUS
<1>2. a \in Nested(a, 0)
  BY NestedSelf
<1>3. Range(a.resolvers) \subseteq Nested(a, k)
  BY <1>1, <1>2, NestedBelow
<1>4. \A x \in Nested(a, k) : Proper(x)
  BY <1>1, NestedProper
<1> QED BY <1>1, <1>3, <1>4, AgentProper DEF Range

\* The resolvers and their own texts are written.
LEMMA WrittenCopy ==
  ASSUME NEW a, AgentOK(a)
  PROVE  Copy(WrittenAgent(a, ResolverDepth), a)
<1>1. PICK m \in Nat : m = ResolverDepth /\ m >= 1
  BY BitefficientAssumption, DepthAssumption
<1>2. PICK g : Levels("written", a, a, m, m, g) /\ WrittenAgent(a, m) = g[m][a]
  BY WrittenUnfolds
<1>3. Alike(g[m][a], a) /\ ResolversOf(g[m][a], a, g[m - 1], m)
  <2>1. a \in Nested(a, 0) /\ 0 \in 0..m /\ m = m - 0
    BY <1>1, NestedSelf
  <2> QED BY <1>2, <2>1, WrittenLevel
<1>4. ASSUME NEW i \in DOMAIN a.resolvers
      PROVE  Alike(g[m - 1][a.resolvers[i]], a.resolvers[i])
  <2>1. PICK r, d : r = a.resolvers[i] /\ d = m - 1
    OBVIOUS
  <2>2. r \in Nested(a, 1) /\ 1 \in 0..m
    BY <1>1, <2>1, ResolverNested
  <2>3. Alike(g[d][r], r)
    BY <1>2, <2>1, <2>2, WrittenLevel
  <2> QED BY <2>1, <2>3
<1>5. m # 0
  BY <1>1
<1>6. PICK x : x = WrittenAgent(a, ResolverDepth)
  OBVIOUS
<1>7. Alike(x, a) /\ x.resolvers = [i \in DOMAIN a.resolvers |-> g[m - 1][a.resolvers[i]]]
  BY <1>1, <1>2, <1>3, <1>5, <1>6 DEF ResolversOf
<1> QED BY <1>4, <1>6, <1>7 DEF Copy, Alike

\* A parameter of an agent whose value survives between quotation marks.
LEMMA ParamRead ==
  ASSUME NEW p, IsRecord(p), LiteralKept(p.value)
  PROVE  ReadParam(p) = p
<1>1. PICK v : v = AsLiteral[p.value]
  OBVIOUS
<1>2. ReadParam(p) = [p EXCEPT !.value = v]
  BY <1>1 DEF ReadParam
<1>3. v = p.value
  BY <1>1 DEF LiteralKept
<1>4. [p EXCEPT !.value = v] = [f \in DOMAIN p |-> p[f]]
  BY <1>3
<1> QED BY <1>2, <1>4 DEF IsRecord

LEMMA ParamsRead ==
  ASSUME NEW ps, ps \in Seq(Range(ps)), Records(ps), \A p \in Range(ps) : LiteralKept(p.value)
  PROVE  [i \in DOMAIN ps |-> ReadParam(ps[i])] = ps
<1>1. ASSUME NEW i \in DOMAIN ps PROVE ReadParam(ps[i]) = ps[i]
  <2>1. PICK p : p = ps[i]
    OBVIOUS
  <2>2. IsRecord(p) /\ LiteralKept(p.value)
    BY <2>1 DEF Records, Range
  <2> QED BY <2>1, <2>2, ParamRead
<1>2. ps = [i \in DOMAIN ps |-> ps[i]]
  OBVIOUS
<1> QED BY <1>1, <1>2

\* The first elements of a list, and one more.
FirstOf(t, k) == [i \in 1..k |-> t[i]]

LEMMA FirstNext ==
  ASSUME NEW t, t \in Seq(Range(t)), NEW k \in 1..Len(t), NEW j \in Nat, j = k - 1
  PROVE  Append(FirstOf(t, j), t[k]) = FirstOf(t, k)
<1>1. PICK last : last = FirstOf(t, j)
  OBVIOUS
<1>2. j + 1 = k /\ last = [i \in 1..j |-> t[i]]
  BY <1>1 DEF FirstOf
<1>3. last \in Seq(Range(t)) /\ Len(last) = j
  <2>1. \A i \in 1..j : t[i] \in Range(t)
    BY DEF Range
  <2> QED BY <1>2, <2>1
<1>4. PICK e : e = Append(last, t[k])
  OBVIOUS
<1>5. t[k] \in Range(t)
  BY DEF Range
<1>6. e \in Seq(Range(t)) /\ Len(e) = k
  BY <1>2, <1>3, <1>4, <1>5
<1>7. ASSUME NEW i \in 1..k PROVE e[i] = t[i]
  <2>1. CASE i = k
    BY <1>2, <1>3, <1>4, <2>1
  <2>2. CASE i # k
    <3>1. i \in 1..j
      BY <1>2, <2>2
    <3>2. e[i] = last[i]
      BY <1>3, <1>4, <3>1
    <3> QED BY <1>2, <3>1, <3>2
  <2> QED BY <2>1, <2>2
<1>8. e = [i \in 1..k |-> e[i]]
  BY <1>6
<1> QED BY <1>1, <1>4, <1>7, <1>8 DEF FirstOf

\* Agents that differ are all kept when they are entered one by one.
LEMMA AppendedAll ==
  ASSUME NEW t, t \in Seq(Range(t)), NoDuplicates(t)
  PROVE  FoldLeft(AppendAgent, <<>>, t) = t
<1>1. PICK n \in Nat : n = Len(t)
  OBVIOUS
<1>2. IsList(t)
  BY ListOf
<1>3. PICK c : Chain("append", <<>>, t, n, c) /\ FoldLeft(AppendAgent, <<>>, t) = c[n]
  BY <1>1, <1>2, FoldAppend
<1> DEFINE T == {k \in 0..n : c[k] = FirstOf(t, k)}
<1>4. 0 \in T
  <2>1. c[0] = <<>>
    BY <1>1, <1>3, ChainStart
  <2>2. FirstOf(t, 0) = <<>> /\ 0 \in 0..n
    BY <1>1 DEF FirstOf
  <2> QED BY <2>1, <2>2
<1>5. ASSUME NEW k \in 1..n, k - 1 \in T PROVE k \in T
  <2>1. c[k] = Step("append", t, c[k - 1], k)
    <3> HIDE DEF T
    <3> QED BY <1>1, <1>3, ChainAt
  <2>2. PICK j \in Nat : j = k - 1
    BY <1>1
  <2>3. PICK last : last = FirstOf(t, j) /\ c[k - 1] = last
    BY <1>5, <2>2
  <2>4. c[k] = AppendAgent(last, t[k])
    BY <2>1, <2>3 DEF Step
  <2>5. ~ Holds(last, t[k])
    <3>1. DOMAIN last = 1..j /\ \A i \in 1..j : last[i] = t[i]
      BY <2>3 DEF FirstOf
    <3>2. \A i \in 1..j : i \in DOMAIN t /\ k \in DOMAIN t /\ i # k
      BY <1>1, <2>2
    <3>3. \A i \in 1..j : ~ AgentEqual(t[i], t[k])
      BY <3>2 DEF NoDuplicates
    <3> QED BY <3>1, <3>3 DEF Holds
  <2>6. Append(last, t[k]) = FirstOf(t, k)
    <3> HIDE DEF T
    <3> QED BY <1>1, <2>2, <2>3, FirstNext
  <2>7. c[k] = FirstOf(t, k) /\ k \in 0..n
    BY <1>1, <2>4, <2>5, <2>6 DEF AppendAgent
  <2> QED BY <2>7
<1>6. n \in T
  <2> HIDE DEF T
  <2> QED BY <1>1, <1>4, <1>5, InductionTo
<1>7. FirstOf(t, n) = t
  BY <1>1 DEF FirstOf
<1> QED BY <1>3, <1>6, <1>7

Entered(x, b, last, t) ==
  /\ x.resolvers = FoldLeft(AppendAgent, <<>>, t)
  /\ t = [i \in DOMAIN b.resolvers |-> last[b.resolvers[i]]]

LEMMA BuiltLevel ==
  ASSUME NEW a, AgentOK(a), NEW m \in Nat, NEW g, Levels("built", a, a, m, m, g),
         NEW k \in 0..m, NEW b \in Nested(a, k), NEW d, d = m - k
  PROVE  /\ g[d][b].name = b.name /\ g[d][b].addresses = b.addresses
         /\ g[d][b].parameters = [i \in DOMAIN b.parameters |-> ReadParam(b.parameters[i])]
         /\ d # 0 => \E t : Entered(g[d][b], b, g[d - 1], t)
         /\ d = 0 => g[d][b].resolvers = <<>>
<1>1. d \in 0..m /\ m - d = k /\ k \in Nat
  OBVIOUS
<1>2. PICK last : last = g[d - 1]
  OBVIOUS
<1>3. g[d] = BuiltBelow(a, m, d, last)
  BY <1>1, <1>2 DEF Levels, Level
<1>4. PICK x : x = g[d][b]
  OBVIOUS
<1>5. x = [b EXCEPT
             !.resolvers  = IF d > 0
                            THEN FoldLeft(AppendAgent, <<>>, [i \in DOMAIN @ |-> last[@[i]]])
                            ELSE <<>>,
             !.parameters = [i \in DOMAIN @ |-> ReadParam(@[i])]]
  BY <1>1, <1>3, <1>4, Zenon DEF BuiltBelow
<1>6. DOMAIN b = AgentField
  BY <1>1, NestedProper DEF Proper
<1>7. d > 0 <=> d # 0
  BY <1>1
<1>8. PICK t : t = [i \in DOMAIN b.resolvers |-> last[b.resolvers[i]]]
  OBVIOUS
<1>9. PICK ps : ps = [i \in DOMAIN b.parameters |-> ReadParam(b.parameters[i])]
  OBVIOUS
<1>10. x = [b EXCEPT !.resolvers = IF d > 0 THEN FoldLeft(AppendAgent, <<>>, t) ELSE <<>>,
                     !.parameters = ps]
  BY <1>5, <1>8, <1>9
<1>11. /\ x.name = b.name /\ x.addresses = b.addresses /\ x.parameters = ps
       /\ x.resolvers = IF d > 0 THEN FoldLeft(AppendAgent, <<>>, t) ELSE <<>>
  BY <1>6, <1>10 DEF AgentField
<1>12. d # 0 => Entered(x, b, last, t)
  BY <1>7, <1>8, <1>11 DEF Entered
<1> QED BY <1>2, <1>4, <1>7, <1>9, <1>11, <1>12

\* What is read of an identifier whose parameters survive and whose resolvers
\* stay different when their own resolvers are left out.
KeptParams(b) == \A p \in Range(b.parameters) : LiteralKept(p.value)

ToldApart(a) ==
  \A i, j \in DOMAIN a.resolvers : i # j => ~ Flat(a.resolvers[i], a.resolvers[j])

LEMMA BuiltCopy ==
  ASSUME NEW a, AgentOK(a), KeptParams(a), \A r \in Range(a.resolvers) : KeptParams(r),
         ToldApart(a)
  PROVE  Copy(BuildAgentID(a), a)
<1>1. PICK m \in Nat : m = ResolverDepth /\ m >= 1
  BY BitefficientAssumption, DepthAssumption
<1>2. PICK g : Levels("built", a, a, m, m, g) /\ BuildAgentID(a) = g[m][a]
  BY <1>1, BuiltUnfolds
<1>3. PICK t : /\ g[m][a].name = a.name /\ g[m][a].addresses = a.addresses
               /\ g[m][a].parameters = [i \in DOMAIN a.parameters |-> ReadParam(a.parameters[i])]
               /\ g[m][a].resolvers = FoldLeft(AppendAgent, <<>>, t)
               /\ t = [i \in DOMAIN a.resolvers |-> g[m - 1][a.resolvers[i]]]
  <2>1. a \in Nested(a, 0) /\ 0 \in 0..m /\ m = m - 0
    BY <1>1, NestedSelf
  <2>2. m # 0
    BY <1>1
  <2>3. /\ g[m][a].name = a.name /\ g[m][a].addresses = a.addresses
        /\ g[m][a].parameters = [i \in DOMAIN a.parameters |-> ReadParam(a.parameters[i])]
    BY <1>1, <1>2, <2>1, BuiltLevel
  <2>4. \E t : Entered(g[m][a], a, g[m - 1], t)
    <3>1. PICK d : d = m
      OBVIOUS
    <3>2. d = m - 0 /\ d # 0
      BY <1>1, <2>2, <3>1
    <3>3. \E t : Entered(g[d][a], a, g[d - 1], t)
      BY <1>1, <1>2, <2>1, <3>2, BuiltLevel
    <3> QED BY <3>1, <3>3
  <2> QED BY <2>3, <2>4 DEF Entered
<1>4. /\ \A i \in DOMAIN a.resolvers : a.resolvers[i] \in Nested(a, 1) /\ Proper(a.resolvers[i])
      /\ Proper(a)
  BY ResolverNested
<1>5. g[m][a].parameters = a.parameters
  <2>1. PICK ps : ps = a.parameters
    OBVIOUS
  <2>2. ps \in Seq(Range(ps)) /\ Records(ps) /\ \A p \in Range(ps) : LiteralKept(p.value)
    BY <1>4, <2>1 DEF Proper, KeptParams
  <2>3. [i \in DOMAIN ps |-> ReadParam(ps[i])] = ps
    BY <2>2, ParamsRead
  <2> QED BY <1>3, <2>1, <2>3
<1>6. ASSUME NEW i \in DOMAIN a.resolvers
      PROVE  Alike(t[i], a.resolvers[i])
  <2>1. PICK r, d : r = a.resolvers[i] /\ d = m - 1
    OBVIOUS
  <2>2. r \in Nested(a, 1) /\ 1 \in 0..m /\ Proper(r) /\ KeptParams(r)
    BY <1>1, <1>4, <2>1 DEF Range
  <2>3. /\ g[d][r].name = r.name /\ g[d][r].addresses = r.addresses
        /\ g[d][r].parameters = [j \in DOMAIN r.parameters |-> ReadParam(r.parameters[j])]
    BY <1>2, <2>1, <2>2, BuiltLevel
  <2>4. PICK ps : ps = r.parameters
    OBVIOUS
  <2>5. ps \in Seq(Range(ps)) /\ Records(ps) /\ \A p \in Range(ps) : LiteralKept(p.value)
    BY <2>2, <2>4 DEF Proper, KeptParams
  <2>6. [j \in DOMAIN ps |-> ReadParam(ps[j])] = ps
    BY <2>5, ParamsRead
  <2>7. t[i] = g[d][r]
    BY <1>3, <2>1
  <2> QED BY <2>1, <2>3, <2>4, <2>6, <2>7 DEF Alike
<1>7. t \in Seq(Range(t))
  <2>1. a.resolvers \in Seq(Range(a.resolvers))
    BY <1>4 DEF Proper
  <2>2. Along(t, a.resolvers)
    BY <1>3 DEF Along
  <2> QED BY <2>1, <2>2, AlongAsLong
<1>8. DOMAIN t = DOMAIN a.resolvers
  BY <1>3
<1>9. NoDuplicates(t)
  <2>1. ASSUME NEW i \in DOMAIN t, NEW j \in DOMAIN t, i # j
        PROVE  ~ AgentEqual(t[i], t[j])
    <3>1. PICK x, y : x = t[i] /\ y = t[j]
      OBVIOUS
    <3>2. PICK u, v : u = a.resolvers[i] /\ v = a.resolvers[j]
      OBVIOUS
    <3>3. Alike(x, u) /\ Alike(y, v) /\ ~ Flat(u, v)
      BY <1>6, <1>8, <2>1, <3>1, <3>2 DEF ToldApart
    <3>4. ~ Flat(x, y)
      BY <3>3 DEF Flat, Alike
    <3>5. AgentEqual(x, y) => Flat(x, y)
      BY AgentEqualIs
    <3> QED BY <3>1, <3>4, <3>5
  <2> QED BY <2>1 DEF NoDuplicates
<1>10. g[m][a].resolvers = t
  BY <1>3, <1>7, <1>9, AppendedAll
<1>11. PICK x : x = BuildAgentID(a)
  OBVIOUS
<1>12. Alike(x, a) /\ x.resolvers = t
  BY <1>2, <1>3, <1>5, <1>10, <1>11 DEF Alike
<1> QED BY <1>6, <1>8, <1>11, <1>12 DEF Copy, Alike

\* So a portable identifier arrives in the bit-efficient representation.
LEMMA BitAgentArrives ==
  ASSUME NEW a, AgentOK(a), AgentPortable(a)
  PROVE  /\ AgentReadable(WrittenAgent(a, ResolverDepth))
         /\ AgentOK(BuildAgentID(WrittenAgent(a, ResolverDepth)))
         /\ Copy(BuildAgentID(WrittenAgent(a, ResolverDepth)), a)
<1>1. PICK w : w = WrittenAgent(a, ResolverDepth)
  OBVIOUS
<1>2. AgentOK(w)
  BY <1>1, WrittenOK, BitefficientAssumption
<1>3. Copy(w, a)
  BY <1>1, WrittenCopy
<1>4. AgentReadable(w)
  BY <1>1, WrittenReadable DEF AgentPortable
<1>5. KeptParams(w)
  BY <1>3 DEF AgentPortable, KeptParams, Copy
<1>6. \A i \in DOMAIN w.resolvers : i \in DOMAIN a.resolvers /\ Alike(w.resolvers[i], a.resolvers[i])
  BY <1>3 DEF Copy, Alike
<1>7. \A r \in Range(w.resolvers) : KeptParams(r)
  <2>1. ASSUME NEW i \in DOMAIN w.resolvers PROVE KeptParams(w.resolvers[i])
    <3>1. PICK r : r = a.resolvers[i] /\ r \in Range(a.resolvers)
      BY <1>6 DEF Range
    <3>2. w.resolvers[i].parameters = r.parameters
      BY <1>6, <3>1 DEF Alike
    <3> QED BY <3>1, <3>2 DEF AgentPortable, KeptParams
  <2> QED BY <2>1 DEF Range
<1>8. ToldApart(w)
  <2>1. ASSUME NEW i \in DOMAIN w.resolvers, NEW j \in DOMAIN w.resolvers, i # j
        PROVE  ~ Flat(w.resolvers[i], w.resolvers[j])
    <3>1. PICK u, v : u = a.resolvers[i] /\ v = a.resolvers[j]
      OBVIOUS
    <3>2. PICK x, y : x = w.resolvers[i] /\ y = w.resolvers[j]
      OBVIOUS
    <3>3. ~ Flat(u, v)
      BY <1>6, <2>1, <3>1, FlatIs DEF AgentPortable
    <3>4. Alike(x, u) /\ Alike(y, v)
      BY <1>6, <3>1, <3>2
    <3> QED BY <3>2, <3>3, <3>4 DEF Flat, Alike
  <2> QED BY <2>1 DEF ToldApart
<1>9. Copy(BuildAgentID(w), w) /\ AgentOK(BuildAgentID(w))
  BY <1>2, <1>5, <1>7, <1>8, BuiltCopy, BuiltOK
<1>10. Copy(BuildAgentID(w), a)
  BY <1>3, <1>9 DEF Copy
<1> QED BY <1>1, <1>4, <1>9, <1>10

\* Addresses none of which is empty are read as they were written.
LEMMA UrlsRead ==
  ASSUME NEW urls, urls \in Seq(Range(urls)), EmptyText \notin Range(urls)
  PROVE  ReadUrlSequence(urls) = urls
<1>1. PICK n \in Nat : n = Len(urls)
  OBVIOUS
<1>2. IsList(urls)
  BY ListOf
<1>3. PICK c : Chain("urls", <<>>, urls, n, c) /\ FoldLeft(ReadUrl, <<>>, urls) = c[n]
  BY <1>1, <1>2, FoldUrls
<1> DEFINE T == {k \in 0..n : c[k] = FirstOf(urls, k)}
<1>4. 0 \in T
  <2>1. c[0] = <<>>
    BY <1>1, <1>3, ChainStart
  <2>2. FirstOf(urls, 0) = <<>> /\ 0 \in 0..n
    BY <1>1 DEF FirstOf
  <2> QED BY <2>1, <2>2
<1>5. ASSUME NEW k \in 1..n, k - 1 \in T PROVE k \in T
  <2>1. c[k] = Step("urls", urls, c[k - 1], k)
    <3> HIDE DEF T
    <3> QED BY <1>1, <1>3, ChainAt
  <2>2. PICK j \in Nat : j = k - 1
    BY <1>1
  <2>3. c[k] = ReadUrl(FirstOf(urls, j), urls[k])
    BY <1>5, <2>1, <2>2 DEF Step
  <2>4. urls[k] # EmptyText
    BY <1>1 DEF Range
  <2>5. Append(FirstOf(urls, j), urls[k]) = FirstOf(urls, k)
    <3> HIDE DEF T
    <3> QED BY <1>1, <2>2, FirstNext
  <2>6. k \in 0..n
    BY <1>1
  <2> QED BY <2>3, <2>4, <2>5, <2>6 DEF ReadUrl
<1>6. n \in T
  <2> HIDE DEF T
  <2> QED BY <1>1, <1>4, <1>5, InductionTo
<1>7. FirstOf(urls, n) = urls
  BY <1>1 DEF FirstOf
<1> QED BY <1>3, <1>6, <1>7 DEF ReadUrlSequence

LEMMA ResolverRead ==
  ASSUME NEW a, Proper(a), a.parameters = <<>>, EmptyText \notin Range(a.addresses)
  PROVE  Alike(ReadResolver(a), a)
<1>1. PICK urls : urls = a.addresses
  OBVIOUS
<1>2. urls \in Seq(Checked)
  BY <1>1 DEF Proper
<1>3. urls \in Seq(Range(urls))
  BY <1>2, ListOf
<1>4. ReadUrlSequence(urls) = urls
  BY <1>1, <1>3, UrlsRead
<1> QED BY <1>1, <1>4 DEF ReadResolver, Alike

\* So a portable identifier arrives as text.
LEMMA TextAgentArrives ==
  ASSUME NEW a, AgentOK(a), AgentPortableAsText(a)
  PROVE  AgentOK(ReadAgentIdentifier(a)) /\ Copy(ReadAgentIdentifier(a), a)
<1>1. PICK x, t : x = ReadResolver(a) /\ t = [i \in DOMAIN a.resolvers |-> ReadResolver(a.resolvers[i])]
  OBVIOUS
<1>2. PICK r : r = ReadAgentIdentifier(a)
  OBVIOUS
<1>3. r = [x EXCEPT !.resolvers = t]
  BY <1>1, <1>2 DEF ReadAgentIdentifier
<1>4. DOMAIN x = AgentField
  BY <1>1 DEF ReadResolver, AgentField
<1>5. /\ \A i \in DOMAIN a.resolvers : Proper(a.resolvers[i])
      /\ Proper(a)
  BY ResolverNested
<1>6. Alike(x, a)
  BY <1>1, <1>5, ResolverRead DEF AgentPortableAsText
<1>7. Alike(r, a) /\ r.resolvers = t
  BY <1>3, <1>4, <1>6 DEF Alike, AgentField
<1>8. ASSUME NEW i \in DOMAIN a.resolvers PROVE Alike(t[i], a.resolvers[i])
  <2>1. PICK b : b = a.resolvers[i] /\ b \in Range(a.resolvers)
    BY DEF Range
  <2>2. Proper(b) /\ b.parameters = <<>> /\ EmptyText \notin Range(b.addresses)
    BY <1>5, <2>1 DEF AgentPortableAsText
  <2>3. Alike(ReadResolver(b), b)
    BY <2>2, ResolverRead
  <2> QED BY <1>1, <2>1, <2>3
<1>9. DOMAIN t = DOMAIN a.resolvers
  BY <1>1
<1>10. Copy(r, a)
  BY <1>7, <1>8, <1>9 DEF Copy, Alike
<1> QED BY <1>2, <1>10, ReadOK

-----------------------------------------------------------------------------
LEMMA ElementLevel ==
  ASSUME NEW a, AgentOK(a), NEW m \in Nat, NEW g, Levels("element", a, a, m, m, g),
         NEW k \in 0..m, NEW b \in Nested(a, k), NEW d, d = m - k
  PROVE  /\ g[d][b].name = b.name /\ g[d][b].addresses = b.addresses
         /\ g[d][b].parameters = GetUserdefinedParameters(b.parameters)
         /\ b.parameters = <<>> => Alike(g[d][b], b)
         /\ ResolversOf(g[d][b], b, g[d - 1], d)
<1>1. d \in 0..m /\ m - d = k /\ k \in Nat
  OBVIOUS
<1>2. PICK last : last = g[d - 1]
  OBVIOUS
<1>3. g[d] = ElementBelow(a, m, d, last)
  BY <1>1, <1>2 DEF Levels, Level
<1>4. PICK x : x = g[d][b]
  OBVIOUS
<1>5. x = [b EXCEPT
             !.resolvers  = IF d > 0 THEN [i \in DOMAIN @ |-> last[@[i]]] ELSE <<>>,
             !.parameters = GetUserdefinedParameters(@)]
  BY <1>1, <1>3, <1>4, Zenon DEF ElementBelow
<1>6. DOMAIN b = AgentField
  BY <1>1, NestedProper DEF Proper
<1>7. d > 0 <=> d # 0
  BY <1>1
<1>8. PICK t : t = [i \in DOMAIN b.resolvers |-> last[b.resolvers[i]]]
  OBVIOUS
<1>9. PICK ps : ps = GetUserdefinedParameters(b.parameters)
  OBVIOUS
<1>10. x = [b EXCEPT !.resolvers = IF d > 0 THEN t ELSE <<>>, !.parameters = ps]
  BY <1>5, <1>8, <1>9
<1>11. /\ x.name = b.name /\ x.addresses = b.addresses /\ x.parameters = ps
       /\ x.resolvers = IF d > 0 THEN t ELSE <<>>
  BY <1>6, <1>10 DEF AgentField
<1>12. b.parameters = <<>> => Alike(x, b)
  BY <1>9, <1>11 DEF GetUserdefinedParameters, Alike
<1>13. ResolversOf(x, b, last, d)
  BY <1>7, <1>8, <1>11 DEF ResolversOf
<1> QED BY <1>2, <1>4, <1>9, <1>11, <1>12, <1>13

LEMMA ElementNested ==
  ASSUME NEW a, AgentOK(a), NEW k \in 0..Nesting, NEW x \in Nested(GetAgentID(a), k)
  PROVE  \E b \in Nested(a, k) : x.name = b.name /\ x.addresses = b.addresses
<1>0. PICK m \in Nat : m = Nesting
  BY AgentIDAssumption
<1>1. PICK g : Levels("element", a, a, m, m, g) /\ GetAgentID(a) = g[m][a]
  BY <1>0, ElementUnfolds
<1> DEFINE L == [j \in 0..m |-> {g[m - j][b] : b \in Nested(a, j)}]
<1>2. g[m][a] \in L[0]
  <2>1. L[0] = {g[m - 0][b] : b \in Nested(a, 0)} /\ m - 0 = m
    BY <1>0
  <2> HIDE DEF L
  <2> QED BY <2>1, NestedSelf
<1>3. ASSUME NEW j \in 0..m, NEW y \in L[j], j # m
      PROVE  Range(y.resolvers) \subseteq L[j + 1]
  <2>1. PICK b \in Nested(a, j) : y = g[m - j][b]
    OBVIOUS
  <2>2. PICK d : d = m - j
    OBVIOUS
  <2>3. y.resolvers = [i \in DOMAIN b.resolvers |-> g[d - 1][b.resolvers[i]]]
    <3>1. ResolversOf(g[d][b], b, g[d - 1], d)
      <4> HIDE DEF L
      <4> QED BY <1>0, <1>1, <2>2, ElementLevel
    <3>2. d # 0
      BY <1>0, <1>3, <2>2
    <3> HIDE DEF L
    <3> QED BY <2>1, <2>2, <3>1, <3>2 DEF ResolversOf
  <2>4. Range(b.resolvers) \subseteq Nested(a, j + 1)
    <3>1. j \in Nat
      BY <1>0
    <3> HIDE DEF L
    <3> QED BY <2>1, <3>1, NestedBelow
  <2>5. j + 1 \in 0..m /\ m - (j + 1) = d - 1
    BY <1>0, <1>3, <2>2
  <2>6. L[j + 1] = {g[d - 1][c] : c \in Nested(a, j + 1)}
    BY <2>5
  <2> HIDE DEF L
  <2> QED BY <2>3, <2>4, <2>6 DEF Range
<1>4. PICK w : w = g[m][a]
  OBVIOUS
<1>5. Nested(w, k) \subseteq L[k]
  <2> HIDE DEF L
  <2> QED BY <1>0, <1>2, <1>3, <1>4, Layers
<1>6. PICK b \in Nested(a, k) : x = g[m - k][b]
  BY <1>0, <1>1, <1>4, <1>5
<1>7. g[m - k][b].name = b.name /\ g[m - k][b].addresses = b.addresses
  <2>1. PICK d : d = m - k
    OBVIOUS
  <2> HIDE DEF L
  <2> QED BY <1>0, <1>1, <1>6, <2>1, ElementLevel
<1> QED BY <1>6, <1>7

\* Elements without user-defined parameters.
Bare(a) == \A b \in {a} \cup Range(a.resolvers) : b.parameters = <<>>

LEMMA ElementCopy ==
  ASSUME NEW a, AgentOK(a), Bare(a)
  PROVE  Copy(GetAgentID(a), a)
<1>1. PICK m \in Nat : m = Nesting
  BY AgentIDAssumption
<1>2. PICK g : Levels("element", a, a, m, m, g) /\ GetAgentID(a) = g[m][a]
  BY <1>1, ElementUnfolds
<1>3. Alike(g[m][a], a) /\ ResolversOf(g[m][a], a, g[m - 1], m)
  <2>1. a \in Nested(a, 0) /\ 0 \in 0..m /\ m = m - 0
    BY <1>1, NestedSelf
  <2>2. a.parameters = <<>>
    BY DEF Bare
  <2> QED BY <1>1, <1>2, <2>1, <2>2, ElementLevel
<1>4. ASSUME NEW i \in DOMAIN a.resolvers, m # 0
      PROVE  Alike(g[m - 1][a.resolvers[i]], a.resolvers[i])
  <2>1. PICK r, d : r = a.resolvers[i] /\ d = m - 1
    OBVIOUS
  <2>2. r \in Nested(a, 1) /\ 1 \in 0..m
    BY <1>1, <1>4, <2>1, ResolverNested
  <2>3. r.parameters = <<>>
    BY <2>1 DEF Bare, Range
  <2>4. Alike(g[d][r], r)
    BY <1>1, <1>2, <2>1, <2>2, <2>3, ElementLevel
  <2> QED BY <2>1, <2>4
<1>5. m = 0 => a.resolvers = <<>>
  <2>1. a \in Nested(a, 0) /\ 0 \in 0..Nesting
    BY <1>1, NestedSelf
  <2> QED BY <1>1, <2>1, AgentNested
<1>6. PICK x : x = GetAgentID(a)
  OBVIOUS
<1>7. CASE m = 0
  <2>1. Alike(x, a) /\ x.resolvers = <<>> /\ a.resolvers = <<>>
    BY <1>2, <1>3, <1>5, <1>6, <1>7 DEF ResolversOf
  <2> QED BY <1>6, <2>1 DEF Copy, Alike
<1>8. CASE m # 0
  <2>1. Alike(x, a) /\ x.resolvers = [i \in DOMAIN a.resolvers |-> g[m - 1][a.resolvers[i]]]
    BY <1>2, <1>3, <1>6, <1>8 DEF ResolversOf
  <2> QED BY <1>4, <1>6, <1>8, <2>1 DEF Copy, Alike
<1> QED BY <1>7, <1>8

LEMMA NoneLabelled == FoldLeft(ParseLabelled, <<>>, <<>>) = <<>>
<1>1. PICK s : s = <<>>
  OBVIOUS
<1>2. IsList(s) /\ Len(s) = 0
  BY <1>1 DEF IsList
<1>3. PICK c : Chain("label", <<>>, s, 0, c) /\ FoldLeft(ParseLabelled, <<>>, s) = c[0]
  BY <1>2, FoldLabel
<1>4. c[0] = <<>>
  BY <1>3, ChainStart
<1> QED BY <1>1, <1>3, <1>4

ParsedFrom(x, b) ==
  /\ x.name = AsAttribute[b.name]
  /\ x.addresses = [i \in DOMAIN b.addresses |-> AsAttribute[b.addresses[i]]]
  /\ x.parameters = FoldLeft(ParseLabelled, <<>>, b.parameters)

LEMMA ParsedLevelIs ==
  ASSUME NEW a, NEW m \in Nat, NEW g, Levels("parsed", a, a, m, m, g),
         NEW k \in 0..m, NEW b \in Nested(a, k), NEW d, d = m - k
  PROVE  ParsedFrom(g[d][b], b) /\ ResolversOf(g[d][b], b, g[d - 1], d)
<1>1. d \in 0..m /\ m - d = k /\ k \in Nat
  OBVIOUS
<1>2. PICK last : last = g[d - 1]
  OBVIOUS
<1>3. g[d] = ParsedBelow(a, m, d, last)
  BY <1>1, <1>2 DEF Levels, Level
<1>4. PICK x : x = g[d][b]
  OBVIOUS
<1>5. PICK t : t = [i \in DOMAIN b.resolvers |-> last[b.resolvers[i]]]
  OBVIOUS
<1>6. PICK urls : urls = [i \in DOMAIN b.addresses |-> AsAttribute[b.addresses[i]]]
  OBVIOUS
<1>7. PICK ps : ps = FoldLeft(ParseLabelled, <<>>, b.parameters)
  OBVIOUS
<1>8. /\ x.name = AsAttribute[b.name] /\ x.addresses = urls /\ x.parameters = ps
      /\ x.resolvers = IF d > 0 THEN t ELSE <<>>
  <2>1. PICK y : y = [name |-> AsAttribute[b.name], addresses |-> urls,
                      resolvers |-> IF d > 0 THEN t ELSE <<>>, parameters |-> ps]
    OBVIOUS
  <2>2. b \in Nested(a, m - d)
    BY <1>1
  <2>3. g[d][b] = y
    BY <1>3, <1>5, <1>6, <1>7, <2>1, <2>2 DEF ParsedBelow
  <2> QED BY <1>4, <2>1, <2>3
<1>9. d > 0 <=> d # 0
  BY <1>1
<1>10. ResolversOf(x, b, last, d)
  BY <1>5, <1>8, <1>9 DEF ResolversOf
<1> QED BY <1>2, <1>4, <1>6, <1>7, <1>8, <1>10 DEF ParsedFrom

LEMMA ParsedLevel ==
  ASSUME NEW a, AgentOK(a), NEW m \in Nat, NEW g, Levels("parsed", a, a, m, m, g),
         NEW k \in 0..m, NEW b \in Nested(a, k), NEW d, d = m - k,
         b.parameters = <<>>, \A t \in {b.name} \cup Range(b.addresses) : AttributeKept(t)
  PROVE  Alike(g[d][b], b) /\ ResolversOf(g[d][b], b, g[d - 1], d)
<1>1. PICK x : x = g[d][b]
  OBVIOUS
<1>2. PICK urls : urls = [i \in DOMAIN b.addresses |-> AsAttribute[b.addresses[i]]]
  OBVIOUS
<1>3. /\ x.name = AsAttribute[b.name] /\ x.addresses = urls
      /\ x.parameters = FoldLeft(ParseLabelled, <<>>, b.parameters)
      /\ ResolversOf(x, b, g[d - 1], d)
  <2>1. ParsedFrom(x, b) /\ ResolversOf(g[d][b], b, g[d - 1], d)
    BY <1>1, ParsedLevelIs
  <2> QED BY <1>1, <1>2, <2>1 DEF ParsedFrom
<1>4. x.parameters = <<>>
  BY <1>3, NoneLabelled
<1>5. urls = b.addresses
  <2>1. b.addresses \in Seq(Checked)
    <3>1. k \in Nat
      OBVIOUS
    <3> QED BY <3>1, NestedProper DEF Proper
  <2>2. \A i \in DOMAIN b.addresses : AsAttribute[b.addresses[i]] = b.addresses[i]
    BY DEF AttributeKept, Range
  <2>3. b.addresses = [i \in DOMAIN b.addresses |-> b.addresses[i]]
    BY <2>1
  <2> QED BY <1>2, <2>2, <2>3
<1>6. AsAttribute[b.name] = b.name
  BY DEF AttributeKept
<1>7. Alike(x, b)
  BY <1>3, <1>4, <1>5, <1>6 DEF Alike
<1> QED BY <1>1, <1>3, <1>7

KeptAttributes(a) ==
  \A b \in {a} \cup Range(a.resolvers) :
    \A t \in {b.name} \cup Range(b.addresses) : AttributeKept(t)

LEMMA ParsedCopy ==
  ASSUME NEW a, AgentOK(a), Bare(a), KeptAttributes(a)
  PROVE  Copy(ParseAgentID(a), a)
<1>1. PICK m \in Nat : m = Nesting
  BY AgentIDAssumption
<1>2. PICK g : Levels("parsed", a, a, m, m, g) /\ ParseAgentID(a) = g[m][a]
  BY <1>1, ParsedUnfolds
<1>3. Alike(g[m][a], a) /\ ResolversOf(g[m][a], a, g[m - 1], m)
  <2>1. a \in Nested(a, 0) /\ 0 \in 0..m /\ m = m - 0
    BY <1>1, NestedSelf
  <2>2. a.parameters = <<>> /\ \A t \in {a.name} \cup Range(a.addresses) : AttributeKept(t)
    BY DEF Bare, KeptAttributes
  <2> QED BY <1>1, <1>2, <2>1, <2>2, ParsedLevel
<1>4. ASSUME NEW i \in DOMAIN a.resolvers, m # 0
      PROVE  Alike(g[m - 1][a.resolvers[i]], a.resolvers[i])
  <2>1. PICK r, d : r = a.resolvers[i] /\ d = m - 1
    OBVIOUS
  <2>2. r \in Nested(a, 1) /\ 1 \in 0..m
    BY <1>1, <1>4, <2>1, ResolverNested
  <2>3. r \in Range(a.resolvers)
    BY <2>1 DEF Range
  <2>4. r.parameters = <<>> /\ \A t \in {r.name} \cup Range(r.addresses) : AttributeKept(t)
    BY <2>3 DEF Bare, KeptAttributes
  <2>5. Alike(g[d][r], r)
    BY <1>1, <1>2, <2>1, <2>2, <2>4, ParsedLevel
  <2> QED BY <2>1, <2>5
<1>5. m = 0 => a.resolvers = <<>>
  <2>1. a \in Nested(a, 0) /\ 0 \in 0..Nesting
    BY <1>1, NestedSelf
  <2> QED BY <1>1, <2>1, AgentNested
<1>6. PICK x : x = ParseAgentID(a)
  OBVIOUS
<1>7. CASE m = 0
  <2>1. Alike(x, a) /\ x.resolvers = <<>> /\ a.resolvers = <<>>
    BY <1>2, <1>3, <1>5, <1>6, <1>7 DEF ResolversOf
  <2> QED BY <1>6, <2>1 DEF Copy, Alike
<1>8. CASE m # 0
  <2>1. Alike(x, a) /\ x.resolvers = [i \in DOMAIN a.resolvers |-> g[m - 1][a.resolvers[i]]]
    BY <1>2, <1>3, <1>6, <1>8 DEF ResolversOf
  <2> QED BY <1>4, <1>6, <1>8, <2>1 DEF Copy, Alike
<1> QED BY <1>7, <1>8

\* What is nested in an identifier is nested in one of its resolvers, unless
\* it is the identifier itself.
LEMMA NestedInResolvers ==
  ASSUME NEW a, NEW n \in Nat, NEW k \in 0..n, NEW b \in Nested(a, k), k # 0
  PROVE  \E r \in Range(a.resolvers) : b \in Nested(r, k - 1)
<1> DEFINE L == [j \in 0..n |-> IF j = 0 THEN {a} ELSE UNION {Nested(r, j - 1) : r \in Range(a.resolvers)}]
<1>1. a \in L[0]
  OBVIOUS
<1>2. ASSUME NEW j \in 0..n, NEW y \in L[j], j # n
      PROVE  Range(y.resolvers) \subseteq L[j + 1]
  <2>1. j + 1 \in 0..n /\ j + 1 # 0 /\ (j + 1) - 1 = j /\ j \in Nat
    BY <1>2
  <2>2. L[j + 1] = UNION {Nested(r, j) : r \in Range(a.resolvers)}
    BY <2>1
  <2>3. CASE j = 0
    <3>1. y = a
      BY <2>3
    <3>2. \A r \in Range(a.resolvers) : r \in Nested(r, 0)
      BY NestedSelf
    <3> HIDE DEF L
    <3> QED BY <2>2, <2>3, <3>1, <3>2
  <2>4. CASE j # 0
    <3>1. PICK r \in Range(a.resolvers) : y \in Nested(r, j - 1)
      BY <2>4
    <3>2. PICK i \in Nat : i = j - 1 /\ i + 1 = j
      BY <2>1, <2>4
    <3>3. Range(y.resolvers) \subseteq Nested(r, i + 1)
      <4> HIDE DEF L
      <4> QED BY <3>1, <3>2, NestedBelow
    <3> HIDE DEF L
    <3> QED BY <2>2, <3>2, <3>3
  <2> QED BY <2>3, <2>4
<1>3. Nested(a, k) \subseteq L[k]
  <2> HIDE DEF L
  <2> QED BY <1>1, <1>2, Layers
<1> QED BY <1>3

\* So a portable identifier arrives in XML.
LEMMA XMLAgentArrives ==
  ASSUME NEW a, AgentOK(a), AgentPortableInXML(a)
  PROVE  /\ XMLAgentReadable(GetAgentID(a))
         /\ AgentOK(ParseAgentID(GetAgentID(a)))
         /\ Copy(ParseAgentID(GetAgentID(a)), a)
<1>1. PICK e : e = GetAgentID(a)
  OBVIOUS
<1>2. AgentOK(e)
  BY <1>1, ElementOK
<1>3. Bare(a) /\ KeptAttributes(a)
  BY DEF AgentPortableInXML, Bare, KeptAttributes
<1>4. Copy(e, a)
  BY <1>1, <1>3, ElementCopy
<1>5. DOMAIN e.resolvers = DOMAIN a.resolvers /\ Alike(e, a)
      /\ \A i \in DOMAIN a.resolvers : Alike(e.resolvers[i], a.resolvers[i])
  BY <1>4 DEF Copy, Alike
<1>6. \A b \in Range(e.resolvers) : \E r \in Range(a.resolvers) : Alike(b, r)
  BY <1>5 DEF Range
<1>7. Bare(e)
  BY <1>3, <1>5, <1>6 DEF Bare, Alike
<1>8. KeptAttributes(e)
  BY <1>3, <1>5, <1>6 DEF KeptAttributes, Alike
<1>9. Copy(ParseAgentID(e), a)
  <2>1. Copy(ParseAgentID(e), e)
    BY <1>2, <1>7, <1>8, ParsedCopy
  <2> QED BY <1>4, <2>1 DEF Copy
<1>10. ASSUME NEW k \in 0..Nesting, NEW b \in Nested(a, k), NEW text \in {b.name} \cup Range(b.addresses)
       PROVE  AsAttribute[text] \in Checked
  <2>1. CASE k = 0
    <3>1. b = a
      BY <2>1, NestedSelf
    <3>2. AsAttribute[text] = text
      BY <1>3, <3>1 DEF KeptAttributes, AttributeKept
    <3>3. a.name \in Checked /\ a.addresses \in Seq(Checked)
      BY AgentProper DEF Proper
    <3>4. Range(a.addresses) \subseteq Checked
      BY <3>3, ListOf
    <3> QED BY <3>1, <3>2, <3>3, <3>4
  <2>2. CASE k # 0
    <3>1. PICK r \in Range(a.resolvers) : b \in Nested(r, k - 1)
      BY <2>2, AgentIDAssumption, NestedInResolvers
    <3>2. XMLAgentReadable(r)
      BY <3>1 DEF AgentPortableInXML
    <3>3. k - 1 \in 0..Nesting
      BY <2>2, AgentIDAssumption
    <3> QED BY <3>1, <3>2, <3>3 DEF XMLAgentReadable
  <2> QED BY <2>1, <2>2
<1>11. XMLAgentReadable(e)
  <2>1. ASSUME NEW k \in 0..Nesting, NEW x \in Nested(e, k), NEW text \in {x.name} \cup Range(x.addresses)
        PROVE  AsAttribute[text] \in Checked
    <3>1. PICK b \in Nested(a, k) : x.name = b.name /\ x.addresses = b.addresses
      BY <1>1, <2>1, ElementNested
    <3> QED BY <1>10, <3>1
  <2> QED BY <2>1 DEF XMLAgentReadable
<1>12. AgentOK(ParseAgentID(e))
  BY <1>2, <1>11, ParsedOK
<1> QED BY <1>1, <1>9, <1>11, <1>12

-----------------------------------------------------------------------------
(***************************************************************************)
(* Messages on the way                                                     *)
(***************************************************************************)
\* The fields in which two messages have to agree, apart from the
\* performative and the parameters, and what agreeing means.
Own == {"sender", "receivers", "replyTo", "content", "protocol", "replyBy"}
Field == TextField \cup Own

Value(n, f) == IF f \in TextField THEN n.texts[f] ELSE n[f]

Agree(f, v, w) ==
  CASE f = "sender"                   -> AgentEqual(v, w)
    [] f \in {"receivers", "replyTo"} -> SameAgents(v, w)
    [] OTHER                          -> v = w

Right(n, f, m) == Agree(f, Value(n, f), Value(m, f))

\* The reader's message while the items of another one are entered: every
\* field is still that of a new message or right already.
Carried(n, m) ==
  /\ MessageOK(n)
  /\ n.performative = m.performative
  /\ \A f \in Field : Value(n, f) = Value(NewMessage, f) \/ Right(n, f, m)
  /\ IsInjective(n.parameters) /\ Range(n.parameters) \subseteq Range(m.parameters)

\* No item undoes what another one brought.
Onward(x, y, m) ==
  /\ Carried(y, m)
  /\ \A f \in Field : Right(x, f, m) => Right(y, f, m)
  /\ Range(x.parameters) \subseteq Range(y.parameters)

\* What an item is to bring: a field or a parameter.
IsAspect(u) == u[1] = "parameter" \/ (u[1] = "field" /\ u[2] \in Field)

Got(y, u, m) ==
  /\ u[1] = "field"     => Right(y, u[2], m)
  /\ u[1] = "parameter" => u[2] \in Range(y.parameters)

LEMMA FieldBrought ==
  ASSUME NEW m, NEW x, Carried(x, m), NEW f \in Field, NEW y, MessageOK(y),
         y.performative = x.performative, y.parameters = x.parameters,
         \A g \in Field : g # f => Value(y, g) = Value(x, g),
         Right(y, f, m)
  PROVE  Onward(x, y, m)
<1>1. \A g \in Field : g # f => (Right(y, g, m) <=> Right(x, g, m))
  BY DEF Right
<1>2. \A g \in Field : Value(y, g) = Value(NewMessage, g) \/ Right(y, g, m)
  <2>1. \A g \in Field : Value(x, g) = Value(NewMessage, g) \/ Right(x, g, m)
    BY DEF Carried
  <2> QED BY <1>1, <2>1
<1>3. Carried(y, m)
  BY <1>2 DEF Carried
<1> QED BY <1>1, <1>3 DEF Onward

\* One field is stored and the others are kept (FieldSet, of a named step).
Stored(n, m, f, v) == n = [m EXCEPT ![f] = v]

LEMMA FieldStored ==
  ASSUME NEW m, MessageOK(m), NEW f \in DOMAIN NewMessage, NEW v, FieldOK(f, v),
         NEW n, Stored(n, m, f, v)
  PROVE  /\ MessageOK(n) /\ n[f] = v
         /\ \A g \in DOMAIN NewMessage : g # f => n[g] = m[g]
<1>1. DOMAIN m = DOMAIN NewMessage
  BY MessageParts
<1>2. /\ DOMAIN n = DOMAIN m /\ n[f] = v
      /\ \A g \in DOMAIN NewMessage : g # f => n[g] = m[g]
  BY <1>1 DEF Stored
<1>3. \A g \in DOMAIN NewMessage : FieldOK(g, n[g])
  <2>1. \A g \in DOMAIN NewMessage : FieldOK(g, m[g])
    BY MessageParts, MessageField DEF FieldOK
  <2> QED BY <1>2, <2>1
<1>4. MessageOK(n)
  BY <1>1, <1>2, <1>3, MessageParts, MessageField DEF FieldOK
<1> QED BY <1>2, <1>4

\* A field other than a text is set.
LEMMA OwnBrought ==
  ASSUME NEW m, NEW x, Carried(x, m), NEW f \in Own, NEW v, FieldOK(f, v), Agree(f, v, m[f]),
         NEW y, Stored(y, x, f, v)
  PROVE  Onward(x, y, m) /\ Right(y, f, m)
<1>1. MessageOK(x) /\ f \in DOMAIN NewMessage
  BY MessageField DEF Carried, Own
<1>2. MessageOK(y) /\ y[f] = v /\ \A g \in DOMAIN NewMessage : g # f => y[g] = x[g]
  BY <1>1, FieldStored
<1>3. y.performative = x.performative /\ y.parameters = x.parameters /\ y.texts = x.texts
  BY <1>2, MessageField DEF Own
<1>4. \A g \in Field : g # f => Value(y, g) = Value(x, g)
  <2>1. \A g \in Field : g \in TextField \/ g \in DOMAIN NewMessage
    BY MessageField DEF Field, Own
  <2> QED BY <1>2, <1>3, <2>1 DEF Value
<1>5. Value(y, f) = v /\ Value(m, f) = m[f]
  BY <1>2 DEF Value, Own, TextField
<1>6. Right(y, f, m) /\ f \in Field
  BY <1>5 DEF Right, Field
<1> QED BY <1>2, <1>3, <1>4, <1>6, FieldBrought

LEMMA SenderBrought ==
  ASSUME NEW m, NEW x, Carried(x, m), NEW v, AgentOK(v), AgentEqual(v, m.sender),
         NEW y, y = [x EXCEPT !.sender = v]
  PROVE  Onward(x, y, m) /\ Right(y, "sender", m)
<1>1. Stored(y, x, "sender", v) /\ FieldOK("sender", v) /\ "sender" \in Own
  BY DEF Stored, FieldOK, Own
<1>2. Agree("sender", v, m["sender"])
  BY DEF Agree
<1> QED BY <1>1, <1>2, OwnBrought

LEMMA ReceiversBrought ==
  ASSUME NEW m, NEW x, Carried(x, m), NEW v, AgentList(v), SameAgents(v, m.receivers),
         NEW y, y = [x EXCEPT !.receivers = v]
  PROVE  Onward(x, y, m) /\ Right(y, "receivers", m)
<1>1. Stored(y, x, "receivers", v) /\ FieldOK("receivers", v) /\ "receivers" \in Own
  BY DEF Stored, FieldOK, Own
<1>2. Agree("receivers", v, m["receivers"])
  BY DEF Agree
<1> QED BY <1>1, <1>2, OwnBrought

LEMMA ReplyToBrought ==
  ASSUME NEW m, NEW x, Carried(x, m), NEW v, AgentList(v), SameAgents(v, m.replyTo),
         NEW y, y = [x EXCEPT !.replyTo = v]
  PROVE  Onward(x, y, m) /\ Right(y, "replyTo", m)
<1>1. Stored(y, x, "replyTo", v) /\ FieldOK("replyTo", v) /\ "replyTo" \in Own
  BY DEF Stored, FieldOK, Own
<1>2. Agree("replyTo", v, m["replyTo"])
  BY DEF Agree
<1> QED BY <1>1, <1>2, OwnBrought

LEMMA ContentBrought ==
  ASSUME NEW m, MessageOK(m), NEW x, Carried(x, m), NEW y, y = [x EXCEPT !.content = m.content]
  PROVE  Onward(x, y, m) /\ Right(y, "content", m)
<1>1. PICK v : v = m.content /\ v \in Content
  BY MessageParts
<1>2. Stored(y, x, "content", v) /\ FieldOK("content", v) /\ "content" \in Own
  BY <1>1 DEF Stored, FieldOK, Own
<1>3. Agree("content", v, m["content"])
  BY <1>1 DEF Agree
<1> QED BY <1>2, <1>3, OwnBrought

LEMMA ReplyByBrought ==
  ASSUME NEW m, MessageOK(m), NEW x, Carried(x, m), NEW y, y = [x EXCEPT !.replyBy = m.replyBy]
  PROVE  Onward(x, y, m) /\ Right(y, "replyBy", m)
<1>1. PICK v : v = m.replyBy /\ v \in Time
  BY MessageParts
<1>2. Stored(y, x, "replyBy", v) /\ FieldOK("replyBy", v) /\ "replyBy" \in Own
  BY <1>1 DEF Stored, FieldOK, Own
<1>3. Agree("replyBy", v, m["replyBy"])
  BY <1>1 DEF Agree
<1> QED BY <1>2, <1>3, OwnBrought

LEMMA ProtocolBrought ==
  ASSUME NEW m, MessageOK(m), NEW x, Carried(x, m), NEW y, y = SetProtocol(x, m.protocol)
  PROVE  Onward(x, y, m) /\ Right(y, "protocol", m)
<1>1. PICK v : v = m.protocol /\ v \in Checked
  BY MessageParts
<1>2. y = [x EXCEPT !.protocol = v]
  BY <1>1 DEF SetProtocol
<1>3. Stored(y, x, "protocol", v) /\ FieldOK("protocol", v) /\ "protocol" \in Own
  BY <1>1, <1>2 DEF Stored, FieldOK, Own
<1>4. Agree("protocol", v, m["protocol"])
  BY <1>1 DEF Agree
<1> QED BY <1>3, <1>4, OwnBrought

LEMMA TextStored ==
  ASSUME NEW m, NEW x, Carried(x, m), NEW f \in TextField, NEW w, FieldOK("texts", w),
         w[f] = m.texts[f], \A g \in TextField : g # f => w[g] = x.texts[g],
         NEW y, Stored(y, x, "texts", w)
  PROVE  Onward(x, y, m) /\ Right(y, f, m)
<1>1. MessageOK(x) /\ "texts" \in DOMAIN NewMessage
  BY MessageField DEF Carried
<1>2. MessageOK(y) /\ y["texts"] = w /\ \A g \in DOMAIN NewMessage : g # "texts" => y[g] = x[g]
  BY <1>1, FieldStored
<1>3. y.performative = x.performative /\ y.parameters = x.parameters
  BY <1>2, MessageField
<1>4. \A g \in Field : g # f => Value(y, g) = Value(x, g)
  <2>1. \A g \in Own : g \notin TextField /\ g \in DOMAIN NewMessage /\ g # "texts"
    BY MessageField DEF Own, TextField
  <2>2. \A g \in TextField : g # f => Value(y, g) = Value(x, g)
    BY <1>2 DEF Value
  <2>3. \A g \in Own : Value(y, g) = Value(x, g)
    BY <1>2, <2>1 DEF Value
  <2> QED BY <2>2, <2>3 DEF Field
<1>5. Right(y, f, m) /\ f \in Field
  BY <1>2 DEF Right, Value, Agree, Field, TextField
<1> QED BY <1>2, <1>3, <1>4, <1>5, FieldBrought

LEMMA TextBrought ==
  ASSUME NEW m, NEW x, Carried(x, m), NEW f \in TextField, NEW y,
         y = [x EXCEPT !.texts[f] = m.texts[f]]
  PROVE  Onward(x, y, m) /\ Right(y, f, m)
<1>1. x.texts = [g \in TextField |-> x.texts[g]]
  BY MessageParts DEF Carried
<1>2. PICK w : w = [x.texts EXCEPT ![f] = m.texts[f]]
  OBVIOUS
<1>3. w[f] = m.texts[f] /\ \A g \in TextField : g # f => w[g] = x.texts[g]
  BY <1>1, <1>2
<1>4. Stored(y, x, "texts", w) /\ FieldOK("texts", w)
  BY <1>1, <1>2 DEF Stored, FieldOK
<1> QED BY <1>3, <1>4, TextStored

LEMMA ParameterBrought ==
  ASSUME NEW m, MessageOK(m), NEW x, Carried(x, m), NEW p \in Range(m.parameters),
         NEW y, y = AddUserdefParam(x, p)
  PROVE  Onward(x, y, m) /\ p \in Range(y.parameters)
<1>0. MessageOK(x) /\ IsParam(p)
  BY MessageParts DEF Carried
<1>1. CASE p \in Range(x.parameters)
  BY <1>1 DEF AddUserdefParam, Onward
<1>2. CASE p \notin Range(x.parameters)
  <2>1. PICK s, v : s = x.parameters /\ v = <<p>> \o s
    OBVIOUS
  <2>2. Stored(y, x, "parameters", v)
    BY <1>2, <2>1 DEF AddUserdefParam, Stored
  <2>3. s \in Seq(Range(s)) /\ \A q \in Range(s) : IsParam(q)
    BY <1>0, <2>1, MessageParts
  <2>4. v \in Seq(Range(s) \cup {p})
    BY <2>1, <2>3
  <2>5. v \in Seq(Range(v)) /\ Range(v) \subseteq Range(s) \cup {p}
    BY <2>4, ListOf
  <2>6. Len(v) = Len(s) + 1 /\ Len(s) \in Nat /\ v[1] = p /\ \A i \in 1..Len(s) : v[i + 1] = s[i]
    BY <2>1, <2>3
  <2>7. DOMAIN v = 1..Len(v) /\ DOMAIN s = 1..Len(s)
    BY <2>3, <2>5
  <2>8. Range(s) \subseteq Range(v) /\ p \in Range(v)
    <3>1. 1 \in DOMAIN v /\ \A i \in DOMAIN s : i + 1 \in DOMAIN v
      BY <2>6, <2>7
    <3>2. p \in Range(v)
      BY <2>6, <3>1 DEF Range
    <3>3. \A i \in DOMAIN s : s[i] \in Range(v)
      BY <2>6, <2>7, <3>1 DEF Range
    <3> QED BY <3>2, <3>3 DEF Range
  <2>9. IsInjective(v)
    <3>1. IsInjective(s)
      BY <2>1 DEF Carried
    <3>2. ASSUME NEW i \in DOMAIN v, NEW j \in DOMAIN v, v[i] = v[j]
          PROVE  i = j
      <4>1. \A k \in DOMAIN v : k = 1 \/ (k - 1 \in DOMAIN s /\ v[k] = s[k - 1])
        <5>1. ASSUME NEW k \in DOMAIN v, k # 1 PROVE k - 1 \in DOMAIN s /\ v[k] = s[k - 1]
          <6>1. PICK l : l = k - 1
            OBVIOUS
          <6>2. l \in 1..Len(s) /\ l + 1 = k
            BY <2>6, <2>7, <5>1, <6>1
          <6>3. v[l + 1] = s[l]
            BY <2>6, <6>2
          <6>4. l \in DOMAIN s /\ v[k] = s[l]
            BY <2>7, <6>2, <6>3
          <6> QED BY <6>1, <6>4
        <5> QED BY <5>1
      <4>2. \A k \in DOMAIN s : s[k] # p
        BY <1>2, <2>1 DEF Range
      <4>3. CASE i = 1 \/ j = 1
        BY <2>6, <3>2, <4>1, <4>2, <4>3
      <4>4. CASE i # 1 /\ j # 1
        <5>1. /\ i - 1 \in DOMAIN s /\ v[i] = s[i - 1]
              /\ j - 1 \in DOMAIN s /\ v[j] = s[j - 1]
          BY <4>1, <4>4
        <5>2. i - 1 = j - 1
          BY <3>1, <3>2, <5>1 DEF IsInjective
        <5> QED BY <2>6, <2>7, <5>2
      <4> QED BY <4>3, <4>4
    <3> QED BY <3>2 DEF IsInjective
  <2>10. FieldOK("parameters", v) /\ "parameters" \in DOMAIN NewMessage
    BY <1>0, <2>3, <2>5, MessageField DEF FieldOK
  <2>11. /\ MessageOK(y) /\ y["parameters"] = v
         /\ \A g \in DOMAIN NewMessage : g # "parameters" => y[g] = x[g]
    BY <1>0, <2>2, <2>10, FieldStored
  <2>12. y.performative = x.performative /\ y.texts = x.texts
    BY <2>11, MessageField
  <2>13. \A g \in Field : Value(y, g) = Value(x, g)
    <3>1. \A g \in Own : g \notin TextField /\ g \in DOMAIN NewMessage /\ g # "parameters"
      BY MessageField DEF Own, TextField
    <3>2. \A g \in TextField : Value(y, g) = Value(x, g)
      BY <2>12 DEF Value
    <3>3. \A g \in Own : Value(y, g) = Value(x, g)
      BY <2>11, <3>1 DEF Value
    <3> QED BY <3>2, <3>3 DEF Field
  <2>14. \A g \in Field : Right(y, g, m) <=> Right(x, g, m)
    BY <2>13 DEF Right
  <2>15. \A g \in Field : Value(y, g) = Value(NewMessage, g) \/ Right(y, g, m)
    <3>1. \A g \in Field : Value(x, g) = Value(NewMessage, g) \/ Right(x, g, m)
      BY DEF Carried
    <3> QED BY <2>13, <2>14, <3>1
  <2>16. Range(v) \subseteq Range(m.parameters)
    BY <2>1, <2>5 DEF Carried
  <2>17. Carried(y, m)
    BY <2>9, <2>11, <2>12, <2>15, <2>16 DEF Carried
  <2> QED BY <2>1, <2>8, <2>11, <2>14, <2>17 DEF Onward
<1> QED BY <1>1, <1>2

LEMMA BitListArrives ==
  ASSUME NEW ag, AgentList(ag), \A a \in Range(ag) : AgentPortable(a),
         NEW ws, ws = WrittenAgents(ag), NEW bs, bs = BuildAgentIDs(ws)
  PROVE  (\A e \in Range(ws) : AgentReadable(e)) /\ AgentList(bs) /\ Copies(bs, ag)
<1>1. DOMAIN ws = DOMAIN ag /\ \A i \in DOMAIN ag : ws[i] = WrittenAgent(ag[i], ResolverDepth)
  BY DEF WrittenAgents
<1>2. DOMAIN bs = DOMAIN ag /\ \A i \in DOMAIN ag : bs[i] = BuildAgentID(ws[i])
  BY <1>1 DEF BuildAgentIDs
<1>3. \A i \in DOMAIN ag : AgentOK(ag[i]) /\ AgentPortable(ag[i])
  BY DEF AgentList, Range
<1>4. \A i \in DOMAIN ag : AgentReadable(ws[i]) /\ Copy(bs[i], ag[i])
  BY <1>1, <1>2, <1>3, BitAgentArrives
<1>5. AgentList(bs)
  BY BitAgents
<1>6. \A e \in Range(ws) : AgentReadable(e)
  BY <1>1, <1>4 DEF Range
<1> QED BY <1>2, <1>4, <1>5, <1>6 DEF Copies

LEMMA TextListArrives ==
  ASSUME NEW ag, AgentList(ag), \A a \in Range(ag) : AgentPortableAsText(a),
         NEW bs, bs = ReadAgentIdentifierSet(ag)
  PROVE  AgentList(bs) /\ Copies(bs, ag)
<1>1. DOMAIN bs = DOMAIN ag /\ \A i \in DOMAIN ag : bs[i] = ReadAgentIdentifier(ag[i])
  BY DEF ReadAgentIdentifierSet
<1>2. \A i \in DOMAIN ag : AgentOK(ag[i]) /\ AgentPortableAsText(ag[i])
  BY DEF AgentList, Range
<1>3. \A i \in DOMAIN ag : Copy(bs[i], ag[i])
  BY <1>1, <1>2, TextAgentArrives
<1>4. AgentList(bs)
  BY TextAgents
<1> QED BY <1>1, <1>3, <1>4 DEF Copies

LEMMA XMLListArrives ==
  ASSUME NEW ag, AgentList(ag), \A a \in Range(ag) : AgentPortableInXML(a),
         NEW es, es = GetAgentIDSequence(ag), NEW bs, bs = ParseAgentIDSequence(es)
  PROVE  (\A e \in Range(es) : XMLAgentReadable(e)) /\ AgentList(bs) /\ Copies(bs, ag)
<1>1. DOMAIN es = DOMAIN ag /\ \A i \in DOMAIN ag : es[i] = GetAgentID(ag[i])
  BY DEF GetAgentIDSequence
<1>2. DOMAIN bs = DOMAIN ag /\ \A i \in DOMAIN ag : bs[i] = ParseAgentID(es[i])
  BY <1>1 DEF ParseAgentIDSequence
<1>3. \A i \in DOMAIN ag : AgentOK(ag[i]) /\ AgentPortableInXML(ag[i])
  BY DEF AgentList, Range
<1>4. \A i \in DOMAIN ag : XMLAgentReadable(es[i]) /\ Copy(bs[i], ag[i])
  BY <1>1, <1>2, <1>3, XMLAgentArrives
<1>5. \A e \in Range(es) : XMLAgentReadable(e)
  BY <1>1, <1>4 DEF Range
<1>6. AgentList(bs)
  BY <1>5, XMLAgents
<1> QED BY <1>2, <1>4, <1>5, <1>6 DEF Copies

\* The lists to which agents are added, wherever the reader finds them.
LEMMA ReceiversAdded ==
  ASSUME NEW m, MessageOK(m), NoDuplicates(m.receivers), NEW x, Carried(x, m),
         NEW bs, AgentList(bs), Copies(bs, m.receivers), NEW y, y = AddReceivers(x, bs)
  PROVE  Onward(x, y, m) /\ Right(y, "receivers", m)
<1>1. PICK s, t, v : s = x.receivers /\ t = m.receivers /\ v = FoldLeft(PrependAgent, s, bs)
  OBVIOUS
<1>2. AgentList(s) /\ AgentList(t)
  BY <1>1, MessageParts DEF Carried
<1>3. s = <<>> \/ SameAgents(s, t)
  <2>1. "receivers" \in Field /\ "receivers" \notin TextField
    BY DEF Field, Own, TextField
  <2>2. Value(x, "receivers") = s /\ Value(m, "receivers") = t /\ Value(NewMessage, "receivers") = <<>>
    BY <1>1, <2>1 DEF Value, NewMessage
  <2>3. Value(x, "receivers") = Value(NewMessage, "receivers") \/ Right(x, "receivers", m)
    BY <2>1 DEF Carried
  <2> QED BY <2>2, <2>3 DEF Right, Agree
<1>4. SameAgents(v, t)
  BY <1>1, <1>2, <1>3, ListArrives
<1>5. AgentList(v)
  BY <1>1, <1>2, AddedList
<1>6. y = [x EXCEPT !.receivers = v]
  BY <1>1 DEF AddReceivers
<1> QED BY <1>1, <1>4, <1>5, <1>6, ReceiversBrought

LEMMA ReplyTosAdded ==
  ASSUME NEW m, MessageOK(m), NoDuplicates(m.replyTo), NEW x, Carried(x, m),
         NEW bs, AgentList(bs), Copies(bs, m.replyTo), NEW y, y = AddReplyTos(x, bs)
  PROVE  Onward(x, y, m) /\ Right(y, "replyTo", m)
<1>1. PICK s, t, v : s = x.replyTo /\ t = m.replyTo /\ v = FoldLeft(PrependAgent, s, bs)
  OBVIOUS
<1>2. AgentList(s) /\ AgentList(t)
  BY <1>1, MessageParts DEF Carried
<1>3. s = <<>> \/ SameAgents(s, t)
  <2>1. "replyTo" \in Field /\ "replyTo" \notin TextField
    BY DEF Field, Own, TextField
  <2>2. Value(x, "replyTo") = s /\ Value(m, "replyTo") = t /\ Value(NewMessage, "replyTo") = <<>>
    BY <1>1, <2>1 DEF Value, NewMessage
  <2>3. Value(x, "replyTo") = Value(NewMessage, "replyTo") \/ Right(x, "replyTo", m)
    BY <2>1 DEF Carried
  <2> QED BY <2>2, <2>3 DEF Right, Agree
<1>4. SameAgents(v, t)
  BY <1>1, <1>2, <1>3, ListArrives
<1>5. AgentList(v)
  BY <1>1, <1>2, AddedList
<1>6. y = [x EXCEPT !.replyTo = v]
  BY <1>1 DEF AddReplyTos
<1> QED BY <1>1, <1>4, <1>5, <1>6, ReplyToBrought

\* Lists that are set as a whole, and the sender.
LEMMA ListCopied ==
  ASSUME NEW t, AgentList(t), NEW bs, AgentList(bs), Copies(bs, t)
  PROVE  SameAgents(bs, t)
<1>1. AgentList(bs) /\ AgentList(t) /\ Copies(bs, t)
  OBVIOUS
<1> QED BY <1>1, ListArrives

LEMMA FirstCarried ==
  ASSUME NEW m, MessageOK(m), NEW n, n = SetPerformative(NewMessage, m.performative)
  PROVE  Carried(n, m)
<1>1. m.performative \in Checked
  BY MessageParts
<1>2. n = [NewMessage EXCEPT !.performative = m.performative]
  BY <1>1 DEF SetPerformative
<1>3. MessageOK(n)
  BY NewOK, PerformativeSet
<1>4. n.performative = m.performative /\ n.parameters = <<>> /\ n.texts = NewMessage.texts
  BY <1>2 DEF NewMessage
<1>5. \A f \in Field : Value(n, f) = Value(NewMessage, f)
  <2>1. \A f \in Own : n[f] = NewMessage[f]
    BY <1>2 DEF Own, NewMessage
  <2> QED BY <1>4, <2>1 DEF Value, Field
<1>6. IsInjective(n.parameters) /\ Range(n.parameters) = {}
  BY <1>4 DEF IsInjective, Range
<1> QED BY <1>3, <1>4, <1>5, <1>6 DEF Carried

\* The identifiers of the reader's message are those that were sent, as the
\* representation passes them on.
Made(representation, b, a) ==
  CASE representation = "BITEFFICIENT" -> b = BuildAgentID(WrittenAgent(a, ResolverDepth))
    [] representation = "STRING_REP"   -> b = ReadAgentIdentifier(a)
    [] representation = "XML"          -> b = ParseAgentID(GetAgentID(a))

AllMade(representation, s, t) ==
  \A b \in Range(s) : \E a \in Range(t) : Made(representation, b, a)

Taken(representation, n, m) ==
  /\ n.sender = UndefinedAgent \/ Made(representation, n.sender, m.sender)
  /\ AllMade(representation, n.receivers, m.receivers)
  /\ AllMade(representation, n.replyTo, m.replyTo)

LEMMA FirstTaken ==
  ASSUME NEW m, MessageOK(m), NEW n, n = SetPerformative(NewMessage, m.performative),
         NEW representation
  PROVE  Taken(representation, n, m)
<1>1. n = [NewMessage EXCEPT !.performative = m.performative]
  BY MessageParts DEF SetPerformative
<1>2. n.sender = UndefinedAgent /\ n.receivers = <<>> /\ n.replyTo = <<>>
  BY <1>1 DEF NewMessage
<1>3. Range(<<>>) = {}
  BY DEF Range
<1> QED BY <1>2, <1>3 DEF Taken, AllMade

\* An item brings one sender or one list; the other identifiers are kept.
AgentsKept(y, x) == y.sender = x.sender /\ y.receivers = x.receivers /\ y.replyTo = x.replyTo

LEMMA OthersTaken ==
  ASSUME NEW representation, NEW x, NEW m, Taken(representation, x, m),
         NEW y, AgentsKept(y, x)
  PROVE  Taken(representation, y, m)
BY DEF Taken, AgentsKept

LEMMA SenderTaken ==
  ASSUME NEW representation, NEW m, NEW x, MessageOK(x), Taken(representation, x, m),
         NEW v, Made(representation, v, m.sender), NEW y, y = [x EXCEPT !.sender = v]
  PROVE  Taken(representation, y, m)
<1>1. DOMAIN x = DOMAIN NewMessage
  BY MessageParts
<1>2. y.sender = v /\ y.receivers = x.receivers /\ y.replyTo = x.replyTo
  BY <1>1 DEF NewMessage
<1> QED BY <1>2 DEF Taken

LEMMA AddedMade ==
  ASSUME NEW representation, NEW t, NEW s, AgentList(s), AllMade(representation, s, t),
         NEW bs, AgentList(bs), AllMade(representation, bs, t),
         NEW r, r = FoldLeft(PrependAgent, s, bs)
  PROVE  AllMade(representation, r, t)
<1>1. PICK S : S = Range(s) \cup Range(bs)
  OBVIOUS
<1>2. s \in Seq(S) /\ bs \in Seq(S)
  <2>1. \A U, V, q : q \in Seq(U) /\ U \subseteq V => q \in Seq(V)
    OBVIOUS
  <2> QED BY <1>1, <2>1 DEF AgentList
<1>3. r \in Seq(S)
  BY <1>2, AddedNames
<1>4. Range(r) \subseteq S
  BY <1>3, ListOf
<1> QED BY <1>1, <1>4 DEF AllMade

LEMMA ReceiversTaken ==
  ASSUME NEW representation, NEW m, NEW x, MessageOK(x), Taken(representation, x, m),
         NEW bs, AllMade(representation, bs, m.receivers), NEW y,
         \/ y = [x EXCEPT !.receivers = bs]
         \/ AgentList(bs) /\ y = AddReceivers(x, bs)
  PROVE  Taken(representation, y, m)
<1>1. DOMAIN x = DOMAIN NewMessage /\ AgentList(x.receivers)
  BY MessageParts
<1>2. PICK v : y = [x EXCEPT !.receivers = v] /\ AllMade(representation, v, m.receivers)
  <2>1. CASE y = [x EXCEPT !.receivers = bs]
    BY <2>1
  <2>2. CASE AgentList(bs) /\ y = AddReceivers(x, bs)
    <3>1. PICK s, r : s = x.receivers /\ r = FoldLeft(PrependAgent, s, bs)
      OBVIOUS
    <3>2. AllMade(representation, s, m.receivers)
      BY <3>1 DEF Taken
    <3>3. AllMade(representation, r, m.receivers)
      BY <1>1, <2>2, <3>1, <3>2, AddedMade
    <3>4. y = [x EXCEPT !.receivers = r]
      BY <2>2, <3>1 DEF AddReceivers
    <3> QED BY <3>3, <3>4
  <2> QED BY <2>1, <2>2
<1>3. y.sender = x.sender /\ y.receivers = v /\ y.replyTo = x.replyTo
  BY <1>1, <1>2 DEF NewMessage
<1> QED BY <1>2, <1>3 DEF Taken

LEMMA ReplyTosTaken ==
  ASSUME NEW representation, NEW m, NEW x, MessageOK(x), Taken(representation, x, m),
         NEW bs, AllMade(representation, bs, m.replyTo), NEW y,
         \/ y = [x EXCEPT !.replyTo = bs]
         \/ AgentList(bs) /\ y = AddReplyTos(x, bs)
  PROVE  Taken(representation, y, m)
<1>1. DOMAIN x = DOMAIN NewMessage /\ AgentList(x.replyTo)
  BY MessageParts
<1>2. PICK v : y = [x EXCEPT !.replyTo = v] /\ AllMade(representation, v, m.replyTo)
  <2>1. CASE y = [x EXCEPT !.replyTo = bs]
    BY <2>1
  <2>2. CASE AgentList(bs) /\ y = AddReplyTos(x, bs)
    <3>1. PICK s, r : s = x.replyTo /\ r = FoldLeft(PrependAgent, s, bs)
      OBVIOUS
    <3>2. AllMade(representation, s, m.replyTo)
      BY <3>1 DEF Taken
    <3>3. AllMade(representation, r, m.replyTo)
      BY <1>1, <2>2, <3>1, <3>2, AddedMade
    <3>4. y = [x EXCEPT !.replyTo = r]
      BY <2>2, <3>1 DEF AddReplyTos
    <3> QED BY <3>3, <3>4
  <2> QED BY <2>1, <2>2
<1>3. y.sender = x.sender /\ y.receivers = x.receivers /\ y.replyTo = v
  BY <1>1, <1>2 DEF NewMessage
<1> QED BY <1>2, <1>3 DEF Taken

LEMMA FieldKeepsAgents ==
  ASSUME NEW x, MessageOK(x), NEW f \in DOMAIN NewMessage \ {"sender", "receivers", "replyTo"},
         NEW v, NEW y, Stored(y, x, f, v)
  PROVE  AgentsKept(y, x)
<1>1. DOMAIN x = DOMAIN NewMessage
  BY MessageParts
<1>2. {"sender", "receivers", "replyTo"} \subseteq DOMAIN x
  BY <1>1 DEF NewMessage
<1> QED BY <1>2 DEF Stored, AgentsKept

LEMMA SetterKeepsAgents ==
  ASSUME NEW x, MessageOK(x)
  PROVE  /\ \A v : AgentsKept([x EXCEPT !.content = v], x)
         /\ \A v : AgentsKept([x EXCEPT !.replyBy = v], x)
         /\ \A f, v : AgentsKept([x EXCEPT !.texts[f] = v], x)
         /\ \A v : AgentsKept(SetProtocol(x, v), x)
         /\ \A p : AgentsKept(AddUserdefParam(x, p), x)
<1>1. {"content", "replyBy", "texts", "protocol", "parameters"}
        \subseteq DOMAIN NewMessage \ {"sender", "receivers", "replyTo"}
  BY DEF NewMessage
<1>2. ASSUME NEW f \in {"content", "replyBy", "texts", "protocol", "parameters"}, NEW v
      PROVE  AgentsKept([x EXCEPT ![f] = v], x)
  <2>1. PICK y : y = [x EXCEPT ![f] = v]
    OBVIOUS
  <2> QED BY <1>1, <2>1, FieldKeepsAgents DEF Stored
<1>3. \A v : AgentsKept([x EXCEPT !.content = v], x)
  BY <1>2
<1>4. \A v : AgentsKept([x EXCEPT !.replyBy = v], x)
  BY <1>2
<1>5. ASSUME NEW f, NEW v PROVE AgentsKept([x EXCEPT !.texts[f] = v], x)
  <2>1. PICK w : w = [x.texts EXCEPT ![f] = v]
    OBVIOUS
  <2>2. AgentsKept([x EXCEPT !.texts = w], x)
    BY <1>2
  <2> QED BY <2>1, <2>2
<1>6. AgentsKept(x, x)
  BY DEF AgentsKept
<1>7. \A v : AgentsKept(SetProtocol(x, v), x)
  BY <1>2, <1>6 DEF SetProtocol
<1>8. ASSUME NEW p PROVE AgentsKept(AddUserdefParam(x, p), x)
  <2>1. PICK w : w = <<p>> \o x.parameters
    OBVIOUS
  <2>2. AgentsKept([x EXCEPT !.parameters = w], x)
    BY <1>2
  <2> QED BY <1>6, <2>1, <2>2 DEF AddUserdefParam
<1> QED BY <1>3, <1>4, <1>5, <1>7, <1>8

\* What is carried from item to item is complete at the end.
Brings(representation, x, y, u, m) ==
  /\ Onward(x, y, m) /\ Got(y, u, m)
  /\ Taken(representation, x, m) => Taken(representation, y, m)

Steps(representation, c, what, n, m) ==
  \A k \in 1..n :
    /\ IsAspect(what[k])
    /\ Carried(c[k - 1], m) => Brings(representation, c[k - 1], c[k], what[k], m)

LEMMA Gathered ==
  ASSUME NEW m, NEW n \in Nat, NEW c, Carried(c[0], m), NEW what,
         NEW representation, Steps(representation, c, what, n, m), Taken(representation, c[0], m)
  PROVE  /\ Carried(c[n], m) /\ Taken(representation, c[n], m)
         /\ \A k \in 1..n : Got(c[n], what[k], m)
<1> DEFINE T == {k \in 0..n : /\ Carried(c[k], m) /\ Taken(representation, c[k], m)
                             /\ \A j \in 1..k : Got(c[k], what[j], m)}
<1>1. 0 \in T
  OBVIOUS
<1>2. ASSUME NEW k \in 1..n, k - 1 \in T PROVE k \in T
  <2>1. PICK x, y, l : x = c[k - 1] /\ y = c[k] /\ l = k - 1
    OBVIOUS
  <2>2. Carried(x, m) /\ Taken(representation, x, m) /\ \A j \in 1..l : Got(x, what[j], m)
    BY <1>2, <2>1
  <2>3. Onward(x, y, m) /\ Got(y, what[k], m) /\ Taken(representation, y, m)
    BY <2>1, <2>2 DEF Steps, Brings
  <2>4. ASSUME NEW j \in 1..l PROVE Got(y, what[j], m)
    <3>1. IsAspect(what[j]) /\ Got(x, what[j], m)
      <4>1. j \in 1..n
        BY <2>1, <2>4
      <4> QED BY <2>2, <4>1 DEF Steps
    <3> QED BY <2>3, <3>1 DEF IsAspect, Got, Onward
  <2>5. \A j \in 1..k : j \in 1..l \/ j = k
    BY <2>1
  <2>6. \A j \in 1..k : Got(y, what[j], m)
    BY <2>3, <2>4, <2>5
  <2>7. Carried(y, m) /\ k \in 0..n
    BY <2>3 DEF Onward
  <2> QED BY <2>1, <2>3, <2>6, <2>7
<1>3. n \in T
  <2> HIDE DEF T
  <2> QED BY <1>1, <1>2, InductionTo
<1> QED BY <1>3

\* A message that is complete agrees with the one sent: it is equal to it,
\* and its parameters are the same.
Agrees(n, m) ==
  /\ MessageOK(n)
  /\ n.performative = m.performative /\ n.texts = m.texts /\ n.protocol = m.protocol
  /\ n.replyBy = m.replyBy /\ n.content = m.content
  /\ AgentEqual(n.sender, m.sender)
  /\ SameAgents(n.receivers, m.receivers) /\ SameAgents(n.replyTo, m.replyTo)
  /\ IsInjective(n.parameters) /\ Range(n.parameters) = Range(m.parameters)

LEMMA AgreesEqual ==
  ASSUME NEW m, MessageOK(m), IsInjective(m.parameters), NEW r, Agrees(r, m)
  PROVE  r \notin NoMessage /\ MessageEqual(r, m)
<1>1. SameTexts(r.parameters, m.parameters)
  <2>1. PICK s, t : s = r.parameters /\ t = m.parameters
    OBVIOUS
  <2>2. s \in Seq(Range(s)) /\ t \in Seq(Range(t))
    BY <2>1, MessageParts DEF Agrees
  <2>3. IsInjective(s) /\ IsInjective(t) /\ Range(s) = Range(t)
    BY <2>1 DEF Agrees
  <2> QED BY <2>1, <2>2, <2>3, SameParameters
<1>2. r \notin NoMessage
  <2>1. "performative" \in DOMAIN r
    BY MessageParts, MessageField DEF Agrees
  <2> QED BY <2>1, OutcomeAssumption
<1> QED BY <1>1, <1>2 DEF Agrees, MessageEqual

LEMMA Complete ==
  ASSUME NEW m, MessageOK(m), NEW r, Carried(r, m),
         \A f \in Field : Value(m, f) = Value(NewMessage, f) \/ Right(r, f, m),
         Range(m.parameters) \subseteq Range(r.parameters)
  PROVE  Agrees(r, m)
<1>1. MessageOK(r) /\ r.performative = m.performative
  BY DEF Carried
<1>2. AgentOK(m.sender) /\ AgentList(m.receivers) /\ AgentList(m.replyTo)
  BY MessageParts
<1>3. \A f \in Field : Value(r, f) = Value(m, f) \/ Right(r, f, m)
  <2>1. \A f \in Field : Value(r, f) = Value(NewMessage, f) \/ Right(r, f, m)
    BY DEF Carried
  <2> QED BY <2>1
<1>4. \A f \in TextField : r.texts[f] = m.texts[f]
  <2>1. \A f \in TextField : f \in Field /\ Value(r, f) = r.texts[f] /\ Value(m, f) = m.texts[f]
    BY DEF Field, Value
  <2>2. \A f \in TextField : Right(r, f, m) => r.texts[f] = m.texts[f]
    BY <2>1 DEF Right, Agree, TextField
  <2> QED BY <1>3, <2>1, <2>2
<1>5. r.texts = m.texts
  <2>1. r.texts = [f \in TextField |-> r.texts[f]] /\ m.texts = [f \in TextField |-> m.texts[f]]
    BY <1>1, MessageParts
  <2>2. [f \in TextField |-> r.texts[f]] = [f \in TextField |-> m.texts[f]]
    BY <1>4
  <2> QED BY <2>1, <2>2
<1>6. \A f \in Own : f \in Field /\ Value(r, f) = r[f] /\ Value(m, f) = m[f]
  BY DEF Own, Field, Value, TextField
<1>7. r.content = m.content /\ r.protocol = m.protocol /\ r.replyBy = m.replyBy
  BY <1>3, <1>6 DEF Right, Agree, Own
<1>8. AgentEqual(r.sender, m.sender)
  <2>1. AgentEqual(m.sender, m.sender)
    BY <1>2, AgentArrives
  <2>2. r.sender = m.sender \/ AgentEqual(r.sender, m.sender)
    BY <1>3, <1>6 DEF Right, Agree, Own
  <2> QED BY <2>1, <2>2
<1>9. ASSUME NEW t, AgentList(t) PROVE SameAgents(t, t)
  <2>1. Copies(t, t)
    BY DEF Copies, Copy
  <2> QED BY <1>9, <2>1, ListCopied
<1>10. SameAgents(r.receivers, m.receivers)
  <2>1. r.receivers = m.receivers \/ SameAgents(r.receivers, m.receivers)
    BY <1>3, <1>6 DEF Right, Agree, Own
  <2> QED BY <1>2, <1>9, <2>1
<1>11. SameAgents(r.replyTo, m.replyTo)
  <2>1. r.replyTo = m.replyTo \/ SameAgents(r.replyTo, m.replyTo)
    BY <1>3, <1>6 DEF Right, Agree, Own
  <2> QED BY <1>2, <1>9, <2>1
<1>12. IsInjective(r.parameters) /\ Range(r.parameters) = Range(m.parameters)
  BY DEF Carried
<1> QED BY <1>1, <1>5, <1>7, <1>8, <1>10, <1>11, <1>12 DEF Agrees

-----------------------------------------------------------------------------
(* The bit-efficient representation.                                       *)

BitField(code) ==
  CASE code = 2  -> "sender"
    [] code = 3  -> "receivers"
    [] code = 4  -> "content"
    [] code = 5  -> "reply-with"
    [] code = 6  -> "replyBy"
    [] code = 7  -> "in-reply-to"
    [] code = 8  -> "replyTo"
    [] code = 9  -> "language"
    [] code = 10 -> "encoding"
    [] code = 11 -> "ontology"
    [] code = 12 -> "protocol"
    [] code = 13 -> "conversation-id"

BitAspect(item) ==
  IF item.code = 0 THEN <<"parameter", item.data>> ELSE <<"field", BitField(item.code)>>

LEMMA PortableParts ==
  ASSUME NEW m, MessageOK(m), NEW representation, Portable(m, representation)
  PROVE  /\ DateKept(m.replyBy) /\ IsInjective(m.parameters)
         /\ representation = "BITEFFICIENT" => PortableBitefficiently(m)
         /\ representation = "STRING_REP"   => PortableAsText(m)
         /\ representation = "XML"          => PortableInXML(m)
BY DEF Portable

LEMMA BitItemReadable ==
  ASSUME NEW m, MessageOK(m), Portable(m, "BITEFFICIENT"), NEW item, BitItem(item, m)
  PROVE  ItemReadable(item)
<1>1. PortableBitefficiently(m)
  BY PortableParts
<1>2. CASE item.code = 0
  <2>1. item.data \in Range(m.parameters)
    BY <1>2 DEF BitItem
  <2>2. ParamReadable(item.data)
    BY <1>1, <2>1 DEF PortableBitefficiently, ParamReadable, WordReadable, LiteralKept
  <2> QED BY <1>2, <2>2 DEF ItemReadable
<1>3. CASE item.code = 2
  <2>1. AgentOK(m.sender) /\ AgentPortable(m.sender)
    BY <1>1, MessageParts DEF PortableBitefficiently
  <2>2. AgentReadable(item.data)
    BY <1>3, <2>1, BitAgentArrives DEF BitItem
  <2> QED BY <1>3, <2>2 DEF ItemReadable
<1>4. CASE item.code = 3
  <2>1. AgentList(m.receivers) /\ \A a \in Range(m.receivers) : AgentPortable(a)
    BY <1>1, MessageParts DEF PortableBitefficiently
  <2>2. \A e \in Range(item.data) : AgentReadable(e)
    <3>1. PICK ws : ws = item.data
      OBVIOUS
    <3>2. ws = WrittenAgents(m.receivers)
      BY <1>4, <3>1 DEF BitItem
    <3> QED BY <2>1, <3>1, <3>2, BitListArrives
  <2> QED BY <1>4, <2>2 DEF ItemReadable
<1>5. CASE item.code = 8
  <2>1. AgentList(m.replyTo) /\ \A a \in Range(m.replyTo) : AgentPortable(a)
    BY <1>1, MessageParts DEF PortableBitefficiently
  <2>2. \A e \in Range(item.data) : AgentReadable(e)
    <3>1. PICK ws : ws = item.data
      OBVIOUS
    <3>2. ws = WrittenAgents(m.replyTo)
      BY <1>5, <3>1 DEF BitItem
    <3> QED BY <2>1, <3>1, <3>2, BitListArrives
  <2> QED BY <1>5, <2>2 DEF ItemReadable
<1>6. CASE item.code = 4
  <2>1. PICK c : c = m.content /\ c \in Content
    BY MessageParts
  <2>2. PICK d : d = ContentItem(c)
    OBVIOUS
  <2>3. d.body = c
    BY <2>2 DEF ContentItem
  <2>4. d.length = c.size
    <3>1. CASE c.nul = 0
      BY <2>2, <3>1 DEF ContentItem
    <3>2. CASE c.nul # 0
      <4>1. c \in [nul : Nat, size : Nat]
        BY <2>1, <3>2, ACLMessageAssumption DEF Content
      <4>2. c.size \in Nat
        BY <4>1
      <4>3. c.size <= 255 => c.size % 256 = c.size
        BY <4>2
      <4>4. c.size <= 65535 => c.size % 65536 = c.size
        BY <4>2
      <4> QED BY <2>2, <3>2, <4>3, <4>4 DEF ContentItem
    <3> QED BY <3>1, <3>2
  <2>5. ContentReadable(d)
    BY <2>3, <2>4 DEF ContentReadable
  <2> QED BY <1>6, <2>1, <2>2, <2>5 DEF ItemReadable, BitItem
<1>7. CASE item.code = 6
  <2>1. m.replyBy \in Time /\ m.replyBy # NoTime /\ item.data = BinDate(m.replyBy)
    BY <1>7, MessageParts DEF BitItem
  <2>2. DateReadable(item.data)
    BY <2>1, DateRead
  <2> QED BY <1>7, <2>2 DEF ItemReadable
<1>8. CASE item.code = 12
  <2>1. item.data = m.protocol /\ m.protocol # EmptyText
    BY <1>8 DEF BitItem
  <2>2. WordReadable(item.data)
    BY <1>1, <2>1 DEF PortableBitefficiently, WordReadable
  <2> QED BY <1>8, <2>2 DEF ItemReadable
<1>9. CASE item.code \in {5, 7, 9, 10, 11, 13}
  <2>1. \E f \in TextField : item.data = m.texts[f]
    BY <1>9 DEF BitItem, TextField
  <2>2. LiteralReadable(item.data)
    BY <1>1, <2>1 DEF PortableBitefficiently, LiteralKept
  <2> QED BY <1>9, <2>2 DEF ItemReadable
<1> QED BY <1>2, <1>3, <1>4, <1>5, <1>6, <1>7, <1>8, <1>9 DEF BitItem

LEMMA CarriedNot ==
  ASSUME NEW x, NEW m, Carried(x, m)
  PROVE  x \notin NoMessage
<1>1. "performative" \in DOMAIN x
  BY MessageParts, MessageField DEF Carried
<1> QED BY <1>1, OutcomeAssumption

\* One item more.
LEMMA BitBrings ==
  ASSUME NEW m, MessageOK(m), Portable(m, "BITEFFICIENT"), NEW item, BitItem(item, m),
         NEW x, Carried(x, m), NEW y, y = BuildParameter(x, item)
  PROVE  IsAspect(BitAspect(item)) /\ Onward(x, y, m) /\ Got(y, BitAspect(item), m)
<1>1. PortableBitefficiently(m) /\ DateKept(m.replyBy) /\ x # Escaped
  BY PortableParts, CarriedNot DEF NoMessage
<1>2. ASSUME NEW f \in Field, item.code # 0, BitField(item.code) = f,
             Onward(x, y, m) /\ Right(y, f, m)
      PROVE  IsAspect(BitAspect(item)) /\ Onward(x, y, m) /\ Got(y, BitAspect(item), m)
  BY <1>2 DEF IsAspect, Got, BitAspect
<1>3. CASE item.code = 0
  <2>1. PICK u \in Range(m.parameters) : u = item.data
    BY <1>3 DEF BitItem
  <2>2. /\ LiteralKept(u.value)
        /\ u.name \notin TextField \cup {"sender", "receiver", "content", "reply-by",
                                         "reply-to", "protocol"}
    BY <1>1 DEF PortableBitefficiently
  <2>3. ItemName(item) = u.name
    BY <1>3, <2>1 DEF ItemName
  <2>4. y = StoreText(x, u.name, u.value)
    BY <1>1, <1>3, <2>1, <2>2, <2>3 DEF BuildParameter, LiteralKept
  <2>5. u = [name |-> u.name, value |-> u.value]
    BY MessageParts DEF IsParam
  <2>6. y = AddUserdefParam(x, u)
    BY <2>2, <2>4, <2>5 DEF StoreText
  <2>7. Onward(x, y, m) /\ u \in Range(y.parameters)
    BY <2>6, ParameterBrought
  <2> QED BY <1>3, <2>1, <2>7 DEF IsAspect, Got, BitAspect
<1>4. CASE item.code = 2
  <2>1. AgentOK(m.sender) /\ AgentPortable(m.sender) /\ item.data = WrittenAgent(m.sender, ResolverDepth)
    BY <1>1, <1>4, MessageParts DEF PortableBitefficiently, BitItem
  <2>2. PICK v : v = BuildAgentID(item.data)
    OBVIOUS
  <2>3. AgentOK(v) /\ AgentEqual(v, m.sender)
    BY <2>1, <2>2, BitAgentArrives, AgentArrives
  <2>4. y = [x EXCEPT !.sender = v]
    BY <1>1, <1>4, <2>2 DEF BuildParameter
  <2>5. Onward(x, y, m) /\ Right(y, "sender", m)
    BY <2>3, <2>4, SenderBrought
  <2> QED BY <1>2, <1>4, <2>5 DEF BitField, Field, Own
<1>5. CASE item.code = 3
  <2>1. /\ AgentList(m.receivers) /\ \A a \in Range(m.receivers) : AgentPortable(a)
        /\ NoDuplicates(m.receivers) /\ item.data = WrittenAgents(m.receivers)
    BY <1>1, <1>5, MessageParts DEF PortableBitefficiently, BitItem
  <2>2. PICK ws, bs : ws = item.data /\ bs = BuildAgentIDs(ws)
    OBVIOUS
  <2>3. AgentList(bs) /\ Copies(bs, m.receivers)
    BY <2>1, <2>2, BitListArrives
  <2>4. y = AddReceivers(x, bs)
    BY <1>1, <1>5, <2>2 DEF BuildParameter
  <2>5. Onward(x, y, m) /\ Right(y, "receivers", m)
    BY <2>1, <2>3, <2>4, ReceiversAdded
  <2> QED BY <1>2, <1>5, <2>5 DEF BitField, Field, Own
<1>6. CASE item.code = 8
  <2>1. /\ AgentList(m.replyTo) /\ \A a \in Range(m.replyTo) : AgentPortable(a)
        /\ NoDuplicates(m.replyTo) /\ item.data = WrittenAgents(m.replyTo)
    BY <1>1, <1>6, MessageParts DEF PortableBitefficiently, BitItem
  <2>2. PICK ws, bs : ws = item.data /\ bs = BuildAgentIDs(ws)
    OBVIOUS
  <2>3. AgentList(bs) /\ Copies(bs, m.replyTo)
    BY <2>1, <2>2, BitListArrives
  <2>4. y = AddReplyTos(x, bs)
    BY <1>1, <1>6, <2>2 DEF BuildParameter
  <2>5. Onward(x, y, m) /\ Right(y, "replyTo", m)
    BY <2>1, <2>3, <2>4, ReplyTosAdded
  <2> QED BY <1>2, <1>6, <2>5 DEF BitField, Field, Own
<1>7. CASE item.code = 4
  <2>1. item.data.body = m.content
    BY <1>7 DEF BitItem, ContentItem
  <2>2. y = [x EXCEPT !.content = m.content]
    BY <1>1, <1>7, <2>1 DEF BuildParameter
  <2>3. Onward(x, y, m) /\ Right(y, "content", m)
    BY <2>2, ContentBrought
  <2> QED BY <1>2, <1>7, <2>3 DEF BitField, Field, Own
<1>8. CASE item.code = 6
  <2>1. m.replyBy \in Time /\ m.replyBy # NoTime /\ item.data = BinDate(m.replyBy)
    BY <1>8, MessageParts DEF BitItem
  <2>2. ReadDate(item.data) = m.replyBy
    BY <1>1, <2>1, DateRead DEF DateKept
  <2>3. y = [x EXCEPT !.replyBy = m.replyBy]
    BY <1>1, <1>8, <2>2 DEF BuildParameter
  <2>4. Onward(x, y, m) /\ Right(y, "replyBy", m)
    BY <2>3, ReplyByBrought
  <2> QED BY <1>2, <1>8, <2>4 DEF BitField, Field, Own
<1>9. CASE item.code = 12
  <2>1. y = SetProtocol(x, m.protocol)
    BY <1>1, <1>9 DEF BuildParameter, BitItem
  <2>2. Onward(x, y, m) /\ Right(y, "protocol", m)
    BY <2>1, ProtocolBrought
  <2> QED BY <1>2, <1>9, <2>2 DEF BitField, Field, Own
<1>10. CASE item.code \in {5, 7, 9, 10, 11, 13}
  <2>1. PICK f \in TextField : f = BitField(item.code) /\ f = ItemName(item) /\ item.data = m.texts[f]
    BY <1>10 DEF BitItem, BitField, ItemName, TextField
  <2>2. AsLiteral[item.data] = m.texts[f]
    BY <1>1, <2>1 DEF PortableBitefficiently, LiteralKept
  <2>3. y = StoreText(x, f, m.texts[f])
    BY <1>1, <1>10, <2>1, <2>2 DEF BuildParameter
  <2>4. y = [x EXCEPT !.texts[f] = m.texts[f]]
    BY <2>1, <2>3 DEF StoreText, TextField
  <2>5. Onward(x, y, m) /\ Right(y, f, m)
    BY <2>4, TextBrought
  <2> QED BY <1>2, <1>10, <2>1, <2>5 DEF Field
<1> QED BY <1>3, <1>4, <1>5, <1>6, <1>7, <1>8, <1>9, <1>10 DEF BitItem

LEMMA BitTaken ==
  ASSUME NEW m, MessageOK(m), NEW item, BitItem(item, m),
         NEW x, Carried(x, m), Taken("BITEFFICIENT", x, m),
         NEW y, y = BuildParameter(x, item), Carried(y, m)
  PROVE  Taken("BITEFFICIENT", y, m)
<1>1. x # Escaped /\ y # Escaped /\ MessageOK(x)
  BY CarriedNot DEF NoMessage, Carried
<1>2. ASSUME NEW name, NEW value PROVE AgentsKept(StoreText(x, name, value), x)
  BY <1>1, SetterKeepsAgents DEF StoreText
<1>3. CASE item.code = 2
  <2>1. PICK v : v = BuildAgentID(item.data)
    OBVIOUS
  <2>2. y = [x EXCEPT !.sender = v]
    BY <1>1, <1>3, <2>1 DEF BuildParameter
  <2>3. Made("BITEFFICIENT", v, m.sender)
    BY <1>3, <2>1 DEF Made, BitItem
  <2> QED BY <1>1, <2>2, <2>3, SenderTaken
<1>4. ASSUME NEW ag, AgentList(ag), NEW bs, bs = BuildAgentIDs(WrittenAgents(ag))
      PROVE  AgentList(bs) /\ AllMade("BITEFFICIENT", bs, ag)
  <2>1. AgentList(bs)
    BY <1>4, BitAgents
  <2>2. bs = [i \in DOMAIN ag |-> BuildAgentID(WrittenAgent(ag[i], ResolverDepth))]
    BY <1>4 DEF BuildAgentIDs, WrittenAgents
  <2>3. \A b \in Range(bs) : \E a \in Range(ag) : b = BuildAgentID(WrittenAgent(a, ResolverDepth))
    BY <2>2 DEF Range
  <2> QED BY <2>1, <2>3 DEF AllMade, Made
<1>5. CASE item.code = 3
  <2>1. PICK ag, bs : ag = m.receivers /\ bs = BuildAgentIDs(WrittenAgents(ag))
    OBVIOUS
  <2>2. y = AddReceivers(x, bs)
    BY <1>1, <1>5, <2>1 DEF BuildParameter, BitItem
  <2>3. AgentList(bs) /\ AllMade("BITEFFICIENT", bs, m.receivers)
    BY <1>4, <2>1, MessageParts
  <2> QED BY <1>1, <2>2, <2>3, ReceiversTaken
<1>6. CASE item.code = 8
  <2>1. PICK ag, bs : ag = m.replyTo /\ bs = BuildAgentIDs(WrittenAgents(ag))
    OBVIOUS
  <2>2. y = AddReplyTos(x, bs)
    BY <1>1, <1>6, <2>1 DEF BuildParameter, BitItem
  <2>3. AgentList(bs) /\ AllMade("BITEFFICIENT", bs, m.replyTo)
    BY <1>4, <2>1, MessageParts
  <2> QED BY <1>1, <2>2, <2>3, ReplyTosTaken
<1>7. CASE item.code \notin {2, 3, 8}
  <2>1. AgentsKept(y, x)
    <3>1. CASE item.code = 0
      <4>1. y = StoreText(x, ItemName(item), AsLiteral[item.data.value])
        BY <1>1, <3>1 DEF BuildParameter
      <4> QED BY <1>2, <4>1
    <3>2. CASE item.code = 4
      <4>1. y = [x EXCEPT !.content = item.data.body]
        BY <1>1, <3>2 DEF BuildParameter
      <4> QED BY <1>1, <4>1, SetterKeepsAgents
    <3>3. CASE item.code = 6
      <4>1. y = [x EXCEPT !.replyBy = ReadDate(item.data)]
        BY <1>1, <3>3 DEF BuildParameter
      <4> QED BY <1>1, <4>1, SetterKeepsAgents
    <3>4. CASE item.code = 12
      <4>1. y = SetProtocol(x, item.data)
        BY <1>1, <3>4 DEF BuildParameter
      <4> QED BY <1>1, <4>1, SetterKeepsAgents
    <3>5. CASE item.code \in {5, 7, 9, 10, 11, 13}
      <4>1. y = StoreText(x, ItemName(item), AsLiteral[item.data])
        BY <1>1, <3>5 DEF BuildParameter
      <4> QED BY <1>2, <4>1
    <3> QED BY <1>7, <3>1, <3>2, <3>3, <3>4, <3>5 DEF BitItem
  <2> QED BY <2>1, OthersTaken
<1> QED BY <1>3, <1>5, <1>6, <1>7

\* The fields, one by one.
LEMMA FieldsComplete ==
  ASSUME NEW m, MessageOK(m), NEW r,
         m.sender = UndefinedAgent \/ Right(r, "sender", m),
         m.receivers = <<>> \/ Right(r, "receivers", m),
         m.replyTo = <<>> \/ Right(r, "replyTo", m),
         m.content = NoContent \/ Right(r, "content", m),
         m.replyBy = NoTime \/ Right(r, "replyBy", m),
         m.protocol = EmptyText \/ Right(r, "protocol", m),
         \A f \in TextField : m.texts[f] = EmptyText \/ Right(r, f, m),
         NEW f \in Field
  PROVE  Value(m, f) = Value(NewMessage, f) \/ Right(r, f, m)
<1>1. CASE f \in TextField
  <2>1. Value(m, f) = m.texts[f] /\ Value(NewMessage, f) = EmptyText
    BY <1>1 DEF Value, NewMessage
  <2> QED BY <1>1, <2>1
<1>2. CASE f \in Own
  <2>1. Value(m, f) = m[f] /\ Value(NewMessage, f) = NewMessage[f]
    BY <1>2 DEF Value, Own, TextField
  <2>2. /\ NewMessage["sender"] = UndefinedAgent /\ NewMessage["receivers"] = <<>>
        /\ NewMessage["replyTo"] = <<>> /\ NewMessage["content"] = NoContent
        /\ NewMessage["replyBy"] = NoTime /\ NewMessage["protocol"] = EmptyText
    BY DEF NewMessage
  <2> QED BY <1>2, <2>1, <2>2 DEF Own
<1> QED BY <1>1, <1>2 DEF Field

LEMMA BitAspectIs ==
  ASSUME NEW m, NEW item, BitItem(item, m)
  PROVE  IsAspect(BitAspect(item))
<1>1. CASE item.code = 0
  BY <1>1 DEF IsAspect, BitAspect
<1>2. CASE item.code # 0
  <2>1. BitField(item.code) \in Field
    BY <1>2 DEF BitItem, BitField, Field, Own, TextField
  <2> QED BY <1>2, <2>1 DEF IsAspect, BitAspect
<1> QED BY <1>1, <1>2

\* Every field that was written has been read.
SeenAspects(items, n, r, m) ==
  /\ \A i \in 1..n : Got(r, BitAspect(items[i]), m)
  /\ \A i \in 1..n : BitItem(items[i], m)

LEMMA BitFieldRead ==
  ASSUME NEW items, NEW n, NEW r, NEW m, SeenAspects(items, n, r, m),
         NEW code, code # 0, Seen(items, n, code), NEW f, f = BitField(code)
  PROVE  Right(r, f, m)
<1>1. PICK i \in 1..n : items[i].code = code
  BY DEF Seen
<1>2. Got(r, BitAspect(items[i]), m)
  BY DEF SeenAspects
<1>3. BitAspect(items[i]) = <<"field", f>>
  BY <1>1 DEF BitAspect
<1> QED BY <1>2, <1>3 DEF Got

LEMMA BitFieldsRead ==
  ASSUME NEW m, MessageOK(m), Portable(m, "BITEFFICIENT"), NEW items, items = WrittenItems(m),
         NEW n, n = Len(items), NEW r, SeenAspects(items, n, r, m)
  PROVE  /\ \A f \in Field : Value(m, f) = Value(NewMessage, f) \/ Right(r, f, m)
         /\ Range(m.parameters) \subseteq Range(r.parameters)
<1>1. /\ m.sender.name # EmptyText => Right(r, "sender", m)
      /\ m.receivers # <<>> => Right(r, "receivers", m)
      /\ m.replyTo # <<>> => Right(r, "replyTo", m)
  <2>1. BitField(2) = "sender" /\ BitField(3) = "receivers" /\ BitField(8) = "replyTo"
    BY DEF BitField
  <2>2. /\ m.sender.name # EmptyText => Seen(items, n, 2)
        /\ m.receivers # <<>> => Seen(items, n, 3)
        /\ m.replyTo # <<>> => Seen(items, n, 8)
    BY BitItems
  <2> QED BY <2>1, <2>2, BitFieldRead
<1>2. /\ m.content # NoContent => Right(r, "content", m)
      /\ m.replyBy # NoTime => Right(r, "replyBy", m)
      /\ m.protocol # EmptyText => Right(r, "protocol", m)
  <2>1. BitField(4) = "content" /\ BitField(6) = "replyBy" /\ BitField(12) = "protocol"
    BY DEF BitField
  <2>2. /\ m.content # NoContent => Seen(items, n, 4)
        /\ m.replyBy # NoTime => Seen(items, n, 6)
        /\ m.protocol # EmptyText => Seen(items, n, 12)
    BY BitItems
  <2> QED BY <2>1, <2>2, BitFieldRead
<1>3. /\ m.texts["reply-with"] # EmptyText => Right(r, "reply-with", m)
      /\ m.texts["in-reply-to"] # EmptyText => Right(r, "in-reply-to", m)
      /\ m.texts["language"] # EmptyText => Right(r, "language", m)
  <2>1. BitField(5) = "reply-with" /\ BitField(7) = "in-reply-to" /\ BitField(9) = "language"
    BY DEF BitField
  <2>2. /\ m.texts["reply-with"] # EmptyText => Seen(items, n, 5)
        /\ m.texts["in-reply-to"] # EmptyText => Seen(items, n, 7)
        /\ m.texts["language"] # EmptyText => Seen(items, n, 9)
    BY BitItems
  <2> QED BY <2>1, <2>2, BitFieldRead
<1>4. /\ m.texts["encoding"] # EmptyText => Right(r, "encoding", m)
      /\ m.texts["ontology"] # EmptyText => Right(r, "ontology", m)
      /\ m.texts["conversation-id"] # EmptyText => Right(r, "conversation-id", m)
  <2>1. BitField(10) = "encoding" /\ BitField(11) = "ontology" /\ BitField(13) = "conversation-id"
    BY DEF BitField
  <2>2. /\ m.texts["encoding"] # EmptyText => Seen(items, n, 10)
        /\ m.texts["ontology"] # EmptyText => Seen(items, n, 11)
        /\ m.texts["conversation-id"] # EmptyText => Seen(items, n, 13)
    BY BitItems
  <2> QED BY <2>1, <2>2, BitFieldRead
<1>5. m.sender.name # EmptyText
  <2>1. AgentReadable(m.sender)
    <3>1. PortableBitefficiently(m)
      BY PortableParts
    <3> QED BY <3>1 DEF PortableBitefficiently, AgentPortable
  <2>2. m.sender \in Nested(m.sender, 0) /\ 0 \in 0..ResolverDepth
    BY NestedSelf, BitefficientAssumption
  <2>3. m.sender.name \in Word
    BY <2>1, <2>2 DEF AgentReadable, WordReadable
  <2> QED BY <2>3, EncodingAssumption
<1>6. \A f \in Field : Value(m, f) = Value(NewMessage, f) \/ Right(r, f, m)
  <2>1. \A f \in TextField : m.texts[f] = EmptyText \/ Right(r, f, m)
    BY <1>3, <1>4 DEF TextField
  <2>2. Right(r, "sender", m)
    BY <1>1, <1>5
  <2> QED BY <1>1, <1>2, <2>1, <2>2, FieldsComplete
<1>7. ASSUME NEW u \in Range(m.parameters)
      PROVE  u \in Range(r.parameters)
  <2>1. PICK i \in 1..n : items[i].code = 0 /\ items[i].data = u
    BY BitItems
  <2>2. BitAspect(items[i]) = <<"parameter", u>>
    BY <2>1 DEF BitAspect
  <2>3. Got(r, BitAspect(items[i]), m)
    BY <2>1 DEF SeenAspects
  <2> QED BY <2>2, <2>3 DEF Got
<1> QED BY <1>6, <1>7

LEMMA BitArrives ==
  ASSUME NEW m, MessageOK(m), Portable(m, "BITEFFICIENT")
  PROVE  Agrees(Transferred(m), m) /\ Taken("BITEFFICIENT", Transferred(m), m)
<1>1. PICK items, n : items = WrittenItems(m) /\ n = Len(items)
  OBVIOUS
<1>2. /\ IsList(items) /\ n \in Nat
      /\ \A i \in 1..n : BitItem(items[i], m)
  BY <1>1, BitItems DEF IsList
<1>3. PICK first : first = SetPerformative(NewMessage, m.performative)
  OBVIOUS
<1>4. m.performative \in Word
  BY PortableParts DEF PortableBitefficiently
<1>5. Transferred(m) = FoldLeft(BuildParameter, first, items)
  <2>1. m.performative # EmptyText
    BY <1>4, EncodingAssumption
  <2>2. PICK wire : wire = [type |-> WrittenType(m.performative), items |-> items]
    OBVIOUS
  <2>3. wire = Written(m) /\ wire.items = items /\ wire.type = WrittenType(m.performative)
    BY <1>1, <2>1, <2>2 DEF Written
  <2>4. Transferred(m) = ParseData(wire)
    <3>1. "type" \in DOMAIN wire
      BY <2>2
    <3>2. wire # NotWritten
      BY <3>1, OutcomeAssumption DEF NoMessage
    <3> QED BY <2>3, <3>2 DEF Transferred
  <2>5. (IF wire.type.code = 0 THEN wire.type.data ELSE predefinedMessageType[wire.type.code])
          = m.performative
    <3>1. CASE m.performative \in Range(PerformativeTxt)
      <4>1. \E i \in DOMAIN PerformativeTxt : PerformativeTxt[i] = m.performative
        BY <3>1 DEF Range
      <4>2. PICK c : c = CHOOSE i \in DOMAIN PerformativeTxt : PerformativeTxt[i] = m.performative
        OBVIOUS
      <4>3. c \in DOMAIN PerformativeTxt /\ PerformativeTxt[c] = m.performative
        BY <4>1, <4>2
      <4>4. wire.type.code = c
        BY <2>3, <3>1, <4>2 DEF WrittenType
      <4>5. PerformativeTxt = predefinedMessageType /\ 0 \notin DOMAIN PerformativeTxt
        BY DEF PerformativeTxt, predefinedMessageType
      <4> QED BY <4>3, <4>4, <4>5
    <3>2. CASE m.performative \notin Range(PerformativeTxt)
      BY <2>3, <3>2 DEF WrittenType
    <3> QED BY <3>1, <3>2
  <2>6. TypeReadable(wire.type)
    <3>1. CASE m.performative \in Range(PerformativeTxt)
      <4>1. \E i \in DOMAIN PerformativeTxt : PerformativeTxt[i] = m.performative
        BY <3>1 DEF Range
      <4>2. PICK c : c = CHOOSE i \in DOMAIN PerformativeTxt : PerformativeTxt[i] = m.performative
        OBVIOUS
      <4>3. c \in DOMAIN PerformativeTxt
        BY <4>1, <4>2
      <4>4. wire.type.code = c
        BY <2>3, <3>1, <4>2 DEF WrittenType
      <4>5. 0 \notin DOMAIN PerformativeTxt
        BY DEF PerformativeTxt
      <4> QED BY <4>3, <4>4, <4>5 DEF TypeReadable
    <3>2. CASE m.performative \notin Range(PerformativeTxt)
      BY <1>4, <2>3, <3>2 DEF WrittenType, TypeReadable, WordReadable
    <3> QED BY <3>1, <3>2
  <2>7. \A i \in DOMAIN wire.items : ItemReadable(wire.items[i])
    <3>1. DOMAIN wire.items = 1..n
      BY <1>1, <1>2, <2>3 DEF IsList
    <3>2. \A i \in 1..n : ItemReadable(items[i])
      BY <1>2, BitItemReadable
    <3> QED BY <2>3, <3>1, <3>2
  <2> QED BY <1>3, <2>3, <2>4, <2>5, <2>6, <2>7 DEF ParseData
<1>6. PICK c : Chain("bits", first, items, n, c) /\ FoldLeft(BuildParameter, first, items) = c[n]
  BY <1>1, <1>2, FoldBits
<1>7. PICK what : what = [i \in 1..n |-> BitAspect(items[i])]
  OBVIOUS
<1>8. c[0] = first
  BY <1>2, <1>6, ChainStart
<1>9. Carried(c[0], m) /\ Taken("BITEFFICIENT", c[0], m)
  BY <1>3, <1>8, FirstCarried, FirstTaken
<1>10. Steps("BITEFFICIENT", c, what, n, m)
  <2>1. ASSUME NEW k \in 1..n
        PROVE  IsAspect(what[k]) /\
                 (Carried(c[k - 1], m) => Brings("BITEFFICIENT", c[k - 1], c[k], what[k], m))
    <3>1. PICK x, y : x = c[k - 1] /\ y = c[k]
      OBVIOUS
    <3>2. y = BuildParameter(x, items[k])
      <4>1. c[k] = Step("bits", items, c[k - 1], k)
        BY <1>2, <1>6, ChainAt
      <4> QED BY <3>1, <4>1 DEF Step
    <3>3. BitItem(items[k], m) /\ what[k] = BitAspect(items[k])
      BY <1>2, <1>7
    <3>4. IsAspect(what[k])
      BY <1>2, <3>3, BitAspectIs
    <3>5. Carried(x, m) => Brings("BITEFFICIENT", x, y, what[k], m)
      BY <3>2, <3>3, BitBrings, BitTaken DEF Brings, Onward
    <3> QED BY <3>1, <3>4, <3>5
  <2> QED BY <2>1 DEF Steps
<1>11. /\ Carried(c[n], m) /\ Taken("BITEFFICIENT", c[n], m)
       /\ \A k \in 1..n : Got(c[n], what[k], m)
  BY <1>2, <1>9, <1>10, Gathered
<1>12. PICK r : r = c[n]
  OBVIOUS
<1>13. SeenAspects(items, n, r, m)
  BY <1>2, <1>7, <1>11, <1>12 DEF SeenAspects
<1>14. /\ \A f \in Field : Value(m, f) = Value(NewMessage, f) \/ Right(r, f, m)
       /\ Range(m.parameters) \subseteq Range(r.parameters)
  BY <1>1, <1>13, BitFieldsRead
<1>15. Agrees(r, m)
  BY <1>11, <1>12, <1>14, Complete
<1> QED BY <1>5, <1>6, <1>11, <1>12, <1>15

-----------------------------------------------------------------------------
(* The text representation.                                                *)

LEMMA InOrder ==
  ASSUME NEW s, IsList(s), NEW t, IsList(t), NEW r, r = s \o t
  PROVE  /\ IsList(r) /\ Len(r) = Len(s) + Len(t)
         /\ \A i \in 1..Len(s) : r[i] = s[i]
         /\ \A i \in 1..Len(t) : r[i + Len(s)] = t[i]
<1>1. \A x : IsList(x) => x \in Seq(Range(x)) /\ DOMAIN x = 1..Len(x)
  <2>1. ASSUME NEW x, IsList(x) PROVE x \in Seq(Range(x)) /\ DOMAIN x = 1..Len(x)
    <3>1. DOMAIN x = 1..Len(x) /\ Len(x) \in Nat
      BY <2>1 DEF IsList
    <3>2. \A i \in 1..Len(x) : x[i] \in Range(x)
      BY <3>1 DEF Range
    <3>3. [i \in 1..Len(x) |-> x[i]] \in Seq(Range(x))
      BY <3>1, <3>2
    <3> QED BY <2>1, <3>1, <3>3 DEF IsList
  <2> QED BY <2>1
<1>2. s \in Seq(Range(s)) /\ t \in Seq(Range(t))
  BY <1>1
<1>3. /\ Len(r) = Len(s) + Len(t)
      /\ \A i \in 1..Len(s) : r[i] = s[i]
      /\ \A i \in 1..Len(t) : r[i + Len(s)] = t[i]
  BY <1>2
<1> QED BY <1>3, Behind

LEMMA LengthsAdd ==
  ASSUME NEW s, IsList(s), NEW t, IsList(t)
  PROVE  Len(s \o t) = Len(s) + Len(t)
<1>1. PICK r : r = s \o t
  OBVIOUS
<1>2. Len(r) = Len(s) + Len(t)
  BY <1>1, InOrder
<1> QED BY <1>1, <1>2

\* Wherever a first part ends, what is left of it is found in the second one.
LEMMA InPart ==
  ASSUME NEW s, IsList(s), NEW t, IsList(t), NEW r, r = s \o t, NEW i \in 1..Len(r)
  PROVE  \/ i \in 1..Len(s) /\ r[i] = s[i] /\ r[i] \in Range(s)
         \/ i > Len(s) /\ r[i] \in Range(t)
<1>1. /\ Len(r) = Len(s) + Len(t)
      /\ \A j \in 1..Len(s) : r[j] = s[j]
      /\ \A j \in 1..Len(t) : r[j + Len(s)] = t[j]
  BY InOrder
<1>2. Len(s) \in Nat /\ DOMAIN s = 1..Len(s) /\ Len(t) \in Nat /\ DOMAIN t = 1..Len(t)
  BY DEF IsList
<1>3. CASE i <= Len(s)
  <2>1. i \in 1..Len(s)
    BY <1>2, <1>3
  <2> QED BY <1>1, <1>2, <2>1 DEF Range
<1>4. CASE i > Len(s)
  <2>1. PICK j : j = i - Len(s)
    OBVIOUS
  <2>2. j \in 1..Len(t) /\ j + Len(s) = i
    BY <1>1, <1>2, <1>4, <2>1
  <2>3. r[i] = t[j]
    BY <1>1, <2>2
  <2> QED BY <1>2, <1>4, <2>2, <2>3 DEF Range
<1> QED BY <1>2, <1>3, <1>4

LEMMA TextJoined ==
  ASSUME NEW m, NEW items, items = StringItems(m), NEW p, p = TextParts(m)
  PROVE  items = Joined(p)
BY DEF StringItems, TextParts, Joined

\* Four parts without parameters joined.
WithoutParameters(q) == IsList(q) /\ \A x \in Range(q) : x.code # "X-"

LEMMA FourJoined ==
  ASSUME NEW s, NEW t, NEW u, NEW v, WithoutParameters(s), WithoutParameters(t),
         WithoutParameters(u), WithoutParameters(v),
         NEW q, q = s \o t \o u \o v
  PROVE  WithoutParameters(q)
<1>1. IsList(s) /\ IsList(t) /\ IsList(u) /\ IsList(v)
  BY DEF WithoutParameters
<1>2. IsList(q) /\ Range(q) = Range(s) \cup Range(t) \cup Range(u) \cup Range(v)
  BY <1>1, ThreeMore
<1> QED BY <1>2 DEF WithoutParameters

\* The protocol is continued by no parameter.
LEMMA ProtocolEnds ==
  ASSUME NEW m, MessageOK(m), PortableAsText(m), NEW items, items = StringItems(m),
         NEW i \in 1..Len(items), items[i].code = "protocol", NEW j \in 1..Len(items), j = i + 1
  PROVE  items[j].code # "X-"
<1>1. PICK p : p = TextParts(m)
  OBVIOUS
<1>2. items = Joined(p)
  BY <1>1, TextJoined
<1>3. /\ IsList(items)
      /\ \A k \in 1..Len(items) : TextItem(items[k], m)
  BY TextItems
<1>4. m.protocol # EmptyText
  BY <1>3 DEF TextItem
<1>5. CASE m.parameters = <<>>
  <2>1. Range(m.parameters) = {}
    BY <1>5 DEF Range
  <2>2. TextItem(items[j], m)
    BY <1>3
  <2> QED BY <2>1, <2>2 DEF TextItem
<1>6. CASE m.parameters # <<>>
  <2>1. m.texts["conversation-id"] # EmptyText
    BY <1>4, <1>6 DEF PortableAsText
  <2>2. /\ AtMostOne(p[1], "sender", m.sender)
        /\ AtMostOne(p[2], "receiver", m.receivers)
        /\ AtMostOne(p[3], "content", m.content)
        /\ AtMostOne(p[4], "reply-with", m.texts["reply-with"])
        /\ AtMostOne(p[5], "reply-by", DateDigits(m.replyBy))
        /\ AtMostOne(p[6], "in-reply-to", m.texts["in-reply-to"])
        /\ AtMostOne(p[7], "reply-to", m.replyTo)
        /\ AtMostOne(p[8], "language", m.texts["language"])
        /\ AtMostOne(p[9], "encoding", m.texts["encoding"])
        /\ AtMostOne(p[10], "ontology", m.texts["ontology"])
        /\ AtMostOne(p[11], "protocol", m.protocol)
        /\ AtMostOne(p[12], "conversation-id", m.texts["conversation-id"])
    BY <1>1 DEF TextParts, Item, AtMostOne
  <2>3. /\ IsList(p[1]) /\ IsList(p[2]) /\ IsList(p[3]) /\ IsList(p[4]) /\ IsList(p[5])
        /\ IsList(p[6]) /\ IsList(p[7]) /\ IsList(p[8]) /\ IsList(p[9]) /\ IsList(p[10])
        /\ IsList(p[11]) /\ IsList(p[12])
    BY <2>2, ItemIs
  <2>4. IsList(p[13]) /\ \A x \in Range(p[13]) : x.code = "X-"
    <3>1. PICK us : us = m.parameters /\ us \in Seq(Range(us))
      BY MessageParts
    <3>2. p[13] = [k \in DOMAIN us |-> [code |-> "X-", data |-> us[k]]]
      BY <1>1, <3>1 DEF TextParts
    <3>3. PICK ps : ps = p[13]
      OBVIOUS
    <3>4. Along(ps, us) /\ Coded(ps, us, "X-")
      BY <3>2, <3>3 DEF Along, Coded
    <3> QED BY <3>1, <3>3, <3>4, ParametersAre
  <2>5. \A x \in Range(p[1]) \cup Range(p[2]) \cup Range(p[3]) \cup Range(p[4]) : x.code # "X-"
    BY <2>2, ItemIs
  <2>6. \A x \in Range(p[5]) \cup Range(p[6]) \cup Range(p[7]) : x.code # "X-"
    BY <2>2, ItemIs
  <2>7. \A x \in Range(p[8]) \cup Range(p[9]) \cup Range(p[10]) \cup Range(p[11]) : x.code # "X-"
    BY <2>2, ItemIs
  <2>8. \A x \in Range(p[12]) : x.code = "conversation-id"
    BY <2>2, ItemIs
  <2>9. Len(p[12]) = 1
    BY <1>1, <2>1 DEF TextParts, Item
  <2>10. PICK q, r, s : /\ q = p[1] \o p[2] \o p[3] \o p[4]
                        /\ r = q \o p[5] \o p[6] \o p[7]
                        /\ s = r \o p[8] \o p[9] \o p[10]
    OBVIOUS
  <2>11. WithoutParameters(q)
    <3>1. /\ WithoutParameters(p[1]) /\ WithoutParameters(p[2])
          /\ WithoutParameters(p[3]) /\ WithoutParameters(p[4])
      BY <2>3, <2>5 DEF WithoutParameters
    <3> QED BY <2>10, <3>1, FourJoined
  <2>12. WithoutParameters(r)
    <3>1. WithoutParameters(p[5]) /\ WithoutParameters(p[6]) /\ WithoutParameters(p[7])
      BY <2>3, <2>6 DEF WithoutParameters
    <3> QED BY <2>10, <2>11, <3>1, FourJoined
  <2>13. WithoutParameters(s)
    <3>1. WithoutParameters(p[8]) /\ WithoutParameters(p[9]) /\ WithoutParameters(p[10])
      BY <2>3, <2>7 DEF WithoutParameters
    <3> QED BY <2>10, <2>12, <3>1, FourJoined
  <2>14. PICK t, u : t = s \o p[11] /\ u = t \o p[12]
    OBVIOUS
  <2>15. IsList(t) /\ \A x \in Range(t) : x.code # "X-"
    BY <2>3, <2>7, <2>13, <2>14, Behind DEF WithoutParameters
  <2>16. IsList(u) /\ Len(u) = Len(t) + 1
    <3>1. IsList(u)
      BY <2>3, <2>14, <2>15, Behind
    <3>2. Len(u) = Len(t) + Len(p[12])
      BY <2>3, <2>14, <2>15, LengthsAdd
    <3> QED BY <2>9, <3>1, <3>2
  <2>17. \A x \in Range(u) : x.code # "X-"
    BY <2>3, <2>8, <2>14, <2>15, Behind
  <2>18. items = u \o p[13]
    BY <1>2, <2>10, <2>14 DEF Joined
  <2>19. Len(t) \in Nat
    BY <2>15 DEF IsList
  <2>20. i \in 1..Len(t)
    <3>1. i \in 1..Len(u) /\ items[i] = u[i]
      <4>1. \/ i \in 1..Len(u) /\ items[i] = u[i]
            \/ items[i] \in Range(p[13])
        BY <2>4, <2>16, <2>18, InPart
      <4> QED BY <2>4, <4>1
    <3>2. \/ i \in 1..Len(t)
          \/ u[i] \in Range(p[12])
      BY <2>3, <2>14, <2>15, <3>1, InPart
    <3> QED BY <2>8, <3>1, <3>2
  <2>21. j \in 1..Len(u)
    BY <2>16, <2>19, <2>20
  <2>22. \/ items[j] \in Range(u)
         \/ j > Len(u)
    BY <2>4, <2>16, <2>18, InPart
  <2>23. items[j] \in Range(u)
    BY <2>16, <2>19, <2>21, <2>22
  <2> QED BY <2>17, <2>23
<1> QED BY <1>5, <1>6

NamedField(code) ==
  CASE code = "receiver" -> "receivers"
    [] code = "reply-to" -> "replyTo"
    [] code = "reply-by" -> "replyBy"
    [] OTHER             -> code

TextAspect(item) ==
  IF item.code = "X-" THEN <<"parameter", item.data>> ELSE <<"field", NamedField(item.code)>>

LEMMA NamedFieldIs ==
  /\ \A f \in TextField : NamedField(f) = f
  /\ NamedField("sender") = "sender" /\ NamedField("receiver") = "receivers"
  /\ NamedField("reply-to") = "replyTo" /\ NamedField("content") = "content"
  /\ NamedField("reply-by") = "replyBy" /\ NamedField("protocol") = "protocol"
BY DEF NamedField, TextField

LEMMA TextAspectIs ==
  ASSUME NEW m, NEW item, TextItem(item, m)
  PROVE  IsAspect(TextAspect(item))
<1>1. CASE item.code = "X-"
  BY <1>1 DEF IsAspect, TextAspect
<1>2. CASE item.code # "X-"
  <2>1. item.code \in TextField \cup {"sender", "receiver", "reply-to", "content", "reply-by", "protocol"}
    BY <1>2 DEF TextItem
  <2>2. NamedField(item.code) \in Field
    BY <2>1, NamedFieldIs DEF Field, Own
  <2> QED BY <1>2, <2>2 DEF IsAspect, TextAspect
<1> QED BY <1>1, <1>2

LEMMA TextItemReadable ==
  ASSUME NEW m, MessageOK(m), Portable(m, "STRING_REP"), NEW items, items = StringItems(m),
         NEW i \in 1..Len(items)
  PROVE  StringItemReadable(items, i)
<1>1. PortableAsText(m)
  BY PortableParts
<1>2. IsList(items) /\ TextItem(items[i], m)
  BY TextItems
<1>3. CASE items[i].code = "sender"
  <2>1. AgentPortableAsText(m.sender) /\ items[i].data = m.sender
    BY <1>1, <1>2, <1>3 DEF PortableAsText, TextItem
  <2> QED BY <1>3, <2>1 DEF StringItemReadable, AgentPortableAsText
<1>4. CASE items[i].code = "receiver"
  <2>1. (\A a \in Range(m.receivers) : AgentPortableAsText(a)) /\ items[i].data = m.receivers
    BY <1>1, <1>2, <1>4 DEF PortableAsText, TextItem
  <2> QED BY <1>4, <2>1 DEF StringItemReadable, AgentPortableAsText
<1>5. CASE items[i].code = "reply-to"
  <2>1. (\A a \in Range(m.replyTo) : AgentPortableAsText(a)) /\ items[i].data = m.replyTo
    BY <1>1, <1>2, <1>5 DEF PortableAsText, TextItem
  <2> QED BY <1>5, <2>1 DEF StringItemReadable, AgentPortableAsText
<1>6. CASE items[i].code = "protocol"
  <2>1. WordWithoutKeyword(items[i].data)
    BY <1>1, <1>2, <1>6 DEF PortableAsText, TextItem, WordWithoutKeyword
  <2>2. ASSUME i < Len(items) PROVE items[i + 1].code # "X-"
    <3>1. PICK j : j = i + 1
      OBVIOUS
    <3>2. j \in 1..Len(items)
      BY <1>2, <2>2, <3>1 DEF IsList
    <3>3. items[j].code # "X-"
      BY <1>1, <1>6, <3>1, <3>2, ProtocolEnds
    <3> QED BY <3>1, <3>3
  <2> QED BY <1>6, <2>1, <2>2 DEF StringItemReadable
<1>7. CASE items[i].code = "X-"
  <2>1. items[i].data.name \in PlainWord
    BY <1>1, <1>2, <1>7 DEF PortableAsText, TextItem
  <2> QED BY <1>7, <2>1 DEF StringItemReadable, UserdefinedParameterReadable, WordWithoutKeyword
<1>8. CASE items[i].code \in TextField \cup {"content", "reply-by"}
  BY <1>8 DEF StringItemReadable, TextField
<1> QED BY <1>2, <1>3, <1>4, <1>5, <1>6, <1>7, <1>8 DEF TextItem

\* One item more.
LEMMA TextBrings ==
  ASSUME NEW m, MessageOK(m), Portable(m, "STRING_REP"), NEW item, TextItem(item, m),
         NEW x, Carried(x, m), NEW y, y = StoreStringItem(x, item)
  PROVE  Onward(x, y, m) /\ Got(y, TextAspect(item), m)
<1>1. PortableAsText(m) /\ DateKept(m.replyBy)
  BY PortableParts
<1>2. ASSUME NEW f \in Field, item.code # "X-", NamedField(item.code) = f,
             Onward(x, y, m) /\ Right(y, f, m)
      PROVE  Onward(x, y, m) /\ Got(y, TextAspect(item), m)
  BY <1>2 DEF Got, TextAspect
<1>3. Own \subseteq Field /\ TextField \subseteq Field
  BY DEF Field
<1>4. CASE item.code = "X-"
  <2>1. PICK u \in Range(m.parameters) : u = item.data
    BY <1>4 DEF TextItem
  <2>2. y = AddUserdefParam(x, u)
    BY <1>4, <2>1 DEF StoreStringItem
  <2>3. Onward(x, y, m) /\ u \in Range(y.parameters)
    BY <2>2, ParameterBrought
  <2> QED BY <1>4, <2>1, <2>3 DEF Got, TextAspect
<1>5. CASE item.code = "sender"
  <2>1. AgentOK(m.sender) /\ AgentPortableAsText(m.sender) /\ item.data = m.sender
    BY <1>1, <1>5, MessageParts DEF PortableAsText, TextItem
  <2>2. PICK v : v = ReadAgentIdentifier(m.sender)
    OBVIOUS
  <2>3. AgentOK(v) /\ AgentEqual(v, m.sender)
    BY <2>1, <2>2, TextAgentArrives, AgentArrives
  <2>4. y = [x EXCEPT !.sender = v]
    BY <1>5, <2>1, <2>2 DEF StoreStringItem
  <2>5. Onward(x, y, m) /\ Right(y, "sender", m)
    BY <2>3, <2>4, SenderBrought
  <2> QED BY <1>2, <1>3, <1>5, <2>5, NamedFieldIs DEF Own
<1>6. CASE item.code = "receiver"
  <2>1. PICK ag, bs : ag = m.receivers /\ bs = ReadAgentIdentifierSet(ag)
    OBVIOUS
  <2>2. AgentList(ag) /\ (\A a \in Range(ag) : AgentPortableAsText(a)) /\ item.data = ag
    BY <1>1, <1>6, <2>1, MessageParts DEF PortableAsText, TextItem
  <2>3. AgentList(bs) /\ SameAgents(bs, ag)
    BY <2>1, <2>2, TextListArrives, ListCopied
  <2>4. y = [x EXCEPT !.receivers = bs]
    BY <1>6, <2>1, <2>2 DEF StoreStringItem
  <2>5. Onward(x, y, m) /\ Right(y, "receivers", m)
    BY <2>1, <2>3, <2>4, ReceiversBrought
  <2> QED BY <1>2, <1>3, <1>6, <2>5, NamedFieldIs DEF Own
<1>7. CASE item.code = "reply-to"
  <2>1. PICK ag, bs : ag = m.replyTo /\ bs = ReadAgentIdentifierSet(ag)
    OBVIOUS
  <2>2. AgentList(ag) /\ (\A a \in Range(ag) : AgentPortableAsText(a)) /\ item.data = ag
    BY <1>1, <1>7, <2>1, MessageParts DEF PortableAsText, TextItem
  <2>3. AgentList(bs) /\ SameAgents(bs, ag)
    BY <2>1, <2>2, TextListArrives, ListCopied
  <2>4. y = [x EXCEPT !.replyTo = bs]
    BY <1>7, <2>1, <2>2 DEF StoreStringItem
  <2>5. Onward(x, y, m) /\ Right(y, "replyTo", m)
    BY <2>1, <2>3, <2>4, ReplyToBrought
  <2> QED BY <1>2, <1>3, <1>7, <2>5, NamedFieldIs DEF Own
<1>8. CASE item.code = "content"
  <2>1. y = [x EXCEPT !.content = m.content]
    BY <1>8 DEF StoreStringItem, TextItem
  <2>2. Onward(x, y, m) /\ Right(y, "content", m)
    BY <2>1, ContentBrought
  <2> QED BY <1>2, <1>3, <1>8, <2>2, NamedFieldIs DEF Own
<1>9. CASE item.code = "reply-by"
  <2>1. ReadDateTime(item.data) = m.replyBy
    BY <1>1, <1>9 DEF TextItem, ReadDateTime, DateKept
  <2>2. y = [x EXCEPT !.replyBy = m.replyBy]
    BY <1>9, <2>1 DEF StoreStringItem
  <2>3. Onward(x, y, m) /\ Right(y, "replyBy", m)
    BY <2>2, ReplyByBrought
  <2> QED BY <1>2, <1>3, <1>9, <2>3, NamedFieldIs DEF Own
<1>10. CASE item.code = "protocol"
  <2>1. y = SetProtocol(x, m.protocol)
    BY <1>10 DEF StoreStringItem, TextItem
  <2>2. Onward(x, y, m) /\ Right(y, "protocol", m)
    BY <2>1, ProtocolBrought
  <2> QED BY <1>2, <1>3, <1>10, <2>2, NamedFieldIs DEF Own
<1>11. CASE item.code \in TextField
  <2>1. PICK f \in TextField : f = item.code
    BY <1>11
  <2>2. item.data = m.texts[f]
    BY <2>1 DEF TextItem
  <2>3. y = [x EXCEPT !.texts[f] = m.texts[f]]
    BY <2>1, <2>2 DEF StoreStringItem, TextField
  <2>4. Onward(x, y, m) /\ Right(y, f, m)
    BY <2>1, <2>3, TextBrought
  <2>5. f # "X-" /\ f \in Field
    BY <1>3, <2>1 DEF TextField
  <2>6. NamedField(f) = f
    BY <2>1, NamedFieldIs
  <2> QED BY <1>2, <2>1, <2>4, <2>5, <2>6
<1> QED BY <1>4, <1>5, <1>6, <1>7, <1>8, <1>9, <1>10, <1>11 DEF TextItem

LEMMA TextTaken ==
  ASSUME NEW m, MessageOK(m), NEW item, TextItem(item, m),
         NEW x, Carried(x, m), Taken("STRING_REP", x, m),
         NEW y, y = StoreStringItem(x, item)
  PROVE  Taken("STRING_REP", y, m)
<1>1. MessageOK(x)
  BY DEF Carried
<1>2. CASE item.code = "sender"
  <2>1. PICK v : v = ReadAgentIdentifier(m.sender)
    OBVIOUS
  <2>2. y = [x EXCEPT !.sender = v] /\ Made("STRING_REP", v, m.sender)
    BY <1>2, <2>1 DEF StoreStringItem, TextItem, Made
  <2> QED BY <1>1, <2>2, SenderTaken
<1>3. ASSUME NEW ag, NEW bs, bs = ReadAgentIdentifierSet(ag)
      PROVE  AllMade("STRING_REP", bs, ag)
  BY <1>3 DEF ReadAgentIdentifierSet, AllMade, Made, Range
<1>4. CASE item.code = "receiver"
  <2>1. PICK bs : bs = ReadAgentIdentifierSet(m.receivers)
    OBVIOUS
  <2>2. y = [x EXCEPT !.receivers = bs]
    BY <1>4, <2>1 DEF StoreStringItem, TextItem
  <2> QED BY <1>1, <1>3, <2>1, <2>2, ReceiversTaken
<1>5. CASE item.code = "reply-to"
  <2>1. PICK bs : bs = ReadAgentIdentifierSet(m.replyTo)
    OBVIOUS
  <2>2. y = [x EXCEPT !.replyTo = bs]
    BY <1>5, <2>1 DEF StoreStringItem, TextItem
  <2> QED BY <1>1, <1>3, <2>1, <2>2, ReplyTosTaken
<1>6. CASE item.code \notin {"sender", "receiver", "reply-to"}
  <2>1. AgentsKept(y, x)
    <3>1. CASE item.code \in {"content", "reply-by", "protocol", "X-"}
      BY <1>1, <3>1, SetterKeepsAgents DEF StoreStringItem
    <3>2. CASE item.code \in TextField
      <4>1. y = [x EXCEPT !.texts[item.code] = item.data]
        BY <3>2 DEF StoreStringItem, TextField
      <4> QED BY <1>1, <4>1, SetterKeepsAgents
    <3> QED BY <1>6, <3>1, <3>2 DEF TextItem
  <2> QED BY <2>1, OthersTaken
<1> QED BY <1>2, <1>4, <1>5, <1>6

\* Every field that was written has been read, as text or in XML.
NamedRead(items, n, what, r, m) ==
  \A i \in 1..n :
    /\ Got(r, what[i], m)
    /\ items[i].code \notin {"X-", "user-defined"} =>
         what[i] = <<"field", NamedField(items[i].code)>>

NamedSeen(items, n, m) ==
  /\ IsValid(m.sender) => Seen(items, n, "sender")
  /\ m.receivers # <<>> => Seen(items, n, "receiver")
  /\ m.replyTo # <<>> => Seen(items, n, "reply-to")
  /\ m.content # NoContent => Seen(items, n, "content")
  /\ m.replyBy # NoTime => Seen(items, n, "reply-by")
  /\ m.protocol # EmptyText => Seen(items, n, "protocol")
  /\ \A f \in TextField : m.texts[f] # EmptyText => Seen(items, n, f)

LEMMA NamedFieldRead ==
  ASSUME NEW items, NEW n, NEW what, NEW r, NEW m, NamedRead(items, n, what, r, m),
         NEW code, code \notin {"X-", "user-defined"}, Seen(items, n, code),
         NEW f, f = NamedField(code)
  PROVE  Right(r, f, m)
<1>1. PICK i \in 1..n : items[i].code = code
  BY DEF Seen
<1>2. Got(r, what[i], m) /\ what[i] = <<"field", f>>
  BY <1>1 DEF NamedRead
<1> QED BY <1>2 DEF Got

LEMMA NamedFieldsRead ==
  ASSUME NEW m, MessageOK(m), SenderPortable(m), NEW items, NEW n, NamedSeen(items, n, m),
         NEW what, NEW r, NamedRead(items, n, what, r, m), NEW f \in Field
  PROVE  Value(m, f) = Value(NewMessage, f) \/ Right(r, f, m)
<1>1. m.sender = UndefinedAgent \/ Right(r, "sender", m)
  <2>1. IsValid(m.sender) => Seen(items, n, "sender")
    BY DEF NamedSeen
  <2> QED BY <2>1, NamedFieldIs, NamedFieldRead DEF SenderPortable
<1>2. m.receivers = <<>> \/ Right(r, "receivers", m)
  <2>1. m.receivers # <<>> => Seen(items, n, "receiver")
    BY DEF NamedSeen
  <2> QED BY <2>1, NamedFieldIs, NamedFieldRead
<1>3. m.replyTo = <<>> \/ Right(r, "replyTo", m)
  <2>1. m.replyTo # <<>> => Seen(items, n, "reply-to")
    BY DEF NamedSeen
  <2> QED BY <2>1, NamedFieldIs, NamedFieldRead
<1>4. m.content = NoContent \/ Right(r, "content", m)
  <2>1. m.content # NoContent => Seen(items, n, "content")
    BY DEF NamedSeen
  <2> QED BY <2>1, NamedFieldIs, NamedFieldRead
<1>5. m.replyBy = NoTime \/ Right(r, "replyBy", m)
  <2>1. m.replyBy # NoTime => Seen(items, n, "reply-by")
    BY DEF NamedSeen
  <2> QED BY <2>1, NamedFieldIs, NamedFieldRead
<1>6. m.protocol = EmptyText \/ Right(r, "protocol", m)
  <2>1. m.protocol # EmptyText => Seen(items, n, "protocol")
    BY DEF NamedSeen
  <2> QED BY <2>1, NamedFieldIs, NamedFieldRead
<1>7. ASSUME NEW g \in TextField PROVE m.texts[g] = EmptyText \/ Right(r, g, m)
  <2>1. m.texts[g] # EmptyText => Seen(items, n, g)
    BY DEF NamedSeen
  <2>2. g \notin {"X-", "user-defined"}
    BY DEF TextField
  <2>3. g = NamedField(g)
    BY NamedFieldIs
  <2> QED BY <2>1, <2>2, <2>3, NamedFieldRead
<1> QED BY <1>1, <1>2, <1>3, <1>4, <1>5, <1>6, <1>7, FieldsComplete

LEMMA TextArrives ==
  ASSUME NEW m, MessageOK(m), Portable(m, "STRING_REP")
  PROVE  Agrees(StringTransferred(m), m) /\ Taken("STRING_REP", StringTransferred(m), m)
<1>1. PICK items, n : items = StringItems(m) /\ n = Len(items)
  OBVIOUS
<1>2. /\ IsList(items) /\ n \in Nat
      /\ \A i \in 1..n : TextItem(items[i], m)
  BY <1>1, TextItems DEF IsList
<1>3. PICK first : first = SetPerformative(NewMessage, m.performative)
  OBVIOUS
<1>4. PortableAsText(m) /\ IsInjective(m.parameters)
  BY PortableParts
<1>5. StringTransferred(m) = FoldLeft(StoreStringItem, first, items)
  <2>1. MessageTypeReadable(m.performative)
    BY <1>4 DEF PortableAsText, MessageTypeReadable
  <2>2. \A i \in DOMAIN items : StringItemReadable(items, i)
    <3>1. DOMAIN items = 1..Len(items)
      BY <1>2 DEF IsList
    <3> QED BY <1>1, <3>1, TextItemReadable
  <2> QED BY <1>1, <1>3, <2>1, <2>2 DEF StringTransferred
<1>6. PICK c : Chain("text", first, items, n, c) /\ FoldLeft(StoreStringItem, first, items) = c[n]
  BY <1>1, <1>2, FoldText
<1>7. PICK what : what = [i \in 1..n |-> TextAspect(items[i])]
  OBVIOUS
<1>8. Carried(c[0], m) /\ Taken("STRING_REP", c[0], m)
  <2>1. c[0] = first
    BY <1>2, <1>6, ChainStart
  <2> QED BY <1>3, <2>1, FirstCarried, FirstTaken
<1>9. Steps("STRING_REP", c, what, n, m)
  <2>1. ASSUME NEW k \in 1..n
        PROVE  IsAspect(what[k]) /\
                 (Carried(c[k - 1], m) => Brings("STRING_REP", c[k - 1], c[k], what[k], m))
    <3>1. PICK x, y : x = c[k - 1] /\ y = c[k]
      OBVIOUS
    <3>2. y = StoreStringItem(x, items[k])
      <4>1. c[k] = Step("text", items, c[k - 1], k)
        BY <1>2, <1>6, ChainAt
      <4> QED BY <3>1, <4>1 DEF Step
    <3>3. TextItem(items[k], m) /\ what[k] = TextAspect(items[k])
      BY <1>2, <1>7
    <3>4. IsAspect(what[k])
      BY <3>3, TextAspectIs
    <3>5. Carried(x, m) => Brings("STRING_REP", x, y, what[k], m)
      BY <3>2, <3>3, TextBrings, TextTaken DEF Brings
    <3> QED BY <3>1, <3>4, <3>5
  <2> QED BY <2>1 DEF Steps
<1>10. /\ Carried(c[n], m) /\ Taken("STRING_REP", c[n], m)
       /\ \A k \in 1..n : Got(c[n], what[k], m)
  BY <1>2, <1>8, <1>9, Gathered
<1>11. PICK r : r = c[n]
  OBVIOUS
<1>12. NamedRead(items, n, what, r, m)
  <2>1. ASSUME NEW i \in 1..n
        PROVE  /\ Got(r, what[i], m)
               /\ items[i].code \notin {"X-", "user-defined"} =>
                    what[i] = <<"field", NamedField(items[i].code)>>
    BY <1>7, <1>10, <1>11 DEF TextAspect
  <2> QED BY <2>1 DEF NamedRead
<1>13. NamedSeen(items, n, m)
  <2>1. \A f \in TextField : m.texts[f] # EmptyText => Seen(items, n, f)
    BY <1>1, TextItems DEF TextField
  <2>2. /\ IsValid(m.sender) => Seen(items, n, "sender")
        /\ m.receivers # <<>> => Seen(items, n, "receiver")
        /\ m.replyTo # <<>> => Seen(items, n, "reply-to")
        /\ m.content # NoContent => Seen(items, n, "content")
        /\ m.replyBy # NoTime => Seen(items, n, "reply-by")
        /\ m.protocol # EmptyText => Seen(items, n, "protocol")
    BY <1>1, TextItems
  <2> QED BY <2>1, <2>2 DEF NamedSeen
<1>14. \A f \in Field : Value(m, f) = Value(NewMessage, f) \/ Right(r, f, m)
  <2>1. SenderPortable(m)
    BY <1>4 DEF PortableAsText
  <2> QED BY <1>12, <1>13, <2>1, NamedFieldsRead
<1>15. ASSUME NEW u \in Range(m.parameters)
       PROVE  u \in Range(r.parameters)
  <2>1. PICK i \in 1..n : items[i].code = "X-" /\ items[i].data = u
    BY <1>1, TextItems
  <2>2. what[i] = <<"parameter", u>>
    BY <1>7, <2>1 DEF TextAspect
  <2>3. Got(r, what[i], m)
    BY <1>10, <1>11, <2>1
  <2> QED BY <2>2, <2>3 DEF Got
<1>16. Range(m.parameters) \subseteq Range(r.parameters)
  BY <1>15
<1>17. Agrees(r, m)
  BY <1>10, <1>11, <1>14, <1>16, Complete
<1> QED BY <1>5, <1>6, <1>10, <1>11, <1>17

-----------------------------------------------------------------------------
(* The representation in XML.                                              *)

XMLAspect(item) ==
  IF item.code = "user-defined"
  THEN <<"parameter", [name |-> item.data.href, value |-> item.data.text]>>
  ELSE <<"field", NamedField(item.code)>>

LEMMA XMLAspectIs ==
  ASSUME NEW m, NEW item, XMLItem(item, m)
  PROVE  IsAspect(XMLAspect(item))
<1>1. CASE item.code = "user-defined"
  BY <1>1 DEF IsAspect, XMLAspect
<1>2. CASE item.code # "user-defined"
  <2>1. item.code \in TextField \cup {"sender", "receiver", "reply-to", "content", "reply-by", "protocol"}
    BY <1>2 DEF XMLItem
  <2>2. NamedField(item.code) \in Field
    BY <2>1, NamedFieldIs DEF Field, Own
  <2> QED BY <1>2, <2>2 DEF IsAspect, XMLAspect
<1> QED BY <1>1, <1>2

\* One item more.
LEMMA XMLBrings ==
  ASSUME NEW m, MessageOK(m), Portable(m, "XML"), NEW item, XMLItem(item, m),
         NEW x, Carried(x, m), NEW y, y = ParseParameter(x, item)
  PROVE  Onward(x, y, m) /\ Got(y, XMLAspect(item), m)
<1>1. PortableInXML(m) /\ DateKept(m.replyBy) /\ x \notin {Unreadable, Escaped}
  BY PortableParts, CarriedNot DEF NoMessage
<1>2. ASSUME NEW f \in Field, item.code # "user-defined", NamedField(item.code) = f,
             Onward(x, y, m) /\ Right(y, f, m)
      PROVE  Onward(x, y, m) /\ Got(y, XMLAspect(item), m)
  BY <1>2 DEF Got, XMLAspect
<1>3. Own \subseteq Field /\ TextField \subseteq Field
  BY DEF Field
<1>4. CASE item.code = "user-defined"
  <2>1. PICK u \in Range(m.parameters) : item.data = Element(u)
    BY <1>4 DEF XMLItem
  <2>2. u = [name |-> u.name, value |-> u.value]
    BY MessageParts DEF IsParam
  <2>3. AttributeKept(u.name) /\ ElementKept(u.value)
    BY <1>1 DEF PortableInXML
  <2>4. item.data.href = u.name /\ item.data.text = u.value
    BY <2>1 DEF Element
  <2>5. ParseUserdefinedParameter(item.data) = u
    BY <2>2, <2>3, <2>4 DEF ParseUserdefinedParameter, AttributeKept, ElementKept
  <2>6. y = AddUserdefParam(x, u)
    BY <1>1, <1>4, <2>3, <2>4, <2>5 DEF ParseParameter, ElementKept
  <2>7. Onward(x, y, m) /\ u \in Range(y.parameters)
    BY <2>6, ParameterBrought
  <2>8. XMLAspect(item) = <<"parameter", u>>
    BY <1>4, <2>2, <2>4 DEF XMLAspect
  <2> QED BY <2>7, <2>8 DEF Got
<1>5. CASE item.code = "sender"
  <2>1. PICK e, v : e = GetAgentID(m.sender) /\ v = ParseAgentID(e)
    OBVIOUS
  <2>2. AgentOK(m.sender) /\ AgentPortableInXML(m.sender) /\ item.data = e
    BY <1>1, <1>5, <2>1, MessageParts DEF PortableInXML, XMLItem
  <2>3. XMLAgentReadable(e) /\ AgentOK(v) /\ AgentEqual(v, m.sender)
    BY <2>1, <2>2, XMLAgentArrives, AgentArrives
  <2>4. y = [x EXCEPT !.sender = v]
    BY <1>1, <1>5, <2>1, <2>2, <2>3 DEF ParseParameter
  <2>5. Onward(x, y, m) /\ Right(y, "sender", m)
    BY <2>3, <2>4, SenderBrought
  <2> QED BY <1>2, <1>3, <1>5, <2>5, NamedFieldIs DEF Own
<1>6. CASE item.code = "receiver"
  <2>1. PICK ag, es, bs : /\ ag = m.receivers /\ es = GetAgentIDSequence(ag)
                          /\ bs = ParseAgentIDSequence(es)
    OBVIOUS
  <2>2. /\ AgentList(ag) /\ (\A a \in Range(ag) : AgentPortableInXML(a)) /\ item.data = es
        /\ NoDuplicates(m.receivers)
    BY <1>1, <1>6, <2>1, MessageParts DEF PortableInXML, XMLItem
  <2>3. (\A e \in Range(es) : XMLAgentReadable(e)) /\ AgentList(bs) /\ Copies(bs, m.receivers)
    BY <2>1, <2>2, XMLListArrives
  <2>4. y = AddReceivers(x, bs)
    BY <1>1, <1>6, <2>1, <2>2, <2>3 DEF ParseParameter
  <2>5. Onward(x, y, m) /\ Right(y, "receivers", m)
    BY <2>2, <2>3, <2>4, ReceiversAdded
  <2> QED BY <1>2, <1>3, <1>6, <2>5, NamedFieldIs DEF Own
<1>7. CASE item.code = "reply-to"
  <2>1. PICK ag, es, bs : /\ ag = m.replyTo /\ es = GetAgentIDSequence(ag)
                          /\ bs = ParseAgentIDSequence(es)
    OBVIOUS
  <2>2. AgentList(ag) /\ (\A a \in Range(ag) : AgentPortableInXML(a)) /\ item.data = es
    BY <1>1, <1>7, <2>1, MessageParts DEF PortableInXML, XMLItem
  <2>3. (\A e \in Range(es) : XMLAgentReadable(e)) /\ AgentList(bs) /\ Copies(bs, ag)
    BY <2>1, <2>2, XMLListArrives
  <2>4. SameAgents(bs, m.replyTo)
    BY <2>1, <2>2, <2>3, ListCopied
  <2>5. y = [x EXCEPT !.replyTo = bs]
    BY <1>1, <1>7, <2>1, <2>2, <2>3 DEF ParseParameter
  <2>6. Onward(x, y, m) /\ Right(y, "replyTo", m)
    BY <2>3, <2>4, <2>5, ReplyToBrought
  <2> QED BY <1>2, <1>3, <1>7, <2>6, NamedFieldIs DEF Own
<1>8. CASE item.code = "content"
  <2>1. CData(item.data) = m.content
    BY <1>1, <1>8 DEF PortableInXML, XMLItem, CData
  <2>2. y = [x EXCEPT !.content = m.content]
    BY <1>1, <1>8, <2>1 DEF ParseParameter
  <2>3. Onward(x, y, m) /\ Right(y, "content", m)
    BY <2>2, ContentBrought
  <2> QED BY <1>2, <1>3, <1>8, <2>3, NamedFieldIs DEF Own
<1>9. CASE item.code = "reply-by"
  <2>1. StrToDate(item.data) = m.replyBy
    BY <1>1, <1>9 DEF XMLItem, StrToDate, DateKept
  <2>2. y = [x EXCEPT !.replyBy = m.replyBy]
    BY <1>1, <1>9, <2>1 DEF ParseParameter
  <2>3. Onward(x, y, m) /\ Right(y, "replyBy", m)
    BY <2>2, ReplyByBrought
  <2> QED BY <1>2, <1>3, <1>9, <2>3, NamedFieldIs DEF Own
<1>10. CASE item.code = "protocol"
  <2>1. item.data = m.protocol /\ m.protocol # EmptyText /\ m.protocol \in Checked
    BY <1>10, MessageParts DEF XMLItem
  <2>2. AsElement[item.data] = m.protocol /\ m.protocol # UnreadableText
    BY <1>1, <2>1 DEF PortableInXML, ElementKept
  <2>3. y = SetProtocol(x, m.protocol)
    BY <1>1, <1>10, <2>1, <2>2 DEF ParseParameter
  <2>4. Onward(x, y, m) /\ Right(y, "protocol", m)
    BY <2>3, ProtocolBrought
  <2> QED BY <1>2, <1>3, <1>10, <2>4, NamedFieldIs DEF Own
<1>11. CASE item.code \in TextField
  <2>1. PICK f \in TextField : f = item.code
    BY <1>11
  <2>2. item.data = m.texts[f] /\ m.texts[f] # EmptyText
    BY <2>1 DEF XMLItem
  <2>3. AsElement[item.data] = m.texts[f] /\ AsElement[item.data] # UnreadableText
    BY <1>1, <2>1, <2>2 DEF PortableInXML, ElementKept
  <2>4. y = [x EXCEPT !.texts[f] = m.texts[f]]
    BY <1>1, <2>1, <2>3 DEF ParseParameter, TextField
  <2>5. Onward(x, y, m) /\ Right(y, f, m)
    BY <2>1, <2>4, TextBrought
  <2>6. f # "user-defined" /\ f \in Field
    BY <1>3, <2>1 DEF TextField
  <2>7. NamedField(f) = f
    BY <2>1, NamedFieldIs
  <2> QED BY <1>2, <2>1, <2>5, <2>6, <2>7
<1> QED BY <1>4, <1>5, <1>6, <1>7, <1>8, <1>9, <1>10, <1>11 DEF XMLItem

LEMMA XMLTaken ==
  ASSUME NEW m, MessageOK(m), NEW item, XMLItem(item, m),
         NEW x, Carried(x, m), Taken("XML", x, m),
         NEW y, y = ParseParameter(x, item), Carried(y, m)
  PROVE  Taken("XML", y, m)
<1>1. x \notin {Unreadable, Escaped} /\ y \notin {Unreadable, Escaped} /\ MessageOK(x)
  BY CarriedNot DEF NoMessage, Carried
<1>2. CASE item.code = "sender"
  <2>1. PICK e, v : e = GetAgentID(m.sender) /\ v = ParseAgentID(e)
    OBVIOUS
  <2>2. item.data = e
    BY <1>2, <2>1 DEF XMLItem
  <2>3. y = [x EXCEPT !.sender = v]
    BY <1>1, <1>2, <2>1, <2>2 DEF ParseParameter
  <2>4. Made("XML", v, m.sender)
    BY <2>1 DEF Made
  <2> QED BY <1>1, <2>3, <2>4, SenderTaken
<1>3. ASSUME NEW ag, NEW es, es = GetAgentIDSequence(ag), NEW bs, bs = ParseAgentIDSequence(es)
      PROVE  AllMade("XML", bs, ag)
  <2>1. bs = [i \in DOMAIN ag |-> ParseAgentID(GetAgentID(ag[i]))]
    BY <1>3 DEF GetAgentIDSequence, ParseAgentIDSequence
  <2> QED BY <2>1 DEF AllMade, Made, Range
<1>4. CASE item.code = "receiver"
  <2>1. PICK es, bs : es = GetAgentIDSequence(m.receivers) /\ bs = ParseAgentIDSequence(es)
    OBVIOUS
  <2>2. item.data = es
    BY <1>4, <2>1 DEF XMLItem
  <2>3. y = AddReceivers(x, bs) /\ \A e \in Range(es) : XMLAgentReadable(e)
    BY <1>1, <1>4, <2>1, <2>2 DEF ParseParameter
  <2>4. AgentList(bs)
    BY <2>1, <2>3, MessageParts, XMLAgents
  <2> QED BY <1>1, <1>3, <2>1, <2>3, <2>4, ReceiversTaken
<1>5. CASE item.code = "reply-to"
  <2>1. PICK es, bs : es = GetAgentIDSequence(m.replyTo) /\ bs = ParseAgentIDSequence(es)
    OBVIOUS
  <2>2. item.data = es
    BY <1>5, <2>1 DEF XMLItem
  <2>3. y = [x EXCEPT !.replyTo = bs]
    BY <1>1, <1>5, <2>1, <2>2 DEF ParseParameter
  <2> QED BY <1>1, <1>3, <2>1, <2>3, ReplyTosTaken
<1>6. CASE item.code \notin {"sender", "receiver", "reply-to"}
  <2>1. AgentsKept(y, x)
    <3>1. CASE item.code \in {"content", "reply-by"}
      BY <1>1, <3>1, SetterKeepsAgents DEF ParseParameter
    <3>2. CASE item.code = "protocol"
      <4>1. y = SetProtocol(x, AsElement[item.data])
        BY <1>1, <3>2 DEF ParseParameter
      <4> QED BY <1>1, <4>1, SetterKeepsAgents
    <3>3. CASE item.code = "user-defined"
      <4>1. y = AddUserdefParam(x, ParseUserdefinedParameter(item.data))
        BY <1>1, <3>3 DEF ParseParameter
      <4> QED BY <1>1, <4>1, SetterKeepsAgents
    <3>4. CASE item.code \in TextField
      <4>1. y = [x EXCEPT !.texts[item.code] = AsElement[item.data]]
        BY <1>1, <3>4 DEF ParseParameter, TextField
      <4> QED BY <1>1, <4>1, SetterKeepsAgents
    <3> QED BY <1>6, <3>1, <3>2, <3>3, <3>4 DEF XMLItem
  <2> QED BY <2>1, OthersTaken
<1> QED BY <1>2, <1>4, <1>5, <1>6

LEMMA XMLArrives ==
  ASSUME NEW m, MessageOK(m), Portable(m, "XML")
  PROVE  Agrees(XMLTransferred(m), m) /\ Taken("XML", XMLTransferred(m), m)
<1>1. PICK items, n : items = XMLItems(m) /\ n = Len(items)
  OBVIOUS
<1>2. /\ IsList(items) /\ n \in Nat
      /\ \A i \in 1..n : XMLItem(items[i], m)
  BY <1>1, XMLItemsAre DEF IsList
<1>3. PICK first : first = SetPerformative(NewMessage, m.performative)
  OBVIOUS
<1>4. PortableInXML(m) /\ IsInjective(m.parameters)
  BY PortableParts
<1>5. XMLTransferred(m) = FoldLeft(ParseParameter, first, items)
  <2>1. AsAttribute[m.performative] = m.performative /\ m.performative \in Checked
    BY <1>4, MessageParts DEF PortableInXML, AttributeKept
  <2> QED BY <1>1, <1>3, <2>1 DEF XMLTransferred
<1>6. PICK c : Chain("xml", first, items, n, c) /\ FoldLeft(ParseParameter, first, items) = c[n]
  BY <1>1, <1>2, FoldXML
<1>7. PICK what : what = [i \in 1..n |-> XMLAspect(items[i])]
  OBVIOUS
<1>8. Carried(c[0], m) /\ Taken("XML", c[0], m)
  <2>1. c[0] = first
    BY <1>2, <1>6, ChainStart
  <2> QED BY <1>3, <2>1, FirstCarried, FirstTaken
<1>9. Steps("XML", c, what, n, m)
  <2>1. ASSUME NEW k \in 1..n
        PROVE  IsAspect(what[k]) /\
                 (Carried(c[k - 1], m) => Brings("XML", c[k - 1], c[k], what[k], m))
    <3>1. PICK x, y : x = c[k - 1] /\ y = c[k]
      OBVIOUS
    <3>2. y = ParseParameter(x, items[k])
      <4>1. c[k] = Step("xml", items, c[k - 1], k)
        BY <1>2, <1>6, ChainAt
      <4> QED BY <3>1, <4>1 DEF Step
    <3>3. XMLItem(items[k], m) /\ what[k] = XMLAspect(items[k])
      BY <1>2, <1>7
    <3>4. IsAspect(what[k])
      BY <3>3, XMLAspectIs
    <3>5. Carried(x, m) => Brings("XML", x, y, what[k], m)
      BY <3>2, <3>3, XMLBrings, XMLTaken DEF Brings, Onward
    <3> QED BY <3>1, <3>4, <3>5
  <2> QED BY <2>1 DEF Steps
<1>10. /\ Carried(c[n], m) /\ Taken("XML", c[n], m)
       /\ \A k \in 1..n : Got(c[n], what[k], m)
  BY <1>2, <1>8, <1>9, Gathered
<1>11. PICK r : r = c[n]
  OBVIOUS
<1>12. NamedRead(items, n, what, r, m)
  <2>1. ASSUME NEW i \in 1..n
        PROVE  /\ Got(r, what[i], m)
               /\ items[i].code \notin {"X-", "user-defined"} =>
                    what[i] = <<"field", NamedField(items[i].code)>>
    BY <1>7, <1>10, <1>11 DEF XMLAspect
  <2> QED BY <2>1 DEF NamedRead
<1>13. NamedSeen(items, n, m)
  <2>1. \A f \in TextField : m.texts[f] # EmptyText => Seen(items, n, f)
    BY <1>1, XMLItemsAre DEF TextField
  <2>2. /\ IsValid(m.sender) => Seen(items, n, "sender")
        /\ m.receivers # <<>> => Seen(items, n, "receiver")
        /\ m.replyTo # <<>> => Seen(items, n, "reply-to")
        /\ m.content # NoContent => Seen(items, n, "content")
        /\ m.replyBy # NoTime => Seen(items, n, "reply-by")
        /\ m.protocol # EmptyText => Seen(items, n, "protocol")
    BY <1>1, XMLItemsAre
  <2> QED BY <2>1, <2>2 DEF NamedSeen
<1>14. \A f \in Field : Value(m, f) = Value(NewMessage, f) \/ Right(r, f, m)
  <2>1. SenderPortable(m)
    BY <1>4 DEF PortableInXML
  <2> QED BY <1>12, <1>13, <2>1, NamedFieldsRead
<1>15. ASSUME NEW u \in Range(m.parameters)
       PROVE  u \in Range(r.parameters)
  <2>1. PICK i \in 1..n : items[i].code = "user-defined" /\ items[i].data = Element(u)
    BY <1>1, XMLItemsAre
  <2>2. u = [name |-> u.name, value |-> u.value]
    BY MessageParts DEF IsParam
  <2>3. what[i] = <<"parameter", u>>
    BY <1>7, <2>1, <2>2 DEF XMLAspect, Element
  <2>4. Got(r, what[i], m)
    BY <1>10, <1>11, <2>1
  <2> QED BY <2>3, <2>4 DEF Got
<1>16. Range(m.parameters) \subseteq Range(r.parameters)
  BY <1>15
<1>17. Agrees(r, m)
  BY <1>10, <1>11, <1>14, <1>16, Complete
<1> QED BY <1>5, <1>6, <1>10, <1>11, <1>17

-----------------------------------------------------------------------------
LEMMA TransferArrives ==
  ASSUME NEW m, MessageOK(m), NEW representation \in Representation, Portable(m, representation),
         NEW r, r = TransferredAs(m, representation)
  PROVE  Agrees(r, m) /\ Taken(representation, r, m)
<1>1. CASE representation = "BITEFFICIENT"
  <2>1. r = Transferred(m)
    BY <1>1 DEF TransferredAs
  <2> QED BY <1>1, <2>1, BitArrives
<1>2. CASE representation = "STRING_REP"
  <2>1. r = StringTransferred(m)
    BY <1>2 DEF TransferredAs
  <2> QED BY <1>2, <2>1, TextArrives
<1>3. CASE representation = "XML"
  <2>1. r = XMLTransferred(m)
    BY <1>3 DEF TransferredAs
  <2> QED BY <1>3, <2>1, XMLArrives
<1> QED BY <1>1, <1>2, <1>3 DEF Representation

\* A message that the representation can carry arrives: what its reader has
\* read is equal to what was sent, as ReadAsSent tells.
LEMMA PortableArrives == IInv => Arrives
<1> SUFFICES ASSUME TypeOK, ReadAsSent, received # NotSent, Portable(msg, Last(route))
             PROVE  received \notin NoMessage /\ MessageEqual(received, msg)
  BY DEF IInv, Arrives
<1>1. PICK r : r = Last(route)
  OBVIOUS
<1>2. r \in Representation
  <2>1. route \in Seq(Representation) /\ route # <<>>
    BY DEF TypeOK, ReadAsSent
  <2> QED BY <1>1, <2>1 DEF Last
<1>3. MessageOK(msg) /\ Portable(msg, r) /\ received = TransferredAs(msg, r)
  BY <1>1 DEF TypeOK, ReadAsSent
<1>4. Agrees(received, msg)
  BY <1>2, <1>3, TransferArrives
<1>5. IsInjective(msg.parameters)
  BY <1>3, PortableParts
<1> QED BY <1>3, <1>4, <1>5, AgreesEqual

\* The promise of the three encodings: a message whose texts the chosen
\* representation can carry, whose lists were filled without duplicates and
\* whose parameters have names of their own is read into a message equal to
\* it in the sense of ACLMessage::operator==, whatever the texts, the
\* identifiers and the depths of their resolvers.
THEOREM MessagesArrive == Spec => []Arrives
<1>1. Init => IInv
  BY Initially
<1>2. IInv /\ [Next]_vars => IInv'
  BY Inductive
<1>3. IInv => Arrives
  BY PortableArrives
<1> QED BY <1>1, <1>2, <1>3, PTL DEF Spec

-----------------------------------------------------------------------------
(***************************************************************************)
(* A message that is passed on in another representation.  What is left of *)
(* an identifier after a transmission has, at every level of its           *)
(* resolvers, no text that it had not before: what could be carried before *)
(* can be carried again.                                                   *)
(***************************************************************************)
\* Below a level without identifiers there are none.
LEMMA NothingBelow ==
  ASSUME NEW a, NEW k \in Nat, Nested(a, k) = {}, NEW n \in Nat
  PROVE  Nested(a, k + n) = {}
<1> DEFINE T == {j \in 0..n : Nested(a, k + j) = {}}
<1>1. 0 \in T
  <2>1. k + 0 = k /\ 0 \in 0..n
    OBVIOUS
  <2> QED BY <2>1
<1>2. ASSUME NEW j \in 1..n, j - 1 \in T PROVE j \in T
  <2>1. PICK i : i = k + (j - 1)
    OBVIOUS
  <2>2. i \in Nat /\ i + 1 = k + j /\ j \in 0..n
    BY <2>1
  <2>3. Nested(a, i) = {}
    BY <1>2, <2>1
  <2>4. Nested(a, i + 1) = {}
    <3> HIDE DEF T
    <3> QED BY <2>2, <2>3, NestedNext
  <2> QED BY <2>2, <2>4
<1>3. n \in T
  <2> HIDE DEF T
  <2> QED BY <1>1, <1>2, InductionTo
<1> QED BY <1>3

\* What is made of an identifier level by level has at each level what was
\* made of an identifier of that level.
Follows(x, b, last, deepest) ==
  /\ deepest => x.resolvers = <<>>
  /\ ~ deepest => Range(x.resolvers) \subseteq {last[y] : y \in Range(b.resolvers)}

LevelsFollow(a, m, g) ==
  \A k \in 0..m : \A b \in Nested(a, k) :
    Follows(g[m - k][b], b, g[(m - k) - 1], m - k = 0)

MadeAt(x, a, n, level) == \E b \in Nested(a, n) : x = level[b]

LEMMA FollowedDown ==
  ASSUME NEW a, NEW m \in Nat, NEW g, LevelsFollow(a, m, g),
         NEW n \in Nat, NEW x \in Nested(g[m][a], n)
  PROVE  n \in 0..m /\ MadeAt(x, a, n, g[m - n])
<1> DEFINE L == [j \in 0..(m + 1) |-> IF j <= m THEN {g[m - j][b] : b \in Nested(a, j)} ELSE {}]
<1>1. g[m][a] \in L[0]
  <2>1. L[0] = {g[m - 0][b] : b \in Nested(a, 0)} /\ m - 0 = m
    OBVIOUS
  <2> HIDE DEF L
  <2> QED BY <2>1, NestedSelf
<1>2. ASSUME NEW j \in 0..(m + 1), NEW y \in L[j], j # m + 1
      PROVE  Range(y.resolvers) \subseteq L[j + 1]
  <2>1. j \in 0..m /\ j \in Nat
    BY <1>2
  <2>2. PICK b \in Nested(a, j) : y = g[m - j][b]
    BY <2>1
  <2>3. PICK d : d = m - j
    OBVIOUS
  <2>4. Follows(y, b, g[d - 1], d = 0)
    <3> HIDE DEF L
    <3> QED BY <2>1, <2>2, <2>3 DEF LevelsFollow
  <2>5. CASE d = 0
    <3>1. y.resolvers = <<>> /\ Range(<<>>) = {}
      BY <2>4, <2>5 DEF Follows, Range
    <3> HIDE DEF L
    <3> QED BY <3>1
  <2>6. CASE d # 0
    <3>1. Range(y.resolvers) \subseteq {g[d - 1][c] : c \in Range(b.resolvers)}
      BY <2>4, <2>6 DEF Follows
    <3>2. Range(b.resolvers) \subseteq Nested(a, j + 1)
      <4> HIDE DEF L
      <4> QED BY <2>1, <2>2, NestedBelow
    <3>3. j + 1 \in 0..(m + 1) /\ j + 1 <= m /\ m - (j + 1) = d - 1
      BY <2>1, <2>3, <2>6
    <3>4. L[j + 1] = {g[d - 1][c] : c \in Nested(a, j + 1)}
      BY <3>3
    <3> HIDE DEF L
    <3> QED BY <3>1, <3>2, <3>4
  <2> QED BY <2>5, <2>6
<1>3. PICK w : w = g[m][a]
  OBVIOUS
<1>4. \A j \in 0..(m + 1) : Nested(w, j) \subseteq L[j]
  <2>1. PICK p \in Nat : p = m + 1
    OBVIOUS
  <2> HIDE DEF L
  <2> QED BY <1>1, <1>2, <1>3, <2>1, Layers
<1>5. n <= m
  <2> SUFFICES ASSUME ~ (n <= m) PROVE FALSE
    OBVIOUS
  <2>1. PICK i : i = n - (m + 1)
    OBVIOUS
  <2>2. i \in Nat /\ n = (m + 1) + i /\ m + 1 \in Nat
    BY <2>1
  <2>3. L[m + 1] = {}
    OBVIOUS
  <2>4. Nested(w, m + 1) = {}
    BY <1>4, <2>3
  <2>5. Nested(w, n) = {}
    <3> HIDE DEF L
    <3> QED BY <2>2, <2>4, NothingBelow
  <2> QED BY <1>3, <2>5
<1>6. n \in 0..m /\ x \in L[n]
  <2>1. n \in 0..m /\ n \in 0..(m + 1)
    BY <1>5
  <2> HIDE DEF L
  <2> QED BY <1>3, <1>4, <2>1
<1>7. PICK b \in Nested(a, n) : x = g[m - n][b]
  BY <1>6
<1> QED BY <1>6, <1>7 DEF MadeAt

\* The texts of an identifier that are among those of another one.
Inherits(y, x) ==
  /\ y.name = x.name
  /\ Range(y.addresses) \subseteq Range(x.addresses)
  /\ Range(y.parameters) \subseteq Range(x.parameters)

Inherited(b, a) ==
  \A k \in Nat : \A y \in Nested(b, k) : \E x \in Nested(a, k) : Inherits(y, x)

LEMMA ResolversFollow ==
  ASSUME NEW x, NEW b, NEW last, NEW d, ResolversOf(x, b, last, d)
  PROVE  Follows(x, b, last, d = 0)
BY DEF ResolversOf, Follows, Range

\* What the four conversions leave at each level below an identifier.
LEMMA WrittenDown ==
  ASSUME NEW a, AgentOK(a), NEW m \in Nat, NEW n \in Nat, NEW x \in Nested(WrittenAgent(a, m), n)
  PROVE  n \in 0..m /\ \E b \in Nested(a, n) : Alike(x, b)
<1>1. PICK g : Levels("written", a, a, m, m, g) /\ WrittenAgent(a, m) = g[m][a]
  BY WrittenUnfolds
<1>2. ASSUME NEW k \in 0..m, NEW b \in Nested(a, k), NEW d, d = m - k
      PROVE  Alike(g[d][b], b) /\ Follows(g[d][b], b, g[d - 1], d = 0)
  <2>1. Alike(g[d][b], b) /\ ResolversOf(g[d][b], b, g[d - 1], d)
    BY <1>1, <1>2, WrittenLevel
  <2> QED BY <2>1, ResolversFollow
<1>3. LevelsFollow(a, m, g)
  BY <1>2 DEF LevelsFollow
<1>4. x \in Nested(g[m][a], n)
  BY <1>1
<1>5. n \in 0..m /\ MadeAt(x, a, n, g[m - n])
  BY <1>3, <1>4, FollowedDown
<1>6. PICK b \in Nested(a, n) : x = g[m - n][b]
  BY <1>5 DEF MadeAt
<1> QED BY <1>2, <1>5, <1>6

BuiltFrom(x, b) ==
  /\ x.name = b.name /\ x.addresses = b.addresses
  /\ x.parameters = [i \in DOMAIN b.parameters |-> ReadParam(b.parameters[i])]

LEMMA BuiltDown ==
  ASSUME NEW a, AgentOK(a), NEW n \in Nat, NEW x \in Nested(BuildAgentID(a), n)
  PROVE  n \in 0..ResolverDepth /\ \E b \in Nested(a, n) : BuiltFrom(x, b)
<1>1. PICK m \in Nat : m = ResolverDepth
  BY BitefficientAssumption
<1>2. PICK g : Levels("built", a, a, m, m, g) /\ BuildAgentID(a) = g[m][a]
  BY <1>1, BuiltUnfolds
<1>3. ASSUME NEW k \in 0..m, NEW b \in Nested(a, k), NEW d, d = m - k
      PROVE  BuiltFrom(g[d][b], b) /\ Follows(g[d][b], b, g[d - 1], d = 0)
  <2>1. /\ g[d][b].name = b.name /\ g[d][b].addresses = b.addresses
        /\ g[d][b].parameters = [i \in DOMAIN b.parameters |-> ReadParam(b.parameters[i])]
        /\ d # 0 => \E t : Entered(g[d][b], b, g[d - 1], t)
        /\ d = 0 => g[d][b].resolvers = <<>>
    BY <1>2, <1>3, BuiltLevel
  <2>2. PICK y, last : y = g[d][b] /\ last = g[d - 1]
    OBVIOUS
  <2>3. ASSUME d # 0 PROVE Range(y.resolvers) \subseteq {last[c] : c \in Range(b.resolvers)}
    <3>1. PICK t : Entered(y, b, last, t)
      BY <2>1, <2>2, <2>3
    <3>2. t = [i \in DOMAIN b.resolvers |-> last[b.resolvers[i]]]
          /\ y.resolvers = FoldLeft(AppendAgent, <<>>, t)
      BY <3>1 DEF Entered
    <3>3. b.resolvers \in Seq(Range(b.resolvers))
      <4>1. k \in Nat
        OBVIOUS
      <4> QED BY <4>1, NestedProper DEF Proper
    <3>4. t \in Seq(Range(t)) /\ Range(t) = {t[i] : i \in DOMAIN b.resolvers}
      <4>1. Along(t, b.resolvers)
        BY <3>2 DEF Along
      <4> QED BY <3>3, <4>1, AlongAsLong
    <3>5. PICK S : S = Range(t)
      OBVIOUS
    <3>6. FoldLeft(AppendAgent, <<>>, t) \in Seq(S)
      BY <3>4, <3>5, AppendedList
    <3>7. Range(y.resolvers) \subseteq S
      BY <3>2, <3>6, ListOf
    <3>8. S \subseteq {last[c] : c \in Range(b.resolvers)}
      BY <3>2, <3>4, <3>5 DEF Range
    <3> QED BY <3>7, <3>8
  <2>4. d = 0 => y.resolvers = <<>>
    BY <2>1, <2>2
  <2>5. Follows(y, b, last, d = 0)
    BY <2>3, <2>4 DEF Follows
  <2> QED BY <2>1, <2>2, <2>5 DEF BuiltFrom
<1>4. LevelsFollow(a, m, g)
  BY <1>3 DEF LevelsFollow
<1>5. x \in Nested(g[m][a], n)
  BY <1>2
<1>6. n \in 0..m /\ MadeAt(x, a, n, g[m - n])
  BY <1>4, <1>5, FollowedDown
<1>7. PICK b \in Nested(a, n) : x = g[m - n][b]
  BY <1>6 DEF MadeAt
<1> QED BY <1>1, <1>3, <1>6, <1>7

LEMMA ElementDown ==
  ASSUME NEW a, AgentOK(a), NEW n \in Nat, NEW x \in Nested(GetAgentID(a), n)
  PROVE  /\ n \in 0..Nesting
         /\ \E b \in Nested(a, n) : /\ x.name = b.name /\ x.addresses = b.addresses
                                    /\ x.parameters = GetUserdefinedParameters(b.parameters)
<1>1. PICK m \in Nat : m = Nesting
  BY AgentIDAssumption
<1>2. PICK g : Levels("element", a, a, m, m, g) /\ GetAgentID(a) = g[m][a]
  BY <1>1, ElementUnfolds
<1>3. ASSUME NEW k \in 0..m, NEW b \in Nested(a, k), NEW d, d = m - k
      PROVE  /\ g[d][b].name = b.name /\ g[d][b].addresses = b.addresses
             /\ g[d][b].parameters = GetUserdefinedParameters(b.parameters)
             /\ Follows(g[d][b], b, g[d - 1], d = 0)
  <2>1. /\ g[d][b].name = b.name /\ g[d][b].addresses = b.addresses
        /\ g[d][b].parameters = GetUserdefinedParameters(b.parameters)
        /\ ResolversOf(g[d][b], b, g[d - 1], d)
    BY <1>2, <1>3, ElementLevel
  <2> QED BY <2>1, ResolversFollow
<1>4. LevelsFollow(a, m, g)
  BY <1>3 DEF LevelsFollow
<1>5. x \in Nested(g[m][a], n)
  BY <1>2
<1>6. n \in 0..m /\ MadeAt(x, a, n, g[m - n])
  BY <1>4, <1>5, FollowedDown
<1>7. PICK b \in Nested(a, n) : x = g[m - n][b]
  BY <1>6 DEF MadeAt
<1> QED BY <1>1, <1>3, <1>6, <1>7

LEMMA ParsedDown ==
  ASSUME NEW a, NEW n \in Nat, NEW x \in Nested(ParseAgentID(a), n)
  PROVE  n \in 0..Nesting /\ \E b \in Nested(a, n) : ParsedFrom(x, b)
<1>1. PICK m \in Nat : m = Nesting
  BY AgentIDAssumption
<1>2. PICK g : Levels("parsed", a, a, m, m, g) /\ ParseAgentID(a) = g[m][a]
  BY <1>1, ParsedUnfolds
<1>3. ASSUME NEW k \in 0..m, NEW b \in Nested(a, k), NEW d, d = m - k
      PROVE  ParsedFrom(g[d][b], b) /\ Follows(g[d][b], b, g[d - 1], d = 0)
  <2>1. ParsedFrom(g[d][b], b) /\ ResolversOf(g[d][b], b, g[d - 1], d)
    BY <1>2, <1>3, ParsedLevelIs
  <2> QED BY <2>1, ResolversFollow
<1>4. LevelsFollow(a, m, g)
  BY <1>3 DEF LevelsFollow
<1>5. x \in Nested(g[m][a], n)
  BY <1>2
<1>6. n \in 0..m /\ MadeAt(x, a, n, g[m - n])
  BY <1>4, <1>5, FollowedDown
<1>7. PICK b \in Nested(a, n) : x = g[m - n][b]
  BY <1>6 DEF MadeAt
<1> QED BY <1>1, <1>3, <1>6, <1>7

\* The parameters of an agent are not among those that are looked for.
LEMMA ParametersLost ==
  ASSUME NEW ps, ps \in Seq(Range(ps))
  PROVE  FoldLeft(ParseLabelled, <<>>, GetUserdefinedParameters(ps)) = <<>>
<1>1. PICK s : s = GetUserdefinedParameters(ps)
  OBVIOUS
<1>2. \A i \in DOMAIN s : s[i].element = "user-defined"
  BY <1>1 DEF GetUserdefinedParameters
<1>3. s \in Seq(Range(s))
  <2>1. Along(s, ps)
    BY <1>1 DEF Along, GetUserdefinedParameters
  <2> QED BY <2>1, AlongAsLong
<1>4. PICK n \in Nat : n = Len(s)
  BY <1>3
<1>5. IsList(s) /\ DOMAIN s = 1..n
  BY <1>3, <1>4, ListOf
<1>6. PICK c : Chain("label", <<>>, s, n, c) /\ FoldLeft(ParseLabelled, <<>>, s) = c[n]
  BY <1>4, <1>5, FoldLabel
<1> DEFINE T == {k \in 0..n : c[k] = <<>>}
<1>7. 0 \in T
  <2>1. c[0] = <<>>
    BY <1>6, ChainStart
  <2> QED BY <2>1
<1>8. ASSUME NEW k \in 1..n, k - 1 \in T PROVE k \in T
  <2>1. c[k] = Step("label", s, c[k - 1], k)
    <3> HIDE DEF T
    <3> QED BY <1>6, ChainAt
  <2>2. c[k] = ParseLabelled(c[k - 1], s[k])
    BY <2>1 DEF Step
  <2>3. s[k].element = "user-defined"
    BY <1>2, <1>5
  <2>4. c[k] = c[k - 1]
    BY <2>2, <2>3 DEF ParseLabelled
  <2> QED BY <1>8, <2>4
<1>9. n \in T
  <2> HIDE DEF T
  <2> QED BY <1>7, <1>8, InductionTo
<1> QED BY <1>1, <1>6, <1>9

LEMMA FirstLevel ==
  ASSUME NEW a
  PROVE  Nested(a, 1) = Range(a.resolvers)
<1>1. Nested(a, 0 + 1) = UNION {Range(c.resolvers) : c \in Nested(a, 0)}
  BY NestedNext
<1>2. Nested(a, 0) = {a} /\ 0 + 1 = 1
  BY NestedSelf
<1> QED BY <1>1, <1>2

\* An identifier that the representation can carry hands down its texts at
\* every level that is still there.
LEMMA BitInherited ==
  ASSUME NEW a, AgentOK(a), AgentPortable(a), DeepTextsKept(a, "BITEFFICIENT")
  PROVE  Inherited(BuildAgentID(WrittenAgent(a, ResolverDepth)), a)
<1>1. PICK w, r : w = WrittenAgent(a, ResolverDepth) /\ r = BuildAgentID(w)
  OBVIOUS
<1>2. ResolverDepth \in Nat
  BY BitefficientAssumption
<1>3. AgentOK(w)
  BY <1>1, <1>2, WrittenOK
<1>4. ASSUME NEW n \in Nat, NEW y \in Nested(r, n)
      PROVE  \E b \in Nested(a, n) : Inherits(y, b)
  <2>1. PICK x \in Nested(w, n) : BuiltFrom(y, x)
    BY <1>1, <1>3, BuiltDown
  <2>2. n \in 0..ResolverDepth
    BY <1>1, <1>3, BuiltDown
  <2>3. PICK b \in Nested(a, n) : Alike(x, b)
    BY <1>1, <1>2, WrittenDown
  <2>4. PICK ps : ps = b.parameters
    OBVIOUS
  <2>5. ps \in Seq(Range(ps)) /\ Records(ps)
    BY <2>4, NestedProper DEF Proper
  <2>6. \A p \in Range(ps) : LiteralKept(p.value)
    <3>1. CASE n = 0
      <4>1. b = a
        BY <3>1, NestedSelf
      <4> QED BY <2>4, <4>1 DEF AgentPortable
    <3>2. CASE n = 1
      <4>1. b \in Range(a.resolvers)
        BY <3>2, FirstLevel
      <4> QED BY <2>4, <4>1 DEF AgentPortable
    <3>3. CASE n \notin {0, 1}
      <4>1. n \in 2..ResolverDepth
        BY <1>2, <2>2, <3>3
      <4> QED BY <2>4, <4>1 DEF DeepTextsKept
    <3> QED BY <3>1, <3>2, <3>3
  <2>7. [i \in DOMAIN ps |-> ReadParam(ps[i])] = ps
    BY <2>5, <2>6, ParamsRead
  <2>8. y.name = b.name /\ y.addresses = b.addresses /\ y.parameters = b.parameters
    BY <2>1, <2>3, <2>4, <2>7 DEF BuiltFrom, Alike
  <2> QED BY <2>8 DEF Inherits
<1> QED BY <1>1, <1>4 DEF Inherited

LEMMA TextInherited ==
  ASSUME NEW a, AgentOK(a), AgentPortableAsText(a)
  PROVE  Inherited(ReadAgentIdentifier(a), a)
<1>1. PICK r : r = ReadAgentIdentifier(a)
  OBVIOUS
<1>2. Copy(r, a)
  BY <1>1, TextAgentArrives
<1>3. PICK t : t = [i \in DOMAIN a.resolvers |-> ReadResolver(a.resolvers[i])]
  OBVIOUS
<1>4. r.resolvers = t
  <2>1. PICK x : x = ReadResolver(a)
    OBVIOUS
  <2>2. r = [x EXCEPT !.resolvers = t]
    BY <1>1, <1>3, <2>1 DEF ReadAgentIdentifier
  <2>3. "resolvers" \in DOMAIN x
    BY <2>1 DEF ReadResolver
  <2> QED BY <2>2, <2>3
<1>5. ASSUME NEW y \in Nested(r, 1)
      PROVE  y.resolvers = <<>> /\ \E b \in Nested(a, 1) : Inherits(y, b)
  <2>1. PICK i \in DOMAIN a.resolvers : y = t[i]
    BY <1>3, <1>4, FirstLevel DEF Range
  <2>2. y.resolvers = <<>>
    BY <1>3, <2>1 DEF ReadResolver
  <2>3. PICK b : b = a.resolvers[i]
    OBVIOUS
  <2>4. b \in Nested(a, 1)
    BY <2>3, FirstLevel DEF Range
  <2>5. y.name = b.name /\ y.addresses = b.addresses /\ y.parameters = b.parameters
    BY <1>2, <1>4, <2>1, <2>3 DEF Copy
  <2> QED BY <2>2, <2>4, <2>5 DEF Inherits
<1>6. Nested(r, 2) = {}
  <2>1. Nested(r, 1 + 1) = UNION {Range(c.resolvers) : c \in Nested(r, 1)}
    BY NestedNext
  <2>2. \A c \in Nested(r, 1) : Range(c.resolvers) = {}
    BY <1>5 DEF Range
  <2>3. 1 + 1 = 2
    OBVIOUS
  <2> QED BY <2>1, <2>2, <2>3
<1>7. ASSUME NEW n \in Nat, NEW y \in Nested(r, n)
      PROVE  \E b \in Nested(a, n) : Inherits(y, b)
  <2>1. CASE n = 0
    <3>1. y = r /\ a \in Nested(a, n)
      BY <2>1, NestedSelf
    <3> QED BY <1>2, <3>1 DEF Copy, Inherits
  <2>2. CASE n = 1
    BY <1>5, <2>2
  <2>3. CASE n \notin {0, 1}
    <3>1. PICK j \in Nat : j = n - 2 /\ n = 2 + j
      BY <2>3
    <3>2. Nested(r, 2 + j) = {}
      BY <1>6, NothingBelow
    <3> QED BY <3>1, <3>2
  <2> QED BY <2>1, <2>2, <2>3
<1> QED BY <1>1, <1>7 DEF Inherited

LEMMA XMLInherited ==
  ASSUME NEW a, AgentOK(a), AgentPortableInXML(a), DeepTextsKept(a, "XML")
  PROVE  Inherited(ParseAgentID(GetAgentID(a)), a)
<1>1. PICK e, r : e = GetAgentID(a) /\ r = ParseAgentID(e)
  OBVIOUS
<1>2. ASSUME NEW n \in Nat, NEW y \in Nested(r, n)
      PROVE  \E b \in Nested(a, n) : Inherits(y, b)
  <2>1. PICK x \in Nested(e, n) : ParsedFrom(y, x)
    BY <1>1, ParsedDown
  <2>2. n \in 0..Nesting
    BY <1>1, ParsedDown
  <2>3. PICK b \in Nested(a, n) : /\ x.name = b.name /\ x.addresses = b.addresses
                                  /\ x.parameters = GetUserdefinedParameters(b.parameters)
    BY <1>1, ElementDown
  <2>4. Proper(b)
    BY NestedProper
  <2>5. y.parameters = <<>>
    <3>1. PICK ps : ps = b.parameters
      OBVIOUS
    <3>2. ps \in Seq(Range(ps))
      BY <2>4, <3>1 DEF Proper
    <3>3. FoldLeft(ParseLabelled, <<>>, GetUserdefinedParameters(ps)) = <<>>
      BY <3>2, ParametersLost
    <3> QED BY <2>1, <2>3, <3>1, <3>3 DEF ParsedFrom
  <2>6. \A t \in {b.name} \cup Range(b.addresses) : AttributeKept(t)
    <3>1. CASE n = 0
      <4>1. b = a
        BY <3>1, NestedSelf
      <4> QED BY <4>1 DEF AgentPortableInXML
    <3>2. CASE n = 1
      <4>1. b \in Range(a.resolvers)
        BY <3>2, FirstLevel
      <4> QED BY <4>1 DEF AgentPortableInXML
    <3>3. CASE n \notin {0, 1}
      <4>1. n \in 2..Nesting
        BY <2>2, <3>3, AgentIDAssumption
      <4> QED BY <4>1 DEF DeepTextsKept
    <3> QED BY <3>1, <3>2, <3>3
  <2>7. y.name = b.name
    BY <2>1, <2>3, <2>6 DEF ParsedFrom, AttributeKept
  <2>8. y.addresses = b.addresses
    <3>1. PICK urls : urls = b.addresses
      OBVIOUS
    <3>2. urls \in Seq(Checked)
      BY <2>4, <3>1 DEF Proper
    <3>3. \A i \in DOMAIN urls : AsAttribute[urls[i]] = urls[i]
      BY <2>6, <3>1 DEF Range, AttributeKept
    <3>4. urls = [i \in DOMAIN urls |-> urls[i]]
      BY <3>2
    <3>5. y.addresses = [i \in DOMAIN urls |-> AsAttribute[urls[i]]]
      BY <2>1, <2>3, <3>1 DEF ParsedFrom
    <3> QED BY <3>1, <3>3, <3>4, <3>5
  <2>9. Range(y.parameters) = {}
    BY <2>5 DEF Range
  <2> QED BY <2>7, <2>8, <2>9 DEF Inherits
<1> QED BY <1>1, <1>2 DEF Inherited

\* An identifier that is what is left of another one after any number of
\* transmissions: it has nothing at any level that the other has not, and its
\* resolvers can still be told apart.
Descends(b, a) ==
  /\ AgentOK(b)
  /\ Inherited(b, a)
  /\ ToldApart(a) => ToldApart(b)

LEMMA InheritedAt ==
  ASSUME NEW b, NEW a, Inherited(b, a), NEW k \in Nat, NEW y \in Nested(b, k)
  PROVE  \E x \in Nested(a, k) : Inherits(y, x)
BY DEF Inherited

LEMMA InheritedFirst ==
  ASSUME NEW b, NEW a, Inherited(b, a)
  PROVE  /\ Inherits(b, a)
         /\ \A y \in Range(b.resolvers) : \E x \in Range(a.resolvers) : Inherits(y, x)
<1>1. b \in Nested(b, 0) /\ Nested(a, 0) = {a}
  BY NestedSelf
<1>2. Inherits(b, a)
  BY <1>1, InheritedAt
<1>3. Nested(b, 1) = Range(b.resolvers) /\ Nested(a, 1) = Range(a.resolvers)
  BY FirstLevel
<1>4. \A y \in Nested(b, 1) : \E x \in Nested(a, 1) : Inherits(y, x)
  BY InheritedAt
<1> QED BY <1>2, <1>3, <1>4

LEMMA DeepDescends ==
  ASSUME NEW b, NEW a, Inherited(b, a), NEW representation, DeepTextsKept(a, representation)
  PROVE  DeepTextsKept(b, representation)
<1>1. ASSUME representation = "BITEFFICIENT", NEW k \in 2..ResolverDepth, NEW y \in Nested(b, k),
             NEW p \in Range(y.parameters)
      PROVE  LiteralKept(p.value)
  <2>1. k \in Nat
    BY BitefficientAssumption
  <2>2. PICK x \in Nested(a, k) : Inherits(y, x)
    BY <2>1, InheritedAt
  <2>3. p \in Range(x.parameters)
    BY <1>1, <2>2 DEF Inherits
  <2> QED BY <1>1, <2>3 DEF DeepTextsKept
<1>2. ASSUME representation = "XML", NEW k \in 2..Nesting, NEW y \in Nested(b, k),
             NEW t \in {y.name} \cup Range(y.addresses)
      PROVE  AttributeKept(t)
  <2>1. k \in Nat
    BY AgentIDAssumption
  <2>2. PICK x \in Nested(a, k) : Inherits(y, x)
    BY <2>1, InheritedAt
  <2>3. t \in {x.name} \cup Range(x.addresses)
    BY <1>2, <2>2 DEF Inherits
  <2> QED BY <1>2, <2>3 DEF DeepTextsKept
<1> QED BY <1>1, <1>2 DEF DeepTextsKept

LEMMA PortableToldApart ==
  ASSUME NEW a
  PROVE  ToldApart(a) <=>
           \A i, j \in DOMAIN a.resolvers :
             i # j => ~ CompareEqual(a.resolvers[i], a.resolvers[j], 0)
<1>1. \A i, j \in DOMAIN a.resolvers :
        CompareEqual(a.resolvers[i], a.resolvers[j], 0) <=> Flat(a.resolvers[i], a.resolvers[j])
  BY FlatIs
<1> QED BY <1>1 DEF ToldApart

\* Whatever can carry an identifier can carry what is left of it.
LEMMA BitDescends ==
  ASSUME NEW a, NEW b, Descends(b, a), AgentPortable(a)
  PROVE  AgentPortable(b)
<1>1. Inherited(b, a) /\ Inherits(b, a)
  BY InheritedFirst DEF Descends
<1>2. AgentReadable(b)
  <2>1. ASSUME NEW k \in 0..ResolverDepth, NEW y \in Nested(b, k)
        PROVE  /\ WordReadable(y.name)
               /\ \A address \in Range(y.addresses) : WordReadable(address)
               /\ \A p \in Range(y.parameters) : ParamReadable(p)
    <3>1. k \in Nat
      BY BitefficientAssumption
    <3>2. PICK x \in Nested(a, k) : Inherits(y, x)
      BY <1>1, <3>1, InheritedAt
    <3>3. /\ WordReadable(x.name)
          /\ \A address \in Range(x.addresses) : WordReadable(address)
          /\ \A p \in Range(x.parameters) : ParamReadable(p)
      BY <3>2 DEF AgentPortable, AgentReadable
    <3> QED BY <3>2, <3>3 DEF Inherits
  <2> QED BY <2>1 DEF AgentReadable
<1>3. \A p \in Range(b.parameters) : LiteralKept(p.value)
  BY <1>1 DEF AgentPortable, Inherits
<1>4. ASSUME NEW y \in Range(b.resolvers), NEW p \in Range(y.parameters)
      PROVE  LiteralKept(p.value)
  <2>1. PICK x \in Range(a.resolvers) : Inherits(y, x)
    BY <1>1, InheritedFirst
  <2>2. p \in Range(x.parameters)
    BY <1>4, <2>1 DEF Inherits
  <2> QED BY <2>1, <2>2 DEF AgentPortable
<1>5. \A i, j \in DOMAIN b.resolvers :
        i # j => ~ CompareEqual(b.resolvers[i], b.resolvers[j], 0)
  <2>1. ToldApart(a)
    BY PortableToldApart DEF AgentPortable
  <2>2. ToldApart(b)
    BY <2>1 DEF Descends
  <2> QED BY <2>2, PortableToldApart
<1> QED BY <1>2, <1>3, <1>4, <1>5 DEF AgentPortable

LEMMA EmptyList ==
  ASSUME NEW s, s \in Seq(Range(s)), Range(s) = {}
  PROVE  s = <<>>
<1>1. Len(s) = 0
  <2>1. ASSUME Len(s) # 0 PROVE FALSE
    <3>1. 1 \in DOMAIN s
      BY <2>1
    <3>2. s[1] \in Range(s)
      BY <3>1 DEF Range
    <3> QED BY <3>2
  <2> QED BY <2>1
<1> QED BY <1>1

LEMMA NoneFrom ==
  ASSUME NEW y, Proper(y), NEW x, Inherits(y, x), x.parameters = <<>>
  PROVE  y.parameters = <<>>
<1>1. Range(x.parameters) = {}
  BY DEF Range
<1>2. PICK ps : ps = y.parameters
  OBVIOUS
<1>3. ps \in Seq(Range(ps)) /\ Range(ps) = {}
  BY <1>1, <1>2 DEF Inherits, Proper
<1> QED BY <1>2, <1>3, EmptyList

LEMMA TextDescends ==
  ASSUME NEW a, NEW b, Descends(b, a), AgentPortableAsText(a)
  PROVE  AgentPortableAsText(b)
<1>1. AgentOK(b) /\ Inherited(b, a) /\ Inherits(b, a)
  BY InheritedFirst DEF Descends
<1>2. ASSUME NEW y, Proper(y), NEW x \in {a} \cup Range(a.resolvers), Inherits(y, x)
      PROVE  /\ NameAndAddressesReadable(y)
             /\ y.parameters = <<>> /\ EmptyText \notin Range(y.addresses)
  <2>1. NameAndAddressesReadable(x)
    BY DEF AgentPortableAsText, AgentIdentifierReadable, ResolverReadable
  <2>2. x.parameters = <<>> /\ EmptyText \notin Range(x.addresses)
    BY DEF AgentPortableAsText
  <2>3. y.parameters = <<>>
    BY <1>2, <2>2, NoneFrom
  <2>4. y.name = x.name /\ Range(y.addresses) \subseteq Range(x.addresses)
    BY <1>2 DEF Inherits
  <2>5. WordWithoutKeyword(y.name) /\ UrlSequenceReadable(y.addresses)
    BY <2>1, <2>4 DEF NameAndAddressesReadable, UrlSequenceReadable
  <2>6. ParametersPass(y)
    BY <2>3 DEF ParametersPass
  <2> QED BY <2>2, <2>3, <2>4, <2>5, <2>6 DEF NameAndAddressesReadable
<1>3. Proper(b)
  BY <1>1, AgentProper
<1>4. /\ NameAndAddressesReadable(b)
      /\ b.parameters = <<>> /\ EmptyText \notin Range(b.addresses)
  BY <1>1, <1>2, <1>3
<1>5. Nested(b, 2) = {}
  <2>1. 1 + 1 = 2
    OBVIOUS
  <2>2. Nested(a, 1 + 1) = UNION {Range(c.resolvers) : c \in Nested(a, 1)}
    BY NestedNext
  <2>3. \A c \in Nested(a, 1) : Range(c.resolvers) = {}
    <3>1. \A c \in Range(a.resolvers) : c.resolvers = <<>>
      BY DEF AgentPortableAsText, AgentIdentifierReadable, ResolverReadable
    <3> QED BY <3>1, FirstLevel DEF Range
  <2>4. Nested(a, 2) = {}
    BY <2>1, <2>2, <2>3
  <2> QED BY <1>1, <2>4, InheritedAt
<1>6. ASSUME NEW y \in Range(b.resolvers)
      PROVE  /\ ResolverReadable(y)
             /\ y.parameters = <<>> /\ EmptyText \notin Range(y.addresses)
  <2>1. y \in Nested(b, 1)
    BY FirstLevel
  <2>2. Proper(y)
    BY <1>1, <2>1, NestedProper
  <2>3. PICK x \in Range(a.resolvers) : Inherits(y, x)
    BY <1>1, InheritedFirst
  <2>4. /\ NameAndAddressesReadable(y)
        /\ y.parameters = <<>> /\ EmptyText \notin Range(y.addresses)
    BY <1>2, <2>2, <2>3
  <2>5. Range(y.resolvers) \subseteq Nested(b, 1 + 1) /\ 1 + 1 = 2
    BY <2>1, NestedBelow
  <2>6. PICK s : s = y.resolvers
    OBVIOUS
  <2>7. s \in Seq(Range(s)) /\ Range(s) = {}
    BY <1>5, <2>2, <2>5, <2>6 DEF Proper
  <2>8. y.resolvers = <<>>
    BY <2>6, <2>7, EmptyList
  <2> QED BY <2>4, <2>8 DEF ResolverReadable
<1> QED BY <1>4, <1>6 DEF AgentPortableAsText, AgentIdentifierReadable

\* The resolvers of a resolver are two levels below.
LEMMA NestedUp ==
  ASSUME NEW a, NEW k \in Nat, NEW r \in Nested(a, k), NEW n \in Nat, NEW x \in Nested(r, n)
  PROVE  x \in Nested(a, k + n)
<1> DEFINE L == [j \in 0..n |-> Nested(a, k + j)]
<1>1. r \in L[0]
  <2>1. k + 0 = k /\ 0 \in 0..n
    OBVIOUS
  <2> QED BY <2>1
<1>2. ASSUME NEW j \in 0..n, NEW y \in L[j], j # n
      PROVE  Range(y.resolvers) \subseteq L[j + 1]
  <2>1. PICK i \in Nat : i = k + j
    OBVIOUS
  <2>2. y \in Nested(a, i) /\ j + 1 \in 0..n /\ i + 1 = k + (j + 1)
    BY <1>2, <2>1
  <2>3. Range(y.resolvers) \subseteq Nested(a, i + 1)
    <3> HIDE DEF L
    <3> QED BY <2>2, NestedBelow
  <2>4. L[j + 1] = Nested(a, i + 1)
    BY <2>2
  <2> QED BY <2>3, <2>4
<1>3. Nested(r, n) \subseteq L[n]
  <2>1. n \in 0..n
    OBVIOUS
  <2> HIDE DEF L
  <2> QED BY <1>1, <1>2, <2>1, Layers
<1> QED BY <1>3

ReadableAt(a, k) ==
  \A x \in Nested(a, k) : \A t \in {x.name} \cup Range(x.addresses) : AsAttribute[t] \in Checked

LEMMA XMLDescends ==
  ASSUME NEW a, AgentOK(a), NEW b, Descends(b, a), AgentPortableInXML(a)
  PROVE  AgentPortableInXML(b)
<1>1. AgentOK(b) /\ Inherited(b, a) /\ Inherits(b, a)
  BY InheritedFirst DEF Descends
<1>2. ASSUME NEW y, Proper(y), NEW x \in {a} \cup Range(a.resolvers), Inherits(y, x)
      PROVE  y.parameters = <<>> /\ \A t \in {y.name} \cup Range(y.addresses) : AttributeKept(t)
  <2>1. x.parameters = <<>> /\ \A t \in {x.name} \cup Range(x.addresses) : AttributeKept(t)
    BY DEF AgentPortableInXML
  <2>2. y.parameters = <<>>
    BY <1>2, <2>1, NoneFrom
  <2> QED BY <1>2, <2>1, <2>2 DEF Inherits
<1>3. \A k \in Nat : k # 0 /\ k <= Nesting + 1 => ReadableAt(a, k)
  <2> SUFFICES ASSUME NEW k \in Nat, k # 0, k <= Nesting + 1, NEW x \in Nested(a, k),
                      NEW t \in {x.name} \cup Range(x.addresses)
               PROVE  AsAttribute[t] \in Checked
    BY DEF ReadableAt
  <2>1. k \in 0..k
    OBVIOUS
  <2>2. PICK r \in Range(a.resolvers) : x \in Nested(r, k - 1)
    BY <2>1, NestedInResolvers
  <2>3. XMLAgentReadable(r)
    BY DEF AgentPortableInXML
  <2>4. k - 1 \in 0..Nesting
    BY AgentIDAssumption
  <2> QED BY <2>2, <2>3, <2>4 DEF XMLAgentReadable
<1>4. \A k \in Nat : k # 0 => ReadableAt(b, k)
  <2> SUFFICES ASSUME NEW k \in Nat, k # 0, NEW y \in Nested(b, k),
                      NEW t \in {y.name} \cup Range(y.addresses)
               PROVE  AsAttribute[t] \in Checked
    BY DEF ReadableAt
  <2>1. PICK x \in Nested(a, k) : Inherits(y, x)
    BY <1>1, InheritedAt
  <2>2. t \in {x.name} \cup Range(x.addresses)
    BY <2>1 DEF Inherits
  <2>3. k <= Nesting + 1
    <3> SUFFICES ASSUME ~ (k <= Nesting + 1) PROVE FALSE
      OBVIOUS
    <3>1. Nested(a, Nesting + 1) = {}
      <4>1. Nested(a, Nesting + 1) = UNION {Range(c.resolvers) : c \in Nested(a, Nesting)}
        BY AgentIDAssumption, NestedNext
      <4>2. \A c \in Nested(a, Nesting) : Range(c.resolvers) = {}
        <5>1. Nesting \in 0..Nesting
          BY AgentIDAssumption
        <5>2. \A c \in Nested(a, Nesting) : c.resolvers = <<>>
          BY <5>1, AgentNested
        <5> QED BY <5>2 DEF Range
      <4> QED BY <4>1, <4>2
    <3>2. PICK j, i : j = Nesting + 1 /\ i = k - j
      OBVIOUS
    <3>3. j \in Nat /\ i \in Nat /\ k = j + i
      BY <3>2, AgentIDAssumption
    <3>4. Nested(a, j + i) = {}
      BY <3>1, <3>2, <3>3, NothingBelow
    <3> QED BY <2>1, <3>3, <3>4
  <2>4. ReadableAt(a, k)
    BY <1>3, <2>3
  <2> QED BY <2>1, <2>2, <2>4 DEF ReadableAt
<1>5. ASSUME NEW k \in {0, 1}, NEW y \in Nested(b, k), NEW c \in Range(y.resolvers)
      PROVE  XMLAgentReadable(c)
  <2>1. PICK j \in Nat : j = k + 1
    OBVIOUS
  <2>2. c \in Nested(b, j)
    BY <2>1, NestedBelow
  <2>3. ASSUME NEW n \in 0..Nesting, NEW x \in Nested(c, n), NEW t \in {x.name} \cup Range(x.addresses)
        PROVE  AsAttribute[t] \in Checked
    <3>1. PICK i \in Nat : i = j + n
      OBVIOUS
    <3>2. n \in Nat /\ i # 0
      BY <2>1, <3>1, AgentIDAssumption
    <3>3. x \in Nested(b, i)
      BY <2>2, <3>1, <3>2, NestedUp
    <3>4. ReadableAt(b, i)
      BY <1>4, <3>2
    <3> QED BY <2>3, <3>3, <3>4 DEF ReadableAt
  <2> QED BY <2>3 DEF XMLAgentReadable
<1>6. ASSUME NEW y \in {b} \cup Range(b.resolvers)
      PROVE  /\ y.parameters = <<>>
             /\ \A t \in {y.name} \cup Range(y.addresses) : AttributeKept(t)
             /\ \A c \in Range(y.resolvers) : XMLAgentReadable(c)
  <2>1. PICK k \in {0, 1} : y \in Nested(b, k)
    BY NestedSelf, FirstLevel
  <2>2. Proper(y)
    <3>1. k \in Nat
      OBVIOUS
    <3> QED BY <1>1, <2>1, <3>1, NestedProper
  <2>3. PICK x \in {a} \cup Range(a.resolvers) : Inherits(y, x)
    BY <1>1, InheritedFirst
  <2> QED BY <1>2, <1>5, <2>1, <2>2, <2>3
<1> QED BY <1>6 DEF AgentPortableInXML

\* An identifier that the representation can carry, down to the last of its
\* resolvers.
AgentPortableAs(a, representation) ==
  /\ representation = "BITEFFICIENT" => AgentPortable(a)
  /\ representation = "STRING_REP"   => AgentPortableAsText(a)
  /\ representation = "XML"          => AgentPortableInXML(a)
  /\ DeepTextsKept(a, representation)

LEMMA CopyDescends ==
  ASSUME NEW a, NEW b, AgentOK(b), Copy(b, a), Inherited(b, a)
  PROVE  Descends(b, a)
<1>1. ASSUME ToldApart(a), NEW i \in DOMAIN b.resolvers, NEW j \in DOMAIN b.resolvers, i # j
      PROVE  ~ Flat(b.resolvers[i], b.resolvers[j])
  <2>1. PICK u, v : u = a.resolvers[i] /\ v = a.resolvers[j]
    OBVIOUS
  <2>2. PICK x, y : x = b.resolvers[i] /\ y = b.resolvers[j]
    OBVIOUS
  <2>3. Alike(x, u) /\ Alike(y, v) /\ i \in DOMAIN a.resolvers /\ j \in DOMAIN a.resolvers
    BY <2>1, <2>2 DEF Copy, Alike
  <2>4. ~ Flat(u, v)
    BY <1>1, <2>1, <2>3 DEF ToldApart
  <2> QED BY <2>2, <2>3, <2>4 DEF Flat, Alike
<1>2. ToldApart(a) => ToldApart(b)
  BY <1>1 DEF ToldApart
<1> QED BY <1>2 DEF Descends

\* What the reader makes of such an identifier descends from it ...
LEMMA MadeDescends ==
  ASSUME NEW a, AgentOK(a), NEW representation \in Representation,
         AgentPortableAs(a, representation), NEW b, Made(representation, b, a)
  PROVE  Descends(b, a)
<1>1. CASE representation = "BITEFFICIENT"
  <2>1. b = BuildAgentID(WrittenAgent(a, ResolverDepth))
    BY <1>1 DEF Made
  <2>2. AgentPortable(a) /\ DeepTextsKept(a, "BITEFFICIENT")
    BY <1>1 DEF AgentPortableAs
  <2>3. AgentOK(b) /\ Copy(b, a)
    BY <2>1, <2>2, BitAgentArrives
  <2>4. Inherited(b, a)
    BY <2>1, <2>2, BitInherited
  <2> QED BY <2>3, <2>4, CopyDescends
<1>2. CASE representation = "STRING_REP"
  <2>1. b = ReadAgentIdentifier(a)
    BY <1>2 DEF Made
  <2>2. AgentPortableAsText(a)
    BY <1>2 DEF AgentPortableAs
  <2>3. AgentOK(b) /\ Copy(b, a)
    BY <2>1, <2>2, TextAgentArrives
  <2>4. Inherited(b, a)
    BY <2>1, <2>2, TextInherited
  <2> QED BY <2>3, <2>4, CopyDescends
<1>3. CASE representation = "XML"
  <2>1. b = ParseAgentID(GetAgentID(a))
    BY <1>3 DEF Made
  <2>2. AgentPortableInXML(a) /\ DeepTextsKept(a, "XML")
    BY <1>3 DEF AgentPortableAs
  <2>3. AgentOK(b) /\ Copy(b, a)
    BY <2>1, <2>2, XMLAgentArrives
  <2>4. Inherited(b, a)
    BY <2>1, <2>2, XMLInherited
  <2> QED BY <2>3, <2>4, CopyDescends
<1> QED BY <1>1, <1>2, <1>3 DEF Representation

\* ... and can be carried by every representation that could carry it before.
LEMMA PortableDescends ==
  ASSUME NEW a, AgentOK(a), NEW b, Descends(b, a), NEW representation,
         AgentPortableAs(a, representation)
  PROVE  AgentPortableAs(b, representation)
<1>1. representation = "BITEFFICIENT" => AgentPortable(b)
  BY BitDescends DEF AgentPortableAs
<1>2. representation = "STRING_REP" => AgentPortableAsText(b)
  BY TextDescends DEF AgentPortableAs
<1>3. representation = "XML" => AgentPortableInXML(b)
  BY XMLDescends DEF AgentPortableAs
<1>4. DeepTextsKept(b, representation)
  BY DeepDescends DEF AgentPortableAs, Descends
<1> QED BY <1>1, <1>2, <1>3, <1>4 DEF AgentPortableAs

LEMMA SameDescends ==
  ASSUME NEW a, AgentOK(a)
  PROVE  Descends(a, a)
<1>1. \A x : Inherits(x, x)
  BY DEF Inherits
<1> QED BY <1>1 DEF Descends, Inherited

LEMMA DescendsOn ==
  ASSUME NEW a, NEW b, NEW c, Descends(b, a), Descends(c, b)
  PROVE  Descends(c, a)
<1>1. \A x, y, z : Inherits(y, x) /\ Inherits(z, y) => Inherits(z, x)
  BY DEF Inherits
<1>2. ASSUME NEW k \in Nat, NEW z \in Nested(c, k)
      PROVE  \E x \in Nested(a, k) : Inherits(z, x)
  <2>1. PICK y \in Nested(b, k) : Inherits(z, y)
    BY InheritedAt DEF Descends
  <2>2. PICK x \in Nested(a, k) : Inherits(y, x)
    BY InheritedAt DEF Descends
  <2> QED BY <1>1, <2>1, <2>2
<1> QED BY <1>2 DEF Descends, Inherited

\* A sender that is not written is undefined for the reader: no part of an
\* identifier equal to it is made up.
LEMMA UndefinedDescends ==
  ASSUME NEW a, AgentEqual(UndefinedAgent, a)
  PROVE  Descends(UndefinedAgent, a)
<1>1. PICK u : u = UndefinedAgent
  OBVIOUS
<1>2. /\ u.addresses = <<>> /\ u.resolvers = <<>> /\ u.parameters = <<>>
      /\ Range(<<>>) = {}
  BY <1>1 DEF UndefinedAgent, Named, Range
<1>3. u.name = a.name
  <2>1. CompareEqual(u, a, ComparisonDepth) /\ ComparisonDepth \in Nat
    BY <1>1, AgentIDAssumption DEF AgentEqual
  <2> QED BY <2>1, EqualNames
<1>4. Inherits(u, a)
  BY <1>2, <1>3 DEF Inherits
<1>5. Nested(u, 1) = {}
  BY <1>2, FirstLevel
<1>6. ASSUME NEW k \in Nat, NEW y \in Nested(u, k)
      PROVE  \E x \in Nested(a, k) : Inherits(y, x)
  <2>1. CASE k = 0
    <3>1. y = u /\ a \in Nested(a, k)
      BY <2>1, NestedSelf
    <3> QED BY <1>4, <3>1
  <2>2. CASE k # 0
    <3>1. PICK n \in Nat : n = k - 1 /\ k = 1 + n
      BY <2>2
    <3>2. Nested(u, 1 + n) = {}
      BY <1>5, NothingBelow
    <3> QED BY <3>1, <3>2
  <2> QED BY <2>1, <2>2
<1>7. ToldApart(u)
  BY <1>2 DEF ToldApart
<1> QED BY <1>1, <1>6, <1>7, UndefinedOK DEF Descends, Inherited

\* The agents of a message.
AgentsIn(m) == {m.sender} \cup Range(m.receivers) \cup Range(m.replyTo)

LEMMA AgentsOfIs ==
  ASSUME NEW m, MessageOK(m)
  PROVE  /\ m \notin NoMessage /\ AgentsOf(m) = AgentsIn(m)
         /\ \A a \in AgentsIn(m) : AgentOK(a)
<1>1. "performative" \in DOMAIN m
  BY MessageField DEF MessageOK
<1>2. m \notin NoMessage
  BY <1>1, OutcomeAssumption
<1>3. \A a \in AgentsIn(m) : AgentOK(a)
  BY DEF MessageOK, AgentsIn
<1> QED BY <1>2, <1>3 DEF AgentsOf, AgentsIn

LEMMA AgentsPortable ==
  ASSUME NEW m, MessageOK(m), NEW representation, PortableTwice(m, representation),
         NEW a \in AgentsIn(m)
  PROVE  AgentPortableAs(a, representation)
<1>1. DeepTextsKept(a, representation)
  BY AgentsOfIs DEF PortableTwice
<1>2. Portable(m, representation)
  BY DEF PortableTwice
<1>3. ASSUME representation = "BITEFFICIENT" PROVE AgentPortable(a)
  <2>1. PortableBitefficiently(m)
    BY <1>2, <1>3, PortableParts
  <2> QED BY <2>1 DEF PortableBitefficiently, AgentsIn
<1>4. ASSUME representation = "STRING_REP" PROVE AgentPortableAsText(a)
  <2>1. PortableAsText(m)
    BY <1>2, <1>4, PortableParts
  <2> QED BY <2>1 DEF PortableAsText, AgentsIn
<1>5. ASSUME representation = "XML" PROVE AgentPortableInXML(a)
  <2>1. PortableInXML(m)
    BY <1>2, <1>5, PortableParts
  <2> QED BY <2>1 DEF PortableInXML, AgentsIn
<1> QED BY <1>1, <1>3, <1>4, <1>5 DEF AgentPortableAs

\* A message that is what is left of another one: equal to it field by field,
\* with agents that descend from its agents.
AllDescend(s, t) == \A b \in Range(s) : \E a \in Range(t) : Descends(b, a)

Passed(n, m) ==
  /\ Agrees(n, m)
  /\ Descends(n.sender, m.sender) /\ IsRecord(n.sender)
  /\ AllDescend(n.receivers, m.receivers) /\ AllDescend(n.replyTo, m.replyTo)

LEMMA MadeOf ==
  ASSUME NEW representation \in Representation, NEW s, NEW t,
         \A a \in Range(t) : AgentOK(a) /\ AgentPortableAs(a, representation),
         AllMade(representation, s, t)
  PROVE  AllDescend(s, t)
<1>1. ASSUME NEW b \in Range(s)
      PROVE  \E a \in Range(t) : Descends(b, a)
  <2>1. PICK a \in Range(t) : Made(representation, b, a)
    BY DEF AllMade
  <2> QED BY <2>1, MadeDescends
<1> QED BY <1>1 DEF AllDescend

\* What a parser makes of an identifier has no more than the fields of one.
LEMMA BuiltIsRecord ==
  ASSUME NEW a
  PROVE  IsRecord(BuildAgentID(a))
<1> DEFINE m == ResolverDepth
<1>0. m \in Nat
  BY BitefficientAssumption
<1>1. PICK g : Levels("built", a, a, m, m, g) /\ BuildAgentID(a) = g[m][a]
  BY BuiltUnfolds
<1> HIDE DEF m
<1>2. g[m] = Level("built", a, a, m, m, g[m - 1])
  BY <1>0, <1>1 DEF Levels
<1>3. g[m] = BuiltBelow(a, m, m, g[m - 1])
  BY <1>2 DEF Level
<1>4. a \in Nested(a, m - m)
  <2>1. m - m = 0
    BY <1>0
  <2> QED BY <2>1, NestedSelf
<1>5. IsRecord(g[m][a])
  BY <1>3, <1>4 DEF BuiltBelow, IsRecord
<1> QED BY <1>1, <1>5

LEMMA ParsedIsRecord ==
  ASSUME NEW a
  PROVE  IsRecord(ParseAgentID(a))
<1> DEFINE m == Nesting
<1>0. m \in Nat
  BY AgentIDAssumption
<1>1. PICK g : Levels("parsed", a, a, m, m, g) /\ ParseAgentID(a) = g[m][a]
  BY ParsedUnfolds
<1> HIDE DEF m
<1>2. g[m] = Level("parsed", a, a, m, m, g[m - 1])
  BY <1>0, <1>1 DEF Levels
<1>3. g[m] = ParsedBelow(a, m, m, g[m - 1])
  BY <1>2 DEF Level
<1>4. a \in Nested(a, m - m)
  <2>1. m - m = 0
    BY <1>0
  <2> QED BY <2>1, NestedSelf
<1>5. IsRecord(g[m][a])
  BY <1>3, <1>4 DEF ParsedBelow, IsRecord
<1> QED BY <1>1, <1>5

LEMMA MadeIsRecord ==
  ASSUME NEW representation \in Representation, NEW a, NEW b, Made(representation, b, a)
  PROVE  IsRecord(b)
<1>1. CASE representation = "BITEFFICIENT"
  BY <1>1, BuiltIsRecord DEF Made
<1>2. CASE representation = "STRING_REP"
  <2>1. b = ReadAgentIdentifier(a)
    BY <1>2 DEF Made
  <2>2. IsRecord(ReadAgentIdentifier(a))
    BY DEF ReadAgentIdentifier, IsRecord
  <2> QED BY <2>1, <2>2
<1>3. CASE representation = "XML"
  BY <1>3, ParsedIsRecord DEF Made
<1> QED BY <1>1, <1>2, <1>3 DEF Representation

\* One transmission in a representation that can carry the message.
LEMMA TransferPassed ==
  ASSUME NEW m, MessageOK(m), NEW representation \in Representation,
         PortableTwice(m, representation), NEW n, n = TransferredAs(m, representation)
  PROVE  Passed(n, m)
<1>1. Agrees(n, m) /\ Taken(representation, n, m)
  <2>1. Portable(m, representation)
    BY DEF PortableTwice
  <2> QED BY <2>1, TransferArrives
<1>2. \A a \in AgentsIn(m) : AgentOK(a) /\ AgentPortableAs(a, representation)
  BY AgentsOfIs, AgentsPortable
<1>3. Descends(n.sender, m.sender)
  <2>1. CASE n.sender = UndefinedAgent
    <3>1. AgentEqual(UndefinedAgent, m.sender)
      BY <1>1, <2>1 DEF Agrees
    <3> QED BY <2>1, <3>1, UndefinedDescends
  <2>2. CASE Made(representation, n.sender, m.sender)
    <3>1. AgentOK(m.sender) /\ AgentPortableAs(m.sender, representation)
      BY <1>2 DEF AgentsIn
    <3> QED BY <2>2, <3>1, MadeDescends
  <2> QED BY <1>1, <2>1, <2>2 DEF Taken
<1>4. AllDescend(n.receivers, m.receivers)
  <2>1. \A a \in Range(m.receivers) : AgentOK(a) /\ AgentPortableAs(a, representation)
    BY <1>2 DEF AgentsIn
  <2> QED BY <1>1, <2>1, MadeOf DEF Taken
<1>5. AllDescend(n.replyTo, m.replyTo)
  <2>1. \A a \in Range(m.replyTo) : AgentOK(a) /\ AgentPortableAs(a, representation)
    BY <1>2 DEF AgentsIn
  <2> QED BY <1>1, <2>1, MadeOf DEF Taken
<1>6. IsRecord(n.sender)
  <2>1. IsRecord(UndefinedAgent)
    BY DEF UndefinedAgent, Named, IsRecord
  <2>2. n.sender = UndefinedAgent \/ Made(representation, n.sender, m.sender)
    BY <1>1 DEF Taken
  <2> QED BY <2>1, <2>2, MadeIsRecord
<1> QED BY <1>1, <1>3, <1>4, <1>5, <1>6 DEF Passed

\* The comparisons of agents and of their lists are transitive, and a list that
\* is equal to one without duplicates has none.
LEMMA AgentEqualOn ==
  ASSUME NEW a, AgentOK(a), NEW b, AgentOK(b), NEW c, AgentOK(c),
         AgentEqual(c, b), AgentEqual(b, a)
  PROVE  AgentEqual(c, a)
<1>1. PICK W : W = {a, b, c}
  OBVIOUS
<1>2. AllOK(W)
  BY <1>1 DEF AllOK
<1>3. PICK key : KeyedBy(W, key)
  BY <1>2, AgentKeys
<1>4. a \in W /\ b \in W /\ c \in W
  BY <1>1
<1>5. key[c] = key[b] /\ key[b] = key[a]
  BY <1>3, <1>4 DEF KeyedBy
<1> QED BY <1>3, <1>4, <1>5 DEF KeyedBy

LEMMA SameAgentsOn ==
  ASSUME NEW s, AgentList(s), NEW t, AgentList(t), NEW u, AgentList(u),
         SameAgents(u, t), SameAgents(t, s)
  PROVE  SameAgents(u, s)
<1>1. PICK W : W = Range(s) \cup Range(t) \cup Range(u)
  OBVIOUS
<1>2. AllOK(W)
  BY <1>1 DEF AllOK, AgentList
<1>3. PICK key : KeyedBy(W, key)
  BY <1>2, AgentKeys
<1>4. PICK keys : keys = {key[x] : x \in W}
  OBVIOUS
<1>5. \A x \in W : key[x] \in keys
  BY <1>4
<1>6. /\ s \in Seq(Range(s)) /\ t \in Seq(Range(t)) /\ u \in Seq(Range(u))
      /\ Range(s) \subseteq W /\ Range(t) \subseteq W /\ Range(u) \subseteq W
  BY <1>1 DEF AgentList
<1>7. Counted(u, key, keys) = Counted(t, key, keys)
  BY <1>3, <1>5, <1>6, SameAgentsByKey
<1>8. Counted(t, key, keys) = Counted(s, key, keys)
  BY <1>3, <1>5, <1>6, SameAgentsByKey
<1>9. Counted(u, key, keys) = Counted(s, key, keys)
  BY <1>7, <1>8
<1> QED BY <1>3, <1>5, <1>6, <1>9, SameAgentsByKey

LEMMA OnceEachToo ==
  ASSUME NEW s, s \in Seq(Range(s)), NEW t, t \in Seq(Range(t)),
         NEW key, NEW keys, Counted(s, key, keys) = Counted(t, key, keys),
         KeysOf(s, key) \subseteq keys, OnceEach(t, key)
  PROVE  OnceEach(s, key)
<1>1. ASSUME NEW i \in DOMAIN s, NEW j \in DOMAIN s, i # j, key[s[i]] = key[s[j]]
      PROVE  FALSE
  <2>1. PICK v : v = key[s[i]]
    OBVIOUS
  <2>2. v \in KeysOf(s, key) /\ v \in keys
    BY <2>1 DEF KeysOf
  <2>3. v \in KeysOf(t, key)
    BY <2>2, HeldToo
  <2>4. PICK k \in DOMAIN t : key[t[k]] = v
    BY <2>3 DEF KeysOf
  <2>5. PICK S, T : S = {h \in DOMAIN s : key[s[h]] = v} /\ T = {h \in DOMAIN t : key[t[h]] = v}
    OBVIOUS
  <2>6. T = {k}
    BY <2>4, <2>5 DEF OnceEach
  <2>7. Cardinality(S) = 1
    <3>1. Cardinality(S) = Cardinality(T)
      BY <2>2, <2>5 DEF Counted
    <3> QED BY <2>6, <3>1, FS_Singleton
  <2>8. IsFiniteSet(S)
    <3>1. Len(s) \in Nat /\ S \subseteq 1..Len(s)
      BY <2>5
    <3>2. IsFiniteSet(1..Len(s))
      BY <3>1, FS_Interval
    <3> QED BY <3>1, <3>2, FS_Subset
  <2>9. i \in S /\ j \in S
    BY <1>1, <2>1, <2>5
  <2>10. IsFiniteSet(S \ {i}) /\ Cardinality(S \ {i}) = 0
    BY <2>7, <2>8, <2>9, FS_RemoveElement
  <2>11. S \ {i} = {}
    BY <2>10, FS_EmptySet
  <2> QED BY <1>1, <2>9, <2>11
<1> QED BY <1>1 DEF OnceEach

LEMMA NoDuplicatesToo ==
  ASSUME NEW s, AgentList(s), NEW t, AgentList(t), SameAgents(s, t), NoDuplicates(t)
  PROVE  NoDuplicates(s)
<1>1. PICK W : W = Range(s) \cup Range(t)
  OBVIOUS
<1>2. AllOK(W)
  BY <1>1 DEF AllOK, AgentList
<1>3. PICK key : KeyedBy(W, key)
  BY <1>2, AgentKeys
<1>4. PICK keys : keys = {key[x] : x \in W}
  OBVIOUS
<1>5. \A x \in W : key[x] \in keys
  BY <1>4
<1>6. /\ s \in Seq(Range(s)) /\ t \in Seq(Range(t))
      /\ Range(s) \subseteq W /\ Range(t) \subseteq W
  BY <1>1 DEF AgentList
<1>7. (\A i \in DOMAIN s : s[i] \in W) /\ (\A i \in DOMAIN t : t[i] \in W)
  BY <1>6 DEF Range
<1>8. Counted(s, key, keys) = Counted(t, key, keys)
  BY <1>3, <1>5, <1>6, SameAgentsByKey
<1>9. OnceEach(t, key)
  BY <1>3, <1>7 DEF OnceEach, NoDuplicates, KeyedBy
<1>10. KeysOf(s, key) \subseteq keys
  BY <1>5, <1>7 DEF KeysOf
<1>11. OnceEach(s, key)
  BY <1>6, <1>8, <1>9, <1>10, OnceEachToo
<1> QED BY <1>3, <1>7, <1>11 DEF OnceEach, NoDuplicates, KeyedBy

\* What one of the formats asks of the sender is left, and so is what they ask
\* of the whole message: a representation that could carry the message of the
\* author can carry what is left of it, whichever way it came.
LEMMA SenderPortableToo ==
  ASSUME NEW n, NEW m, MessageOK(m), MessageOK(n), Descends(n.sender, m.sender), IsRecord(n.sender),
         SenderPortable(m)
  PROVE  SenderPortable(n)
<1>1. PICK b, a : b = n.sender /\ a = m.sender
  OBVIOUS
<1>2. Inherits(b, a) /\ \A y \in Range(b.resolvers) : \E x \in Range(a.resolvers) : Inherits(y, x)
  BY <1>1, InheritedFirst DEF Descends
<1>3. CASE IsValid(a)
  <2>1. b.name = a.name
    BY <1>2 DEF Inherits
  <2> QED BY <1>1, <1>3, <2>1 DEF SenderPortable, IsValid
<1>4. CASE a = UndefinedAgent
  <2>1. /\ a.addresses = <<>> /\ a.resolvers = <<>> /\ a.parameters = <<>>
        /\ Range(<<>>) = {}
    BY <1>4 DEF UndefinedAgent, Named, Range
  <2>2. Proper(b)
    BY <1>1, AgentProper DEF MessageOK
  <2>3. b.addresses \in Seq(Range(b.addresses))
    BY <2>2, ListOf DEF Proper
  <2>4. Range(b.addresses) = {} /\ Range(b.resolvers) = {} /\ Range(b.parameters) = {}
    BY <1>2, <2>1 DEF Inherits
  <2>5. b.addresses = <<>> /\ b.resolvers = <<>> /\ b.parameters = <<>>
    BY <2>2, <2>3, <2>4, EmptyList DEF Proper
  <2>6. b.name = a.name
    BY <1>2 DEF Inherits
  <2>7. DOMAIN b = {"name", "addresses", "resolvers", "parameters"}
    BY <2>2 DEF Proper, AgentField
  <2>8. b = UndefinedAgent
    <3>1. b = [f \in {"name", "addresses", "resolvers", "parameters"} |-> b[f]]
      BY <1>1, <2>7 DEF IsRecord
    <3> QED BY <1>4, <2>5, <2>6, <3>1 DEF UndefinedAgent, Named
  <2> QED BY <1>1, <2>8 DEF SenderPortable
<1> QED BY <1>1, <1>3, <1>4 DEF SenderPortable

LEMMA AgentsPassed ==
  ASSUME NEW n, NEW m, MessageOK(m), MessageOK(n), Passed(n, m),
         NEW representation, PortableTwice(m, representation), NEW b \in AgentsIn(n)
  PROVE  AgentPortableAs(b, representation)
<1>1. PICK a \in AgentsIn(m) : Descends(b, a)
  BY DEF Passed, AllDescend, AgentsIn
<1>2. AgentOK(a) /\ AgentPortableAs(a, representation)
  BY AgentsOfIs, AgentsPortable
<1> QED BY <1>1, <1>2, PortableDescends

LEMMA PortablePasses ==
  ASSUME NEW n, NEW m, MessageOK(m), Passed(n, m),
         NEW representation, PortableTwice(m, representation)
  PROVE  PortableTwice(n, representation)
<1>1. Agrees(n, m) /\ MessageOK(n)
  BY DEF Passed, Agrees
<1>2. \A b \in AgentsIn(n) : AgentPortableAs(b, representation)
  BY <1>1, AgentsPassed
<1>3. Portable(m, representation)
  BY DEF PortableTwice
<1>4. /\ n.performative = m.performative /\ n.texts = m.texts /\ n.protocol = m.protocol
      /\ n.replyBy = m.replyBy /\ n.content = m.content
      /\ IsInjective(n.parameters) /\ Range(n.parameters) = Range(m.parameters)
  BY <1>1 DEF Agrees
<1>5. SenderPortable(m) => SenderPortable(n)
  BY <1>1, SenderPortableToo DEF Passed
<1>6. /\ AgentList(m.receivers) /\ AgentList(n.receivers)
      /\ AgentList(m.replyTo) /\ AgentList(n.replyTo)
  BY <1>1, MessageParts
<1>7. /\ NoDuplicates(m.receivers) => NoDuplicates(n.receivers)
      /\ NoDuplicates(m.replyTo) => NoDuplicates(n.replyTo)
  BY <1>1, <1>6, NoDuplicatesToo DEF Agrees
<1>8. ASSUME representation = "BITEFFICIENT"
      PROVE  PortableBitefficiently(n)
  <2>1. PortableBitefficiently(m)
    BY <1>3, <1>8, PortableParts
  <2>2. \A a \in AgentsIn(n) : AgentPortable(a)
    BY <1>2, <1>8 DEF AgentPortableAs
  <2> QED BY <1>4, <1>7, <2>1, <2>2 DEF PortableBitefficiently, AgentsIn
<1>9. ASSUME representation = "STRING_REP"
      PROVE  PortableAsText(n)
  <2>1. PortableAsText(m)
    BY <1>3, <1>9, PortableParts
  <2>2. \A a \in AgentsIn(n) : AgentPortableAsText(a)
    BY <1>2, <1>9 DEF AgentPortableAs
  <2>3. ASSUME m.parameters = <<>>
        PROVE  n.parameters = <<>>
    <3>1. Range(<<>>) = {}
      BY DEF Range
    <3>2. n.parameters \in Seq(Range(n.parameters))
      BY <1>1, MessageParts
    <3>3. Range(n.parameters) = {}
      BY <1>4, <2>3, <3>1
    <3> QED BY <3>2, <3>3, EmptyList
  <2> QED BY <1>4, <1>5, <2>1, <2>2, <2>3 DEF PortableAsText, AgentsIn
<1>10. ASSUME representation = "XML"
       PROVE  PortableInXML(n)
  <2>1. PortableInXML(m)
    BY <1>3, <1>10, PortableParts
  <2>2. \A a \in AgentsIn(n) : AgentPortableInXML(a)
    BY <1>2, <1>10 DEF AgentPortableAs
  <2> QED BY <1>4, <1>5, <1>7, <2>1, <2>2 DEF PortableInXML, AgentsIn
<1>11. Portable(n, representation)
  <2>1. DateKept(n.replyBy)
    BY <1>3, <1>4, PortableParts
  <2> QED BY <1>4, <1>8, <1>9, <1>10, <2>1 DEF Portable
<1>12. \A b \in AgentsOf(n) : DeepTextsKept(b, representation)
  BY <1>1, <1>2, AgentsOfIs DEF AgentPortableAs
<1> QED BY <1>11, <1>12 DEF PortableTwice

\* What is left of what is left of a message is what is left of it.
LEMMA AllDescendOn ==
  ASSUME NEW s, NEW t, NEW u, AllDescend(u, t), AllDescend(t, s)
  PROVE  AllDescend(u, s)
<1>1. ASSUME NEW c \in Range(u)
      PROVE  \E a \in Range(s) : Descends(c, a)
  <2>1. PICK b \in Range(t) : Descends(c, b)
    BY DEF AllDescend
  <2>2. PICK a \in Range(s) : Descends(b, a)
    BY DEF AllDescend
  <2> QED BY <2>1, <2>2, DescendsOn
<1> QED BY <1>1 DEF AllDescend

LEMMA PassedOn ==
  ASSUME NEW m, MessageOK(m), NEW n, Passed(n, m), NEW r, Passed(r, n)
  PROVE  Passed(r, m)
<1>1. Agrees(n, m) /\ Agrees(r, n) /\ MessageOK(n) /\ MessageOK(r)
  BY DEF Passed, Agrees
<1>2. /\ AgentList(m.receivers) /\ AgentList(n.receivers) /\ AgentList(r.receivers)
      /\ AgentList(m.replyTo) /\ AgentList(n.replyTo) /\ AgentList(r.replyTo)
      /\ AgentOK(m.sender) /\ AgentOK(n.sender) /\ AgentOK(r.sender)
  BY <1>1, MessageParts
<1>3. AgentEqual(r.sender, m.sender)
  BY <1>1, <1>2, AgentEqualOn DEF Agrees
<1>4. SameAgents(r.receivers, m.receivers)
  BY <1>1, <1>2, SameAgentsOn DEF Agrees
<1>5. SameAgents(r.replyTo, m.replyTo)
  BY <1>1, <1>2, SameAgentsOn DEF Agrees
<1>6. Agrees(r, m)
  BY <1>1, <1>3, <1>4, <1>5 DEF Agrees
<1>7. Descends(r.sender, m.sender)
  BY DescendsOn DEF Passed
<1>8. AllDescend(r.receivers, m.receivers) /\ AllDescend(r.replyTo, m.replyTo)
  BY AllDescendOn DEF Passed
<1> QED BY <1>6, <1>7, <1>8 DEF Passed

\* The invariant.  Before the first transmission nothing has been read; after
\* it, if each representation on the route can carry the message of its author,
\* what is held now is what is left of that message.
Held == IF received = NotSent THEN msg ELSE received
Carriable == \A r \in Range(route) : PortableTwice(origin, r)
Unsent == origin = NotSent /\ received = NotSent /\ route = <<>>
Underway == origin # NotSent /\ route # <<>> /\ (Carriable => Passed(Held, origin))
PassedAlong == Unsent \/ Underway

LEMMA OriginOK ==
  ASSUME TypeOK, Underway
  PROVE  MessageOK(origin)
BY DEF TypeOK, Underway

LEMMA AcrossFirst == Init => PassedAlong
BY DEF Init, PassedAlong, Unsent

LEMMA AcrossEdit ==
  ASSUME Edit
  PROVE  PassedAlong'
<1>1. origin' = NotSent /\ received' = NotSent /\ route' = <<>>
  BY EditIs
<1> QED BY <1>1 DEF PassedAlong, Unsent

LEMMA AcrossDeliver ==
  ASSUME IInv, PassedAlong, NEW r \in Representation, Deliver(r)
  PROVE  PassedAlong'
<1>1. /\ received = NotSent /\ route' = Append(route, r) /\ msg' = msg
      /\ received' = TransferredAs(msg, r)
      /\ origin' = IF origin = NotSent THEN msg ELSE origin
  BY DEF Deliver
<1>2. MessageOK(msg) /\ route \in Seq(Representation)
  BY DEF IInv, TypeOK
<1>3. Range(route') = Range(route) \cup {r} /\ route' # <<>>
  BY <1>1, <1>2 DEF Range
<1>4. MessageOK(origin') /\ origin' \notin NoMessage
  <2>1. MessageOK(origin')
    BY <1>1, <1>2 DEF IInv, TypeOK
  <2> QED BY <2>1, AgentsOfIs
<1>5. origin' # NotSent
  BY <1>4 DEF NoMessage
<1>6. ASSUME \A p \in Range(route') : PortableTwice(origin', p)
      PROVE  Passed(received', origin')
  <2>1. CASE origin = NotSent
    <3>1. origin' = msg /\ PortableTwice(msg, r)
      BY <1>1, <1>3, <1>6, <2>1
    <3> QED BY <1>1, <1>2, <3>1, TransferPassed
  <2>2. CASE origin # NotSent
    <3>1. origin' = origin
      BY <1>1, <2>2
    <3>2. Passed(msg, origin)
      BY <1>1, <1>3, <1>6, <2>2, <3>1 DEF PassedAlong, Unsent, Underway, Carriable, Held
    <3>3. PortableTwice(origin, r)
      BY <1>3, <1>6, <3>1
    <3>4. PortableTwice(msg, r)
      BY <1>4, <3>1, <3>2, <3>3, PortablePasses
    <3>5. Passed(received', msg)
      BY <1>1, <1>2, <3>4, TransferPassed
    <3> QED BY <1>4, <3>1, <3>2, <3>5, PassedOn
  <2> QED BY <2>1, <2>2
<1>7. ASSUME Carriable'
      PROVE  Passed(Held', origin')
  <2>1. Passed(received', origin')
    BY <1>6, <1>7 DEF Carriable
  <2>2. received' # NotSent
    <3>1. MessageOK(received')
      BY <2>1 DEF Passed, Agrees
    <3>2. received' \notin NoMessage
      BY <3>1, AgentsOfIs
    <3> QED BY <3>2 DEF NoMessage
  <2>3. Held' = received'
    BY <2>2 DEF Held
  <2> QED BY <2>1, <2>3
<1> QED BY <1>3, <1>5, <1>7 DEF PassedAlong, Underway

LEMMA AcrossPassOn ==
  ASSUME IInv, PassedAlong, PassOn
  PROVE  PassedAlong'
<1>1. /\ received # NotSent /\ received' = NotSent /\ msg' = received
      /\ origin' = origin /\ route' = route
  BY DEF PassOn, NoMessage
<1>2. Underway
  BY <1>1 DEF PassedAlong, Unsent
<1>3. Held' = Held
  BY <1>1 DEF Held
<1>4. Carriable' <=> Carriable
  BY <1>1 DEF Carriable
<1> QED BY <1>1, <1>2, <1>3, <1>4 DEF PassedAlong, Underway

LEMMA AcrossInductive == IInv /\ PassedAlong /\ [Next]_vars => PassedAlong'
<1> SUFFICES ASSUME IInv, PassedAlong, [Next]_vars
             PROVE  PassedAlong'
  OBVIOUS
<1>1. CASE Edit
  BY <1>1, AcrossEdit
<1>2. ASSUME NEW r \in Representation, Deliver(r)
      PROVE  PassedAlong'
  BY <1>2, AcrossDeliver
<1>3. CASE PassOn
  BY <1>3, AcrossPassOn
<1>4. CASE UNCHANGED vars
  BY <1>4 DEF vars, PassedAlong, Unsent, Underway, Carriable, Held
<1> QED BY <1>1, <1>2, <1>3, <1>4 DEF Next, Edit

\* What is left of a message is equal to it.
LEMMA LeftEqual == IInv /\ PassedAlong => EqualAcrossRepresentations
<1> SUFFICES ASSUME IInv, PassedAlong, received # NotSent,
                    \A r \in Range(route) : PortableTwice(origin, r)
             PROVE  received \notin NoMessage /\ MessageEqual(received, origin)
  BY DEF EqualAcrossRepresentations
<1>1. Underway
  BY DEF PassedAlong, Unsent
<1>2. MessageOK(origin)
  BY <1>1, OriginOK DEF IInv
<1>3. Agrees(received, origin)
  BY <1>1 DEF Underway, Carriable, Held, Passed
<1>4. IsInjective(origin.parameters)
  <2>1. PICK r : r \in Range(route)
    <3>1. route \in Seq(Representation) /\ route # <<>>
      BY <1>1 DEF IInv, TypeOK, Underway
    <3>2. 1 \in DOMAIN route
      BY <3>1
    <3> QED BY <3>2 DEF Range
  <2>2. Portable(origin, r)
    BY <2>1 DEF PortableTwice
  <2> QED BY <1>2, <2>2, PortableParts
<1> QED BY <1>2, <1>3, <1>4, AgreesEqual

\* A message loses nothing on its way: if each of the representations it is
\* sent in can carry the message of its author, whoever reads it after any
\* number of transmissions, in any order of the representations, finds it equal
\* to that message (ACLMessage::operator==), although the receivers come
\* reordered and the resolvers of resolvers are cut on the way.
THEOREM MessagesTravel == Spec => []EqualAcrossRepresentations
<1>1. Init => IInv /\ PassedAlong
  BY Initially, AcrossFirst
<1>2. IInv /\ PassedAlong /\ [Next]_vars => (IInv /\ PassedAlong)'
  BY Inductive, AcrossInductive
<1>3. IInv /\ PassedAlong => EqualAcrossRepresentations
  BY LeftEqual
<1> QED BY <1>1, <1>2, <1>3, PTL DEF Spec

=============================================================================
