--------------------------- MODULE EnvelopeProofs ---------------------------
(***************************************************************************)
(* What the operators of Envelope do, for letters with any number of       *)
(* envelopes: flattening them, listing the delivery path, and sending them *)
(* in either representation, once and again.                               *)
(***************************************************************************)
EXTENDS Letters, FiniteSetTheorems, TLAPS

-----------------------------------------------------------------------------
(* Numbers                                                                 *)

\* Among natural numbers there is a smallest one.
LEMMA Smallest ==
  ASSUME NEW T, T \subseteq Nat, T # {}
  PROVE  \E m \in T : \A k \in T : m <= k
<1> DEFINE Heads == {0..m : m \in T}
           R == StrictSubsetOrdering(Nat)
<1>1. IsWellFoundedOn(R, FiniteSubsetsOf(Nat))
  BY FS_StrictSubsetOrderingWellFounded
<1>2. \A m \in T : 0..m \in SUBSET Nat /\ IsFiniteSet(0..m)
  BY FS_Interval
<1>3. Heads \subseteq FiniteSubsetsOf(Nat)
  BY <1>2 DEF FiniteSubsetsOf
<1>4. PICK x \in Heads : \A y \in Heads : ~(<<y, x>> \in R)
  <2> Heads # {}
    OBVIOUS
  <2> HIDE DEF R, Heads
  <2> QED BY <1>1, <1>3, WFMin
<1>5. PICK m \in T : x = 0..m
  BY <1>4
<1>6. ASSUME NEW k \in T, k < m PROVE FALSE
  <2>1. 0..k \in Heads /\ 0..k \subseteq 0..m /\ 0..k # 0..m
    <3>1. m \in 0..m /\ m \notin 0..k
      BY <1>6
    <3> QED BY <1>6, <3>1
  <2>2. <<0..k, x>> \in R
    BY <1>2, <1>5, <2>1 DEF StrictSubsetOrdering
  <2> QED BY <1>4, <2>1, <2>2
<1> QED BY <1>6

\* A set with 0 and every successor is all of Nat.
LEMMA Induction ==
  ASSUME NEW T, 0 \in T, \A n \in Nat : n \in T => n + 1 \in T
  PROVE  Nat \subseteq T
<1> SUFFICES ASSUME NEW n \in Nat, n \notin T PROVE FALSE
  OBVIOUS
<1>1. PICK m \in Nat \ T : \A k \in Nat \ T : m <= k
  BY Smallest
<1>2. m - 1 \in Nat /\ m - 1 \in T
  BY <1>1
<1> QED BY <1>1, <1>2

\* Max of a finite set of numbers is its greatest element.
LEMMA Greatest ==
  ASSUME NEW s, s # {}, NEW n \in Nat, s \subseteq 1..n
  PROVE  Max(s) \in s /\ \A k \in s : k <= Max(s)
<1> DEFINE Bounds == {m \in Nat : \A k \in s : k <= m}
<1>1. PICK m \in Bounds : \A k \in Bounds : m <= k
  <2>1. n \in Bounds
    OBVIOUS
  <2> HIDE DEF Bounds
  <2> Bounds \subseteq Nat
    BY DEF Bounds
  <2> QED BY <2>1, Smallest
<1>2. m \in s
  <2> SUFFICES ASSUME m \notin s PROVE FALSE
    OBVIOUS
  <2>1. \A k \in s : k \in 1..n /\ k <= m /\ k # m
    BY <1>1
  <2>2. m \in Nat /\ \A k \in s : k <= m - 1
    BY <1>1, <2>1
  <2>3. m - 1 \in Bounds
    <3>1. PICK k \in s : k \in 1..n /\ k <= m - 1
      BY <2>1, <2>2
    <3>2. m - 1 \in Nat
      BY <2>2, <3>1
    <3> QED BY <2>2, <3>2
  <2> HIDE DEF Bounds
  <2> QED BY <1>1, <2>2, <2>3
<1>3. Max(s) \in s /\ \A k \in s : Max(s) >= k
  BY <1>1, <1>2 DEF Max
<1> QED BY <1>3

\* A subset that keeps the greatest element has the same greatest element.
LEMMA SameGreatest ==
  ASSUME NEW n \in Nat, NEW s, s \subseteq 1..n, NEW t, t \subseteq s, Max(s) \in t
  PROVE  Max(t) = Max(s)
<1>1. PICK x, y : x = Max(s) /\ y = Max(t)
  OBVIOUS
<1>2. x \in s /\ \A k \in s : k <= x
  BY <1>1, Greatest
<1>3. y \in t /\ \A k \in t : k <= y
  BY <1>1, Greatest
<1>4. x \in 1..n /\ y \in 1..n /\ x <= y /\ y <= x
  BY <1>1, <1>2, <1>3
<1> QED BY <1>1, <1>4

LEMMA Shorter ==
  ASSUME NEW k \in Nat, NEW t, t \subseteq 1..(k + 1), t # {}
  PROVE  t \ {Max(t)} \subseteq 1..k
<1>1. PICK x : x = Max(t)
  OBVIOUS
<1>2. x \in t /\ \A i \in t : i <= x
  <2>1. k + 1 \in Nat
    OBVIOUS
  <2> QED BY <1>1, <2>1, Greatest
<1>3. \A i \in t \ {x} : i \in 1..k
  BY <1>2
<1> QED BY <1>1, <1>3

-----------------------------------------------------------------------------
(* Sequences                                                               *)

IsSeq(s) == s \in Seq(Range(s))

\* A sequence with one more element.
LEMMA Appended ==
  ASSUME NEW s, s \in Seq(Range(s)), NEW e
  PROVE  /\ Append(s, e) \in Seq(Range(Append(s, e)))
         /\ DOMAIN Append(s, e) = DOMAIN s \cup {Len(s) + 1}
         /\ \A i \in DOMAIN s : Append(s, e)[i] = s[i]
         /\ Append(s, e)[Len(s) + 1] = e
<1> DEFINE T == Range(s) \cup {e}
<1>1. \A i \in DOMAIN s : s[i] \in T
  BY DEF Range
<1>2. s \in Seq(T)
  BY <1>1
<1>3. Append(s, e) \in Seq(T) /\ Len(Append(s, e)) = Len(s) + 1
  BY <1>2
<1>4. \A i \in DOMAIN Append(s, e) : Append(s, e)[i] \in Range(Append(s, e))
  BY DEF Range
<1>5. Append(s, e) \in Seq(Range(Append(s, e)))
  BY <1>3, <1>4
<1> QED BY <1>2, <1>3, <1>5

LEMMA Joined ==
  ASSUME NEW p, IsSeq(p), NEW x
  PROVE  /\ p \o <<>> = p
         /\ p \o <<x>> = Append(p, x) /\ IsSeq(Append(p, x))
<1>1. p \o <<>> = p
  BY DEF IsSeq
<1>2. p \o <<x>> = Append(p, x)
  <2> DEFINE T == Range(p) \cup {x}
  <2>1. p \in Seq(T)
    <3>1. \A i \in DOMAIN p : p[i] \in T
      BY DEF Range
    <3> QED BY <3>1 DEF IsSeq
  <2>2. x \in T
    OBVIOUS
  <2> HIDE DEF T
  <2> QED BY <2>1, <2>2
<1> QED BY <1>1, <1>2, Appended DEF IsSeq

\* g[i] is what the first i sequences of s make, one after the other.
Unrolled(s, n, g) ==
  g = [i \in 1..n |-> IF i = 1 THEN s[i] ELSE g[i - 1] \o s[i]]

LEMMA UnrolledExists ==
  ASSUME NEW s, NEW n \in Nat
  PROVE  \E g : Unrolled(s, n, g)
<1> DEFINE T == {k \in Nat : \E g : Unrolled(s, k, g)}
<1>1. 0 \in T
  <2>1. Unrolled(s, 0, [i \in 1..0 |-> s])
    BY DEF Unrolled
  <2> QED BY <2>1
<1>2. ASSUME NEW k \in Nat, k \in T PROVE k + 1 \in T
  <2>1. PICK g : Unrolled(s, k, g)
    BY <1>2
  <2> DEFINE last == IF k + 1 = 1 THEN s[k + 1] ELSE g[k] \o s[k + 1]
             h == [i \in 1..(k + 1) |-> IF i = k + 1 THEN last ELSE g[i]]
  <2>2. ASSUME NEW i \in 1..(k + 1)
        PROVE  h[i] = IF i = 1 THEN s[i] ELSE h[i - 1] \o s[i]
    <3>1. CASE i = k + 1
      <4>1. i # 1 => i - 1 \in 1..(k + 1) /\ i - 1 # k + 1 /\ i - 1 = k
        BY <3>1
      <4> QED BY <3>1, <4>1
    <3>2. CASE i # k + 1
      <4>1. i \in 1..k /\ (i # 1 => i - 1 \in 1..k)
        BY <3>2
      <4>2. g[i] = IF i = 1 THEN s[i] ELSE g[i - 1] \o s[i]
        BY <2>1, <4>1 DEF Unrolled
      <4>3. h[i] = g[i] /\ (i # 1 => h[i - 1] = g[i - 1])
        <5>1. i # 1 => i - 1 \in 1..(k + 1) /\ i - 1 # k + 1
          BY <4>1
        <5> QED BY <3>2, <5>1
      <4> HIDE DEF h
      <4> QED BY <4>2, <4>3
    <3> QED BY <3>1, <3>2
  <2>3. Unrolled(s, k + 1, h)
    <3>1. h = [i \in 1..(k + 1) |-> h[i]]
      OBVIOUS
    <3> HIDE DEF h
    <3> QED BY <2>2, <3>1 DEF Unrolled
  <2> HIDE DEF h
  <2> QED BY <2>3
<1>3. Nat \subseteq T
  <2> HIDE DEF T
  <2> QED BY <1>1, <1>2, Induction
<1> QED BY <1>3

LEMMA UnrolledAt ==
  ASSUME NEW s, NEW n, NEW g, Unrolled(s, n, g), NEW i \in 1..n
  PROVE  g[i] = IF i = 1 THEN s[i] ELSE g[i - 1] \o s[i]
BY DEF Unrolled

\* One function is as good as another, also for a longer sequence.
LEMMA UnrolledAgree ==
  ASSUME NEW s, NEW t, NEW n \in Nat, NEW m \in Nat, n <= m,
         \A i \in 1..n : t[i] = s[i],
         NEW g, Unrolled(s, n, g), NEW h, Unrolled(t, m, h)
  PROVE  \A i \in 1..n : h[i] = g[i]
<1> DEFINE T == {k \in Nat : k \in 1..n => h[k] = g[k]}
<1>1. 0 \in T
  OBVIOUS
<1>2. ASSUME NEW k \in Nat, k \in T PROVE k + 1 \in T
  <2> SUFFICES ASSUME k + 1 \in 1..n PROVE h[k + 1] = g[k + 1]
    OBVIOUS
  <2>0. t[k + 1] = s[k + 1]
    OBVIOUS
  <2>1. /\ h[k + 1] = IF k + 1 = 1 THEN t[k + 1] ELSE h[k + 1 - 1] \o t[k + 1]
        /\ g[k + 1] = IF k + 1 = 1 THEN s[k + 1] ELSE g[k + 1 - 1] \o s[k + 1]
    <3>1. k + 1 \in 1..m
      OBVIOUS
    <3> QED BY <3>1, UnrolledAt
  <2>2. k + 1 - 1 = k /\ (k + 1 # 1 => k \in 1..n)
    OBVIOUS
  <2>3. k + 1 # 1 => h[k] = g[k]
    BY <1>2, <2>2
  <2> QED BY <2>0, <2>1, <2>2, <2>3
<1>3. Nat \subseteq T
  <2> HIDE DEF T
  <2> QED BY <1>1, <1>2, Induction
<1> QED BY <1>3

\* FlattenSeq is the last of such a function.
LEMMA FlattenIs ==
  ASSUME NEW s, NEW n \in Nat, Len(s) = n, n # 0, NEW g, Unrolled(s, n, g)
  PROVE  FlattenSeq(s) = g[n]
<1> DEFINE h == CHOOSE h : Unrolled(s, n, h)
<1>1. Unrolled(s, n, h)
  BY UnrolledExists
<1>2. FlattenSeq(s) = h[n]
  BY DEF FlattenSeq, Unrolled
<1> HIDE DEF h
<1>3. \A i \in 1..n : h[i] = g[i]
  BY <1>1, UnrolledAgree
<1> QED BY <1>2, <1>3

LEMMA UnrolledLast ==
  ASSUME NEW t, NEW n \in Nat, n # 0, NEW h, Unrolled(t, n + 1, h)
  PROVE  h[n + 1] = h[n] \o t[n + 1]
<1> DEFINE m == n + 1
<1>1. m \in 1..m /\ m # 1 /\ m - 1 = n
  OBVIOUS
<1> HIDE DEF m
<1>2. Unrolled(t, m, h)
  BY DEF m
<1>3. \A i \in 1..m : h[i] = IF i = 1 THEN t[i] ELSE h[i - 1] \o t[i]
  BY <1>2 DEF Unrolled
<1>4. h[m] = h[m - 1] \o t[m]
  <2> QED BY <1>1, <1>3, Zenon
<1> QED BY <1>1, <1>4 DEF m

Listing(s, n) == s = [i \in 1..n |-> s[i]]

\* One sequence more is flattened behind the others.
LEMMA FlattenLast ==
  ASSUME NEW s, NEW n \in Nat, Listing(s, n), NEW t, Listing(t, n + 1),
         \A i \in 1..n : t[i] = s[i], IsSeq(t[n + 1])
  PROVE  FlattenSeq(t) = FlattenSeq(s) \o t[n + 1]
<1>0. Len(s) = n /\ Len(t) = n + 1 /\ n + 1 \in Nat /\ n + 1 # 0
  <2>1. \A x, k : k \in Nat /\ x = [i \in 1..k |-> x[i]] => Len(x) = k
    OBVIOUS
  <2> QED BY <2>1 DEF Listing
<1>1. PICK h : Unrolled(t, n + 1, h)
  BY <1>0, UnrolledExists
<1>2. FlattenSeq(t) = h[n + 1]
  BY <1>0, <1>1, FlattenIs
<1>3. CASE n = 0
  <2>1. s = <<>> /\ FlattenSeq(s) = <<>>
    BY <1>0, <1>3 DEF FlattenSeq, Listing
  <2>2. h[n + 1] = t[n + 1]
    BY <1>0, <1>1, <1>3 DEF Unrolled
  <2> QED BY <1>2, <2>1, <2>2 DEF IsSeq
<1>4. CASE n # 0
  <2>1. PICK g : Unrolled(s, n, g)
    BY UnrolledExists
  <2>2. FlattenSeq(s) = g[n]
    BY <1>0, <1>4, <2>1, FlattenIs
  <2>3. n \in 1..n /\ n <= n + 1
    BY <1>4
  <2>4. h[n] = g[n]
    <3>1. \A i \in 1..n : h[i] = g[i]
      BY <1>0, <1>1, <2>1, <2>3, UnrolledAgree
    <3> QED BY <2>3, <3>1
  <2>5. h[n + 1] = h[n] \o t[n + 1]
    BY <1>1, <1>4, UnrolledLast
  <2> QED BY <1>2, <2>2, <2>4, <2>5
<1> QED BY <1>3, <1>4

-----------------------------------------------------------------------------
(* Overlays: what the envelopes number t of s lay over base.               *)

Over(s, t, f) == {i \in t : f \in s[i].set}

Overlaid(base, s, t) ==
  IF t = {} THEN base
  ELSE [ set |-> base.set \cup UNION {s[i].set : i \in t},
         val |-> [f \in Field |-> IF Over(s, t, f) = {} THEN base.val[f]
                                  ELSE s[Max(Over(s, t, f))].val[f]] ]

\* Laying over the rest the last of some envelopes.
LEMMA OverlaidLast ==
  ASSUME NEW base, NEW s, NEW n \in Nat, NEW t, t \subseteq 1..n, t # {}
  PROVE  Overlaid(base, s, t)
           = Merge(Overlaid(base, s, t \ {Max(t)}), s[Max(t)])
<1> DEFINE x == Max(t)
           u == t \ {x}
<1>1. x \in t /\ \A k \in t : k <= x
  BY Greatest
<1> HIDE DEF x
<1>2. base.set \cup UNION {s[i].set : i \in t} = Overlaid(base, s, u).set \cup s[x].set
  <2>1. CASE u = {}
    BY <1>1, <2>1 DEF Overlaid
  <2>2. CASE u # {}
    <3>1. Overlaid(base, s, u).set = base.set \cup UNION {s[i].set : i \in u}
      BY <2>2 DEF Overlaid
    <3> QED BY <1>1, <3>1
  <2> QED BY <2>1, <2>2
<1>3. ASSUME NEW f \in Field
      PROVE  (IF Over(s, t, f) = {} THEN base.val[f] ELSE s[Max(Over(s, t, f))].val[f])
               = IF f \in s[x].set THEN s[x].val[f] ELSE Overlaid(base, s, u).val[f]
  <2>1. CASE f \in s[x].set
    <3>1. x \in Over(s, t, f) /\ Over(s, t, f) \subseteq t
      BY <1>1, <2>1 DEF Over
    <3>2. /\ Max(Over(s, t, f)) \in Over(s, t, f)
          /\ \A k \in Over(s, t, f) : k <= Max(Over(s, t, f))
      BY <3>1, Greatest
    <3>3. Max(Over(s, t, f)) = x
      <4>1. PICK y : y = Max(Over(s, t, f))
        OBVIOUS
      <4>2. y \in 1..n /\ x \in 1..n /\ y <= x /\ x <= y
        BY <1>1, <3>1, <3>2, <4>1
      <4> QED BY <4>1, <4>2
    <3> QED BY <2>1, <3>1, <3>3
  <2>2. CASE f \notin s[x].set
    <3>1. Over(s, t, f) = Over(s, u, f)
      BY <2>2 DEF Over
    <3>2. Overlaid(base, s, u).val[f]
            = IF Over(s, u, f) = {} THEN base.val[f] ELSE s[Max(Over(s, u, f))].val[f]
      BY DEF Overlaid, Over
    <3> QED BY <2>2, <3>1, <3>2
  <2> QED BY <2>1, <2>2
<1> QED BY <1>2, <1>3 DEF Overlaid, Merge, x

\* ACLEnvelope::flattened, which merges the envelopes one after the other,
\* gives what the last of them to set a field says of it.
LEMMA FlattenedIs ==
  ASSUME NEW l, NEW n \in Nat, DOMAIN l.extra = 1..n
  PROVE  Flattened(l) = Overlaid(l.base, l.extra, 1..n)
<1> DEFINE s == l.extra
           E(g) == [t \in SUBSET (1..n) |->
                      IF t = {} THEN l.base ELSE Merge(g[t \ {Max(t)}], s[Max(t)])]
           G == [t \in SUBSET (1..n) |-> Overlaid(l.base, s, t)]
           H == CHOOSE g : g = E(g)
<1>1. Flattened(l) = H[1..n]
  BY DEF Flattened, FoldLeft, MapThenFoldSet
<1>2. G = E(G)
  <2>1. ASSUME NEW t \in SUBSET (1..n), t # {}
        PROVE  G[t] = Merge(G[t \ {Max(t)}], s[Max(t)])
    BY <2>1, OverlaidLast
  <2>2. G[{}] = l.base
    BY DEF Overlaid
  <2> HIDE DEF s
  <2> QED BY <2>1, <2>2
<1>3. H = E(H)
  <2> HIDE DEF G
  <2> QED BY <1>2
<1> HIDE DEF H
<1>4. H[{}] = G[{}]
  <2>1. {} \in SUBSET (1..n)
    OBVIOUS
  <2>2. G[{}] = l.base
    BY <2>1 DEF Overlaid
  <2>3. H[{}] = l.base
    <3> HIDE DEF G
    <3> QED BY <1>3, <2>1
  <2> QED BY <2>2, <2>3
<1>5. ASSUME NEW t \in SUBSET (1..n), t # {}, H[t \ {Max(t)}] = G[t \ {Max(t)}]
      PROVE  H[t] = G[t]
  <2>1. H[t] = Merge(H[t \ {Max(t)}], s[Max(t)])
    BY <1>3, <1>5
  <2> HIDE DEF G
  <2>2. G[t] = Merge(G[t \ {Max(t)}], s[Max(t)])
    BY <1>2, <1>5
  <2> QED BY <1>5, <2>1, <2>2
<1> HIDE DEF G
<1>6. \A t \in SUBSET (1..n) : H[t] = G[t]
  <2> DEFINE P == {k \in Nat : \A t \in SUBSET (1..n) : t \subseteq 1..k => H[t] = G[t]}
  <2>1. 0 \in P
    <3>1. 1..0 = {}
      OBVIOUS
    <3> QED BY <1>4, <3>1
  <2>2. ASSUME NEW k \in Nat, k \in P PROVE k + 1 \in P
    <3>1. ASSUME NEW t \in SUBSET (1..n), t \subseteq 1..(k + 1), t # {}
          PROVE  H[t] = G[t]
      <4>1. t \ {Max(t)} \subseteq 1..k /\ t \ {Max(t)} \in SUBSET (1..n)
        BY <3>1, Shorter
      <4>2. H[t \ {Max(t)}] = G[t \ {Max(t)}]
        BY <2>2, <4>1
      <4> QED BY <1>5, <3>1, <4>2
    <3> QED BY <1>4, <3>1, <2>2
  <2>3. Nat \subseteq P
    <3> HIDE DEF P
    <3> QED BY <2>1, <2>2, Induction
  <2> QED BY <2>3
<1> QED BY <1>1, <1>6 DEF G

-----------------------------------------------------------------------------
(* What a letter tells of a field, and what is left of it when it was sent. *)

Tracked == Field \ {"PAYLOAD_LENGTH", "RECEIVED_OBJECT", "DATE",
                    "USERDEFINED_PARAMETERS"}

Told(l, f) ==
  LET over == Over(l.extra, DOMAIN l.extra, f) IN
  IF over = {} THEN l.base.val[f] ELSE l.extra[Max(over)].val[f]

\* A flattened letter holds what the letter tells.
LEMMA FlattenedTells ==
  ASSUME NEW l, NEW n \in Nat, DOMAIN l.extra = 1..n, NEW f \in Field
  PROVE  Flattened(l).val[f] = Told(l, f)
<1>1. Flattened(l) = Overlaid(l.base, l.extra, 1..n)
  BY FlattenedIs
<1>2. CASE 1..n = {}
  BY <1>1, <1>2 DEF Overlaid, Told, Over
<1>3. CASE 1..n # {}
  BY <1>1, <1>3 DEF Overlaid, Told
<1> QED BY <1>2, <1>3

\* An envelope laid over a letter has the last word on what it sets.
LEMMA ToldOver ==
  ASSUME NEW l, NEW k, l.extra \in Seq(Range(l.extra)), NEW env, NEW f,
         k.base = l.base, k.extra = Append(l.extra, env)
  PROVE  Told(k, f) = IF f \in env.set THEN env.val[f] ELSE Told(l, f)
<1> DEFINE s == l.extra
           t == k.extra
           n == Len(s)
<1>1. /\ n \in Nat /\ DOMAIN s = 1..n
      /\ DOMAIN t = DOMAIN s \cup {n + 1}
      /\ \A i \in DOMAIN s : t[i] = s[i]
      /\ t[n + 1] = env
  BY Appended
<1> HIDE DEF s, t, n
<1>2. CASE f \notin env.set
  <2>1. Over(t, DOMAIN t, f) = Over(s, DOMAIN s, f)
    BY <1>1, <1>2 DEF Over
  <2>2. Over(s, DOMAIN s, f) # {} => Max(Over(s, DOMAIN s, f)) \in DOMAIN s
    <3>1. Over(s, DOMAIN s, f) \subseteq 1..n
      BY <1>1 DEF Over
    <3> QED BY <1>1, <3>1, Greatest
  <2> QED BY <1>1, <1>2, <2>1, <2>2 DEF Told, s, t
<1>3. CASE f \in env.set
  <2> DEFINE over == Over(t, DOMAIN t, f)
  <2>1. n + 1 \in over /\ over \subseteq 1..(n + 1)
    BY <1>1, <1>3 DEF Over
  <2> HIDE DEF over
  <2>2. Max(over) \in over /\ \A i \in over : i <= Max(over)
    <3>1. n + 1 \in Nat
      BY <1>1
    <3> QED BY <2>1, <3>1, Greatest
  <2>3. Max(over) = n + 1
    <3>1. PICK y : y = Max(over)
      OBVIOUS
    <3>2. y \in over /\ n + 1 <= y
      BY <2>1, <2>2, <3>1
    <3>3. y \in 1..(n + 1)
      BY <2>1, <3>2
    <3> QED BY <1>1, <3>1, <3>2, <3>3
  <2> QED BY <1>1, <1>3, <2>1, <2>3 DEF Told, over, t
<1> QED BY <1>2, <1>3

(* Not every encoding carries an empty text, and XML carries any other     *)
(* text as it is read.                                                     *)
Carried(v, f) == f \in TextElement => v # ""

ReadAs(r, f, v) == IF r = "XML" /\ f \in TextElement THEN AsElement[v] ELSE v

LEMMA TextFields == TextElement \subseteq Tracked \ {"TRANSPORT_BEHAVIOUR"}
BY DEF TextElement, Tracked, Field

\* What an XML writer and reader make of such a field.
LEMMA XMLTells ==
  ASSUME NEW env, NEW f \in Tracked \ {"TRANSPORT_BEHAVIOUR"}
  PROVE  LET sent == ParseParameters(XMLParameters(env)) IN
         /\ f \in sent.set <=> f \in env.set /\ Carried(env.val[f], f)
         /\ sent.val[f] = IF f \in sent.set THEN ReadAs("XML", f, env.val[f])
                          ELSE NewEnvelope.val[f]
<1>1. f \in Field /\ f # "RECEIVED_OBJECT" /\ f # "USERDEFINED_PARAMETERS"
      /\ f # "TRANSPORT_BEHAVIOUR"
  BY DEF Tracked
<1> DEFINE p == XMLParameters(env)
           sent == ParseParameters(p)
<1>2. /\ f \in DOMAIN p <=> f \in env.set /\ Carried(env.val[f], f)
      /\ f \in DOMAIN p => p[f] = env.val[f]
  BY <1>1 DEF XMLParameters, Carried
<1> HIDE DEF p
<1>3. sent.set = DOMAIN p \cup {"USERDEFINED_PARAMETERS"}
  BY DEF ParseParameters
<1>4. sent.val[f] = IF f \in DOMAIN p THEN ParseElement(f, p[f]) ELSE NewEnvelope.val[f]
  BY <1>1 DEF ParseParameters
<1>5. \A v : ParseElement(f, v) = ReadAs("XML", f, v)
  BY <1>1 DEF ParseElement, ReadAs
<1> HIDE DEF sent
<1>6. /\ f \in sent.set <=> f \in env.set /\ Carried(env.val[f], f)
      /\ sent.val[f] = IF f \in sent.set THEN ReadAs("XML", f, env.val[f])
                       ELSE NewEnvelope.val[f]
  BY <1>1, <1>2, <1>3, <1>4, <1>5
<1> QED BY <1>6 DEF sent, p

\* A field that a sent envelope tells, an overlay or the base.
LEMMA SentTells ==
  ASSUME NEW env, NEW r, NEW f \in Tracked \ {"TRANSPORT_BEHAVIOUR"}
  PROVE  /\ f \in SentEnvelope(env, r).set
              => /\ f \in env.set /\ (r = "XML" => Carried(env.val[f], f))
                 /\ SentEnvelope(env, r).val[f] = ReadAs(r, f, env.val[f])
         /\ f \in env.set /\ Carried(env.val[f], f) => f \in SentEnvelope(env, r).set
         /\ f \notin SentEnvelope(env, r).set
              => SentEnvelope(env, r).val[f] = NewEnvelope.val[f]
<1>1. f \in Field /\ f # "RECEIVED_OBJECT" /\ f # "PAYLOAD_LENGTH"
      /\ f # "USERDEFINED_PARAMETERS" /\ f # "TRANSPORT_BEHAVIOUR" /\ f \in WrittenFields
  BY DEF Tracked, Field, WrittenFields
<1>2. CASE r = "XML"
  BY <1>2, XMLTells DEF SentEnvelope
<1>3. CASE r # "XML"
  <2> DEFINE p == GetParameters(env)
             header == Set(Set(NewEnvelope, "RECEIVED_OBJECT", env.val["RECEIVED_OBJECT"]),
                           "PAYLOAD_LENGTH", HeaderLength)
  <2>1. f \in DOMAIN p <=> f \in env.set
    BY <1>1 DEF GetParameters
  <2>2. f \in DOMAIN p => p[f] = env.val[f]
    BY DEF GetParameters
  <2>3. f \notin header.set /\ header.val[f] = NewEnvelope.val[f]
    <3> DEFINE h1 == Set(NewEnvelope, "RECEIVED_OBJECT", env.val["RECEIVED_OBJECT"])
    <3>1. /\ f \notin h1.set /\ h1.val[f] = NewEnvelope.val[f] /\ DOMAIN h1.val = Field
      BY <1>1 DEF Set, NewEnvelope
    <3> HIDE DEF h1
    <3>2. header = Set(h1, "PAYLOAD_LENGTH", HeaderLength)
      BY DEF h1
    <3> QED BY <1>1, <3>1, <3>2 DEF Set
  <2>4. SentEnvelope(env, r)
          = Merge(header, [ set |-> DOMAIN p,
                            val |-> [g \in Field |-> IF g \in DOMAIN p THEN p[g]
                                                     ELSE NewEnvelope.val[g]] ])
    BY <1>3 DEF SentEnvelope, DecodedExt, EncodedExt, MergeParameters
  <2> DEFINE read == [ set |-> DOMAIN p,
                       val |-> [g \in Field |-> IF g \in DOMAIN p THEN p[g]
                                                ELSE NewEnvelope.val[g]] ]
  <2>5. read.set = DOMAIN p /\ (f \in DOMAIN p => read.val[f] = p[f])
    BY <1>1
  <2>6. SentEnvelope(env, r) = Merge(header, read)
    BY <2>4
  <2> HIDE DEF p, header, read
  <2>7. /\ Merge(header, read).set = header.set \cup read.set
        /\ Merge(header, read).val[f] = IF f \in read.set THEN read.val[f] ELSE header.val[f]
    BY <1>1 DEF Merge
  <2>8. ReadAs(r, f, env.val[f]) = env.val[f]
    BY <1>3 DEF ReadAs
  <2> QED BY <1>3, <2>1, <2>2, <2>3, <2>5, <2>6, <2>7, <2>8
<1> QED BY <1>2, <1>3

\* What a new envelope holds of f.
Untold(f) == NewEnvelope.val[f]

\* The same of the base envelope, whose reader begins from a header that already
\* holds the representation.
LEMMA SentBaseTells ==
  ASSUME NEW env, NEW r, NEW f \in Tracked \ {"TRANSPORT_BEHAVIOUR"}
  PROVE  /\ f \in SentBaseEnvelope(env, r).set /\ f # "ACL_REPRESENTATION" => f \in env.set
         /\ f \notin env.set => \/ SentBaseEnvelope(env, r).val[f] = env.val[f]
                                \/ SentBaseEnvelope(env, r).val[f] = Untold(f)
         /\ f \notin SentBaseEnvelope(env, r).set
              => SentBaseEnvelope(env, r).val[f] = Untold(f)
         /\ f \in env.set /\ f \in SentBaseEnvelope(env, r).set
              => /\ r = "XML" => Carried(env.val[f], f)
                 /\ SentBaseEnvelope(env, r).val[f] = ReadAs(r, f, env.val[f])
         /\ f \in env.set /\ Carried(env.val[f], f) => f \in SentBaseEnvelope(env, r).set
<1> DEFINE sent == SentBaseEnvelope(env, r)
<1>1. f \in Field /\ f # "RECEIVED_OBJECT" /\ f # "PAYLOAD_LENGTH" /\ f # "DATE"
      /\ f # "USERDEFINED_PARAMETERS" /\ f # "TRANSPORT_BEHAVIOUR" /\ f \in WrittenFields
  BY DEF Tracked, Field, WrittenFields
<1>2. CASE r = "XML"
  <2>1. sent = ParseParameters(XMLParameters(env))
    BY <1>2 DEF SentBaseEnvelope
  <2> HIDE DEF sent
  <2>2. /\ f \in sent.set <=> f \in env.set /\ Carried(env.val[f], f)
        /\ sent.val[f] = IF f \in sent.set THEN ReadAs("XML", f, env.val[f]) ELSE Untold(f)
    BY <2>1, XMLTells DEF Untold
  <2> QED BY <1>2, <2>2 DEF sent
<1>3. CASE r # "XML"
  <2> DEFINE p == GetParameters(env)
             h1 == Set(NewEnvelope, "ACL_REPRESENTATION", env.val["ACL_REPRESENTATION"])
             h2 == Set(h1, "DATE", env.val["DATE"])
             header == Set(h2, "PAYLOAD_LENGTH", HeaderLength)
             read == [ set |-> DOMAIN p,
                       val |-> [g \in Field |-> IF g \in DOMAIN p THEN p[g]
                                                ELSE NewEnvelope.val[g]] ]
  <2>1. f \in DOMAIN p <=> f \in env.set
    BY <1>1 DEF GetParameters
  <2>2. f \in DOMAIN p => p[f] = env.val[f]
    BY DEF GetParameters
  <2>3. header.set = {"ACL_REPRESENTATION", "DATE", "PAYLOAD_LENGTH"}
    BY DEF Set, NewEnvelope
  <2>4. header.val[f] = IF f = "ACL_REPRESENTATION" THEN env.val[f] ELSE Untold(f)
    <3>1. DOMAIN NewEnvelope.val = Field /\ f \in Field
      BY <1>1 DEF NewEnvelope
    <3>2. /\ DOMAIN h1.val = Field
          /\ h1.val[f] = IF f = "ACL_REPRESENTATION" THEN env.val[f] ELSE Untold(f)
      BY <3>1 DEF Set, Untold
    <3> HIDE DEF h1
    <3>3. DOMAIN h2.val = Field /\ h2.val[f] = h1.val[f]
      BY <1>1, <3>2 DEF Set
    <3> HIDE DEF h2
    <3>4. header.val[f] = h2.val[f]
      BY <1>1, <3>3 DEF Set
    <3> QED BY <3>2, <3>3, <3>4
  <2>5. sent = Merge(header, read)
    BY <1>3 DEF SentBaseEnvelope, DecodedBase, EncodedBase, MergeParameters
  <2>6. read.set = DOMAIN p /\ (f \in DOMAIN p => read.val[f] = p[f])
    BY <1>1
  <2> HIDE DEF p, header, read, sent
  <2>7. /\ sent.set = header.set \cup read.set
        /\ sent.val[f] = IF f \in read.set THEN read.val[f] ELSE header.val[f]
    BY <1>1, <2>5 DEF Merge
  <2>8. f \in env.set => f \in sent.set /\ sent.val[f] = env.val[f]
    BY <2>1, <2>2, <2>6, <2>7
  <2>9. f \notin env.set
          => /\ f # "ACL_REPRESENTATION" => f \notin sent.set
             /\ sent.val[f] = env.val[f] \/ sent.val[f] = Untold(f)
    BY <1>1, <2>1, <2>3, <2>4, <2>6, <2>7
  <2>10. f \notin sent.set => sent.val[f] = Untold(f)
    BY <1>1, <2>3, <2>4, <2>6, <2>7
  <2>11. ReadAs(r, f, env.val[f]) = env.val[f]
    BY <1>3 DEF ReadAs
  <2> QED BY <1>3, <2>8, <2>9, <2>10, <2>11 DEF sent
<1> QED BY <1>2, <1>3

(* A field that was not set holds what it holds in a new envelope.         *)
Plain(env, f) == f \notin env.set => env.val[f] = Untold(f)

(* What is told of a field once the letter was sent: the same, or what XML *)
(* makes of an envelope's text.                                            *)
ReadFrom(env, r, f, v, w) ==
  \/ w = v
  \/ f \in env.set /\ env.val[f] = v /\ r = "XML" /\ f \in TextElement /\ w = AsElement[v]

LEMMA SentBaseKeeps ==
  ASSUME NEW env, NEW r, NEW f \in Tracked \ {"TRANSPORT_BEHAVIOUR"},
         Plain(env, f), Carried(env.val[f], f)
  PROVE  ReadFrom(env, r, f, env.val[f], SentBaseEnvelope(env, r).val[f])
<1>1. PICK v : v = SentBaseEnvelope(env, r).val[f]
  OBVIOUS
<1>2. CASE f \in env.set
  <2>1. v = ReadAs(r, f, env.val[f])
    BY <1>1, <1>2, SentBaseTells
  <2> QED BY <1>1, <1>2, <2>1 DEF ReadFrom, ReadAs
<1>3. CASE f \notin env.set
  <2>1. env.val[f] = Untold(f)
    BY <1>3 DEF Plain
  <2>2. v = env.val[f] \/ v = Untold(f)
    BY <1>1, <1>3, SentBaseTells
  <2> QED BY <1>1, <2>1, <2>2 DEF ReadFrom
<1> QED BY <1>2, <1>3

LEMMA SentPlain ==
  ASSUME NEW env, NEW r, NEW f \in Tracked \ {"TRANSPORT_BEHAVIOUR"}
  PROVE  Plain(SentBaseEnvelope(env, r), f)
<1> DEFINE sent == SentBaseEnvelope(env, r)
<1>1. f \notin sent.set => sent.val[f] = Untold(f)
  BY SentBaseTells
<1> HIDE DEF sent
<1>2. Plain(sent, f)
  BY <1>1 DEF Plain
<1> QED BY <1>2 DEF sent

\* What a letter tells of a field it tells as well after it was sent, or what XML
\* made of it, unless it is an addressee of an envelope that names none, or empty.
LEMMA ToldSent ==
  ASSUME NEW l, NEW n \in Nat, DOMAIN l.extra = 1..n, NEW r,
         NEW f \in Tracked \ {"TRANSPORT_BEHAVIOUR"},
         Plain(l.base, f), Carried(Told(l, f), f)
  PROVE  \E env \in Envelopes(l) :
           ReadFrom(env, r, f, Told(l, f), Told(Transmitted(l, r), f))
<1> DEFINE k == Transmitted(l, r)
           over == Over(l.extra, 1..n, f)
           kept == Over(k.extra, 1..n, f)
<1>1. /\ k.base = SentBaseEnvelope(l.base, r)
      /\ DOMAIN k.extra = 1..n
      /\ \A i \in 1..n : k.extra[i] = SentEnvelope(l.extra[i], r)
  BY DEF Transmitted
<1> HIDE DEF k
<1>2. kept \subseteq over /\ over \subseteq 1..n
  <2>1. \A i \in 1..n : f \in k.extra[i].set => f \in l.extra[i].set
    BY <1>1, SentTells
  <2> QED BY <2>1 DEF Over
<1> HIDE DEF over, kept
<1>3. CASE over = {}
  <2>1. Told(l, f) = l.base.val[f] /\ Told(k, f) = k.base.val[f]
    BY <1>1, <1>2, <1>3 DEF Told, over, kept
  <2>2. ReadFrom(l.base, r, f, l.base.val[f], k.base.val[f])
    BY <1>1, <2>1, SentBaseKeeps
  <2> QED BY <2>1, <2>2 DEF Envelopes, k
<1>4. CASE over # {}
  <2>1. PICK m : m = Max(over)
    OBVIOUS
  <2>2. m \in over /\ \A i \in over : i <= m
    BY <1>2, <1>4, <2>1, Greatest
  <2>3. Told(l, f) = l.extra[m].val[f] /\ f \in l.extra[m].set /\ m \in 1..n
    BY <1>2, <1>4, <2>1, <2>2 DEF Told, Over, over
  <2>4. f \in k.extra[m].set /\ k.extra[m].val[f] = ReadAs(r, f, l.extra[m].val[f])
    BY <1>1, <2>3, SentTells
  <2>5. m \in kept
    BY <2>3, <2>4 DEF Over, kept
  <2>6. Max(kept) = m
    BY <1>2, <2>1, <2>5, SameGreatest
  <2>7. Told(k, f) = ReadAs(r, f, l.extra[m].val[f])
    BY <1>1, <2>4, <2>5, <2>6 DEF Told, kept
  <2>8. ReadFrom(l.extra[m], r, f, Told(l, f), Told(k, f))
    BY <2>3, <2>7 DEF ReadFrom, ReadAs
  <2>9. l.extra[m] \in Envelopes(l)
    BY <1>1, <2>3 DEF Envelopes, Range
  <2> QED BY <2>8, <2>9 DEF k
<1> QED BY <1>3, <1>4

\* Neither encoding makes up a transport behaviour.
LEMMA SentShape ==
  ASSUME NEW env, NEW r, "TRANSPORT_BEHAVIOUR" \notin env.set
  PROVE  /\ "TRANSPORT_BEHAVIOUR" \notin SentEnvelope(env, r).set
         /\ "TRANSPORT_BEHAVIOUR" \notin SentBaseEnvelope(env, r).set
         /\ DOMAIN SentBaseEnvelope(env, r) = {"set", "val"}
         /\ DOMAIN SentBaseEnvelope(env, r).val = Field
         /\ SentBaseEnvelope(env, r).val["TRANSPORT_BEHAVIOUR"]
              = Untold("TRANSPORT_BEHAVIOUR")
<1>0. "TRANSPORT_BEHAVIOUR" \in Field
  BY DEF Field
<1>1. CASE r = "XML"
  <2>1. "TRANSPORT_BEHAVIOUR" \notin DOMAIN XMLParameters(env)
    BY DEF XMLParameters
  <2> QED BY <1>0, <1>1, <2>1 DEF SentEnvelope, SentBaseEnvelope, ParseParameters, Untold
<1>2. CASE r # "XML"
  <2>1. "TRANSPORT_BEHAVIOUR" \notin DOMAIN GetParameters(env)
    BY DEF GetParameters
  <2>2. ASSUME NEW header, NEW p, "TRANSPORT_BEHAVIOUR" \notin header.set,
               "TRANSPORT_BEHAVIOUR" \notin DOMAIN p
        PROVE  /\ "TRANSPORT_BEHAVIOUR" \notin MergeParameters(header, p).set
               /\ DOMAIN MergeParameters(header, p) = {"set", "val"}
               /\ DOMAIN MergeParameters(header, p).val = Field
               /\ DOMAIN header.val = Field
                    => MergeParameters(header, p).val["TRANSPORT_BEHAVIOUR"]
                         = header.val["TRANSPORT_BEHAVIOUR"]
    BY <1>0, <2>2 DEF MergeParameters, Merge, Set
  <2>3. "TRANSPORT_BEHAVIOUR" \notin
          Set(NewEnvelope, "RECEIVED_OBJECT", env.val["RECEIVED_OBJECT"]).set
    BY DEF Set, NewEnvelope
  <2>4. "TRANSPORT_BEHAVIOUR" \notin
          Set(Set(NewEnvelope, "ACL_REPRESENTATION", env.val["ACL_REPRESENTATION"]),
              "DATE", env.val["DATE"]).set
    BY DEF Set, NewEnvelope
  <2> DEFINE base == Set(Set(NewEnvelope, "ACL_REPRESENTATION", env.val["ACL_REPRESENTATION"]),
                         "DATE", env.val["DATE"])
  <2>7. DOMAIN base.val = Field /\ base.val["TRANSPORT_BEHAVIOUR"] = Untold("TRANSPORT_BEHAVIOUR")
    BY <1>0 DEF Set, NewEnvelope, Untold
  <2>5. SentEnvelope(env, r) =
          MergeParameters(Set(NewEnvelope, "RECEIVED_OBJECT", env.val["RECEIVED_OBJECT"]),
                          GetParameters(env))
    BY <1>2 DEF SentEnvelope, DecodedExt, EncodedExt
  <2>6. SentBaseEnvelope(env, r) =
          MergeParameters(
            Set(Set(NewEnvelope, "ACL_REPRESENTATION", env.val["ACL_REPRESENTATION"]),
                "DATE", env.val["DATE"]),
            GetParameters(env))
    BY <1>2 DEF SentBaseEnvelope, DecodedBase, EncodedBase
  <2> HIDE DEF base
  <2>8. SentBaseEnvelope(env, r) = MergeParameters(base, GetParameters(env))
    BY <2>6 DEF base
  <2>9. "TRANSPORT_BEHAVIOUR" \notin base.set
    BY <2>4 DEF base
  <2> QED BY <2>1, <2>2, <2>3, <2>5, <2>7, <2>8, <2>9
<1> QED BY <1>1, <1>2

-----------------------------------------------------------------------------
(* Stamps                                                                  *)

Stamped(env) == "RECEIVED_OBJECT" \in env.set

StampedBy(env) == env.val["RECEIVED_OBJECT"].by

ReceiptOf(env) == env.val["RECEIVED_OBJECT"]

(* Bit-efficiently an envelope without a receipt is read with the receipt  *)
(* it held all the same, so that one must be nobody's.                     *)
Overlay(env) == Stamped(env) \/ StampedBy(env) = Nobody

\* A new envelope carries no stamp, and setting another field gives it none.
LEMMA NewUnstamped ==
  /\ ~Stamped(NewEnvelope) /\ StampedBy(NewEnvelope) = Nobody
  /\ \A f \in Field \ {"RECEIVED_OBJECT"} : \A v :
       ~Stamped(Set(NewEnvelope, f, v)) /\ Overlay(Set(NewEnvelope, f, v))
<1>1. NewEnvelope.set = {} /\ NewEnvelope.val["RECEIVED_OBJECT"] = NoReceipt
  BY DEF NewEnvelope, Field
<1>2. ASSUME NEW f \in Field \ {"RECEIVED_OBJECT"}, NEW v
      PROVE  /\ "RECEIVED_OBJECT" \notin Set(NewEnvelope, f, v).set
             /\ Set(NewEnvelope, f, v).val["RECEIVED_OBJECT"] = NoReceipt
  BY <1>1 DEF Set, NewEnvelope, Field
<1> QED BY <1>1, <1>2 DEF Stamped, StampedBy, Overlay, NoReceipt

\* In either representation an envelope arrives with the stamp it had.
LEMMA SentKeepsStamp ==
  ASSUME NEW env, Overlay(env), NEW r
  PROVE  /\ Overlay(SentEnvelope(env, r))
         /\ \A a \in Agents :
              Stamped(SentEnvelope(env, r)) /\ StampedBy(SentEnvelope(env, r)) = a
                <=> Stamped(env) /\ StampedBy(env) = a
<1> DEFINE sent == SentEnvelope(env, r)
<1>1. CASE r = "XML"
  <2>1. /\ Stamped(sent) <=> Stamped(env)
        /\ Stamped(env) => StampedBy(sent) = StampedBy(env)
        /\ ~Stamped(env) => StampedBy(sent) = StampedBy(NewEnvelope)
    BY <1>1
    DEF SentEnvelope, ParseParameters, ParseElement, XMLParameters, TextElement,
        ReadReceipt, NoReceipt, Stamped, StampedBy, Field
  <2> QED BY <2>1, NewUnstamped DEF Overlay
<1>2. CASE r # "XML"
  <2>1. sent = DecodedExt(EncodedExt(env))
    BY <1>2 DEF SentEnvelope
  <2>2. Stamped(sent) /\ StampedBy(sent) = StampedBy(env)
    <3> DEFINE ext == EncodedExt(env)
               header == Set(Set(NewEnvelope, "RECEIVED_OBJECT", ext.receipt),
                             "PAYLOAD_LENGTH", HeaderLength)
    <3>1. /\ "RECEIVED_OBJECT" \in header.set
          /\ header.val["RECEIVED_OBJECT"] = env.val["RECEIVED_OBJECT"]
      BY DEF EncodedExt, Set, NewEnvelope, Field
    <3>2. "RECEIVED_OBJECT" \in DOMAIN ext.parameters =>
            ext.parameters["RECEIVED_OBJECT"] = env.val["RECEIVED_OBJECT"]
      BY DEF EncodedExt, GetParameters
    <3> HIDE DEF ext, header
    <3>3. sent = Merge(header,
                   [ set |-> DOMAIN ext.parameters,
                     val |-> [f \in Field |-> IF f \in DOMAIN ext.parameters
                                              THEN ext.parameters[f]
                                              ELSE NewEnvelope.val[f]] ])
      BY <2>1 DEF DecodedExt, MergeParameters, ext, header
    <3>4. "RECEIVED_OBJECT" \in Field
      BY DEF Field
    <3> HIDE DEF sent
    <3> QED BY <3>1, <3>2, <3>3, <3>4 DEF Merge, Stamped, StampedBy
  <2>3. Nobody \notin Agents
    BY LettersAssumption
  <2> QED BY <2>2, <2>3 DEF Overlay
<1> QED BY <1>1, <1>2

LEMMA ParsedReceipt ==
  ASSUME NEW data PROVE ParseElement("RECEIVED_OBJECT", data) = ReadReceipt(data)
<1>1. "RECEIVED_OBJECT" \notin TextElement
  BY DEF TextElement
<1> QED BY <1>1 DEF ParseElement

\* A reader of bit-efficient letters takes the receipts as they are, a reader of
\* XML letters as ReadReceipt says.
LEMMA SentReceipt ==
  ASSUME NEW env, NEW r
  PROVE  /\ r = "XML" =>
              /\ Stamped(SentEnvelope(env, r)) <=> Stamped(env)
              /\ Stamped(SentBaseEnvelope(env, r)) <=> Stamped(env)
              /\ Stamped(env) =>
                   /\ ReceiptOf(SentEnvelope(env, r)) = ReadReceipt(ReceiptOf(env))
                   /\ ReceiptOf(SentBaseEnvelope(env, r)) = ReadReceipt(ReceiptOf(env))
         /\ r # "XML" =>
              /\ Stamped(SentEnvelope(env, r))
              /\ ReceiptOf(SentEnvelope(env, r)) = ReceiptOf(env)
              /\ Stamped(SentBaseEnvelope(env, r)) <=> Stamped(env)
              /\ Stamped(env) => ReceiptOf(SentBaseEnvelope(env, r)) = ReceiptOf(env)
<1>0. "RECEIVED_OBJECT" \in Field
  BY DEF Field
<1>1. CASE r = "XML"
  <2> DEFINE p == XMLParameters(env)
  <2>1. SentEnvelope(env, r) = ParseParameters(p) /\ SentBaseEnvelope(env, r) = ParseParameters(p)
    BY <1>1 DEF SentEnvelope, SentBaseEnvelope
  <2>2. /\ "RECEIVED_OBJECT" \in DOMAIN p <=> Stamped(env)
        /\ Stamped(env) => p["RECEIVED_OBJECT"] = ReceiptOf(env)
    BY DEF XMLParameters, TextElement, Stamped, ReceiptOf
  <2> HIDE DEF p
  <2>3. Stamped(ParseParameters(p)) <=> "RECEIVED_OBJECT" \in DOMAIN p
    BY DEF ParseParameters, Stamped
  <2>4. "RECEIVED_OBJECT" \in DOMAIN p
          => ReceiptOf(ParseParameters(p)) = ReadReceipt(p["RECEIVED_OBJECT"])
    BY <1>0, ParsedReceipt DEF ParseParameters, ReceiptOf
  <2> QED BY <1>1, <2>1, <2>2, <2>3, <2>4
<1>2. CASE r # "XML"
  <2> DEFINE p == GetParameters(env)
             ext == Set(NewEnvelope, "RECEIVED_OBJECT", ReceiptOf(env))
             base == Set(Set(NewEnvelope, "ACL_REPRESENTATION", env.val["ACL_REPRESENTATION"]),
                         "DATE", env.val["DATE"])
  <2>1. /\ SentEnvelope(env, r) = MergeParameters(ext, p)
        /\ SentBaseEnvelope(env, r) = MergeParameters(base, p)
    BY <1>2 DEF SentEnvelope, SentBaseEnvelope, DecodedExt, DecodedBase, EncodedExt,
                EncodedBase, ReceiptOf
  <2>2. /\ "RECEIVED_OBJECT" \in DOMAIN p <=> Stamped(env)
        /\ Stamped(env) => p["RECEIVED_OBJECT"] = ReceiptOf(env)
    BY DEF GetParameters, WrittenFields, Stamped, ReceiptOf
  <2>3. ext.set = {"RECEIVED_OBJECT"} /\ ext.val["RECEIVED_OBJECT"] = ReceiptOf(env)
        /\ DOMAIN ext.val = Field
    BY <1>0 DEF Set, NewEnvelope
  <2>4. base.set = {"ACL_REPRESENTATION", "DATE"} /\ DOMAIN base.val = Field
    BY DEF Set, NewEnvelope
  <2> HIDE DEF p, ext, base
  <2>5. ASSUME NEW header, DOMAIN header.val = Field
        PROVE  /\ Stamped(MergeParameters(header, p))
                    <=> "RECEIVED_OBJECT" \in header.set \/ "RECEIVED_OBJECT" \in DOMAIN p
               /\ ReceiptOf(MergeParameters(header, p))
                    = IF "RECEIVED_OBJECT" \in DOMAIN p THEN p["RECEIVED_OBJECT"]
                      ELSE header.val["RECEIVED_OBJECT"]
    <3> DEFINE h == Set(header, "PAYLOAD_LENGTH", HeaderLength)
               read == [ set |-> DOMAIN p,
                         val |-> [f \in Field |-> IF f \in DOMAIN p THEN p[f]
                                                  ELSE NewEnvelope.val[f]] ]
    <3>1. /\ "RECEIVED_OBJECT" \in h.set <=> "RECEIVED_OBJECT" \in header.set
          /\ h.val["RECEIVED_OBJECT"] = header.val["RECEIVED_OBJECT"]
      BY <1>0, <2>5 DEF Set
    <3>2. /\ read.set = DOMAIN p
          /\ "RECEIVED_OBJECT" \in DOMAIN p
               => read.val["RECEIVED_OBJECT"] = p["RECEIVED_OBJECT"]
      BY <1>0
    <3> HIDE DEF h, read
    <3>3. MergeParameters(header, p) = Merge(h, read)
      BY DEF MergeParameters, h, read
    <3>4. /\ Merge(h, read).set = h.set \cup read.set
          /\ Merge(h, read).val["RECEIVED_OBJECT"]
               = IF "RECEIVED_OBJECT" \in read.set THEN read.val["RECEIVED_OBJECT"]
                 ELSE h.val["RECEIVED_OBJECT"]
      BY <1>0 DEF Merge
    <3> QED BY <3>1, <3>2, <3>3, <3>4 DEF Stamped, ReceiptOf
  <2>6. /\ Stamped(MergeParameters(ext, p))
        /\ ReceiptOf(MergeParameters(ext, p)) = ReceiptOf(env)
    BY <2>2, <2>3, <2>5
  <2>7. /\ Stamped(MergeParameters(base, p)) <=> Stamped(env)
        /\ Stamped(env) => ReceiptOf(MergeParameters(base, p)) = ReceiptOf(env)
    BY <2>2, <2>4, <2>5
  <2> QED BY <1>2, <2>1, <2>6, <2>7
<1> QED BY <1>1, <1>2

-----------------------------------------------------------------------------
(* The hops of a row of envelopes, the base before the others.             *)

Entry(env) == IF "RECEIVED_OBJECT" \in env.set THEN <<env.val["RECEIVED_OBJECT"]>>
              ELSE <<>>

Path(e) == FlattenSeq([i \in DOMAIN e |-> Entry(e[i])])

Named(receipt) == IF receipt.by # Nobody THEN <<receipt>> ELSE <<>>

Hop(env) == IF Stamped(env) /\ StampedBy(env) # Nobody
            THEN <<env.val["RECEIVED_OBJECT"]>> ELSE <<>>

Hops(e) == NamedHops(Path(e))

Row(l) == <<l.base>> \o l.extra

LEMMA AtMostOne ==
  /\ \A env : IsSeq(Entry(env)) /\ IsSeq(Hop(env))
  /\ \A receipt : IsSeq(Named(receipt))
<1>1. IsSeq(<<>>)
  BY DEF IsSeq
<1>2. \A x : IsSeq(<<x>>)
  BY DEF IsSeq, Range
<1> QED BY <1>1, <1>2 DEF Entry, Hop, Named

\* One envelope more adds its receipt to the path,
LEMMA PathAppend ==
  ASSUME NEW e, IsSeq(e), NEW env
  PROVE  Path(Append(e, env)) = Path(e) \o Entry(env)
<1> DEFINE d == Append(e, env)
           s == [i \in DOMAIN e |-> Entry(e[i])]
           t == [i \in DOMAIN d |-> Entry(d[i])]
<1>1. /\ DOMAIN d = DOMAIN e \cup {Len(e) + 1}
      /\ \A i \in DOMAIN e : d[i] = e[i]
      /\ d[Len(e) + 1] = env
  BY Appended DEF IsSeq
<1>2. DOMAIN s = DOMAIN e /\ s = [i \in DOMAIN s |-> s[i]]
      /\ t = [i \in DOMAIN d |-> t[i]]
  OBVIOUS
<1> HIDE DEF d
<1>3. (\A i \in DOMAIN e : t[i] = s[i]) /\ t[Len(e) + 1] = Entry(env)
  BY <1>1
<1>4. Path(d) = FlattenSeq(t) /\ Path(e) = FlattenSeq(s)
  BY DEF Path
<1> HIDE DEF s, t
<1> DEFINE n == Len(e)
<1>5. FlattenSeq(t) = FlattenSeq(s) \o t[n + 1]
  <2>1. n \in Nat /\ DOMAIN e = 1..n /\ DOMAIN d = 1..(n + 1)
    BY DEF IsSeq, d
  <2>2. t[n + 1] = Entry(env)
    BY <1>3
  <2> HIDE DEF n
  <2>3. Listing(s, n) /\ Listing(t, n + 1)
    BY <1>2, <2>1 DEF Listing
  <2>4. \A i \in 1..n : t[i] = s[i]
    BY <1>3, <2>1
  <2>5. IsSeq(t[n + 1])
    BY <2>2, AtMostOne
  <2> QED BY <2>1, <2>3, <2>4, <2>5, FlattenLast
<1> QED BY <1>3, <1>4, <1>5 DEF d

\* and one receipt more adds itself to the hops, if it names its service.
LEMMA NamedAppend ==
  ASSUME NEW p, IsSeq(p), NEW receipt
  PROVE  NamedHops(Append(p, receipt)) = NamedHops(p) \o Named(receipt)
<1> DEFINE d == Append(p, receipt)
           s == [i \in DOMAIN p |-> IF p[i].by # Nobody THEN <<p[i]>> ELSE <<>>]
           t == [i \in DOMAIN d |-> IF d[i].by # Nobody THEN <<d[i]>> ELSE <<>>]
<1>1. /\ DOMAIN d = DOMAIN p \cup {Len(p) + 1}
      /\ \A i \in DOMAIN p : d[i] = p[i]
      /\ d[Len(p) + 1] = receipt
  BY Appended DEF IsSeq
<1>2. DOMAIN s = DOMAIN p /\ s = [i \in DOMAIN s |-> s[i]]
      /\ t = [i \in DOMAIN d |-> t[i]]
  OBVIOUS
<1> HIDE DEF d
<1>3. (\A i \in DOMAIN p : t[i] = s[i]) /\ t[Len(p) + 1] = Named(receipt)
  BY <1>1 DEF Named
<1>4. NamedHops(d) = FlattenSeq(t) /\ NamedHops(p) = FlattenSeq(s)
  BY DEF NamedHops
<1> HIDE DEF s, t
<1> DEFINE n == Len(p)
<1>5. FlattenSeq(t) = FlattenSeq(s) \o t[n + 1]
  <2>1. n \in Nat /\ DOMAIN p = 1..n /\ DOMAIN d = 1..(n + 1)
    BY DEF IsSeq, d
  <2>2. t[n + 1] = Named(receipt)
    BY <1>3
  <2> HIDE DEF n
  <2>3. Listing(s, n) /\ Listing(t, n + 1)
    BY <1>2, <2>1 DEF Listing
  <2>4. \A i \in 1..n : t[i] = s[i]
    BY <1>3, <2>1
  <2>5. IsSeq(t[n + 1])
    BY <2>2, AtMostOne
  <2> QED BY <2>1, <2>3, <2>4, <2>5, FlattenLast
<1> QED BY <1>3, <1>4, <1>5 DEF d

LEMMA NoHops == Path(<<>>) = <<>> /\ NamedHops(<<>>) = <<>>
<1>1. \A s : Len(s) = 0 => FlattenSeq(s) = s
  BY DEF FlattenSeq
<1>2. Path(<<>>) = <<>>
  <2>1. [i \in DOMAIN <<>> |-> Entry(<<>>[i])] = <<>>
    OBVIOUS
  <2> HIDE DEF Entry
  <2> QED BY <1>1, <2>1 DEF Path
<1>3. NamedHops(<<>>) = <<>>
  <2>1. [i \in DOMAIN <<>> |-> IF <<>>[i].by # Nobody THEN << <<>>[i] >> ELSE <<>>] = <<>>
    OBVIOUS
  <2> QED BY <1>1, <2>1 DEF NamedHops
<1> QED BY <1>2, <1>3

\* Together: one envelope more adds its hop.
LEMMA HopsAppend ==
  ASSUME NEW e, IsSeq(e), IsSeq(Path(e)), IsSeq(Hops(e)), NEW env
  PROVE  /\ IsSeq(Path(Append(e, env)))
         /\ Hops(Append(e, env)) = Hops(e) \o Hop(env)
         /\ IsSeq(Hops(Append(e, env)))
<1> DEFINE d == Append(e, env)
           receipt == env.val["RECEIVED_OBJECT"]
<1>1. Path(d) = Path(e) \o Entry(env)
  BY PathAppend
<1> HIDE DEF d
<1>2. CASE Stamped(env)
  <2>1. Path(d) = Append(Path(e), receipt) /\ IsSeq(Path(d))
    BY <1>1, <1>2, Joined DEF Entry, Stamped
  <2>2. Hops(d) = Hops(e) \o Named(receipt) /\ Named(receipt) = Hop(env)
    BY <1>2, <2>1, NamedAppend DEF Hops, Named, Hop, StampedBy
  <2>3. IsSeq(Hops(d))
    <3>1. Named(receipt) = <<>> \/ Named(receipt) = <<receipt>>
      BY DEF Named
    <3>2. Hops(e) \o <<>> = Hops(e)
      BY Joined
    <3>3. Hops(e) \o <<receipt>> = Append(Hops(e), receipt) /\ IsSeq(Append(Hops(e), receipt))
      BY Joined
    <3> HIDE DEF receipt
    <3> QED BY <2>2, <3>1, <3>2, <3>3
  <2> QED BY <2>1, <2>2, <2>3 DEF d
<1>3. CASE ~Stamped(env)
  <2>1. Path(d) = Path(e) /\ Hop(env) = <<>>
    BY <1>1, <1>3, Joined DEF Entry, Stamped, Hop
  <2>2. Hops(d) = Hops(e) /\ Hops(e) \o <<>> = Hops(e)
    BY <2>1, Joined DEF Hops
  <2> QED BY <2>1, <2>2 DEF d
<1> QED BY <1>2, <1>3

LEMMA NoHopsSeq == IsSeq(<<>>) /\ IsSeq(Path(<<>>)) /\ Hops(<<>>) = <<>> /\ IsSeq(Hops(<<>>))
<1>1. IsSeq(<<>>)
  BY DEF IsSeq
<1> QED BY <1>1, NoHops DEF Hops

(* The same stamps, but that the id of one that tells a service may have   *)
(* given way to the service.                                               *)
SameHop(r, s) == s.by = r.by /\ (r.via = 0 => s.via = 0 /\ s.id = r.id)

Alike(p, q) ==
  /\ IsSeq(p) /\ IsSeq(q) /\ Len(q) = Len(p)
  /\ \A i \in DOMAIN p : SameHop(p[i], q[i])

\* Paths that are alike stay so when like hops are added.
LEMMA AlikeAppend ==
  ASSUME NEW p, NEW q, Alike(p, q), NEW r, NEW s, SameHop(r, s)
  PROVE  Alike(Append(p, r), Append(q, s))
<1>1. /\ IsSeq(Append(p, r)) /\ IsSeq(Append(q, s))
      /\ DOMAIN p = 1..Len(p) /\ Len(p) \in Nat /\ DOMAIN q = DOMAIN p
      /\ Len(Append(p, r)) = Len(p) + 1 /\ Len(Append(q, s)) = Len(p) + 1
  BY Appended DEF Alike, IsSeq
<1>2. /\ DOMAIN Append(p, r) = DOMAIN p \cup {Len(p) + 1}
      /\ \A i \in DOMAIN p : Append(p, r)[i] = p[i]
      /\ Append(p, r)[Len(p) + 1] = r
  BY Appended DEF Alike, IsSeq
<1>3. /\ \A i \in DOMAIN q : Append(q, s)[i] = q[i]
      /\ Append(q, s)[Len(p) + 1] = s
  <2>1. Len(q) = Len(p)
    BY DEF Alike
  <2>2. /\ \A i \in DOMAIN q : Append(q, s)[i] = q[i]
        /\ Append(q, s)[Len(q) + 1] = s
    BY Appended DEF Alike, IsSeq
  <2> QED BY <2>1, <2>2
<1>4. ASSUME NEW i \in DOMAIN Append(p, r) PROVE SameHop(Append(p, r)[i], Append(q, s)[i])
  BY <1>1, <1>2, <1>3 DEF Alike
<1> QED BY <1>1, <1>4 DEF Alike

LEMMA AlikeJoined ==
  ASSUME NEW p, NEW q, Alike(p, q), NEW e, NEW d, Alike(Hop(e), Hop(d))
  PROVE  Alike(p \o Hop(e), q \o Hop(d))
<1>0. IsSeq(p) /\ IsSeq(q)
  BY DEF Alike
<1>1. CASE Hop(e) = <<>>
  <2>1. Hop(d) = <<>>
    <3>1. Len(Hop(d)) = 0
      BY <1>1 DEF Alike
    <3>2. \A x : Len(<<x>>) = 1
      OBVIOUS
    <3> QED BY <3>1, <3>2 DEF Hop
  <2> QED BY <1>0, <1>1, <2>1, Joined
<1>2. CASE Hop(e) # <<>>
  <2>1. PICK r : Hop(e) = <<r>>
    BY <1>2 DEF Hop
  <2>2. Hop(d) # <<>>
    <3>1. Len(Hop(d)) = 1
      BY <2>1 DEF Alike
    <3> QED BY <3>1
  <2>3. PICK s : Hop(d) = <<s>>
    BY <2>2 DEF Hop
  <2>4. SameHop(r, s)
    <3>1. 1 \in DOMAIN <<r>> /\ <<r>>[1] = r /\ <<s>>[1] = s
      OBVIOUS
    <3> QED BY <2>1, <2>3, <3>1 DEF Alike
  <2>5. p \o <<r>> = Append(p, r) /\ q \o <<s>> = Append(q, s)
    BY <1>0, Joined
  <2>6. Alike(Append(p, r), Append(q, s))
    BY <2>4, AlikeAppend
  <2> QED BY <2>1, <2>3, <2>5, <2>6
<1> QED BY <1>1, <1>2

\* Rows of envelopes with the same hops make the same path.
LEMMA AlikeRows ==
  ASSUME NEW e, IsSeq(e), NEW d, IsSeq(d), Len(d) = Len(e),
         \A i \in DOMAIN e : Alike(Hop(e[i]), Hop(d[i]))
  PROVE  Alike(Hops(e), Hops(d)) /\ IsSeq(Path(e))
<1> DEFINE n == Len(e)
           Start(s, k) == [i \in 1..k |-> s[i]]
           Good(s) == IsSeq(s) /\ IsSeq(Path(s)) /\ IsSeq(Hops(s))
           T == {k \in Nat : k <= n => /\ Good(Start(e, k)) /\ Good(Start(d, k))
                                       /\ Alike(Hops(Start(e, k)), Hops(Start(d, k)))}
<1>1. n \in Nat /\ DOMAIN e = 1..n /\ DOMAIN d = 1..n
  BY DEF IsSeq
<1>2. 0 \in T
  <2>1. Start(e, 0) = <<>> /\ Start(d, 0) = <<>>
    OBVIOUS
  <2>2. Alike(<<>>, <<>>)
    BY NoHopsSeq DEF Alike
  <2> QED BY <2>1, <2>2, NoHopsSeq
<1>3. ASSUME NEW k \in Nat, k \in T PROVE k + 1 \in T
  <2> SUFFICES ASSUME k + 1 <= n
               PROVE  /\ Good(Start(e, k + 1)) /\ Good(Start(d, k + 1))
                      /\ Alike(Hops(Start(e, k + 1)), Hops(Start(d, k + 1)))
    OBVIOUS
  <2>1. k <= n /\ k + 1 \in 1..n
    BY <1>1
  <2>2. ASSUME NEW s, IsSeq(Start(s, k))
        PROVE  Start(s, k + 1) = Append(Start(s, k), s[k + 1]) /\ IsSeq(Start(s, k + 1))
    <3>1. Len(Start(s, k)) = k
      OBVIOUS
    <3>2. Start(s, k + 1) = Append(Start(s, k), s[k + 1])
      BY <2>2, <3>1 DEF IsSeq
    <3> HIDE DEF Start
    <3> QED BY <2>2, <3>2, Joined
  <2>3. Good(Start(e, k)) /\ Good(Start(d, k)) /\ Alike(Hops(Start(e, k)), Hops(Start(d, k)))
    BY <1>3, <2>1
  <2>4. Alike(Hop(e[k + 1]), Hop(d[k + 1]))
    BY <1>1, <2>1
  <2> HIDE DEF Start
  <2>5. /\ Good(Start(e, k + 1)) /\ Good(Start(d, k + 1))
        /\ Hops(Start(e, k + 1)) = Hops(Start(e, k)) \o Hop(e[k + 1])
        /\ Hops(Start(d, k + 1)) = Hops(Start(d, k)) \o Hop(d[k + 1])
    BY <2>2, <2>3, HopsAppend
  <2> QED BY <2>3, <2>4, <2>5, AlikeJoined
<1>4. n \in T
  <2> HIDE DEF T
  <2> QED BY <1>1, <1>2, <1>3, Induction
<1>5. Start(e, n) = e /\ Start(d, n) = d
  BY <1>1 DEF IsSeq
<1> HIDE DEF Start
<1> QED BY <1>1, <1>4, <1>5

\* A sent envelope keeps its hop.
LEMMA SentHop ==
  ASSUME NEW env, NEW r
  PROVE  /\ Overlay(env) => Alike(Hop(env), Hop(SentEnvelope(env, r)))
         /\ Alike(Hop(env), Hop(SentBaseEnvelope(env, r)))
<1>1. \A receipt : SameHop(receipt, receipt) /\ SameHop(receipt, ReadReceipt(receipt))
  BY DEF SameHop, ReadReceipt, NoReceipt
<1>2. Alike(<<>>, <<>>)
  BY NoHopsSeq DEF Alike
<1>3. \A x, y : SameHop(x, y) => Alike(<<x>>, <<y>>)
  <2> TAKE x, y
  <2>1. IsSeq(<<x>>) /\ IsSeq(<<y>>)
    BY DEF IsSeq, Range
  <2> QED BY <2>1 DEF Alike
<1>4. ASSUME NEW sent, Stamped(sent) <=> Stamped(env),
             Stamped(env) => ReceiptOf(sent) \in {ReceiptOf(env), ReadReceipt(ReceiptOf(env))}
      PROVE  Alike(Hop(env), Hop(sent))
  <2>1. CASE Stamped(env)
    <3>1. SameHop(ReceiptOf(env), ReceiptOf(sent))
      BY <1>1, <1>4, <2>1
    <3>2. StampedBy(sent) = StampedBy(env)
      BY <3>1 DEF SameHop, ReceiptOf, StampedBy
    <3> QED BY <1>2, <1>3, <1>4, <2>1, <3>1, <3>2 DEF Hop, ReceiptOf
  <2>2. CASE ~Stamped(env)
    BY <1>2, <1>4, <2>2 DEF Hop
  <2> QED BY <2>1, <2>2
<1>5. Alike(Hop(env), Hop(SentBaseEnvelope(env, r)))
  BY <1>4, SentReceipt
<1>6. ASSUME Overlay(env) PROVE Alike(Hop(env), Hop(SentEnvelope(env, r)))
  <2>1. CASE r = "XML" \/ Stamped(env)
    BY <1>4, <2>1, SentReceipt
  <2>2. CASE r # "XML" /\ ~Stamped(env)
    <3>1. StampedBy(SentEnvelope(env, r)) = Nobody
      BY <1>6, <2>2, SentReceipt DEF Overlay, StampedBy, ReceiptOf
    <3> QED BY <1>2, <2>2, <3>1 DEF Hop
  <2> QED BY <2>1, <2>2
<1> QED BY <1>5, <1>6

\* DeliveryPath is the path of the row, the base before the others.
LEMMA RowIs ==
  ASSUME NEW l, IsSeq(l.extra)
  PROVE  /\ DeliveryPath(l) = Path(Row(l))
         /\ IsSeq(Row(l)) /\ Len(Row(l)) = Len(l.extra) + 1
         /\ Row(l)[1] = l.base
         /\ \A i \in DOMAIN l.extra : Row(l)[i + 1] = l.extra[i]
         /\ \A i \in DOMAIN Row(l) : i = 1 \/ i - 1 \in DOMAIN l.extra
<1>1. DeliveryPath(l) = Path(Row(l))
  BY DEF DeliveryPath, Path, Row, Entry
<1> DEFINE T == Range(l.extra) \cup {l.base}
<1>2. \A i \in DOMAIN l.extra : l.extra[i] \in T
  BY DEF Range
<1>3. l.extra \in Seq(T) /\ <<l.base>> \in Seq(T)
  <2>1. l.base \in T
    OBVIOUS
  <2> HIDE DEF T
  <2> QED BY <1>2, <2>1 DEF IsSeq
<1> HIDE DEF T
<1>4. /\ Row(l) \in Seq(T) /\ Len(Row(l)) = Len(l.extra) + 1
      /\ Row(l)[1] = l.base
      /\ \A i \in DOMAIN l.extra : Row(l)[i + 1] = l.extra[i]
  BY <1>3 DEF Row
<1>5. IsSeq(Row(l))
  <2>1. \A i \in DOMAIN Row(l) : Row(l)[i] \in Range(Row(l))
    BY DEF Range
  <2> QED BY <1>4, <2>1 DEF IsSeq
<1>6. \A i \in DOMAIN Row(l) : i = 1 \/ i - 1 \in DOMAIN l.extra
  BY <1>3, <1>4
<1> QED BY <1>1, <1>4, <1>5, <1>6

LEMMA AlikeSame == ASSUME NEW p, IsSeq(p) PROVE Alike(p, p)
BY DEF Alike, SameHop

LEMMA AlikeThen ==
  ASSUME NEW p, NEW q, NEW s, Alike(p, q), Alike(q, s) PROVE Alike(p, s)
<1>1. DOMAIN q = DOMAIN p
  BY DEF Alike, IsSeq
<1> QED BY <1>1 DEF Alike, SameHop

LEMMA RowPath == ASSUME NEW e, IsSeq(e) PROVE IsSeq(Path(e)) /\ IsSeq(Hops(e))
<1>1. \A i \in DOMAIN e : Alike(Hop(e[i]), Hop(e[i]))
  BY AtMostOne, AlikeSame
<1> QED BY <1>1, AlikeRows DEF Alike

-----------------------------------------------------------------------------
(* A letter that was sent before.                                          *)

\* Reading a receipt that was read before changes nothing more;
LEMMA ReadTwice ==
  ASSUME NEW receipt PROVE ReadReceipt(ReadReceipt(receipt)) = ReadReceipt(receipt)
<1> DEFINE id == IF receipt.via # 0 THEN receipt.via ELSE receipt.id
           read == ReadReceipt(receipt)
<1>1. read.by = receipt.by /\ read.id = id /\ read.via = 0
  BY DEF ReadReceipt, NoReceipt
<1>2. read = [NoReceipt EXCEPT !.by = receipt.by, !.id = id]
  BY DEF ReadReceipt
<1> HIDE DEF read, id
<1>3. ReadReceipt(read) = [NoReceipt EXCEPT !.by = read.by, !.id = read.id]
  BY <1>1 DEF ReadReceipt
<1> QED BY <1>1, <1>2, <1>3 DEF read

(* The texts of an envelope are ones whose reading is known; and XML keeps *)
(* what was set in it.                                                     *)
KnownTexts(env) == \A f \in env.set \cap TextElement : env.val[f] \in DOMAIN AsElement

Keeps(env) == \A f \in env.set : XMLKeeps(f, env.val[f])

\* What is read of a text is not empty, and known if it could be read.
LEMMA ReadText ==
  ASSUME NEW v \in DOMAIN AsElement
  PROVE  /\ AsElement[v] # ""
         /\ AsElement[v] # UnreadableText => AsElement[v] \in DOMAIN AsElement
<1>1. AsElement[v] \in Range(AsElement)
  BY DEF Range
<1> QED BY <1>1, TextAssumption

\* nor does XML written and read once more, where it keeps the texts it left,
LEMMA ParsedTwice ==
  ASSUME NEW env, KnownTexts(env), Keeps(ParseParameters(XMLParameters(env)))
  PROVE  ParseParameters(XMLParameters(ParseParameters(XMLParameters(env))))
           = ParseParameters(XMLParameters(env))
<1> DEFINE p == XMLParameters(env)
           once == ParseParameters(p)
           q == XMLParameters(once)
           twice == ParseParameters(q)
<1>1. /\ "TRANSPORT_BEHAVIOUR" \notin DOMAIN p
      /\ \A f \in DOMAIN p \cap TextElement : p[f] \in DOMAIN AsElement
  BY DEF XMLParameters, KnownTexts
<1> HIDE DEF p
<1>2. /\ once = [set |-> once.set, val |-> once.val]
      /\ once.val = [f \in Field |-> once.val[f]]
      /\ once.set = DOMAIN p \cup {"USERDEFINED_PARAMETERS"}
      /\ \A f \in Field :
           once.val[f] = IF f \in DOMAIN p THEN ParseElement(f, p[f]) ELSE Untold(f)
  BY DEF ParseParameters, Untold
<1>k. Keeps(once)
  BY DEF p
<1> HIDE DEF once
<1>3. \A f \in once.set \cap TextElement : once.val[f] # ""
  <2> SUFFICES ASSUME NEW f \in once.set \cap TextElement PROVE once.val[f] # ""
    OBVIOUS
  <2>1. f \in Field /\ f # "RECEIVED_OBJECT" /\ f # "USERDEFINED_PARAMETERS"
    BY DEF TextElement, Field
  <2>2. once.val[f] = AsElement[p[f]] /\ p[f] \in DOMAIN AsElement
    BY <1>1, <1>2, <2>1 DEF ParseElement
  <2> QED BY <2>2, ReadText
<1>4. DOMAIN q = once.set /\ \A f \in DOMAIN q : q[f] = once.val[f]
  <2>1. \A g \in once.set : g # "TRANSPORT_BEHAVIOUR" /\ (g \in TextElement => once.val[g] # "")
    BY <1>1, <1>2, <1>3
  <2> QED BY <2>1 DEF XMLParameters
<1> HIDE DEF q
<1>5. /\ twice = [ set |-> DOMAIN q \cup {"USERDEFINED_PARAMETERS"}, val |-> twice.val ]
      /\ twice.val = [f \in Field |-> twice.val[f]]
      /\ \A f \in Field :
           twice.val[f] = IF f \in DOMAIN q THEN ParseElement(f, q[f]) ELSE Untold(f)
  BY DEF ParseParameters, Untold
<1> HIDE DEF twice
<1>6. ASSUME NEW f \in Field, f \in once.set
      PROVE  ParseElement(f, once.val[f]) = once.val[f]
  <2>1. CASE f \in TextElement
    BY <1>3, <1>6, <1>k, <2>1 DEF ParseElement, Keeps, XMLKeeps, TextElement
  <2>2. CASE f = "USERDEFINED_PARAMETERS"
    BY <1>6, <1>k, <2>2 DEF ParseElement, Keeps, XMLKeeps, TextElement
  <2>3. CASE f = "RECEIVED_OBJECT"
    <3>1. f \in DOMAIN p
      BY <1>2, <1>6, <2>3
    <3> QED BY <1>2, <2>3, <3>1, ParsedReceipt, ReadTwice
  <2>4. CASE f \notin TextElement \cup {"USERDEFINED_PARAMETERS", "RECEIVED_OBJECT"}
    BY <2>4 DEF ParseElement
  <2> QED BY <2>1, <2>2, <2>3, <2>4
<1>7. ASSUME NEW f \in Field PROVE twice.val[f] = once.val[f]
  BY <1>2, <1>4, <1>5, <1>6
<1>8. DOMAIN q \cup {"USERDEFINED_PARAMETERS"} = once.set
  BY <1>2, <1>4
<1>9. twice.val = once.val
  BY <1>2, <1>5, <1>7
<1>10. twice = once
  BY <1>2, <1>5, <1>8, <1>9
<1> QED BY <1>10 DEF twice, q, once, p

\* What is read from a header and the parameters written after it.
LEMMA MergedIs ==
  ASSUME NEW header, DOMAIN header.val = Field, NEW p
  PROVE  LET read == MergeParameters(header, p) IN
         /\ read = [set |-> header.set \cup {"PAYLOAD_LENGTH"} \cup DOMAIN p, val |-> read.val]
         /\ read.val = [f \in Field |-> read.val[f]]
         /\ \A f \in Field :
              read.val[f] = IF f \in DOMAIN p THEN p[f]
                            ELSE IF f = "PAYLOAD_LENGTH" THEN HeaderLength ELSE header.val[f]
<1> DEFINE h == Set(header, "PAYLOAD_LENGTH", HeaderLength)
           q == [ set |-> DOMAIN p,
                  val |-> [f \in Field |-> IF f \in DOMAIN p THEN p[f] ELSE NewEnvelope.val[f]] ]
           read == Merge(h, q)
<1>1. /\ h.set = header.set \cup {"PAYLOAD_LENGTH"}
      /\ \A f \in Field : h.val[f] = IF f = "PAYLOAD_LENGTH" THEN HeaderLength ELSE header.val[f]
  BY DEF Set
<1>2. q.set = DOMAIN p /\ \A f \in Field : f \in DOMAIN p => q.val[f] = p[f]
  OBVIOUS
<1>3. MergeParameters(header, p) = read
  BY DEF MergeParameters
<1> HIDE DEF h, q
<1>4. /\ read = [set |-> h.set \cup q.set, val |-> read.val]
      /\ read.val = [f \in Field |-> read.val[f]]
      /\ \A f \in Field : read.val[f] = IF f \in q.set THEN q.val[f] ELSE h.val[f]
  BY DEF Merge
<1> HIDE DEF read
<1>5. read = [set |-> header.set \cup {"PAYLOAD_LENGTH"} \cup DOMAIN p, val |-> read.val]
  BY <1>1, <1>2, <1>4
<1>6. ASSUME NEW f \in Field
      PROVE  read.val[f] = IF f \in DOMAIN p THEN p[f]
                           ELSE IF f = "PAYLOAD_LENGTH" THEN HeaderLength ELSE header.val[f]
  BY <1>1, <1>2, <1>4
<1> QED BY <1>3, <1>4, <1>5, <1>6

\* Bit-efficient parameters that are written and read once more are the same.
LEMMA MergedTwice ==
  ASSUME NEW env, NEW h1, NEW h2, h2.set = h1.set,
         DOMAIN h1.val = Field, DOMAIN h2.val = Field,
         \A f \in Field :
           h2.val[f] = IF f \in h1.set THEN MergeParameters(h1, GetParameters(env)).val[f]
                       ELSE h1.val[f]
  PROVE  LET once == MergeParameters(h1, GetParameters(env)) IN
         MergeParameters(h2, GetParameters(once)) = once
<1> DEFINE p == GetParameters(env)
           once == MergeParameters(h1, p)
           q == GetParameters(once)
           twice == MergeParameters(h2, q)
<1>1. DOMAIN p \subseteq WrittenFields
  BY DEF GetParameters
<1> HIDE DEF p
<1>2. /\ once = [set |-> h1.set \cup {"PAYLOAD_LENGTH"} \cup DOMAIN p, val |-> once.val]
      /\ once.val = [f \in Field |-> once.val[f]]
      /\ \A f \in Field :
           once.val[f] = IF f \in DOMAIN p THEN p[f]
                         ELSE IF f = "PAYLOAD_LENGTH" THEN HeaderLength ELSE h1.val[f]
  BY MergedIs
<1>3. \A f \in Field : h2.val[f] = IF f \in h1.set THEN once.val[f] ELSE h1.val[f]
  BY DEF p
<1> HIDE DEF once
<1>4. /\ DOMAIN q = once.set \cap WrittenFields
      /\ \A f \in DOMAIN q : q[f] = once.val[f]
  BY DEF GetParameters
<1> HIDE DEF q
<1>5. /\ twice = [set |-> h2.set \cup {"PAYLOAD_LENGTH"} \cup DOMAIN q, val |-> twice.val]
      /\ twice.val = [f \in Field |-> twice.val[f]]
      /\ \A f \in Field :
           twice.val[f] = IF f \in DOMAIN q THEN q[f]
                          ELSE IF f = "PAYLOAD_LENGTH" THEN HeaderLength ELSE h2.val[f]
  BY MergedIs
<1> HIDE DEF twice
<1>6. "PAYLOAD_LENGTH" \in WrittenFields
  BY DEF WrittenFields
<1>7. once.set = h1.set \cup {"PAYLOAD_LENGTH"} \cup DOMAIN p
  BY <1>2
<1>8. h2.set \cup {"PAYLOAD_LENGTH"} \cup DOMAIN q = once.set
  BY <1>1, <1>4, <1>7
<1>9. ASSUME NEW f \in Field PROVE twice.val[f] = once.val[f]
  <2>1. CASE f \in DOMAIN q
    BY <1>4, <1>5, <2>1
  <2>2. CASE f \notin DOMAIN q
    <3>1. f # "PAYLOAD_LENGTH" /\ f \notin DOMAIN p
      BY <1>1, <1>4, <1>6, <1>7, <2>2
    <3>2. twice.val[f] = h2.val[f] /\ once.val[f] = h1.val[f]
      BY <1>2, <1>5, <2>2, <3>1
    <3> QED BY <1>3, <3>2
  <2> QED BY <2>1, <2>2
<1>10. twice.val = once.val
  BY <1>2, <1>5, <1>9
<1>11. twice = once
  <2>1. once = [set |-> once.set, val |-> once.val]
    BY <1>2, <1>7
  <2>2. twice = [set |-> once.set, val |-> twice.val]
    BY <1>5, <1>8
  <2> QED BY <1>10, <2>1, <2>2
<1> QED BY <1>11 DEF twice, q, once, p

\* and so are both kinds of envelope.
LEMMA DecodedTwice ==
  ASSUME NEW env
  PROVE  /\ DecodedExt(EncodedExt(DecodedExt(EncodedExt(env)))) = DecodedExt(EncodedExt(env))
         /\ DecodedBase(EncodedBase(DecodedBase(EncodedBase(env))))
              = DecodedBase(EncodedBase(env))
<1> DEFINE Ext(e) == Set(NewEnvelope, "RECEIVED_OBJECT", e.val["RECEIVED_OBJECT"])
           Base(e) == Set(Set(NewEnvelope, "ACL_REPRESENTATION", e.val["ACL_REPRESENTATION"]),
                          "DATE", e.val["DATE"])
<1>1. \A e : /\ DecodedExt(EncodedExt(e)) = MergeParameters(Ext(e), GetParameters(e))
             /\ DecodedBase(EncodedBase(e)) = MergeParameters(Base(e), GetParameters(e))
  BY DEF DecodedExt, EncodedExt, DecodedBase, EncodedBase
<1>2. ASSUME NEW e
      PROVE  /\ Ext(e).set = {"RECEIVED_OBJECT"} /\ DOMAIN Ext(e).val = Field
             /\ \A f \in Field : Ext(e).val[f] = IF f = "RECEIVED_OBJECT" THEN e.val[f]
                                                 ELSE Untold(f)
  BY DEF Set, NewEnvelope, Untold
<1>3. ASSUME NEW e
      PROVE  /\ Base(e).set = {"ACL_REPRESENTATION", "DATE"} /\ DOMAIN Base(e).val = Field
             /\ \A f \in Field : Base(e).val[f] = IF f \in {"ACL_REPRESENTATION", "DATE"}
                                                  THEN e.val[f] ELSE Untold(f)
  <2> DEFINE h == Set(NewEnvelope, "ACL_REPRESENTATION", e.val["ACL_REPRESENTATION"])
  <2>1. /\ h.set = {"ACL_REPRESENTATION"} /\ DOMAIN h.val = Field
        /\ \A f \in Field : h.val[f] = IF f = "ACL_REPRESENTATION" THEN e.val[f] ELSE Untold(f)
    BY DEF Set, NewEnvelope, Untold
  <2> HIDE DEF h
  <2>2. Base(e) = Set(h, "DATE", e.val["DATE"])
    BY DEF h
  <2> HIDE DEF Base
  <2> QED BY <2>1, <2>2 DEF Set
<1> HIDE DEF Ext, Base
<1>4. DecodedExt(EncodedExt(DecodedExt(EncodedExt(env)))) = DecodedExt(EncodedExt(env))
  <2> DEFINE once == MergeParameters(Ext(env), GetParameters(env))
  <2>1. MergeParameters(Ext(once), GetParameters(once)) = once
    <3> DEFINE h1 == Ext(env)
               h2 == Ext(once)
    <3>1. h2.set = h1.set /\ DOMAIN h1.val = Field /\ DOMAIN h2.val = Field
      BY <1>2
    <3>2. \A f \in Field : h2.val[f] = IF f \in h1.set THEN once.val[f] ELSE h1.val[f]
      BY <1>2
    <3> HIDE DEF h1, h2
    <3> QED BY <3>1, <3>2, MergedTwice DEF h1, h2
  <2> QED BY <1>1, <2>1
<1>5. DecodedBase(EncodedBase(DecodedBase(EncodedBase(env)))) = DecodedBase(EncodedBase(env))
  <2> DEFINE once == MergeParameters(Base(env), GetParameters(env))
  <2>1. MergeParameters(Base(once), GetParameters(once)) = once
    <3> DEFINE h1 == Base(env)
               h2 == Base(once)
    <3>1. h2.set = h1.set /\ DOMAIN h1.val = Field /\ DOMAIN h2.val = Field
      BY <1>3
    <3>2. \A f \in Field : h2.val[f] = IF f \in h1.set THEN once.val[f] ELSE h1.val[f]
      BY <1>3
    <3> HIDE DEF h1, h2
    <3> QED BY <3>1, <3>2, MergedTwice DEF h1, h2
  <2> QED BY <1>1, <2>1
<1> QED BY <1>4, <1>5

\* Transmitting a letter that came out of a transmission changes nothing, where
\* XML keeps the texts that are left in it.
LEMMA SentTwice ==
  ASSUME NEW l, NEW r, \A env \in Envelopes(l) : KnownTexts(env),
         r = "XML" => \A env \in Envelopes(Transmitted(l, r)) : Keeps(env)
  PROVE  Transmitted(Transmitted(l, r), r) = Transmitted(l, r)
<1> DEFINE once == Transmitted(l, r)
           twice == Transmitted(once, r)
<1>1. /\ once = [extra |-> once.extra, base |-> once.base, payload |-> once.payload]
      /\ DOMAIN once.extra = DOMAIN l.extra
      /\ once.extra = [i \in DOMAIN once.extra |-> once.extra[i]]
      /\ \A i \in DOMAIN l.extra : once.extra[i] = SentEnvelope(l.extra[i], r)
      /\ once.base = SentBaseEnvelope(l.base, r)
  BY DEF Transmitted
<1> HIDE DEF once
<1>2. twice = [ extra   |-> [i \in DOMAIN once.extra |-> SentEnvelope(once.extra[i], r)],
                base    |-> SentBaseEnvelope(once.base, r),
                payload |-> once.payload ]
  BY DEF Transmitted
<1>3. /\ KnownTexts(l.base) /\ \A i \in DOMAIN l.extra : KnownTexts(l.extra[i])
      /\ r = "XML" => Keeps(once.base) /\ \A i \in DOMAIN once.extra : Keeps(once.extra[i])
  BY DEF Envelopes, Range, once
<1>4. ASSUME NEW env, KnownTexts(env), r = "XML" => Keeps(SentEnvelope(env, r))
      PROVE  SentEnvelope(SentEnvelope(env, r), r) = SentEnvelope(env, r)
  BY <1>4, ParsedTwice, DecodedTwice DEF SentEnvelope
<1>5. ASSUME NEW env, KnownTexts(env), r = "XML" => Keeps(SentBaseEnvelope(env, r))
      PROVE  SentBaseEnvelope(SentBaseEnvelope(env, r), r) = SentBaseEnvelope(env, r)
  BY <1>5, ParsedTwice, DecodedTwice DEF SentBaseEnvelope
<1>6. SentBaseEnvelope(once.base, r) = once.base
  BY <1>1, <1>3, <1>5
<1>7. [i \in DOMAIN once.extra |-> SentEnvelope(once.extra[i], r)] = once.extra
  <2>1. \A i \in DOMAIN once.extra : SentEnvelope(once.extra[i], r) = once.extra[i]
    BY <1>1, <1>3, <1>4
  <2> QED BY <1>1, <2>1
<1>8. twice = once
  BY <1>1, <1>2, <1>6, <1>7
<1> QED BY <1>8 DEF once
=============================================================================
