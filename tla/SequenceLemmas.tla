--------------------------- MODULE SequenceLemmas ---------------------------
(***************************************************************************)
(* What the proofs need of sequences, and of the recursive functions of    *)
(* the community modules.  FlattenSeq and FoldLeft are such functions      *)
(* behind a CHOOSE: one of them exists for every length, by induction on   *)
(* sets of numbers, and what holds of its last element is shown the same   *)
(* way.                                                                    *)
(***************************************************************************)
EXTENDS Integers, SequencesExt, SequenceTheorems, NaturalsInduction,
        WellFoundedInduction, TLAPS

-------------------------------------------------------------------------------
\* Induction on the members of a set: the well-founded minimum of what is left
\* out cannot be there.
LEMMA SetInduction ==
    ASSUME NEW S, 0 \in S, \A n \in Nat : n \in S => n + 1 \in S
    PROVE  Nat \subseteq S
<1> SUFFICES ASSUME Nat \ S # {} PROVE FALSE
  OBVIOUS
<1> DEFINE R == OpToRel(<, Nat)
<1>1. IsWellFoundedOn(R, Nat)
  BY NatLessThanWellFounded
<1>2. \A x, y \in Nat : x < y => <<x, y>> \in R
  BY DEF OpToRel
<1> HIDE DEF R
<1>3. \E x \in Nat \ S : \A y \in Nat \ S : ~ (<<y, x>> \in R)
  <2> DEFINE T == Nat \ S
  <2>1. T \subseteq Nat /\ T # {}
    OBVIOUS
  <2> HIDE DEF T
  <2>2. \E x \in T : \A y \in T : ~ (<<y, x>> \in R)
    BY <1>1, <2>1, WFMin
  <2> QED
    BY <2>2 DEF T
<1>4. PICK x \in Nat \ S : \A y \in Nat \ S : ~ (<<y, x>> \in R)
  BY <1>3
<1>5. x # 0 /\ x - 1 \in Nat /\ x - 1 < x
  BY <1>4
<1>6. x - 1 \in S
  BY <1>2, <1>4, <1>5
<1>7. (x - 1) + 1 \in S
  BY <1>5, <1>6
<1>8. (x - 1) + 1 = x
  BY <1>4
<1> QED
  BY <1>4, <1>7, <1>8

\* Every set of numbers that has one has a least one.
LEMMA LeastOne ==
  ASSUME NEW I \in SUBSET Nat, I # {}
  PROVE  Min(I) \in I /\ \A i \in I : Min(I) <= i
<1> DEFINE Q(x) == \A y \in I : x <= y
           S == {n \in Nat : \A i \in 0 .. n : i \notin I}
<1>1. \E x \in I : Q(x)
  <2> SUFFICES ASSUME \A x \in I : ~Q(x) PROVE FALSE
    OBVIOUS
  <2>1. \A x \in I : \E y \in I : y < x
    OBVIOUS
  <2>2. 0 \in S
    BY <2>1
  <2>3. \A n \in Nat : n \in S => n + 1 \in S
    <3> SUFFICES ASSUME NEW n \in S, n + 1 \in I PROVE FALSE
      OBVIOUS
    <3>1. PICK y \in I : y < n + 1
      BY <2>1
    <3>2. y \in 0 .. n
      BY <3>1
    <3>3. QED BY <3>2
  <2>4. Nat \subseteq S
    <3> HIDE DEF S
    <3> QED BY <2>2, <2>3, SetInduction
  <2>5. PICK x \in I : TRUE
    OBVIOUS
  <2>6. x \in S /\ x \in 0 .. x
    BY <2>4
  <2>7. QED BY <2>6
<1>2. Min(I) = CHOOSE x \in I : Q(x)
  BY DEF Min
<1> HIDE DEF Q
<1>3. (CHOOSE x \in I : Q(x)) \in I /\ Q(CHOOSE x \in I : Q(x))
  BY <1>1, Zenon
<1>4. QED BY <1>2, <1>3 DEF Q

\* What the recursion of FlattenSeq says.
Flattens(f, s, n) == f = [i \in 1 .. n |-> IF i = 1 THEN s[i] ELSE f[i - 1] \o s[i]]

\* The function behind FlattenSeq, element by element.
LEMMA FlattensAt ==
  ASSUME NEW f, NEW s, NEW n \in Nat, Flattens(f, s, n), NEW i \in 1 .. n
  PROVE  f[i] = IF i = 1 THEN s[i] ELSE f[i - 1] \o s[i]
<1> DEFINE h == [j \in 1 .. n |-> IF j = 1 THEN s[j] ELSE f[j - 1] \o s[j]]
<1>1. f = h
  BY DEF Flattens
<1>2. h[i] = IF i = 1 THEN s[i] ELSE f[i - 1] \o s[i]
  OBVIOUS
<1> HIDE DEF h
<1>3. QED BY <1>1, <1>2

\* Such a function exists.
LEMMA FlattenExists ==
  ASSUME NEW s, NEW n \in Nat
  PROVE  \E f : Flattens(f, s, n)
<1> DEFINE S == {k \in Nat : \E f : Flattens(f, s, k)}
<1>1. 0 \in S
  <2>1. Flattens([i \in 1 .. 0 |-> 0], s, 0)
    BY DEF Flattens
  <2>2. QED BY <2>1
<1>2. \A k \in Nat : k \in S => k + 1 \in S
  <2> SUFFICES ASSUME NEW k \in Nat, NEW f, Flattens(f, s, k)
               PROVE  \E g : Flattens(g, s, k + 1)
    OBVIOUS
  <2> DEFINE g == [i \in 1 .. k + 1 |-> IF i <= k THEN f[i] ELSE IF i = 1 THEN s[i] ELSE f[i - 1] \o s[i]]
  <2>1. \A i \in 1 .. k : g[i] = IF i = 1 THEN s[i] ELSE f[i - 1] \o s[i]
    <3> SUFFICES ASSUME NEW i \in 1 .. k PROVE g[i] = IF i = 1 THEN s[i] ELSE f[i - 1] \o s[i]
      OBVIOUS
    <3>1. g[i] = f[i]
      OBVIOUS
    <3> HIDE DEF g
    <3>2. QED BY <3>1, FlattensAt
  <2>2. \A i \in 1 .. k + 1 : g[i] = IF i = 1 THEN s[i] ELSE g[i - 1] \o s[i]
    <3> SUFFICES ASSUME NEW i \in 1 .. k + 1 PROVE g[i] = IF i = 1 THEN s[i] ELSE g[i - 1] \o s[i]
      OBVIOUS
    <3>0. \A j \in 1 .. k : g[j] = f[j]
      OBVIOUS
    <3> HIDE DEF g
    <3>1. i # 1 => g[i - 1] = f[i - 1]
      <4>1. i # 1 => i - 1 \in 1 .. k
        OBVIOUS
      <4>2. QED BY <3>0, <4>1
    <3>2. CASE i <= k
      BY <2>1, <3>1, <3>2
    <3>3. CASE ~(i <= k)
      <4>1. g[i] = IF i = 1 THEN s[i] ELSE f[i - 1] \o s[i]
        BY <3>3 DEF g
      <4>2. QED BY <3>1, <4>1
    <3>4. QED BY <3>2, <3>3
  <2>3. g = [i \in 1 .. k + 1 |-> IF i = 1 THEN s[i] ELSE g[i - 1] \o s[i]]
    <3>1. g = [i \in 1 .. k + 1 |-> g[i]]
      OBVIOUS
    <3> HIDE DEF g
    <3>2. QED BY <2>2, <3>1
  <2>4. QED BY <2>3 DEF Flattens
<1>3. Nat \subseteq S
  <2> HIDE DEF S
  <2> QED BY <1>1, <1>2, SetInduction
<1>4. QED BY <1>3

\* FlattenSeq is its last element.
LEMMA FlattenUnfolds ==
  ASSUME NEW s, Len(s) \in Nat, Len(s) # 0
  PROVE  \E f : Flattens(f, s, Len(s)) /\ FlattenSeq(s) = f[Len(s)]
<1> DEFINE g == CHOOSE f : Flattens(f, s, Len(s))
<1>1. \E f : Flattens(f, s, Len(s))
  BY FlattenExists
<1>2. Flattens(g, s, Len(s))
  BY <1>1, Zenon
<1>3. FlattenSeq(s) = g[Len(s)]
  BY DEF FlattenSeq, Flattens
<1> HIDE DEF g
<1>4. QED BY <1>2, <1>3

\* Sequences put behind one another are a sequence of the same things.
LEMMA FlattensType ==
  ASSUME NEW T, NEW s \in Seq(Seq(T)), NEW f, Flattens(f, s, Len(s))
  PROVE  \A i \in 1 .. Len(s) : f[i] \in Seq(T)
<1> DEFINE n == Len(s)
           S == {k \in Nat : k \in 1 .. n => f[k] \in Seq(T)}
<1>0. n \in Nat
  BY LenProperties
<1>1. 0 \in S
  BY <1>0
<1>2. \A k \in Nat : k \in S => k + 1 \in S
  <2> SUFFICES ASSUME NEW k \in Nat, k \in 1 .. n => f[k] \in Seq(T), k + 1 \in 1 .. n
               PROVE  f[k + 1] \in Seq(T)
    BY <1>0
  <2>1. s[k + 1] \in Seq(T)
    BY <1>0, ElementOfSeq
  <2>2. f[k + 1] = IF k + 1 = 1 THEN s[k + 1] ELSE f[(k + 1) - 1] \o s[k + 1]
    BY <1>0, FlattensAt
  <2>3. (k + 1) - 1 = k
    OBVIOUS
  <2>4. CASE k = 0
    BY <2>1, <2>2, <2>4
  <2>5. CASE k # 0
    <3>1. f[k] \in Seq(T)
      <4>1. k \in 1 .. n
        BY <1>0, <2>5
      <4>2. QED BY <4>1
    <3>2. f[k + 1] = f[k] \o s[k + 1]
      <4>1. k + 1 # 1 /\ f[(k + 1) - 1] = f[k]
        BY <2>3, <2>5
      <4>2. QED BY <2>2, <4>1, Zenon
    <3>3. QED BY <2>1, <3>1, <3>2, ConcatProperties
  <2>6. QED BY <2>4, <2>5
<1>3. Nat \subseteq S
  <2> HIDE DEF S
  <2> QED BY <1>1, <1>2, SetInduction
<1>4. QED BY <1>0, <1>3

\* A sequence of sequences of T flattens to a sequence of T.
LEMMA FlattenType ==
  ASSUME NEW T, NEW s \in Seq(Seq(T))
  PROVE  FlattenSeq(s) \in Seq(T)
<1>0. Len(s) \in Nat
  BY LenProperties
<1>1. CASE Len(s) = 0
  <2>1. s = <<>>
    BY <1>1, EmptySeq
  <2>2. FlattenSeq(s) = s
    BY <1>1 DEF FlattenSeq
  <2>3. <<>> \in Seq(T)
    OBVIOUS
  <2>4. QED BY <2>1, <2>2, <2>3, Zenon
<1>2. CASE Len(s) # 0
  <2>1. PICK f : Flattens(f, s, Len(s)) /\ FlattenSeq(s) = f[Len(s)]
    BY <1>0, <1>2, FlattenUnfolds
  <2>2. Len(s) \in 1 .. Len(s)
    BY <1>0, <1>2
  <2>3. QED BY <2>1, <2>2, FlattensType
<1>3. QED BY <1>1, <1>2

\* One more sequence comes behind the others.
LEMMA FlattenAppend ==
  ASSUME NEW T, NEW s \in Seq(Seq(T)), NEW x \in Seq(T)
  PROVE  FlattenSeq(Append(s, x)) = FlattenSeq(s) \o x
<1> DEFINE n == Len(s)
           t == Append(s, x)
<1>1. /\ n \in Nat /\ t \in Seq(Seq(T)) /\ Len(t) = n + 1
      /\ \A i \in 1 .. n : t[i] = s[i]
      /\ t[n + 1] = x
  BY LenProperties, AppendProperties
<1> HIDE DEF t
<1>2. PICK g : Flattens(g, t, Len(t)) /\ FlattenSeq(t) = g[Len(t)]
  BY <1>1, FlattenUnfolds, SMTT(60)
<1>3. \A i \in 1 .. n + 1 : g[i] = IF i = 1 THEN t[i] ELSE g[i - 1] \o t[i]
  <2>1. n + 1 \in Nat /\ Flattens(g, t, n + 1)
    BY <1>1, <1>2
  <2>2. QED BY <2>1, FlattensAt
<1>4. CASE n = 0
  <2>1. s = <<>> /\ FlattenSeq(s) = s
    BY <1>4, EmptySeq DEF FlattenSeq
  <2>2. g[1] = x
    BY <1>1, <1>3, <1>4
  <2>3. QED BY <1>1, <1>2, <1>4, <2>1, <2>2, ConcatEmptySeq DEF t
<1>5. CASE n # 0
  <2>1. PICK f : Flattens(f, s, n) /\ FlattenSeq(s) = f[n]
    BY <1>1, <1>5, FlattenUnfolds
  <2>2. \A i \in 1 .. n : f[i] = IF i = 1 THEN s[i] ELSE f[i - 1] \o s[i]
    BY <1>1, <2>1, FlattensAt
  <2> DEFINE S == {k \in Nat : k \in 1 .. n => f[k] = g[k]}
  <2>3. 0 \in S
    OBVIOUS
  <2>4. \A k \in Nat : k \in S => k + 1 \in S
    <3> SUFFICES ASSUME NEW k \in Nat, k \in 1 .. n => f[k] = g[k], k + 1 \in 1 .. n
                 PROVE  f[k + 1] = g[k + 1]
      OBVIOUS
    <3>1. k + 1 \in 1 .. n + 1 /\ (k + 1) - 1 = k /\ t[k + 1] = s[k + 1]
      BY <1>1
    <3>2. f[k + 1] = IF k + 1 = 1 THEN s[k + 1] ELSE f[k] \o s[k + 1]
      BY <2>2, <3>1
    <3>3. g[k + 1] = IF k + 1 = 1 THEN s[k + 1] ELSE g[k] \o s[k + 1]
      BY <1>3, <3>1
    <3>4. k + 1 # 1 => f[k] = g[k]
      BY <1>1
    <3>5. QED BY <3>2, <3>3, <3>4
  <2>5. Nat \subseteq S
    <3> HIDE DEF S
    <3> QED BY <2>3, <2>4, SetInduction
  <2>6. f[n] = g[n]
    BY <1>1, <1>5, <2>5
  <2>7. g[n + 1] = g[n] \o x
    <3>1. n + 1 \in 1 .. n + 1 /\ n + 1 # 1 /\ (n + 1) - 1 = n
      BY <1>1, <1>5
    <3>2. QED BY <1>1, <1>3, <3>1
  <2>8. QED BY <1>1, <1>2, <2>1, <2>6, <2>7 DEF t
<1>6. QED BY <1>4, <1>5

\* g[k] is the one of the sequences s[1] .. s[m] the k-th element of t is from.
ComesFrom(g, t, s, m) ==
    /\ g \in [1 .. Len(t) -> 1 .. m]
    /\ \A k \in 1 .. Len(t) : s[g[k]] = <<t[k]>>
    /\ \A k, l \in 1 .. Len(t) : k < l => g[k] < g[l]
    /\ \A i \in 1 .. m : s[i] # <<>> => \E k \in 1 .. Len(t) : g[k] = i

\* One sequence more, of no element or of one.
LEMMA ComesFromFurther ==
  ASSUME NEW T, NEW t \in Seq(T), NEW s, NEW m \in Nat, NEW g, ComesFrom(g, t, s, m),
         s[m + 1] = <<>> \/ \E x \in T : s[m + 1] = <<x>>
  PROVE  \E h : ComesFrom(h, t \o s[m + 1], s, m + 1)
<1> DEFINE n == Len(t)
           u == t \o s[m + 1]
<1>1. n \in Nat
  BY LenProperties
<1>2. /\ g \in [1 .. n -> 1 .. m]
      /\ \A k \in 1 .. n : s[g[k]] = <<t[k]>>
      /\ \A k, l \in 1 .. n : k < l => g[k] < g[l]
      /\ \A i \in 1 .. m : s[i] # <<>> => \E k \in 1 .. n : g[k] = i
  BY DEF ComesFrom
<1>3. CASE s[m + 1] = <<>>
  <2>1. u = t
    BY <1>3
  <2> HIDE DEF u
  <2>2. g \in [1 .. n -> 1 .. m + 1]
    BY <1>2
  <2>3. \A i \in 1 .. m + 1 : s[i] # <<>> => \E k \in 1 .. n : g[k] = i
    <3>1. \A i \in 1 .. m + 1 : i \in 1 .. m \/ i = m + 1
      OBVIOUS
    <3>2. QED BY <1>2, <1>3, <3>1
  <2>4. ComesFrom(g, u, s, m + 1)
    BY <1>2, <2>1, <2>2, <2>3 DEF ComesFrom
  <2>5. QED BY <2>4 DEF u
<1>4. CASE \E x \in T : s[m + 1] = <<x>>
  <2>1. PICK x \in T : s[m + 1] = <<x>>
    BY <1>4
  <2> DEFINE b == s[m + 1]
             h == [k \in 1 .. n + 1 |-> IF k <= n THEN g[k] ELSE m + 1]
  <2>2. b \in Seq(T) /\ Len(b) = 1 /\ b[1] = x /\ b # <<>>
    BY <2>1
  <2> HIDE DEF b
  <2>3. /\ u \in Seq(T) /\ Len(u) = n + 1
        /\ \A i \in 1 .. n + 1 : u[i] = IF i <= n THEN t[i] ELSE b[i - n]
    <3>1. t \o b \in Seq(T) /\ Len(t \o b) = n + Len(b)
      BY <2>2, ConcatProperties
    <3>2. \A i \in 1 .. n + Len(b) : (t \o b)[i] = IF i <= n THEN t[i] ELSE b[i - n]
      BY <2>2, ConcatProperties
    <3>3. QED BY <2>2, <3>1, <3>2 DEF b
  <2> HIDE DEF u
  <2>4. u[n + 1] = x /\ \A i \in 1 .. n : u[i] = t[i]
    <3>1. n + 1 \in 1 .. n + 1 /\ ~(n + 1 <= n) /\ n + 1 - n = 1
      BY <1>1
    <3>2. \A i \in 1 .. n : i \in 1 .. n + 1 /\ i <= n
      BY <1>1
    <3>3. QED BY <2>2, <2>3, <3>1, <3>2
  <2>5. h \in [1 .. n + 1 -> 1 .. m + 1] /\ h[n + 1] = m + 1 /\ \A k \in 1 .. n : h[k] = g[k]
    BY <1>1, <1>2
  <2> HIDE DEF h
  <2>6. \A k \in 1 .. n + 1 : s[h[k]] = <<u[k]>>
    <3> SUFFICES ASSUME NEW k \in 1 .. n + 1 PROVE s[h[k]] = <<u[k]>>
      OBVIOUS
    <3>1. CASE k = n + 1
      BY <2>1, <2>4, <2>5, <3>1
    <3>2. CASE k # n + 1
      <4>1. k \in 1 .. n
        BY <1>1, <3>2
      <4>2. QED BY <1>2, <2>4, <2>5, <4>1
    <3>3. QED BY <3>1, <3>2
  <2>7. \A k, l \in 1 .. n + 1 : k < l => h[k] < h[l]
    <3> SUFFICES ASSUME NEW k \in 1 .. n + 1, NEW l \in 1 .. n + 1, k < l PROVE h[k] < h[l]
      OBVIOUS
    <3>1. k \in 1 .. n
      BY <1>1
    <3>2. h[k] = g[k] /\ g[k] \in 1 .. m
      BY <1>2, <2>5, <3>1
    <3>3. CASE l = n + 1
      BY <2>5, <3>2, <3>3
    <3>4. CASE l # n + 1
      <4>1. l \in 1 .. n
        BY <1>1, <3>4
      <4>2. QED BY <1>2, <2>5, <3>1, <4>1
    <3>5. QED BY <3>3, <3>4
  <2>8. \A i \in 1 .. m + 1 : s[i] # <<>> => \E k \in 1 .. n + 1 : h[k] = i
    <3> SUFFICES ASSUME NEW i \in 1 .. m + 1, s[i] # <<>> PROVE \E k \in 1 .. n + 1 : h[k] = i
      OBVIOUS
    <3>1. CASE i = m + 1
      <4>1. n + 1 \in 1 .. n + 1
        BY <1>1
      <4>2. QED BY <2>5, <3>1, <4>1
    <3>2. CASE i # m + 1
      <4>1. i \in 1 .. m
        BY <3>2
      <4>2. PICK k \in 1 .. n : g[k] = i
        BY <1>2, <4>1
      <4>3. k \in 1 .. n + 1
        BY <1>1
      <4>4. QED BY <2>5, <4>2, <4>3
    <3>3. QED BY <3>1, <3>2
  <2>9. ComesFrom(h, u, s, m + 1)
    BY <2>3, <2>5, <2>6, <2>7, <2>8 DEF ComesFrom
  <2>10. QED BY <2>9 DEF u
<1>5. QED BY <1>3, <1>4

\* Of sequences with no more than one element each, all elements in their order.
LEMMA FlattenComesFrom ==
  ASSUME NEW T, NEW s \in Seq(Seq(T)),
         \A i \in DOMAIN s : s[i] = <<>> \/ \E x \in T : s[i] = <<x>>
  PROVE  \E g : ComesFrom(g, FlattenSeq(s), s, Len(s))
<1> DEFINE n == Len(s)
           g0 == [k \in 1 .. 0 |-> 0]
<1>1. n \in Nat /\ DOMAIN s = 1 .. n /\ \A i \in 1 .. n : s[i] \in Seq(T)
  BY LenProperties, ElementOfSeq
<1>2. \A t : ComesFrom(g0, <<>>, t, 0)
  <2>1. Len(<<>>) = 0 /\ g0 \in [1 .. 0 -> 1 .. 0]
    OBVIOUS
  <2> HIDE DEF g0
  <2>2. QED BY <2>1 DEF ComesFrom
<1> HIDE DEF g0
<1>3. CASE n = 0
  <2>1. s = <<>>
    BY <1>3, EmptySeq
  <2>2. FlattenSeq(s) = <<>>
    BY <2>1 DEF FlattenSeq
  <2>3. QED BY <1>2, <1>3, <2>2
<1>4. CASE n # 0
  <2>1. PICK f : Flattens(f, s, n) /\ FlattenSeq(s) = f[n]
    BY <1>1, <1>4, FlattenUnfolds
  <2>2. \A i \in 1 .. n : f[i] \in Seq(T)
    BY <2>1, FlattensType
  <2>3. \A i \in 1 .. n : f[i] = IF i = 1 THEN s[i] ELSE f[i - 1] \o s[i]
    BY <1>1, <2>1, FlattensAt
  <2>4. \A i \in 1 .. n : s[i] = <<>> \/ \E x \in T : s[i] = <<x>>
    BY <1>1
  <2> HIDE DEF n
  <2> DEFINE Good(m) == \E g : ComesFrom(g, f[m], s, m)
             S == {m \in Nat : m \in 1 .. n => Good(m)}
  <2>5. 0 \in S
    OBVIOUS
  <2>6. \A m \in Nat : m \in S => m + 1 \in S
    <3> SUFFICES ASSUME NEW m \in Nat, m \in 1 .. n => Good(m), m + 1 \in 1 .. n PROVE Good(m + 1)
      <4> HIDE DEF Good
      <4>1. \A m \in Nat : m \in S <=> (m \in 1 .. n => Good(m))
        OBVIOUS
      <4>2. \A m \in Nat : m + 1 \in Nat
        OBVIOUS
      <4> HIDE DEF S
      <4>3. QED BY <4>1, <4>2, Zenon
    <3>1. (m + 1) - 1 = m
      OBVIOUS
    <3> DEFINE a == IF m = 0 THEN <<>> ELSE f[m]
    <3>2. a \in Seq(T) /\ f[m + 1] = a \o s[m + 1] /\ \E g : ComesFrom(g, a, s, m)
      <4>1. CASE m = 0
        <5>1. f[1] = s[1] /\ s[1] \in Seq(T)
          BY <1>1, <2>3, <4>1
        <5>2. <<>> \o s[1] = s[1]
          BY <5>1
        <5>3. a = <<>> /\ m + 1 = 1
          BY <4>1
        <5> HIDE DEF a
        <5>4. f[m + 1] = a \o s[m + 1]
          BY <5>1, <5>2, <5>3
        <5>5. \E g : ComesFrom(g, a, s, m)
          BY <1>2, <4>1, <5>3
        <5>6. a \in Seq(T)
          BY <5>3
        <5>7. QED BY <5>4, <5>5, <5>6
      <4>2. CASE m # 0
        <5>1. m \in 1 .. n /\ m + 1 # 1 /\ a = f[m]
          BY <1>1, <4>2
        <5> HIDE DEF a
        <5>2. f[m + 1] = a \o s[m + 1]
          BY <2>3, <3>1, <5>1
        <5>3. QED BY <2>2, <5>1, <5>2
      <4>3. QED BY <4>1, <4>2
    <3> HIDE DEF a
    <3>3. PICK g : ComesFrom(g, a, s, m)
      BY <3>2
    <3>4. a \in Seq(T) /\ (s[m + 1] = <<>> \/ \E x \in T : s[m + 1] = <<x>>)
      BY <2>4, <3>2
    <3>5. \E h : ComesFrom(h, a \o s[m + 1], s, m + 1)
      BY <3>3, <3>4, ComesFromFurther
    <3>6. QED BY <3>2, <3>5
  <2>7. Nat \subseteq S
    <3> HIDE DEF S
    <3> QED BY <2>5, <2>6, SetInduction
  <2>8. Good(n)
    <3> HIDE DEF Good
    <3>1. n \in S /\ n \in 1 .. n
      BY <1>1, <1>4, <2>7
    <3>2. QED BY <3>1
  <2>9. QED BY <2>1, <2>8 DEF n
<1>5. QED BY <1>3, <1>4

\* The largest of some numbers, when it is known.
LEMMA LastOne ==
  ASSUME NEW I \in SUBSET Nat, NEW n \in I, \A i \in I : i <= n
  PROVE  Max(I) = n
<1> DEFINE Q(x) == \A y \in I : x >= y
<1>1. Q(n)
  OBVIOUS
<1>2. \A x \in I : Q(x) => x = n
  OBVIOUS
<1>3. Max(I) = CHOOSE x \in I : Q(x)
  BY DEF Max
<1> HIDE DEF Q
<1>4. \E x \in I : Q(x)
  BY <1>1
<1>5. (CHOOSE x \in I : Q(x)) \in I /\ Q(CHOOSE x \in I : Q(x))
  BY <1>4, Zenon
<1>6. QED BY <1>2, <1>3, <1>5

\* Some numbers of an interval have a largest one.
LEMMA GreatestOne ==
  ASSUME NEW n \in Nat, NEW I \in SUBSET (1 .. n), I # {}
  PROVE  Max(I) \in I /\ \A i \in I : i <= Max(I)
<1> DEFINE J == {i \in Nat : \A j \in I : j <= i}
<1>1. n \in J /\ J \in SUBSET Nat
  OBVIOUS
<1>2. Min(J) \in J /\ \A i \in J : Min(J) <= i
  BY <1>1, LeastOne
<1> DEFINE m == Min(J)
<1>3. m \in Nat /\ \A j \in I : j <= m
  BY <1>2
<1>4. m \in I
  <2> SUFFICES ASSUME m \notin I PROVE FALSE
    OBVIOUS
  <2> HIDE DEF m
  <2>1. \A j \in I : j <= m - 1
    BY <1>3
  <2>2. PICK j \in I : TRUE
    OBVIOUS
  <2>3. m - 1 \in J
    BY <1>3, <2>1, <2>2
  <2>4. m <= m - 1
    BY <1>2, <2>3 DEF m
  <2>5. QED BY <1>3, <2>4
<1>5. I \in SUBSET Nat
  OBVIOUS
<1> HIDE DEF m, J
<1>6. Max(I) = m
  BY <1>3, <1>4, <1>5, LastOne
<1>7. QED BY <1>3, <1>4, <1>6

\* A fold from the left takes the last place first.
FoldsTo(f, base, step, n) ==
    \A s \in SUBSET (1 .. n) :
      f[s] = IF s = {} THEN base ELSE step[Max(s)][f[s \ {Max(s)}]]

\* The function behind a fold over the numbers of an interval exists.
LEMMA FoldExists ==
  ASSUME NEW A, NEW base \in A, NEW n \in Nat, NEW step \in [1 .. n -> [A -> A]]
  PROVE  \E f \in [SUBSET (1 .. n) -> A] : FoldsTo(f, base, step, n)
<1> DEFINE P(k) == \E f \in [SUBSET (1 .. k) -> A] : FoldsTo(f, base, step, k)
           S == {k \in Nat : k <= n => P(k)}
<1>1. 0 \in S
  <2> DEFINE f == [s \in SUBSET (1 .. 0) |-> base]
  <2>1. f \in [SUBSET (1 .. 0) -> A]
    OBVIOUS
  <2>2. 1 .. 0 = {} /\ SUBSET (1 .. 0) = {{}}
    OBVIOUS
  <2>3. FoldsTo(f, base, step, 0)
    BY <2>2 DEF FoldsTo
  <2>4. QED BY <2>1, <2>3
<1>2. \A k \in Nat : k \in S => k + 1 \in S
  <2> SUFFICES ASSUME NEW k \in Nat, k \in S, k + 1 <= n PROVE P(k + 1)
    <3> HIDE DEF P
    <3> QED OBVIOUS
  <2>0. P(k)
    <3> HIDE DEF P
    <3>1. k <= n
      OBVIOUS
    <3> QED BY <3>1
  <2> PICK f \in [SUBSET (1 .. k) -> A] : FoldsTo(f, base, step, k)
    BY <2>0
  <2> DEFINE g == [s \in SUBSET (1 .. k + 1) |->
                     IF k + 1 \in s THEN step[k + 1][f[s \ {k + 1}]] ELSE f[s]]
  <2>1. \A s \in SUBSET (1 .. k + 1) : /\ s \ {k + 1} \in SUBSET (1 .. k)
                                       /\ k + 1 \notin s => s \in SUBSET (1 .. k)
                                       /\ k + 1 \in s => Max(s) = k + 1
    <3> SUFFICES ASSUME NEW s \in SUBSET (1 .. k + 1)
                 PROVE  /\ s \ {k + 1} \in SUBSET (1 .. k)
                        /\ k + 1 \notin s => s \in SUBSET (1 .. k)
                        /\ k + 1 \in s => Max(s) = k + 1
      OBVIOUS
    <3>1. \A i \in s : i \in 1 .. k + 1 /\ (i # k + 1 => i \in 1 .. k)
      OBVIOUS
    <3>2. s \in SUBSET Nat /\ \A i \in s : i <= k + 1
      BY <3>1
    <3>3. k + 1 \in s => Max(s) = k + 1
      BY <3>2, LastOne
    <3>4. QED BY <3>1, <3>3
  <2>2. \A s \in SUBSET (1 .. k) : g[s] = f[s]
    <3>1. \A s \in SUBSET (1 .. k) : s \in SUBSET (1 .. k + 1) /\ k + 1 \notin s
      OBVIOUS
    <3>2. QED BY <3>1
  <2>3. g \in [SUBSET (1 .. k + 1) -> A]
    <3> SUFFICES ASSUME NEW s \in SUBSET (1 .. k + 1)
                 PROVE  (IF k + 1 \in s THEN step[k + 1][f[s \ {k + 1}]] ELSE f[s]) \in A
      OBVIOUS
    <3>1. k + 1 \in 1 .. n
      OBVIOUS
    <3>2. f[s \ {k + 1}] \in A /\ (k + 1 \notin s => f[s] \in A)
      BY <2>1
    <3>3. QED BY <3>1, <3>2
  <2>4. FoldsTo(g, base, step, k + 1)
    <3> SUFFICES ASSUME NEW s \in SUBSET (1 .. k + 1)
                 PROVE  g[s] = IF s = {} THEN base ELSE step[Max(s)][g[s \ {Max(s)}]]
      BY DEF FoldsTo
    <3>1. CASE k + 1 \in s
      <4>1. g[s] = step[k + 1][f[s \ {k + 1}]] /\ Max(s) = k + 1 /\ s # {}
        BY <2>1, <3>1
      <4>2. g[s \ {k + 1}] = f[s \ {k + 1}]
        BY <2>1, <2>2
      <4> HIDE DEF g
      <4>3. QED BY <4>1, <4>2
    <3>2. CASE k + 1 \notin s
      <4>1. s \in SUBSET (1 .. k) /\ s \ {Max(s)} \in SUBSET (1 .. k)
        BY <2>1, <3>2
      <4>2. f[s] = IF s = {} THEN base ELSE step[Max(s)][f[s \ {Max(s)}]]
        BY <4>1 DEF FoldsTo
      <4>3. g[s] = f[s] /\ g[s \ {Max(s)}] = f[s \ {Max(s)}]
        BY <2>2, <4>1
      <4> HIDE DEF g
      <4>4. QED BY <4>2, <4>3
    <3>3. QED BY <3>1, <3>2
  <2>5. QED BY <2>3, <2>4
<1>3. Nat \subseteq S
  <2> HIDE DEF S
  <2> QED BY <1>1, <1>2, SetInduction
<1>4. P(n)
  <2> HIDE DEF P
  <2>1. n \in S /\ n <= n
    BY <1>3
  <2>2. QED BY <2>1
<1>5. QED BY <1>4

\* The greatest of the first places.
LEMMA LastPlace ==
  ASSUME NEW n \in Nat, NEW k \in Nat, k + 1 <= n
  PROVE  /\ 1 .. k + 1 \in SUBSET (1 .. n) /\ 1 .. k + 1 # {}
         /\ Max(1 .. k + 1) = k + 1 /\ (1 .. k + 1) \ {k + 1} = 1 .. k
<1>1. k + 1 \in 1 .. k + 1 /\ 1 .. k + 1 \in SUBSET Nat /\ \A i \in 1 .. k + 1 : i <= k + 1
  OBVIOUS
<1>2. Max(1 .. k + 1) = k + 1
  BY <1>1, LastOne
<1>3. QED BY <1>1, <1>2

\* As FoldsTo, where only values of A are taken a step on.
FoldsIn(A, g, base, step, n) ==
    /\ g[{}] = base
    /\ \A s \in SUBSET (1 .. n) :
         s # {} /\ g[s \ {Max(s)}] \in A => g[s] = step[Max(s)][g[s \ {Max(s)}]]

\* The values a fold takes on its way from the first element to the last.
Unrolls(p, base, step, n) ==
    p[0] = base /\ \A k \in 1 .. n : p[k] = step[k][p[k - 1]]

\* A fold goes from one to the next, and stays what it is made of.
LEMMA FoldUnrolls ==
  ASSUME NEW A, NEW base \in A, NEW n \in Nat, NEW step \in [1 .. n -> [A -> A]], NEW g,
         FoldsIn(A, g, base, step, n)
  PROVE  \E p \in [0 .. n -> A] : Unrolls(p, base, step, n) /\ p[n] = g[1 .. n]
<1> DEFINE p == [k \in 0 .. n |-> g[1 .. k]]
           S == {k \in Nat : k <= n => g[1 .. k] \in A}
<1>1. \A k \in Nat : k + 1 <= n /\ g[1 .. k] \in A =>
        g[1 .. k + 1] = step[k + 1][g[1 .. k]] /\ g[1 .. k + 1] \in A
  <2> SUFFICES ASSUME NEW k \in Nat, k + 1 <= n, g[1 .. k] \in A
               PROVE  g[1 .. k + 1] = step[k + 1][g[1 .. k]] /\ g[1 .. k + 1] \in A
    OBVIOUS
  <2> DEFINE s == 1 .. k + 1
  <2>1. s \in SUBSET (1 .. n) /\ s # {} /\ Max(s) = k + 1 /\ s \ {k + 1} = 1 .. k
    BY LastPlace
  <2> HIDE DEF s
  <2>2. s \ {Max(s)} = 1 .. k
    BY <2>1
  <2>3. g[s \ {Max(s)}] \in A
    BY <2>2
  <2>4. g[s] = step[Max(s)][g[s \ {Max(s)}]]
    BY <2>1, <2>3 DEF FoldsIn
  <2>5. g[s] = step[k + 1][g[1 .. k]]
    BY <2>1, <2>2, <2>4
  <2>6. k + 1 \in 1 .. n
    OBVIOUS
  <2>7. step[k + 1][g[1 .. k]] \in A
    BY <2>6
  <2>8. QED BY <2>5, <2>7 DEF s
<1>2. g[1 .. 0] = base
  <2>1. 1 .. 0 = {}
    OBVIOUS
  <2>2. QED BY <2>1 DEF FoldsIn
<1>3. 0 \in S
  BY <1>2
<1>4. \A k \in Nat : k \in S => k + 1 \in S
  <2> SUFFICES ASSUME NEW k \in Nat, k <= n => g[1 .. k] \in A, k + 1 <= n
               PROVE  g[1 .. k + 1] \in A
    OBVIOUS
  <2>1. k <= n
    OBVIOUS
  <2>2. QED BY <1>1, <2>1
<1>5. Nat \subseteq S
  <2> HIDE DEF S
  <2> QED BY <1>3, <1>4, SetInduction
<1>6. \A k \in 0 .. n : g[1 .. k] \in A
  BY <1>5
<1>7. p \in [0 .. n -> A]
  BY <1>6
<1>8. p[0] = base /\ p[n] = g[1 .. n] /\ \A k \in 0 .. n : p[k] = g[1 .. k]
  BY <1>2
<1> HIDE DEF p
<1>9. \A k \in 1 .. n : p[k] = step[k][p[k - 1]]
  <2> SUFFICES ASSUME NEW k \in 1 .. n PROVE p[k] = step[k][p[k - 1]]
    OBVIOUS
  <2>1. k - 1 \in Nat /\ k - 1 \in 0 .. n /\ k \in 0 .. n /\ (k - 1) + 1 = k
    OBVIOUS
  <2> DEFINE j == k - 1
  <2>2. j \in Nat /\ j + 1 <= n /\ g[1 .. j] \in A /\ j + 1 = k
    BY <1>6, <2>1
  <2> HIDE DEF j
  <2>3. g[1 .. j + 1] = step[j + 1][g[1 .. j]]
    BY <1>1, <2>2
  <2>4. g[1 .. k] = step[k][g[1 .. j]]
    BY <2>2, <2>3
  <2>5. p[k] = g[1 .. k] /\ p[j] = g[1 .. j]
    BY <1>8, <2>1 DEF j
  <2>6. p[k] = step[k][p[j]]
    BY <2>4, <2>5
  <2>7. QED BY <2>6 DEF j
<1>10. QED BY <1>7, <1>8, <1>9 DEF Unrolls

\* A fold of n steps has a value behind each of them.
Unrolled(A, base, step, n, g) ==
    \E p \in [0 .. n -> A] : Unrolls(p, base, step, n) /\ p[n] = g[1 .. n]

\* As FoldUnrolls says.
LEMMA FoldUnrolled ==
  ASSUME NEW A, NEW base \in A, NEW n \in Nat, NEW step \in [1 .. n -> [A -> A]], NEW g,
         FoldsIn(A, g, base, step, n)
  PROVE  Unrolled(A, base, step, n, g)
BY FoldUnrolls DEF Unrolled

\* The beginnings of a flattened sequence, one sequence longer each time.
LEMMA FlattenPath ==
  ASSUME NEW T, NEW s \in Seq(Seq(T))
  PROVE  \E q \in [0 .. Len(s) -> Seq(T)] :
           /\ q[0] = <<>> /\ q[Len(s)] = FlattenSeq(s)
           /\ \A k \in 1 .. Len(s) : q[k] = q[k - 1] \o s[k]
<1> DEFINE n == Len(s)
<1>1. n \in Nat /\ <<>> \in Seq(T) /\ \A k \in 1 .. n : s[k] \in Seq(T)
  BY LenProperties, ElementOfSeq, EmptySeq
<1>2. CASE n = 0
  <2> DEFINE q == [k \in 0 .. n |-> <<>>]
  <2>1. s = <<>> /\ FlattenSeq(s) = s
    BY <1>2, EmptySeq DEF FlattenSeq
  <2>2. q \in [0 .. n -> Seq(T)] /\ q[0] = <<>> /\ q[n] = FlattenSeq(s)
    BY <1>1, <1>2, <2>1
  <2>3. 1 .. n = {}
    BY <1>2
  <2> HIDE DEF q
  <2>4. \A k \in 1 .. n : q[k] = q[k - 1] \o s[k]
    BY <2>3
  <2>5. QED BY <2>2, <2>4
<1>3. CASE n # 0
  <2>1. PICK f : Flattens(f, s, n) /\ FlattenSeq(s) = f[n]
    BY <1>1, <1>3, FlattenUnfolds
  <2>2. \A k \in 1 .. n : f[k] \in Seq(T)
    BY <2>1, FlattensType
  <2>3. \A k \in 1 .. n : f[k] = IF k = 1 THEN s[k] ELSE f[k - 1] \o s[k]
    BY <1>1, <2>1, FlattensAt
  <2> DEFINE q == [k \in 0 .. n |-> IF k = 0 THEN <<>> ELSE f[k]]
  <2> HIDE DEF n
  <2>4. q \in [0 .. n -> Seq(T)]
    <3>1. \A k \in 0 .. n : k # 0 => k \in 1 .. n
      BY <1>1
    <3>2. QED BY <1>1, <2>2, <3>1
  <2>5. q[0] = <<>> /\ q[n] = FlattenSeq(s) /\ \A k \in 1 .. n : q[k] = f[k]
    BY <1>1, <1>3, <2>1
  <2> HIDE DEF q
  <2>6. \A k \in 1 .. n : q[k] = q[k - 1] \o s[k]
    <3> SUFFICES ASSUME NEW k \in 1 .. n PROVE q[k] = q[k - 1] \o s[k]
      OBVIOUS
    <3>1. CASE k = 1
      <4>1. q[k] = s[k] /\ q[k - 1] = <<>>
        BY <2>3, <2>5, <3>1
      <4>2. s[k] \in Seq(T)
        BY <1>1
      <4>3. QED BY <4>1, <4>2, ConcatEmptySeq
    <3>2. CASE k # 1
      <4>1. k - 1 \in 1 .. n
        BY <1>1, <3>2
      <4>2. QED BY <2>3, <2>5, <3>2, <4>1
    <3>3. QED BY <3>1, <3>2
  <2>7. QED BY <2>4, <2>5, <2>6 DEF n
<1>4. QED BY <1>2, <1>3

\* Two sequences flattened.
LEMMA FlattenPair ==
  ASSUME NEW T, NEW a \in Seq(T), NEW b \in Seq(T)
  PROVE  FlattenSeq(<<a, b>>) = a \o b /\ <<a, b>> \in Seq(Seq(T))
<1> DEFINE s == <<a, b>>
<1>1. s \in Seq(Seq(T)) /\ Len(s) = 2 /\ s[1] = a /\ s[2] = b
  OBVIOUS
<1> HIDE DEF s
<1>2. PICK q \in [0 .. Len(s) -> Seq(T)] :
           /\ q[0] = <<>> /\ q[Len(s)] = FlattenSeq(s)
           /\ \A k \in 1 .. Len(s) : q[k] = q[k - 1] \o s[k]
  BY <1>1, FlattenPath
<1>3. q[1] = q[0] \o s[1] /\ q[2] = q[1] \o s[2]
  <2>1. 1 \in 1 .. Len(s) /\ 2 \in 1 .. Len(s) /\ 1 - 1 = 0 /\ 2 - 1 = 1
    BY <1>1
  <2>2. q[1] = q[1 - 1] \o s[1] /\ q[2] = q[2 - 1] \o s[2]
    BY <1>2, <2>1
  <2>3. QED BY <2>1, <2>2
<1>4. q[1] = a
  BY <1>1, <1>2, <1>3, ConcatEmptySeq
<1>5. FlattenSeq(s) = a \o b
  BY <1>1, <1>2, <1>3, <1>4
<1>6. QED BY <1>1, <1>5 DEF s

\* A sequence c is a and, behind it, b.
Concats(S, c, a, b) ==
    /\ c \in Seq(S) /\ Len(a) \in Nat /\ Len(b) \in Nat /\ Len(c) = Len(a) + Len(b)
    /\ \A i \in 1 .. Len(a) : c[i] = a[i]
    /\ \A i \in 1 .. Len(b) : c[Len(a) + i] = b[i]

\* Two sequences put behind one another.
LEMMA ConcatAt ==
  ASSUME NEW S, NEW a \in Seq(S), NEW b \in Seq(S)
  PROVE  Concats(S, a \o b, a, b)
<1> DEFINE c == a \o b
<1>1. /\ c \in Seq(S) /\ Len(c) = Len(a) + Len(b)
      /\ \A i \in 1 .. Len(a) + Len(b) : c[i] = IF i <= Len(a) THEN a[i] ELSE b[i - Len(a)]
  BY ConcatProperties
<1>2. Len(a) \in Nat /\ Len(b) \in Nat
  BY LenProperties
<1> HIDE DEF c
<1>3. \A i \in 1 .. Len(a) : c[i] = a[i]
  <2> TAKE i \in 1 .. Len(a)
  <2>1. i \in 1 .. Len(a) + Len(b) /\ i <= Len(a)
    BY <1>2
  <2>2. QED BY <1>1, <2>1
<1>4. \A i \in 1 .. Len(b) : c[Len(a) + i] = b[i]
  <2> TAKE i \in 1 .. Len(b)
  <2>1. /\ Len(a) + i \in 1 .. Len(a) + Len(b) /\ ~(Len(a) + i <= Len(a))
        /\ (Len(a) + i) - Len(a) = i
    BY <1>2
  <2>2. QED BY <1>1, <2>1
<1>5. QED BY <1>1, <1>2, <1>3, <1>4 DEF c, Concats

\* Where the sequences stand in what they are flattened to.
StartsOf(o, f, s) ==
    /\ o[0] = 0 /\ o[Len(s)] = Len(f)
    /\ \A k \in 1 .. Len(s) : o[k] = o[k - 1] + Len(s[k]) /\ o[k] <= Len(f)
    /\ \A k \in 1 .. Len(s) : \A j \in 1 .. Len(s[k]) : f[o[k - 1] + j] = s[k][j]

\* They stand behind one another.
LEMMA FlattenStands ==
  ASSUME NEW T, NEW s \in Seq(Seq(T))
  PROVE  /\ FlattenSeq(s) \in Seq(T)
         /\ \E o \in [0 .. Len(s) -> Nat] : StartsOf(o, FlattenSeq(s), s)
<1> DEFINE n == Len(s)
           all == FlattenSeq(s)
<1>1. n \in Nat /\ all \in Seq(T) /\ \A k \in 1 .. n : s[k] \in Seq(T) /\ Len(s[k]) \in Nat
  BY LenProperties, ElementOfSeq, FlattenType
<1>2. PICK q \in [0 .. n -> Seq(T)] :
           /\ q[0] = <<>> /\ q[n] = all
           /\ \A k \in 1 .. n : q[k] = q[k - 1] \o s[k]
  BY FlattenPath
<1> DEFINE o == [k \in 0 .. n |-> Len(q[k])]
<1> HIDE DEF n, all
<1>3. o \in [0 .. n -> Nat] /\ o[0] = 0 /\ o[n] = Len(all) /\ \A k \in 0 .. n : o[k] = Len(q[k])
  <2>1. \A k \in 0 .. n : Len(q[k]) \in Nat
    BY <1>2, LenProperties
  <2>2. QED BY <1>1, <1>2, <2>1
<1> HIDE DEF o
<1> DEFINE Kept(m) == /\ \A k \in 1 .. m : o[k] = o[k - 1] + Len(s[k]) /\ o[k] <= o[m]
                      /\ \A k \in 1 .. m : \A j \in 1 .. Len(s[k]) : q[m][o[k - 1] + j] = s[k][j]
           Done == {m \in Nat : m <= n => Kept(m)}
<1>4. 0 \in Done
  OBVIOUS
<1>5. \A m \in Nat : m \in Done => m + 1 \in Done
  <2> SUFFICES ASSUME NEW m \in Nat, m + 1 <= n, Kept(m) PROVE Kept(m + 1)
    <3> HIDE DEF Kept
    <3> QED BY <1>1
  <2>1. /\ m + 1 \in 1 .. n /\ (m + 1) - 1 = m /\ m \in 0 .. n /\ m + 1 \in 0 .. n
        /\ \A k \in 1 .. m : k \in 1 .. n /\ k - 1 \in 0 .. n /\ k \in 0 .. n
        /\ \A k \in 1 .. m + 1 : k \in 1 .. m \/ k = m + 1
    BY <1>1
  <2> DEFINE a == q[m]
             b == s[m + 1]
             c == a \o b
  <2>2. q[m + 1] = c /\ a \in Seq(T) /\ b \in Seq(T)
    BY <1>1, <1>2, <2>1
  <2>3. /\ o[m] = Len(a) /\ o[m + 1] = Len(c)
    BY <1>3, <2>1, <2>2
  <2>9. Concats(T, c, a, b)
    BY <2>2, ConcatAt
  <2>5. \A k \in 1 .. m : o[k] \in Nat /\ o[k - 1] \in Nat
    BY <1>3, <2>1
  <2> HIDE DEF c, a, b
  <2>4. /\ Len(a) \in Nat /\ Len(b) \in Nat /\ Len(c) = Len(a) + Len(b)
        /\ \A i \in 1 .. Len(a) : c[i] = a[i]
        /\ \A i \in 1 .. Len(b) : c[Len(a) + i] = b[i]
    BY <2>9 DEF Concats
  <2>6. ASSUME NEW k \in 1 .. m + 1 PROVE o[k] = o[k - 1] + Len(s[k]) /\ o[k] <= o[m + 1]
    <3>1. CASE k \in 1 .. m
      <4>1. o[k] = o[k - 1] + Len(s[k]) /\ o[k] <= o[m] /\ o[k] \in Nat
        BY <2>5, <3>1
      <4>2. o[m] <= o[m + 1]
        BY <2>3, <2>4
      <4>3. QED BY <2>3, <2>4, <4>1, <4>2
    <3>2. CASE k = m + 1
      <4>1. o[k - 1] = Len(a) /\ o[k] = Len(c) /\ s[k] = b
        BY <2>1, <2>3, <3>2 DEF b
      <4>2. QED BY <2>3, <2>4, <3>2, <4>1
    <3>3. QED BY <2>1, <3>1, <3>2
  <2>7. ASSUME NEW k \in 1 .. m + 1, NEW j \in 1 .. Len(s[k])
        PROVE  q[m + 1][o[k - 1] + j] = s[k][j]
    <3>1. CASE k \in 1 .. m
      <4> DEFINE i == o[k - 1] + j
      <4>1. o[k - 1] \in Nat /\ i <= o[k] /\ o[k] <= o[m] /\ Len(s[k]) \in Nat /\ o[k] \in Nat
        <5>1. o[k - 1] \in Nat /\ o[k] \in Nat /\ o[k] = o[k - 1] + Len(s[k]) /\ o[k] <= o[m]
              /\ Len(s[k]) \in Nat
          BY <1>1, <2>1, <2>5, <3>1
        <5>2. QED BY <5>1
      <4>2. a[i] = s[k][j]
        BY <3>1 DEF a
      <4>3. i \in 1 .. Len(a)
        <5>1. o[k - 1] \in Nat /\ o[k] \in Nat /\ Len(a) \in Nat /\ o[k] <= Len(a)
              /\ o[k - 1] + j <= o[k] /\ j \in Nat /\ j >= 1
          BY <2>3, <2>4, <4>1
        <5>2. QED BY <5>1
      <4> HIDE DEF i
      <4>4. c[i] = a[i]
        BY <2>4, <4>3
      <4>5. QED BY <2>2, <4>2, <4>4 DEF i
    <3>2. CASE k = m + 1
      <4>1. j \in 1 .. Len(b) /\ o[k - 1] = Len(a) /\ s[k] = b
        BY <2>1, <2>3, <3>2 DEF b
      <4>2. c[Len(a) + j] = b[j]
        BY <2>4, <4>1
      <4>3. QED BY <2>2, <3>2, <4>1, <4>2
    <3>3. QED BY <2>1, <3>1, <3>2
  <2>8. QED BY <2>6, <2>7
<1>6. Nat \subseteq Done
  <2> HIDE DEF Done
  <2> QED BY <1>4, <1>5, SetInduction
<1>7. Kept(n)
  <2> HIDE DEF Kept
  <2> QED BY <1>1, <1>6
<1>8. StartsOf(o, all, s)
  BY <1>2, <1>3, <1>7 DEF StartsOf, n
<1>9. QED BY <1>1, <1>3, <1>8 DEF all, n

\* The sequences of s, which all have length m, behind one another.
Blocks(T, f, s, m) ==
    /\ f \in Seq(T) /\ Len(f) = m * Len(s)
    /\ \A k \in 1 .. Len(s), j \in 1 .. m : f[m * (k - 1) + j] = s[k][j]

\* Sequences of one length stand at its multiples.
LEMMA FlattenBlocks ==
  ASSUME NEW T, NEW s \in Seq(Seq(T)), NEW m \in Nat, \A k \in 1 .. Len(s) : Len(s[k]) = m
  PROVE  Blocks(T, FlattenSeq(s), s, m)
<1> DEFINE n == Len(s)
           all == FlattenSeq(s)
<1>1. n \in Nat /\ all \in Seq(T)
  BY LenProperties, FlattenStands
<1>2. PICK o \in [0 .. n -> Nat] : StartsOf(o, all, s)
  BY FlattenStands
<1> HIDE DEF all, n
<1>3. /\ o[0] = 0 /\ o[n] = Len(all)
      /\ \A k \in 1 .. n : o[k] = o[k - 1] + m
      /\ \A k \in 1 .. n : \A j \in 1 .. m : all[o[k - 1] + j] = s[k][j]
  BY <1>2 DEF StartsOf, n
<1> DEFINE Done == {k \in Nat : k <= n => o[k] = m * k}
<1>4. 0 \in Done
  <2>1. m * 0 = 0
    OBVIOUS
  <2>2. QED BY <1>3, <2>1
<1>5. \A k \in Nat : k \in Done => k + 1 \in Done
  <2> SUFFICES ASSUME NEW k \in Nat, k + 1 <= n, o[k] = m * k PROVE o[k + 1] = m * (k + 1)
    BY <1>1
  <2>1. k + 1 \in 1 .. n /\ (k + 1) - 1 = k
    BY <1>1
  <2>2. o[k + 1] = o[k] + m
    BY <1>3, <2>1
  <2>3. m * (k + 1) = m * k + m
    OBVIOUS
  <2>4. QED BY <2>2, <2>3
<1>6. Nat \subseteq Done
  <2> HIDE DEF Done
  <2> QED BY <1>4, <1>5, SetInduction
<1>7. \A k \in 0 .. n : o[k] = m * k
  <2> TAKE k \in 0 .. n
  <2>1. k \in Nat /\ k <= n
    BY <1>1
  <2>2. QED BY <1>6, <2>1
<1>8. Len(all) = m * n
  <2>1. n \in 0 .. n
    BY <1>1
  <2>2. QED BY <1>3, <1>7, <2>1
<1>9. \A k \in 1 .. n, j \in 1 .. m : all[m * (k - 1) + j] = s[k][j]
  <2> TAKE k \in 1 .. n, j \in 1 .. m
  <2>1. k - 1 \in 0 .. n
    BY <1>1
  <2>2. o[k - 1] = m * (k - 1)
    BY <1>7, <2>1
  <2>3. QED BY <1>3, <2>2
<1>10. QED BY <1>1, <1>8, <1>9 DEF n, all, Blocks
===============================================================================
