-------------------------- MODULE SdpParserProofs --------------------------
(***************************************************************************)
(* Proofs about SdpParser, for every set of documents and whatever memory  *)
(* runs out.  Inv gives the types and the blocks, Along relates the place  *)
(* in the code to the grammar, Gathered the description to the lines read, *)
(* Shaped what is written of it to what sdp_parser accepts, and Copied the *)
(* second parse to the first.                                              *)
(***************************************************************************)
EXTENDS SdpParser, SequenceLemmas

-------------------------------------------------------------------------------
(* What str_split_values makes of a value *)

\* The state of str_split_values: fields taken, and the value left.
Pair == [out : Texts, rest : Values]

\* What is left behind an atom is a value.
LEMMA SkipType ==
  ASSUME NEW toks \in Values, toks # <<>>, NEW n \in Nat, n <= Len(toks[1])
  PROVE  Skip(toks, n) \in Values
<1> DEFINE t == toks[1]
<1>1. t \in Seq(Int) /\ t # <<>> /\ Len(t) \in Nat
  BY LenProperties, EmptySeq DEF Values
<1>2. Tail(toks) \in Values
  BY HeadTailProperties DEF Values
<1>3. CASE n = Len(t)
  BY <1>2, <1>3 DEF Skip
<1>4. CASE n # Len(t)
  <2> DEFINE u == SubSeq(t, n + 1, Len(t))
  <2>1. u \in Seq(Int) /\ Len(u) = Len(t) - n
    <3> DEFINE m == Len(t)
    <3>1. m \in Nat /\ n <= m
      BY <1>1
    <3>2. \A i \in n + 1 .. m : i \in 1 .. m
      BY <3>1
    <3> HIDE DEF t
    <3>3. u \in Seq(Int) /\ Len(u) = IF n + 1 <= m THEN m - (n + 1) + 1 ELSE 0
      BY <1>1, <3>1, <3>2, SubSeqProperties
    <3> HIDE DEF m, u
    <3>4. Len(u) = m - n
      BY <3>1, <3>3
    <3>5. QED BY <3>3, <3>4 DEF m
  <2> HIDE DEF u, t
  <2>2. u # <<>>
    BY <1>1, <1>4, <2>1, EmptySeq
  <2>3. <<u>> \in Values
    BY <2>1, <2>2 DEF Values
  <2>4. <<u>> \o Tail(toks) \in Values
    BY <1>2, <2>3, ConcatProperties DEF Values
  <2>5. QED BY <1>4, <2>4 DEF Skip, u, t
<1>5. QED BY <1>3, <1>4

\* A value that is not empty starts with a token, and that with an atom.
LEMMA HeadOfValue ==
  ASSUME NEW toks \in Values, toks # <<>>
  PROVE  /\ toks[1] \in Seq(Int) /\ toks[1] # <<>> /\ Len(toks[1]) \in Nat /\ Len(toks[1]) >= 1
         /\ toks[1][1] \in Int
         /\ Head(toks) \in Seq(Int) /\ Tail(toks) \in Values
<1>1. toks[1] \in Seq(Int) /\ toks[1] # <<>>
  BY LenProperties, EmptySeq DEF Values
<1>2. Len(toks[1]) \in Nat /\ Len(toks[1]) >= 1
  BY <1>1, LenProperties, EmptySeq
<1>3. Head(toks) = toks[1] /\ Tail(toks) \in Values
  BY HeadTailProperties DEF Values
<1>4. QED BY <1>1, <1>2, <1>3

\* A field more, and what is left of the value.
LEMMA Appended ==
  ASSUME NEW o \in Texts, NEW f \in Seq(Int), NEW r \in Values
  PROVE  LET p == [out |-> Append(o, f), rest |-> r]
         IN p \in Pair /\ Len(p.out) = Len(o) + 1
  BY AppendProperties DEF Texts, Pair

\* A number takes the place of one field.
LEMMA TakeNumberType ==
  ASSUME NEW o \in Texts, NEW r \in Values
  PROVE  TakeNumber(o, r) \in Pair /\ Len(TakeNumber(o, r).out) = Len(o) + 1
<1>1. CASE IsNumber(r)
  <2>1. r # <<>>
    BY <1>1 DEF IsNumber
  <2>2. <<r[1][1]>> \in Seq(Int) /\ Skip(r, 1) \in Values
    BY <2>1, HeadOfValue, SkipType
  <2>3. QED BY <1>1, <2>2, Appended DEF TakeNumber
<1>2. CASE ~IsNumber(r)
  <2>1. <<0>> \in Seq(Int) /\ <<>> \in Values
    BY DEF Values
  <2>2. QED BY <1>2, <2>1, Appended DEF TakeNumber
<1>3. QED BY <1>1, <1>2

\* The units of a time are numbers.
LEMMA UnitType == \A c \in DOMAIN Unit : Unit[c] \in Int
  BY DEF Unit

\* A time takes the place of one field.
LEMMA TakeTimeType ==
  ASSUME NEW o \in Texts, NEW r \in Values
  PROVE  TakeTime(o, r) \in Pair /\ Len(TakeTime(o, r).out) = Len(o) + 1
<1>1. CASE HasUnit(r)
  <2>1. r # <<>> /\ Len(r[1]) > 1 /\ r[1][2] \in DOMAIN Unit
    BY <1>1 DEF HasUnit, IsNumber
  <2>2. <<r[1][1] * Unit[r[1][2]]>> \in Seq(Int)
    <3>1. r[1][1] \in Int /\ Unit[r[1][2]] \in Int
      BY <2>1, HeadOfValue, UnitType
    <3>2. r[1][1] * Unit[r[1][2]] \in Int
      BY <3>1
    <3>3. QED BY <3>2
  <2>3. Skip(r, 2) \in Values
    BY <2>1, HeadOfValue, SkipType
  <2>4. QED BY <1>1, <2>2, <2>3, Appended DEF TakeTime
<1>2. CASE ~HasUnit(r)
  BY <1>2, TakeNumberType DEF TakeTime
<1>3. QED BY <1>1, <1>2

\* A string takes the place of one field.
LEMMA TakeStringType ==
  ASSUME NEW o \in Texts, NEW r \in Values
  PROVE  TakeString(o, r) \in Pair /\ Len(TakeString(o, r).out) = Len(o) + 1
<1>1. CASE r = <<>>
  <2>1. <<>> \in Seq(Int) /\ <<>> \in Values
    BY DEF Values
  <2>2. QED BY <1>1, <2>1, Appended DEF TakeString
<1>2. CASE r # <<>>
  BY <1>2, HeadOfValue, Appended DEF TakeString
<1>3. QED BY <1>1, <1>2

\* A letter of the format is one field.
LEMMA TakeType ==
  ASSUME NEW t \in Pair, NEW letter
  PROVE  Take(t, letter) \in Pair /\ Len(Take(t, letter).out) = Len(t.out) + 1
<1>1. t.out \in Texts /\ t.rest \in Values
  BY DEF Pair
<1>2. QED
  BY <1>1, TakeStringType, TakeTimeType, TakeNumberType DEF Take

\* What the recursion of FoldLeft says of Take.
TakesAll(f, fmt, t) ==
    f = [s \in SUBSET DOMAIN fmt |->
           IF s = {} THEN t ELSE Take(f[s \ {Max(s)}], fmt[Max(s)])]

\* The fold of Split is that function.
LEMMA TakesUnfold ==
  ASSUME NEW fmt, NEW t
  PROVE  FoldLeft(Take, t, fmt) = (CHOOSE f : TakesAll(f, fmt, t))[DOMAIN fmt]
  BY DEF FoldLeft, MapThenFoldSet, TakesAll

\* It exists.
LEMMA TakesExist ==
  ASSUME NEW T, NEW fmt \in Seq(T), NEW t \in Pair
  PROVE  \E f : TakesAll(f, fmt, t)
<1> DEFINE n == Len(fmt)
           step == [i \in 1 .. n |-> [p \in Pair |-> Take(p, fmt[i])]]
<1>1. n \in Nat /\ DOMAIN fmt = 1 .. n
  BY LenProperties
<1>2. step \in [1 .. n -> [Pair -> Pair]]
  BY TakeType
<1>3. \A i \in 1 .. n : \A p \in Pair : step[i][p] = Take(p, fmt[i])
  OBVIOUS
<1> HIDE DEF step
<1>4. PICK f \in [SUBSET (1 .. n) -> Pair] : FoldsTo(f, t, step, n)
  BY <1>1, <1>2, FoldExists
<1>5. \A s \in SUBSET (1 .. n) :
         f[s] = IF s = {} THEN t ELSE Take(f[s \ {Max(s)}], fmt[Max(s)])
  <2> SUFFICES ASSUME NEW s \in SUBSET (1 .. n), s # {}
               PROVE  f[s] = Take(f[s \ {Max(s)}], fmt[Max(s)])
    BY <1>4 DEF FoldsTo
  <2>1. f[s] = step[Max(s)][f[s \ {Max(s)}]]
    BY <1>4 DEF FoldsTo
  <2>2. Max(s) \in 1 .. n
    BY <1>1, GreatestOne
  <2>3. f[s \ {Max(s)}] \in Pair
    BY <1>4
  <2>4. QED BY <1>3, <2>1, <2>2, <2>3
<1>6. f = [s \in SUBSET DOMAIN fmt |->
             IF s = {} THEN t ELSE Take(f[s \ {Max(s)}], fmt[Max(s)])]
  BY <1>1, <1>4, <1>5
<1>7. QED BY <1>6 DEF TakesAll

\* It is what its equations say.
LEMMA TakesAllAt ==
  ASSUME NEW f, NEW fmt, NEW t, TakesAll(f, fmt, t)
  PROVE  /\ f[{}] = t
         /\ \A s \in SUBSET DOMAIN fmt : s # {} => f[s] = Take(f[s \ {Max(s)}], fmt[Max(s)])
<1> DEFINE h == [r \in SUBSET DOMAIN fmt |->
                   IF r = {} THEN t ELSE Take(f[r \ {Max(r)}], fmt[Max(r)])]
<1>1. f = h
  BY DEF TakesAll
<1>2. /\ h[{}] = t
      /\ \A s \in SUBSET DOMAIN fmt : s # {} => h[s] = Take(f[s \ {Max(s)}], fmt[Max(s)])
  OBVIOUS
<1> HIDE DEF h
<1>3. QED BY <1>1, <1>2

\* Every letter of a format gives one field.
LEMMA TakesType ==
  ASSUME NEW T, NEW fmt \in Seq(T), NEW t \in Pair
  PROVE  LET u == FoldLeft(Take, t, fmt)
         IN u \in Pair /\ Len(u.out) = Len(t.out) + Len(fmt)
<1> DEFINE n == Len(fmt)
<1>2. PICK g : TakesAll(g, fmt, t) /\ FoldLeft(Take, t, fmt) = g[DOMAIN fmt]
  <2> DEFINE h == CHOOSE f : TakesAll(f, fmt, t)
  <2>1. \E f : TakesAll(f, fmt, t)
    BY TakesExist
  <2>2. TakesAll(h, fmt, t)
    BY <2>1, Zenon
  <2>3. FoldLeft(Take, t, fmt) = h[DOMAIN fmt]
    BY TakesUnfold
  <2> HIDE DEF h
  <2>4. QED BY <2>2, <2>3
<1>3. n \in Nat /\ DOMAIN fmt = 1 .. n
  BY LenProperties
<1>4. /\ g[{}] = t
      /\ \A s \in SUBSET (1 .. n) : s # {} => g[s] = Take(g[s \ {Max(s)}], fmt[Max(s)])
  <2>1. /\ g[{}] = t
        /\ \A s \in SUBSET DOMAIN fmt : s # {} => g[s] = Take(g[s \ {Max(s)}], fmt[Max(s)])
    BY <1>2, TakesAllAt, ZenonT(60)
  <2>2. QED BY <1>3, <2>1
<1> DEFINE Good(k) == g[1 .. k] \in Pair /\ Len(g[1 .. k].out) = Len(t.out) + k
           S == {k \in Nat : k <= n => Good(k)}
<1>5. 0 \in S
  <2>1. 1 .. 0 = {} /\ {} \in SUBSET (1 .. n)
    OBVIOUS
  <2>2. g[{}] = t
    BY <1>4, <2>1
  <2>3. Len(t.out) \in Nat
    BY LenProperties DEF Pair, Texts
  <2>4. QED BY <2>1, <2>2, <2>3
<1>6. \A k \in Nat : k \in S => k + 1 \in S
  <2> SUFFICES ASSUME NEW k \in Nat, k \in S, k + 1 <= n PROVE Good(k + 1)
    <3> HIDE DEF Good
    <3> QED OBVIOUS
  <2>1. Good(k)
    <3> HIDE DEF Good
    <3>1. k <= n
      BY <1>3
    <3>2. QED BY <3>1
  <2>2. g[1 .. k + 1] = Take(g[1 .. k], fmt[k + 1])
    <3> DEFINE s == 1 .. k + 1
    <3>1. s \in SUBSET (1 .. n) /\ s # {} /\ Max(s) = k + 1 /\ s \ {k + 1} = 1 .. k
      BY <1>3, LastPlace
    <3>2. g[s] = Take(g[s \ {Max(s)}], fmt[Max(s)])
      BY <1>4, <3>1
    <3> HIDE DEF s
    <3>3. g[s] = Take(g[1 .. k], fmt[k + 1])
      BY <3>1, <3>2
    <3>4. QED BY <3>3 DEF s
  <2>3. Len(t.out) \in Nat
    BY LenProperties DEF Pair, Texts
  <2>4. Take(g[1 .. k], fmt[k + 1]) \in Pair /\ Len(Take(g[1 .. k], fmt[k + 1]).out) = (Len(t.out) + k) + 1
    <3> DEFINE p == g[1 .. k]
    <3>1. p \in Pair /\ Len(p.out) = Len(t.out) + k
      BY <2>1
    <3> HIDE DEF p
    <3>2. Take(p, fmt[k + 1]) \in Pair /\ Len(Take(p, fmt[k + 1]).out) = (Len(t.out) + k) + 1
      BY <3>1, TakeType
    <3>3. QED BY <3>2 DEF p
  <2>5. (Len(t.out) + k) + 1 = Len(t.out) + (k + 1)
    <3> DEFINE l == Len(t.out)
    <3>1. l \in Nat
      BY <2>3
    <3> HIDE DEF l
    <3>2. (l + k) + 1 = l + (k + 1)
      BY ONLY <3>1, k \in Nat
    <3>3. QED BY <3>2 DEF l
  <2>6. QED BY <2>2, <2>4, <2>5
<1>7. Nat \subseteq S
  <2> HIDE DEF S
  <2> QED BY <1>5, <1>6, SetInduction
<1>8. Good(n)
  <2> HIDE DEF Good
  <2>1. n \in S /\ n <= n
    BY <1>3, <1>7
  <2>2. QED BY <2>1
<1>9. FoldLeft(Take, t, fmt) = g[1 .. n]
  BY <1>2, <1>3
<1>10. QED BY <1>8, <1>9

\* One round of the loop of SplitAll.
Again(fmt, t) == IF t.rest = <<>> THEN t ELSE FoldLeft(Take, t, fmt)

\* Another call takes as many fields as the format has letters, if anything is
\* left.
LEMMA AgainType ==
  ASSUME NEW T, NEW fmt \in Seq(T), NEW t \in Pair
  PROVE  LET u == Again(fmt, t)
         IN /\ u \in Pair
            /\ t.rest = <<>> => u = t
            /\ t.rest # <<>> => Len(u.out) = Len(t.out) + Len(fmt)
<1> DEFINE u == FoldLeft(Take, t, fmt)
<1>1. u \in Pair /\ Len(u.out) = Len(t.out) + Len(fmt)
  BY TakesType
<1> HIDE DEF u
<1>2. CASE t.rest = <<>>
  BY <1>2 DEF Again
<1>3. CASE t.rest # <<>>
  <2>1. Again(fmt, t) = u
    BY <1>3 DEF Again, u
  <2>2. QED BY <1>1, <1>3, <2>1
<1>4. QED BY <1>2, <1>3

\* What the recursion of FoldLeft says of the rounds.
Rounds(f, fmt, t, atoms) ==
    f = [s \in SUBSET DOMAIN atoms |->
           IF s = {} THEN t ELSE Again(fmt, f[s \ {Max(s)}])]

\* The fold of SplitAll is that function.
LEMMA RoundsUnfold ==
  ASSUME NEW fmt, NEW t
  PROVE  SplitAll(fmt, t) =
           (CHOOSE f : Rounds(f, fmt, t, FlattenSeq(t.rest)))[DOMAIN FlattenSeq(t.rest)]
  BY DEF SplitAll, FoldLeft, MapThenFoldSet, Rounds, Again

\* It exists.
LEMMA RoundsExist ==
  ASSUME NEW T, NEW fmt \in Seq(T), NEW t \in Pair, NEW U, NEW atoms \in Seq(U)
  PROVE  \E f : Rounds(f, fmt, t, atoms)
<1> DEFINE n == Len(atoms)
           step == [i \in 1 .. n |-> [p \in Pair |-> Again(fmt, p)]]
<1>1. n \in Nat /\ DOMAIN atoms = 1 .. n
  BY LenProperties
<1>2. step \in [1 .. n -> [Pair -> Pair]]
  BY AgainType
<1>3. \A i \in 1 .. n : \A p \in Pair : step[i][p] = Again(fmt, p)
  OBVIOUS
<1> HIDE DEF step
<1>4. PICK f \in [SUBSET (1 .. n) -> Pair] : FoldsTo(f, t, step, n)
  BY <1>1, <1>2, FoldExists
<1>5. \A s \in SUBSET (1 .. n) : f[s] = IF s = {} THEN t ELSE Again(fmt, f[s \ {Max(s)}])
  <2> SUFFICES ASSUME NEW s \in SUBSET (1 .. n), s # {}
               PROVE  f[s] = Again(fmt, f[s \ {Max(s)}])
    BY <1>4 DEF FoldsTo
  <2>1. f[s] = step[Max(s)][f[s \ {Max(s)}]]
    BY <1>4 DEF FoldsTo
  <2>2. Max(s) \in 1 .. n
    BY <1>1, GreatestOne
  <2>3. f[s \ {Max(s)}] \in Pair
    BY <1>4
  <2>4. QED BY <1>3, <2>1, <2>2, <2>3
<1>6. f = [s \in SUBSET DOMAIN atoms |-> IF s = {} THEN t ELSE Again(fmt, f[s \ {Max(s)}])]
  BY <1>1, <1>4, <1>5
<1>7. QED BY <1>6 DEF Rounds

\* It is what its equations say.
LEMMA RoundsAt ==
  ASSUME NEW f, NEW fmt, NEW t, NEW atoms, Rounds(f, fmt, t, atoms)
  PROVE  /\ f[{}] = t
         /\ \A s \in SUBSET DOMAIN atoms : s # {} => f[s] = Again(fmt, f[s \ {Max(s)}])
<1> DEFINE h == [r \in SUBSET DOMAIN atoms |->
                   IF r = {} THEN t ELSE Again(fmt, f[r \ {Max(r)}])]
<1>1. f = h
  BY DEF Rounds
<1>2. /\ h[{}] = t
      /\ \A s \in SUBSET DOMAIN atoms : s # {} => h[s] = Again(fmt, f[s \ {Max(s)}])
  OBVIOUS
<1> HIDE DEF h
<1>3. QED BY <1>1, <1>2

\* Tokens that are not empty flatten to something.
LEMMA FlattenSome ==
  ASSUME NEW val \in Values, val # <<>>
  PROVE  FlattenSeq(val) \in Seq(Int) /\ FlattenSeq(val) # <<>>
<1> DEFINE n == Len(val)
<1>1. n \in Nat /\ n >= 1 /\ val \in Seq(Seq(Int))
  BY LenProperties, EmptySeq, SeqMonotonic DEF Values
<1>2. val[n] \in Seq(Int) /\ Len(val[n]) \in Nat /\ Len(val[n]) >= 1
  <2>1. val[n] \in Seq(Int) \ {<<>>}
    BY <1>1, ElementOfSeq DEF Values
  <2>2. QED BY <2>1, LenProperties, EmptySeq
<1>3. PICK f : Flattens(f, val, n) /\ FlattenSeq(val) = f[n]
  BY <1>1, FlattenUnfolds
<1>4. /\ n = 1 => f[n] = val[n]
      /\ n # 1 => f[n] = f[n - 1] \o val[n]
  <2>1. n \in 1 .. n /\ Flattens(f, val, n)
    BY <1>1, <1>3
  <2> HIDE DEF n
  <2>2. f[n] = IF n = 1 THEN val[n] ELSE f[n - 1] \o val[n]
    BY <1>1, <2>1, FlattensAt
  <2>3. QED BY <2>2
<1>5. \A i \in 1 .. n : f[i] \in Seq(Int)
  BY <1>1, <1>3, FlattensType
<1> HIDE DEF n
<1>6. f[n] \in Seq(Int)
  BY <1>1, <1>5
<1>7. CASE n = 1
  BY <1>2, <1>3, <1>4, <1>6, <1>7
<1>8. CASE n # 1
  <2> DEFINE a == f[n - 1]
             b == val[n]
  <2>1. a \in Seq(Int) /\ b \in Seq(Int) /\ f[n] = a \o b
    <3>1. n - 1 \in 1 .. n
      BY <1>1, <1>8
    <3>2. QED BY <1>2, <1>4, <1>5, <1>8, <3>1
  <2> HIDE DEF a, b
  <2>2. Len(f[n]) = Len(a) + Len(b) /\ Len(a) \in Nat
    BY <2>1, ConcatProperties, LenProperties
  <2>3. Len(f[n]) # 0
    BY <1>2, <2>2 DEF b
  <2>4. QED BY <1>3, <1>6, <2>3
<1>9. QED BY <1>7, <1>8

\* What is split to the end is text, of at least the fields there were, and of
\* those of a round if there was anything to split.
LEMMA SplitAllType ==
  ASSUME NEW T, NEW fmt \in Seq(T), NEW t \in Pair
  PROVE  LET u == SplitAll(fmt, t)
         IN /\ u \in Pair /\ Len(u.out) >= Len(t.out)
            /\ t.rest = <<>> => u = t
            /\ t.rest # <<>> => Len(u.out) >= Len(t.out) + Len(fmt)
<1> DEFINE atoms == FlattenSeq(t.rest)
           n == Len(atoms)
<1>0. t.rest \in Values /\ Len(t.out) \in Nat /\ Len(fmt) \in Nat
  BY LenProperties DEF Pair, Texts
<1>1. atoms \in Seq(Int) /\ (t.rest # <<>> => atoms # <<>>)
  <2>1. t.rest \in Seq(Seq(Int))
    BY SeqMonotonic DEF Pair, Values
  <2>2. QED BY <1>0, <2>1, FlattenType, FlattenSome
<1> HIDE DEF atoms
<1>2. PICK g : Rounds(g, fmt, t, atoms) /\ SplitAll(fmt, t) = g[DOMAIN atoms]
  <2> DEFINE h == CHOOSE f : Rounds(f, fmt, t, atoms)
  <2>1. \E f : Rounds(f, fmt, t, atoms)
    BY <1>1, RoundsExist
  <2>2. Rounds(h, fmt, t, atoms)
    BY <2>1, Zenon
  <2>3. SplitAll(fmt, t) = h[DOMAIN atoms]
    BY RoundsUnfold DEF atoms
  <2> HIDE DEF h
  <2>4. QED BY <2>2, <2>3
<1>3. n \in Nat /\ DOMAIN atoms = 1 .. n /\ (t.rest # <<>> => n >= 1)
  BY <1>1, LenProperties, EmptySeq
<1>4. /\ g[{}] = t
      /\ \A s \in SUBSET (1 .. n) : s # {} => g[s] = Again(fmt, g[s \ {Max(s)}])
  <2>1. /\ g[{}] = t
        /\ \A s \in SUBSET DOMAIN atoms : s # {} => g[s] = Again(fmt, g[s \ {Max(s)}])
    BY <1>2, RoundsAt, ZenonT(60)
  <2>2. QED BY <1>3, <2>1
<1> DEFINE Enough(u) == /\ u \in Pair
                        /\ t.rest = <<>> => u = t
                        /\ t.rest # <<>> => Len(u.out) >= Len(t.out) + Len(fmt)
           Good(k) == IF k = 0 THEN g[1 .. k] = t ELSE Enough(g[1 .. k])
           S == {k \in Nat : k <= n => Good(k)}
<1>5. 0 \in S
  <2>1. 1 .. 0 = {}
    OBVIOUS
  <2>2. QED BY <1>4, <2>1
<1>6. \A k \in Nat : k \in S => k + 1 \in S
  <2> SUFFICES ASSUME NEW k \in Nat, k \in S, k + 1 <= n PROVE Good(k + 1)
    <3> HIDE DEF Good
    <3> QED OBVIOUS
  <2>1. Good(k)
    <3> HIDE DEF Good
    <3>1. k <= n
      BY <1>3
    <3>2. QED BY <3>1
  <2>2. g[1 .. k + 1] = Again(fmt, g[1 .. k])
    <3> DEFINE s == 1 .. k + 1
    <3>1. s \in SUBSET (1 .. n) /\ s # {} /\ Max(s) = k + 1 /\ s \ {k + 1} = 1 .. k
      BY <1>3, LastPlace
    <3>2. g[s] = Again(fmt, g[s \ {Max(s)}])
      BY <1>4, <3>1
    <3> HIDE DEF s
    <3>3. g[s] = Again(fmt, g[1 .. k])
      BY <3>1, <3>2
    <3>4. QED BY <3>3 DEF s
  <2>3. Enough(Again(fmt, g[1 .. k]))
    <3> DEFINE p == g[1 .. k]
               q == Again(fmt, p)
    <3>1. p = t \/ Enough(p)
      BY <2>1
    <3> HIDE DEF p
    <3>2. p \in Pair
      BY <3>1
    <3>3. /\ q \in Pair
          /\ p.rest = <<>> => q = p
          /\ p.rest # <<>> => Len(q.out) = Len(p.out) + Len(fmt)
      BY <3>2, AgainType
    <3> HIDE DEF q
    <3>4. Len(p.out) \in Nat /\ Len(q.out) \in Nat
      BY <3>2, <3>3, LenProperties DEF Pair, Texts
    <3>5. t.rest = <<>> => q = t
      BY <3>1, <3>3
    <3>6. ASSUME t.rest # <<>> PROVE Len(q.out) >= Len(t.out) + Len(fmt)
      BY <1>0, <3>1, <3>3, <3>4, <3>6
    <3>7. QED BY <3>3, <3>5, <3>6 DEF p, q
  <2>4. k + 1 # 0
    OBVIOUS
  <2> HIDE DEF Enough
  <2>5. QED BY <2>2, <2>3, <2>4
<1>7. Nat \subseteq S
  <2> HIDE DEF S
  <2> QED BY <1>5, <1>6, SetInduction
<1>8. Good(n)
  <2> HIDE DEF Good
  <2>1. n \in S /\ n <= n
    BY <1>3, <1>7
  <2>2. QED BY <2>1
<1> DEFINE u == SplitAll(fmt, t)
<1>9. u = g[1 .. n]
  BY <1>2, <1>3
<1>10. u = t \/ Enough(u)
  BY <1>8, <1>9
<1>11. t.rest # <<>> => Enough(u)
  BY <1>3, <1>8, <1>9
<1> HIDE DEF u
<1>12. /\ u \in Pair
       /\ t.rest = <<>> => u = t
       /\ t.rest # <<>> => Len(u.out) >= Len(t.out) + Len(fmt)
  BY <1>10, <1>11
<1>13. Len(u.out) >= Len(t.out)
  <2>1. Len(u.out) \in Nat
    BY <1>12, LenProperties DEF Pair, Texts
  <2>2. QED BY <1>0, <1>12, <2>1
<1>14. QED BY <1>12, <1>13 DEF u

\* The letters of a format.
Formats == {"s", "l", "t", "i"}

\* A value is split into as many fields as the format has letters.
LEMMA SplitType ==
  ASSUME NEW fmt \in Seq(Formats), NEW val \in Values
  PROVE  Split(fmt, val) \in Pair /\ Len(Split(fmt, val).out) = Len(fmt)
<1> DEFINE t == [out |-> <<>>, rest |-> val]
<1>1. t \in Pair /\ Len(t.out) = 0
  BY DEF Pair, Texts
<1>2. Split(fmt, val) = FoldLeft(Take, t, fmt)
  BY DEF Split
<1> HIDE DEF t
<1> DEFINE u == FoldLeft(Take, t, fmt)
<1>3. u \in Pair /\ Len(u.out) = Len(t.out) + Len(fmt)
  BY <1>1, TakesType
<1> HIDE DEF u
<1>4. Len(fmt) \in Nat
  BY LenProperties
<1>5. Len(u.out) = Len(fmt)
  BY <1>1, <1>3, <1>4
<1>6. QED BY <1>2, <1>3, <1>5 DEF u

\* The port of an m= line is one field.
LEMMA PortType ==
  ASSUME NEW t \in Pair
  PROVE  TakePort(t) \in Pair /\ Len(TakePort(t).out) = Len(t.out) + 1
<1> DEFINE toks == t.rest
           tok  == IF toks = <<>> THEN <<>> ELSE toks[1]
           d    == IF IsNumber(toks) THEN 1 ELSE 0
           s    == IF Len(tok) > d /\ tok[d + 1] = Slash THEN 1 ELSE 0
           e    == IF s = 1 /\ Len(tok) > d + 1 /\ tok[d + 2] >= 0 THEN 1 ELSE 0
           port == IF d = 1 THEN tok[1] ELSE 0
           port_n == IF e = 1 THEN tok[d + 2] ELSE 0
           f == IF port_n = 0 THEN <<port>> ELSE <<port, Slash, port_n>>
           r == IF d + s = 0 THEN toks ELSE Skip(toks, d + s + e)
<1>1. t.out \in Texts /\ toks \in Values
  BY DEF Pair
<1>2. tok \in Seq(Int) /\ Len(tok) \in Nat
  BY <1>1, HeadOfValue, LenProperties
<1>3. d \in {0, 1} /\ (d = 1 => toks # <<>> /\ Len(tok) >= 1)
  BY <1>1, HeadOfValue DEF IsNumber
<1>4. s \in {0, 1} /\ (s = 1 => Len(tok) > d)
  OBVIOUS
<1>5. e \in {0, 1} /\ (e = 1 => Len(tok) > d + 1 /\ s = 1)
  OBVIOUS
<1>6. d + s # 0 => toks # <<>> /\ d + s + e <= Len(toks[1]) /\ d + s + e \in Nat
  <2>1. Len(<<>>) = 0
    OBVIOUS
  <2>2. toks = <<>> => Len(tok) = 0
    BY <2>1
  <2>3. toks # <<>> => tok = toks[1]
    OBVIOUS
  <2> HIDE DEF d, s, e, tok, toks
  <2>4. QED BY <1>2, <1>3, <1>4, <1>5, <2>2, <2>3
<1>7. r \in Values
  <2> HIDE DEF d, s, e, tok, toks
  <2>1. QED BY <1>1, <1>6, SkipType
<1>8. f \in Seq(Int)
  <2>1. port \in Int
    <3> HIDE DEF d
    <3>1. d = 1 => 1 \in 1 .. Len(tok)
      <4> HIDE DEF tok
      <4> QED BY <1>2, <1>3
    <3> HIDE DEF tok
    <3>2. QED BY <1>2, <3>1
  <2>2. port_n \in Int
    <3>1. e = 1 => d + 2 \in 1 .. Len(tok)
      <4> HIDE DEF tok, d, s, e
      <4> QED BY <1>2, <1>3, <1>5
    <3> HIDE DEF tok, d, s, e
    <3>2. QED BY <1>2, <3>1
  <2>3. Slash \in Int
    BY DEF Slash
  <2> HIDE DEF port, port_n
  <2>4. QED BY <2>1, <2>2, <2>3
<1>9. TakePort(t) = [out |-> Append(t.out, f), rest |-> r]
  BY Zenon DEF TakePort
<1> HIDE DEF f, r
<1>10. QED BY <1>1, <1>7, <1>8, <1>9, Appended

\* An m= line has a medium, a port and a transport at least.
LEMMA MediaInfoType ==
  ASSUME NEW val \in Values
  PROVE  MediaInfo(val) \in Texts /\ Len(MediaInfo(val)) >= 3
<1> DEFINE a == Split(<<"s">>, val)
           b == TakePort(a)
           c == Take(b, "s")
           d == SplitAll(<<"i">>, c)
<1>1. a \in Pair /\ Len(a.out) = 1
  <2>1. <<"s">> \in Seq(Formats) /\ Len(<<"s">>) = 1
    BY DEF Formats
  <2>2. QED BY <2>1, SplitType
<1> HIDE DEF a
<1>2. b \in Pair /\ Len(b.out) = 1 + 1
  BY <1>1, PortType
<1> HIDE DEF b
<1>3. c \in Pair /\ Len(c.out) = 1 + 1 + 1
  BY <1>2, TakeType
<1> HIDE DEF c
<1>4. d \in Pair /\ Len(d.out) >= Len(c.out)
  <2>1. <<"i">> \in Seq({"i"})
    OBVIOUS
  <2>2. QED BY <1>3, <2>1, SplitAllType
<1>5. MediaInfo(val) = d.out
  BY DEF MediaInfo, a, b, c
<1> HIDE DEF d
<1>6. Len(d.out) >= 3
  BY <1>3, <1>4
<1>7. QED BY <1>4, <1>5, <1>6 DEF Pair

\* What is made of a value is a sequence of fields.
LEMMA FieldsType ==
  ASSUME NEW k, NEW val \in Values
  PROVE  Fields(k, val) \in Texts /\ (k = "m" => Len(Fields(k, val)) >= 3)
<1>1. val \in Texts
  BY SeqMonotonic DEF Values, Texts
<1>2. /\ <<"s", "l", "l", "s", "s", "s">> \in Seq(Formats) /\ <<"s", "s", "s">> \in Seq(Formats)
      /\ <<"s", "s">> \in Seq(Formats) /\ <<"t", "t">> \in Seq(Formats) /\ <<"t">> \in Seq(Formats)
  BY DEF Formats
<1>3. \A fmt \in Seq(Formats) : Split(fmt, val) \in Pair /\ Split(fmt, val).out \in Texts
  BY SplitType DEF Pair
<1>4. \A fmt \in Seq(Formats), t \in Pair : SplitAll(fmt, t).out \in Texts
  BY SplitAllType DEF Pair
<1>5. [out |-> <<>>, rest |-> val] \in Pair
  BY DEF Pair, Texts
<1>6. CASE k = "m"
  BY <1>6, MediaInfoType DEF Fields
<1>7. CASE k \in {"o", "c", "b", "t"}
  BY <1>2, <1>3, <1>7 DEF Fields
<1>8. CASE k = "r"
  BY <1>2, <1>3, <1>4, <1>8 DEF Fields
<1>9. CASE k = "z"
  BY <1>2, <1>4, <1>5, <1>9 DEF Fields
<1>10. CASE k \notin {"o", "c", "b", "t", "r", "z", "m"}
  BY <1>1, <1>10 DEF Fields
<1>11. QED BY <1>6, <1>7, <1>8, <1>9, <1>10

\* The value of the entry at the head of doc, and where the entry ends.
LEMMA ValueType ==
  ASSUME doc \in Seq(Lines), doc # <<>>
  PROVE  /\ value \in Values
         /\ EntryEnd \in Nat /\ 1 <= EntryEnd /\ EntryEnd <= Len(doc)
<1>1. Len(doc) \in Nat /\ Len(doc) >= 1 /\ doc[1] \in Lines
  BY LenProperties, EmptySeq
<1>2. EntryEnd \in Nat /\ 1 <= EntryEnd /\ EntryEnd <= Len(doc)
  <2>1. CASE CrLf = {}
    BY <1>1, <2>1 DEF EntryEnd
  <2>2. CASE CrLf # {}
    <3>1. CrLf \in SUBSET Nat /\ \A i \in CrLf : 1 <= i /\ i <= Len(doc)
      BY <1>1 DEF CrLf
    <3>2. Min(CrLf) \in CrLf
      BY <2>2, <3>1, LeastOne
    <3>3. QED BY <2>2, <3>1, <3>2 DEF EntryEnd
  <2>3. QED BY <2>1, <2>2
<1> DEFINE val == doc[1].val
           nl == <<<<Newline>>>>
           longer == [val EXCEPT ![Len(val)] = Append(@, Newline)]
<1>3. val \in Values
  BY <1>1 DEF Lines
<1>4. value = IF EntryEnd = 1 THEN val ELSE IF val = <<>> THEN nl ELSE longer
  BY DEF value
<1>5. nl \in Values
  BY DEF Values, Newline
<1>6. CASE val = <<>>
  <2> HIDE DEF val, nl, longer
  <2>1. QED BY <1>2, <1>3, <1>4, <1>5, <1>6
<1>7. CASE val # <<>>
  <2> DEFINE t == val[Len(val)]
             u == Append(t, Newline)
  <2> HIDE DEF val, nl
  <2>1. Len(val) \in 1 .. Len(val) /\ t \in Seq(Int)
    BY <1>3, <1>7, LenProperties, EmptySeq DEF Values
  <2>2. u \in Seq(Int) /\ Len(u) # 0
    <3>1. Newline \in Int /\ Len(t) \in Nat
      BY <2>1, LenProperties DEF Newline
    <3>2. Len(u) = Len(t) + 1 /\ u \in Seq(Int)
      BY <2>1, <3>1, AppendProperties
    <3>3. QED BY <3>1, <3>2
  <2>3. u # <<>>
    BY <2>2, EmptySeq
  <2>4. longer = [val EXCEPT ![Len(val)] = u]
    OBVIOUS
  <2> HIDE DEF u
  <2>5. [val EXCEPT ![Len(val)] = u] \in Values
    BY <1>3, <2>1, <2>2, <2>3, ExceptSeq DEF Values
  <2> HIDE DEF longer
  <2>6. QED BY <1>2, <1>3, <1>4, <1>7, <2>4, <2>5
<1>8. QED BY <1>6, <1>7

-------------------------------------------------------------------------------
(* Descriptions, and the blocks that belong to them. *)

\* The letters of the session, and those of a stream.
SessionKeys == {"v", "o", "s", "i", "u", "e", "p", "c", "b", "t", "z", "k", "a"}
MediaKeys   == {"i", "c", "b", "k", "a"}

\* The two orders as sets and intervals.
LEMMA KeysOfOrders ==
  /\ ToSet(SessionOrder) = SessionKeys /\ ToSet(MediaOrder) = MediaKeys
  /\ Len(SessionOrder) = 13 /\ Len(MediaOrder) = 5
  /\ DOMAIN SessionOrder = 1 .. 13 /\ DOMAIN MediaOrder = 1 .. 5
<1>1. /\ Len(SessionOrder) = 13 /\ Len(MediaOrder) = 5
      /\ DOMAIN SessionOrder = 1 .. 13 /\ DOMAIN MediaOrder = 1 .. 5
  BY DEF SessionOrder, MediaOrder
<1>2. ToSet(SessionOrder) = SessionKeys
  BY <1>1 DEF ToSet, SessionKeys, SessionOrder
<1>3. ToSet(MediaOrder) = MediaKeys
  BY <1>1 DEF ToSet, MediaKeys, MediaOrder
<1>4. QED BY <1>1, <1>2, <1>3

\* Times: each a t= line and its repeats.
TimesType == Seq(Seq(Texts) \ {<<>>})
\* Streams, with their m= line.
Streams == [info : {i \in Texts : Len(i) >= 3}, fields : [MediaKeys -> Seq(Texts)]]

\* A description as sdp_parser builds it.
WellFormed(s) ==
    /\ s \in [fields : [SessionKeys -> Seq(Texts) \cup TimesType], medias : Seq(Streams)]
    /\ \A k \in SessionKeys \ {"t"} : s.fields[k] \in Seq(Texts)
    /\ s.fields["t"] \in TimesType

\* A section of the session is replaced.
LEMMA PutSession ==
  ASSUME NEW s, WellFormed(s), NEW k \in SessionKeys, NEW v,
         k = "t" => v \in TimesType, k # "t" => v \in Seq(Texts)
  PROVE  LET n == [s EXCEPT !.fields[k] = v]
         IN /\ WellFormed(n)
            /\ n.fields = [s.fields EXCEPT ![k] = v] /\ n.medias = s.medias
<1> DEFINE f == [s.fields EXCEPT ![k] = v]
           n == [s EXCEPT !.fields[k] = v]
<1>1. s \in [fields : [SessionKeys -> Seq(Texts) \cup TimesType], medias : Seq(Streams)]
  BY DEF WellFormed
<1>2. n = [s EXCEPT !.fields = f]
  OBVIOUS
<1>3. /\ f \in [SessionKeys -> Seq(Texts) \cup TimesType]
      /\ \A j \in SessionKeys \ {"t"} : f[j] \in Seq(Texts)
      /\ f["t"] \in TimesType
  BY <1>1 DEF WellFormed, SessionKeys
<1> HIDE DEF f
<1>4. n \in [fields : [SessionKeys -> Seq(Texts) \cup TimesType], medias : Seq(Streams)]
  BY <1>1, <1>2, <1>3
<1>5. n.fields = f /\ n.medias = s.medias
  BY <1>1, <1>2
<1> HIDE DEF n
<1>6. WellFormed(n)
  BY <1>3, <1>4, <1>5 DEF WellFormed
<1>7. QED BY <1>5, <1>6 DEF f, n

\* A section of a stream is replaced.
LEMMA PutMedia ==
  ASSUME NEW s, WellFormed(s), NEW i \in 1 .. Len(s.medias), NEW k \in MediaKeys, NEW v \in Seq(Texts)
  PROVE  LET n == [s EXCEPT !.medias[i].fields[k] = v]
         IN /\ WellFormed(n)
            /\ n.fields = s.fields
            /\ n.medias = [s.medias EXCEPT ![i].fields[k] = v]
            /\ Len(n.medias) = Len(s.medias)
<1> DEFINE m == s.medias[i]
           f == [m.fields EXCEPT ![k] = v]
           x == [m EXCEPT !.fields = f]
           ms == [s.medias EXCEPT ![i] = x]
           n == [s EXCEPT !.medias[i].fields[k] = v]
<1>1. /\ s \in [fields : [SessionKeys -> Seq(Texts) \cup TimesType], medias : Seq(Streams)]
      /\ s.medias \in Seq(Streams)
  BY DEF WellFormed
<1>2. m \in Streams
  BY <1>1, ElementOfSeq
<1>3. x \in Streams
  BY <1>2 DEF Streams
<1>4. ms \in Seq(Streams) /\ Len(ms) = Len(s.medias)
  <2> HIDE DEF x
  <2>1. QED BY <1>1, <1>3, ExceptSeq
<1>5. n = [s EXCEPT !.medias = ms] /\ ms = [s.medias EXCEPT ![i].fields[k] = v]
  OBVIOUS
<1> HIDE DEF ms, n
<1>6. n \in [fields : [SessionKeys -> Seq(Texts) \cup TimesType], medias : Seq(Streams)]
  BY <1>1, <1>4, <1>5
<1>7. n.fields = s.fields /\ n.medias = ms
  BY <1>1, <1>5
<1>8. WellFormed(n)
  BY <1>6, <1>7 DEF WellFormed
<1>9. QED BY <1>4, <1>5, <1>7, <1>8 DEF n

\* A stream is added.
LEMMA AddMedia ==
  ASSUME NEW s, WellFormed(s), NEW x \in Streams
  PROVE  LET n == [s EXCEPT !.medias = Append(@, x)]
         IN /\ WellFormed(n)
            /\ n.fields = s.fields
            /\ n.medias = Append(s.medias, x)
            /\ Len(n.medias) = Len(s.medias) + 1
<1> DEFINE ms == Append(s.medias, x)
           n == [s EXCEPT !.medias = Append(@, x)]
<1>1. /\ s \in [fields : [SessionKeys -> Seq(Texts) \cup TimesType], medias : Seq(Streams)]
      /\ s.medias \in Seq(Streams)
  BY DEF WellFormed
<1>2. ms \in Seq(Streams) /\ Len(ms) = Len(s.medias) + 1
  BY <1>1, AppendProperties
<1>3. n = [s EXCEPT !.medias = ms]
  OBVIOUS
<1> HIDE DEF ms, n
<1>4. n \in [fields : [SessionKeys -> Seq(Texts) \cup TimesType], medias : Seq(Streams)]
  BY <1>1, <1>2, <1>3
<1>5. n.fields = s.fields /\ n.medias = ms
  BY <1>1, <1>3
<1>6. WellFormed(n)
  BY <1>4, <1>5 DEF WellFormed
<1>7. QED BY <1>2, <1>5, <1>6 DEF n, ms

\* The empty description is well formed.
LEMMA NothingType == WellFormed(Nothing)
<1>1. <<>> \in Seq(Texts) /\ <<>> \in TimesType /\ <<>> \in Seq(Streams)
  BY DEF TimesType
<1>2. Nothing = [fields |-> [k \in SessionKeys |-> <<>>], medias |-> <<>>]
  BY KeysOfOrders DEF Nothing
<1>3. QED BY <1>1, <1>2 DEF WellFormed, SessionKeys

\* What is allocated before the first line is read.
Start == {<<"sdp", 0, 0>>, <<"payload", 0, 0>>}

\* The blocks that sdp_destroy frees, one by one.
LEMMA FreedIs ==
  ASSUME NEW s, NEW b
  PROVE  b \in Freed(s) <=>
           \/ b \in {<<k, 0, 0>> : k \in {"sdp", "payload", "e", "p", "b", "t", "z", "a", "m"}}
           \/ b \in {<<"r", i, 0>> : i \in DOMAIN Times(s)}
           \/ \E i \in DOMAIN Times(s) : \E j \in 1 .. Len(Times(s)[i]) - 1 : b = <<"offsets", i, j>>
           \/ b \in {<<k, i, 0>> : k \in {"fmt", "b", "a"}, i \in DOMAIN s.medias}
<1> DEFINE D(h) == {<<"offsets", h, m>> : m \in 1 .. Len(Times(s)[h]) - 1}
           U == UNION {D(h) : h \in DOMAIN Times(s)}
           A == {<<k, 0, 0>> : k \in {"sdp", "payload", "e", "p", "b", "t", "z", "a", "m"}}
           B == {<<"r", i, 0>> : i \in DOMAIN Times(s)}
           C == {<<k, i, 0>> : k \in {"fmt", "b", "a"}, i \in DOMAIN s.medias}
<1>1. \A h : b \in D(h) <=> \E j \in 1 .. Len(Times(s)[h]) - 1 : b = <<"offsets", h, j>>
  OBVIOUS
<1>2. Freed(s) = A \cup B \cup U \cup C
  BY DEF Freed
<1> HIDE DEF A, B, C, D
<1>3. b \in U <=> \E h \in DOMAIN Times(s) : b \in D(h)
  BY Zenon
<1> HIDE DEF U
<1>4. b \in Freed(s) <=> b \in A \/ b \in B \/ b \in U \/ b \in C
  BY <1>2
<1>5. QED BY <1>1, <1>3, <1>4 DEF A, B, C

\* A block is named by a letter and two numbers.
LEMMA FreedTyped ==
  ASSUME NEW s, WellFormed(s), NEW b \in Freed(s)
  PROVE  b[2] \in Nat /\ b[3] \in Nat
<1>1. DOMAIN Times(s) \subseteq Nat /\ DOMAIN s.medias \subseteq Nat
  BY LenProperties DEF WellFormed, TimesType, Times
<1>2. QED BY <1>1, FreedIs

\* Longer arrays are freed as well as shorter ones.
LEMMA FreedGrows ==
  ASSUME NEW s, NEW n, WellFormed(s), WellFormed(n),
         Len(Times(s)) <= Len(Times(n)), Len(s.medias) <= Len(n.medias),
         \A i \in 1 .. Len(Times(s)) : Len(Times(s)[i]) <= Len(Times(n)[i])
  PROVE  Freed(s) \subseteq Freed(n)
<1>1. /\ Times(s) \in TimesType /\ Times(n) \in TimesType
      /\ s.medias \in Seq(Streams) /\ n.medias \in Seq(Streams)
  BY DEF WellFormed, Times
<1>2. /\ DOMAIN Times(s) = 1 .. Len(Times(s)) /\ DOMAIN Times(n) = 1 .. Len(Times(n))
      /\ DOMAIN s.medias = 1 .. Len(s.medias) /\ DOMAIN n.medias = 1 .. Len(n.medias)
      /\ Len(Times(s)) \in Nat /\ Len(Times(n)) \in Nat
      /\ Len(s.medias) \in Nat /\ Len(n.medias) \in Nat
  BY <1>1, LenProperties DEF TimesType
<1>3. DOMAIN Times(s) \subseteq DOMAIN Times(n) /\ DOMAIN s.medias \subseteq DOMAIN n.medias
  BY <1>2
<1>4. \A i \in DOMAIN Times(s) :
        1 .. Len(Times(s)[i]) - 1 \subseteq 1 .. Len(Times(n)[i]) - 1
  <2> SUFFICES ASSUME NEW i \in DOMAIN Times(s)
               PROVE  1 .. Len(Times(s)[i]) - 1 \subseteq 1 .. Len(Times(n)[i]) - 1
    OBVIOUS
  <2>1. Len(Times(s)[i]) <= Len(Times(n)[i])
    BY <1>2
  <2>2. Len(Times(s)[i]) \in Nat /\ Len(Times(n)[i]) \in Nat
    <3>1. Times(s)[i] \in Seq(Texts) /\ Times(n)[i] \in Seq(Texts)
      BY <1>1, <1>2, <1>3, ElementOfSeq DEF TimesType
    <3>2. QED BY <3>1, LenProperties
  <2>3. QED BY <2>1, <2>2
<1>5. SUFFICES ASSUME NEW b \in Freed(s) PROVE b \in Freed(n)
  OBVIOUS
<1>6. CASE \E i \in DOMAIN Times(s) : \E j \in 1 .. Len(Times(s)[i]) - 1 : b = <<"offsets", i, j>>
  <2>1. PICK i \in DOMAIN Times(s) : \E j \in 1 .. Len(Times(s)[i]) - 1 : b = <<"offsets", i, j>>
    BY <1>6
  <2> PICK j \in 1 .. Len(Times(s)[i]) - 1 : b = <<"offsets", i, j>>
    BY <2>1
  <2>2. i \in DOMAIN Times(n) /\ j \in 1 .. Len(Times(n)[i]) - 1
    BY <1>3, <1>4
  <2>3. QED BY <2>2, FreedIs
<1>7. QED BY <1>3, <1>6, FreedIs

\* The first two blocks belong to every description.
LEMMA FreedStart == ASSUME NEW s PROVE Start \subseteq Freed(s)
  BY FreedIs DEF Start

\* The blocks of a stream and of a time belong to the description they are in.
LEMMA FreedHas ==
  ASSUME NEW s
  PROVE  /\ \A i \in DOMAIN s.medias : \A k \in {"fmt", "b", "a"} : <<k, i, 0>> \in Freed(s)
         /\ \A i \in DOMAIN Times(s) :
              /\ <<"r", i, 0>> \in Freed(s)
              /\ \A j \in 1 .. Len(Times(s)[i]) - 1 : <<"offsets", i, j>> \in Freed(s)
  BY FreedIs

\* What the lines of each kind need is freed.
LEMMA NeedsFreed ==
  ASSUME WellFormed(sdp), NEW k, NEW fields, NEW next, WellFormed(next),
         k = "r" => /\ LastTime \in 1 .. Len(Times(next)) /\ Len(Times(sdp)[LastTime]) \in Nat
                    /\ Len(Times(sdp)[LastTime]) >= 1
                    /\ Len(Times(next)[LastTime]) = Len(Times(sdp)[LastTime]) + 1,
         k = "m" => Len(next.medias) = Here + 1,
         k \in {"e", "p", "t"} => Here = 0,
         k \in {"b", "a"} => Here <= Len(next.medias)
  PROVE  LET needs == Needs(k, fields)
         IN /\ Len(needs) \in Nat /\ DOMAIN needs = 1 .. Len(needs)
            /\ \A i \in DOMAIN needs : needs[i] \in Freed(next)
<1>0. Here \in Nat /\ Len(next.medias) \in Nat /\ DOMAIN next.medias = 1 .. Len(next.medias)
      /\ DOMAIN Times(next) = 1 .. Len(Times(next)) /\ Len(Times(next)) \in Nat
  BY LenProperties DEF WellFormed, Here, Times, TimesType
<1> DEFINE needs == Needs(k, fields)
           F == Freed(next)
<1>1. <<>> \in Seq(F) /\ \A b \in F : <<b>> \in Seq(F)
  OBVIOUS
<1>2. ASSUME k = "r" PROVE needs \in Seq(F)
  <2> DEFINE b == <<"r", LastTime, 0>>
             o == <<"offsets", LastTime, Len(Times(sdp)[LastTime])>>
  <2>1. b \in F
    BY <1>0, <1>2 DEF Freed
  <2>2. o \in F
    <3> DEFINE j == Len(Times(sdp)[LastTime])
    <3>1. LastTime \in DOMAIN Times(next) /\ j \in 1 .. Len(Times(next)[LastTime]) - 1
      BY <1>0, <1>2
    <3>2. QED BY <3>1, FreedHas
  <2> HIDE DEF b, o, F
  <2>3. <<b>> \in Seq(F) /\ <<o>> \in Seq(F)
    BY <2>1, <2>2
  <2>4. needs = <<b>> \o (IF Len(fields) > 2 THEN <<o>> ELSE <<>>)
    BY <1>2 DEF Needs, b, o
  <2>5. QED BY <1>1, <2>3, <2>4, ConcatProperties
<1>3. ASSUME k = "m" PROVE needs \in Seq(F)
  <2> DEFINE b == <<"m", 0, 0>>
             o == <<"fmt", Here + 1, 0>>
  <2>1. b \in F
    BY DEF Freed
  <2>2. o \in F
    <3>1. Here + 1 \in DOMAIN next.medias
      BY <1>0, <1>3
    <3>2. QED BY <3>1, FreedHas
  <2> HIDE DEF b, o, F
  <2>3. <<b>> \in Seq(F) /\ <<o>> \in Seq(F)
    BY <2>1, <2>2
  <2>4. needs = <<b>> \o (IF Len(fields) > 3 THEN <<o>> ELSE <<>>)
    BY <1>3 DEF Needs, b, o
  <2>5. QED BY <1>1, <2>3, <2>4, ConcatProperties
<1>4. ASSUME k = "z" PROVE needs \in Seq(F)
  <2> DEFINE b == <<"z", 0, 0>>
  <2>1. b \in F
    BY DEF Freed
  <2> HIDE DEF b, F
  <2>2. needs = IF fields = <<>> THEN <<>> ELSE <<b>>
    BY <1>4 DEF Needs, b
  <2>3. QED BY <1>1, <2>1, <2>2
<1>5. ASSUME k \in {"e", "p", "b", "t", "a"} PROVE needs \in Seq(F)
  <2> DEFINE b == <<k, Here, 0>>
  <2>1. b \in F
    <3>1. CASE Here = 0
      BY <1>5, <3>1 DEF Freed
    <3>2. CASE Here # 0
      <4>1. k \in {"b", "a"} /\ Here \in DOMAIN next.medias
        BY <1>0, <1>5, <3>2
      <4>2. QED BY <4>1, FreedHas
    <3>3. QED BY <3>1, <3>2
  <2> HIDE DEF b, F
  <2>2. needs = <<b>>
    BY <1>5 DEF Needs, b
  <2>3. QED BY <1>1, <2>1, <2>2
<1>6. ASSUME k \notin {"r", "m", "z", "e", "p", "b", "t", "a"} PROVE needs \in Seq(F)
  <2>1. needs = <<>>
    BY <1>6 DEF Needs
  <2>2. QED BY <1>1, <2>1
<1>7. needs \in Seq(F)
  BY <1>2, <1>3, <1>4, <1>5, <1>6
<1> HIDE DEF needs, F
<1>8. Len(needs) \in Nat /\ DOMAIN needs = 1 .. Len(needs) /\ \A i \in 1 .. Len(needs) : needs[i] \in F
  BY <1>7, LenProperties, ElementOfSeq
<1>9. QED BY <1>8 DEF needs, F

\* A line is loaded, or everything is destroyed.
LEMMA LoadStep ==
  ASSUME NEW k, NEW next, heap \subseteq Freed(sdp), Freed(sdp) \subseteq Freed(next),
         Load(k, next),
         LET needs == Needs(k, Fields(k, value))
         IN /\ Len(needs) \in Nat /\ DOMAIN needs = 1 .. Len(needs)
            /\ \A i \in DOMAIN needs : needs[i] \in Freed(next)
  PROVE  \/ /\ sdp' = next /\ heap' \subseteq Freed(next) /\ status' = status
            /\ doc' = SubSeq(doc, EntryEnd + 1, Len(doc))
         \/ sdp' = Nothing /\ heap' = {} /\ status' = "no_memory" /\ doc' = doc
<1> DEFINE needs == Needs(k, Fields(k, value))
<1> HIDE DEF needs
<1>1. /\ Len(needs) \in Nat /\ DOMAIN needs = 1 .. Len(needs)
      /\ \A i \in DOMAIN needs : needs[i] \in Freed(next)
  BY DEF needs
<1>2. CASE /\ sdp' = next /\ doc' = SubSeq(doc, EntryEnd + 1, Len(doc))
           /\ heap' = heap \cup ToSet(needs) /\ UNCHANGED status
  <2>1. ToSet(needs) \subseteq Freed(next)
    BY <1>1 DEF ToSet
  <2>2. QED BY <1>2, <2>1
<1>3. CASE \E n \in DOMAIN needs :
             /\ heap' = (heap \cup ToSet(SubSeq(needs, 1, n - 1)))
                          \ Freed(IF n = 1 THEN sdp ELSE next)
             /\ status' = "no_memory" /\ sdp' = Nothing /\ UNCHANGED doc
  <2> PICK n \in DOMAIN needs :
             /\ heap' = (heap \cup ToSet(SubSeq(needs, 1, n - 1)))
                          \ Freed(IF n = 1 THEN sdp ELSE next)
             /\ status' = "no_memory" /\ sdp' = Nothing /\ UNCHANGED doc
    BY <1>3
  <2>1. n \in Nat /\ n >= 1 /\ n <= Len(needs)
    BY <1>1
  <2> DEFINE u == SubSeq(needs, 1, n - 1)
  <2>2. /\ u \in Seq(Freed(next)) /\ (n = 1 => u = <<>>)
    <3>1. \A i \in 1 .. n - 1 : needs[i] \in Freed(next)
      BY <1>1, <2>1
    <3>2. u \in Seq(Freed(next)) /\ Len(u) = IF 1 <= n - 1 THEN (n - 1) - 1 + 1 ELSE 0
      BY <2>1, <3>1, SubSeqProperties
    <3> HIDE DEF u
    <3>3. n = 1 => Len(u) = 0
      BY <3>2
    <3>4. QED BY <3>2, <3>3, EmptySeq
  <2> HIDE DEF u
  <2>3. ToSet(u) \subseteq Freed(next) /\ (n = 1 => ToSet(u) = {})
    <3>1. DOMAIN u = 1 .. Len(u) /\ \A i \in 1 .. Len(u) : u[i] \in Freed(next)
      BY <2>2, LenProperties, ElementOfSeq
    <3>2. n = 1 => DOMAIN u = {}
      BY <2>2
    <3>3. QED BY <3>1, <3>2 DEF ToSet
  <2>4. heap' = (heap \cup ToSet(u)) \ Freed(IF n = 1 THEN sdp ELSE next)
    BY DEF u
  <2>5. heap' = {}
    BY <2>3, <2>4
  <2>6. QED BY <2>5
<1>4. QED BY <1>2, <1>3 DEF Load, needs

-------------------------------------------------------------------------------
(* The invariant of the types and of the blocks, and the lines of the order. *)

\* Wherever the parser is, what is allocated is what sdp_destroy would free; the
\* place of t= is only stood at behind a t= line, so that an r= line finds a time.
Inv ==
    /\ source \in Seq(Lines) /\ doc \in Seq(Lines) /\ Len(doc) <= Len(source)
    /\ WellFormed(sdp)
    /\ status \in {"parsing", "parsed", "rejected", "no_memory"}
    /\ open \in Nat /\ 1 <= open /\ open <= 14
    /\ status \in {"parsing", "parsed"} => heap \subseteq Freed(sdp)
    /\ status \in {"rejected", "no_memory"} => heap = {}
    /\ status = "parsing" /\ doc = source => heap = Start
    /\ status = "parsing" /\ sdp.medias = <<>> /\ open = 10 => Times(sdp) # <<>>

\* The place of t= in the order, and that every place has a letter.
LEMMA OrderPlaces ==
  /\ \A i \in 1 .. 13 : /\ SessionOrder[i] \in SessionKeys
                        /\ SessionOrder[i] = "t" <=> i = 10
                        /\ i = 9 => SessionOrder[i] = "b"
  /\ \A i \in 1 .. 5 : MediaOrder[i] \in MediaKeys
  BY DEF SessionOrder, MediaOrder, SessionKeys, MediaKeys

\* What is put behind a sequence leaves its elements.
LEMMA ConcatKeeps ==
  ASSUME NEW S, NEW a \in Seq(S), NEW b \in Seq(S)
  PROVE  /\ a \o b \in Seq(S) /\ Len(a \o b) = Len(a) + Len(b) /\ Len(a) \in Nat
         /\ \A i \in 1 .. Len(a) : (a \o b)[i] = a[i]
<1>1. Len(a) \in Nat /\ Len(b) \in Nat
  BY LenProperties
<1>2. \A i \in 1 .. Len(a) : i \in 1 .. Len(a) + Len(b) /\ i <= Len(a)
  BY <1>1
<1>3. QED BY <1>1, <1>2, ConcatProperties

\* A parse begins well.
LEMMA InitInv == Init => Inv
<1> SUFFICES ASSUME Init PROVE Inv
  OBVIOUS
<1>1. PICK d \in Documents : Begin(d)
  BY DEF Init
<1>2. d \in Seq(Lines) /\ Len(d) \in Nat
  BY DocumentsAssumption, LenProperties
<1>3. WellFormed(Nothing)
  BY NothingType
<1>4. heap = Start /\ Start \subseteq Freed(Nothing)
  BY <1>1, FreedStart DEF Begin, Start
<1>5. QED BY <1>1, <1>2, <1>3, <1>4 DEF Begin, Inv

\* A line loaded from a text that is left to be parsed.
LEMMA AfterLoad ==
  ASSUME Inv, status = "parsing", doc # <<>>, NEW k, NEW next, WellFormed(next),
         Freed(sdp) \subseteq Freed(next),
         LET needs == Needs(k, Fields(k, value))
         IN /\ Len(needs) \in Nat /\ DOMAIN needs = 1 .. Len(needs)
            /\ \A i \in DOMAIN needs : needs[i] \in Freed(next),
         Load(k, next), UNCHANGED source,
         open' \in Nat, 1 <= open', open' <= 14,
         next.medias = <<>> /\ open' = 10 => Times(next) # <<>>
  PROVE  Inv'
<1>1. doc \in Seq(Lines) /\ Len(doc) <= Len(source) /\ source \in Seq(Lines)
      /\ Len(doc) \in Nat /\ Len(source) \in Nat /\ heap \subseteq Freed(sdp)
  BY LenProperties DEF Inv
<1>2. EntryEnd \in Nat /\ 1 <= EntryEnd /\ EntryEnd <= Len(doc)
  BY <1>1, ValueType
<1>3. \/ /\ sdp' = next /\ heap' \subseteq Freed(next) /\ status' = status
         /\ doc' = SubSeq(doc, EntryEnd + 1, Len(doc))
      \/ sdp' = Nothing /\ heap' = {} /\ status' = "no_memory" /\ doc' = doc
  BY <1>1, LoadStep
<1>4. CASE /\ sdp' = next /\ heap' \subseteq Freed(next) /\ status' = status
           /\ doc' = SubSeq(doc, EntryEnd + 1, Len(doc))
  <2> DEFINE e == EntryEnd
             u == SubSeq(doc, e + 1, Len(doc))
  <2>1. u \in Seq(Lines) /\ Len(u) < Len(doc)
    <3>1. e \in Nat /\ 1 <= e /\ e <= Len(doc)
      BY <1>2
    <3> HIDE DEF e
    <3>2. \A i \in e + 1 .. Len(doc) : i \in 1 .. Len(doc)
      BY <1>1, <3>1
    <3>3. u \in Seq(Lines) /\ Len(u) = IF e + 1 <= Len(doc) THEN Len(doc) - (e + 1) + 1 ELSE 0
      BY <1>1, <3>1, <3>2, SubSeqProperties, ElementOfSeq
    <3> HIDE DEF u
    <3>4. Len(u) < Len(doc)
      BY <1>1, <3>1, <3>3
    <3>5. QED BY <3>3, <3>4
  <2>2. doc' = u
    BY <1>4
  <2> HIDE DEF u
  <2>3. doc' # source'
    BY <1>1, <2>1, <2>2
  <2>4. Len(doc') <= Len(source')
    <3>1. Len(u) \in Nat
      BY <2>1, LenProperties
    <3>2. QED BY <1>1, <2>1, <2>2, <3>1
  <2>5. QED BY <1>1, <1>4, <2>1, <2>2, <2>3, <2>4 DEF Inv
<1>5. CASE sdp' = Nothing /\ heap' = {} /\ status' = "no_memory" /\ doc' = doc
  BY <1>1, <1>5, NothingType DEF Inv
<1>6. QED BY <1>3, <1>4, <1>5

\* What a line adds.
LEMMA EntryType ==
  ASSUME doc \in Seq(Lines), doc # <<>>
  PROVE  /\ key = "t" => Entry \in TimesType /\ Len(Entry) = 1
         /\ key # "t" => Entry \in Seq(Texts)
<1> DEFINE fields == Fields(key, value)
           one == <<fields>>
<1>1. fields \in Texts
  BY ValueType, FieldsType
<1>2. Entry = IF key = "t" THEN <<one>> ELSE IF key = "z" /\ fields = <<>> THEN <<>> ELSE one
  BY DEF Entry
<1> HIDE DEF fields
<1>3. one \in Seq(Texts) /\ one # <<>> /\ <<>> \in Seq(Texts)
  BY <1>1
<1> HIDE DEF one
<1>4. <<one>> \in Seq(Seq(Texts) \ {<<>>}) /\ Len(<<one>>) = 1
  BY <1>3
<1>5. QED BY <1>2, <1>3, <1>4 DEF TimesType

\* A line of the session joins the lines of its key.
LEMMA FieldInSession ==
  ASSUME Inv, doc # <<>>, sdp.medias = <<>>, key \in SessionKeys
  PROVE  LET next == Placed(Entry)
             v == sdp.fields[key] \o Entry
         IN /\ WellFormed(next)
            /\ next.fields = [sdp.fields EXCEPT ![key] = v] /\ next.medias = sdp.medias
            /\ key = "t" => /\ v \in TimesType /\ Len(v) = Len(Times(sdp)) + 1
                            /\ Len(Times(sdp)) \in Nat
                            /\ \A j \in 1 .. Len(Times(sdp)) : v[j] = Times(sdp)[j]
            /\ Times(next) = IF key = "t" THEN v ELSE Times(sdp)
<1> DEFINE next == Placed(Entry)
           v == sdp.fields[key] \o Entry
<1>1. WellFormed(sdp)
  BY DEF Inv
<1>2. /\ key = "t" => Entry \in TimesType /\ Len(Entry) = 1
      /\ key # "t" => Entry \in Seq(Texts)
  BY EntryType DEF Inv
<1>3. /\ key = "t" => /\ v \in TimesType /\ Len(v) = Len(Times(sdp)) + 1
                      /\ Len(Times(sdp)) \in Nat
                      /\ \A j \in 1 .. Len(Times(sdp)) : v[j] = Times(sdp)[j]
      /\ key # "t" => v \in Seq(Texts)
  <2>1. CASE key = "t"
    <3>1. Times(sdp) \in TimesType /\ v = Times(sdp) \o Entry
      BY <1>1, <2>1 DEF WellFormed, Times
    <3> DEFINE ts == Times(sdp)
               T == Seq(Texts) \ {<<>>}
    <3>2. ts \in Seq(T) /\ Entry \in Seq(T) /\ Len(Entry) = 1 /\ v = ts \o Entry
      BY <1>2, <2>1, <3>1 DEF TimesType
    <3> HIDE DEF v, ts, T
    <3>3. /\ ts \o Entry \in Seq(T)
          /\ Len(ts \o Entry) = Len(ts) + Len(Entry)
          /\ Len(ts) \in Nat
      BY <3>2, ConcatKeeps
    <3>4. \A j \in 1 .. Len(ts) : (ts \o Entry)[j] = ts[j]
      BY <3>2, ConcatKeeps
    <3>5. /\ v \in Seq(T) /\ Len(v) = Len(ts) + 1 /\ Len(ts) \in Nat
          /\ \A j \in 1 .. Len(ts) : v[j] = ts[j]
      BY <3>2, <3>3, <3>4
    <3>6. QED BY <2>1, <3>5 DEF TimesType, ts, T
  <2>2. CASE key # "t"
    <3>1. sdp.fields[key] \in Seq(Texts)
      BY <1>1, <2>2 DEF WellFormed
    <3>2. QED BY <1>2, <2>2, <3>1, ConcatProperties
  <2>3. QED BY <2>1, <2>2
<1>4. next = [sdp EXCEPT !.fields[key] = v]
  BY DEF Placed
<1> HIDE DEF v, next
<1>5. WellFormed(next) /\ next.fields = [sdp.fields EXCEPT ![key] = v] /\ next.medias = sdp.medias
  <2> DEFINE n == [sdp EXCEPT !.fields[key] = v]
  <2>1. WellFormed(n) /\ n.fields = [sdp.fields EXCEPT ![key] = v] /\ n.medias = sdp.medias
    <3>1. /\ WellFormed(sdp) /\ key \in SessionKeys
          /\ key = "t" => v \in TimesType
          /\ key # "t" => v \in Seq(Texts)
      BY <1>1, <1>3
    <3>2. PICK q : q = key
      OBVIOUS
    <3>3. PICK r : r = sdp
      OBVIOUS
    <3>4. QED BY <3>1, <3>2, <3>3, PutSession
  <2>2. n = next
    BY <1>4
  <2> HIDE DEF n
  <2>3. QED BY <2>1, <2>2
<1>6. Times(next) = IF key = "t" THEN v ELSE Times(sdp)
  BY <1>1, <1>5 DEF Times, WellFormed, SessionKeys
<1>7. QED BY <1>3, <1>5, <1>6 DEF v, next

\* A line of a stream joins the lines of its key in the last stream.
LEMMA FieldInStream ==
  ASSUME Inv, doc # <<>>, sdp.medias # <<>>, key \in MediaKeys
  PROVE  LET next == Placed(Entry)
             v == sdp.medias[Here].fields[key] \o Entry
         IN /\ Here \in 1 .. Len(sdp.medias) /\ Here = Len(sdp.medias)
            /\ WellFormed(next) /\ next.fields = sdp.fields
            /\ next.medias = [sdp.medias EXCEPT ![Here].fields[key] = v]
            /\ Len(next.medias) = Len(sdp.medias)
            /\ sdp.medias[Here] \in Streams
            /\ Entry \in Seq(Texts) /\ sdp.medias[Here].fields[key] \in Seq(Texts)
<1> DEFINE next == Placed(Entry)
           v == sdp.medias[Here].fields[key] \o Entry
<1>1. WellFormed(sdp)
  BY DEF Inv
<1>2. Entry \in Seq(Texts)
  BY EntryType DEF Inv, MediaKeys
<1>3. Here \in 1 .. Len(sdp.medias) /\ Here = Len(sdp.medias)
  BY <1>1, LenProperties, EmptySeq DEF WellFormed, Here
<1>4. /\ sdp.medias[Here] \in Streams /\ sdp.medias[Here].fields[key] \in Seq(Texts)
      /\ v \in Seq(Texts)
  <2>1. sdp.medias[Here] \in Streams
    BY <1>1, <1>3, ElementOfSeq DEF WellFormed
  <2>2. sdp.medias[Here].fields[key] \in Seq(Texts)
    BY <2>1 DEF Streams
  <2>3. QED BY <1>2, <2>1, <2>2, ConcatProperties
<1>5. next = [sdp EXCEPT !.medias[Here].fields[key] = v]
  BY DEF Placed
<1> HIDE DEF v, next
<1>6. /\ WellFormed(next) /\ next.fields = sdp.fields
      /\ next.medias = [sdp.medias EXCEPT ![Here].fields[key] = v]
      /\ Len(next.medias) = Len(sdp.medias)
  BY <1>1, <1>3, <1>4, <1>5, PutMedia, SMTT(60)
<1>7. QED BY <1>2, <1>3, <1>4, <1>6 DEF v, next

\* A line of the order keeps the invariant.
LEMMA ReadFieldStep ==
  ASSUME Inv, ReadField
  PROVE  Inv'
<1> DEFINE next == Placed(Entry)
<1>1. /\ status = "parsing" /\ doc # <<>> /\ UNCHANGED source
      /\ Load(key, next)
  BY Zenon DEF ReadField
<1>2. PICK i \in Reached(key) : open' = IF key \in Single THEN i + 1 ELSE i
  BY DEF ReadField
<1>3. WellFormed(sdp)
  BY DEF Inv
<1>4. /\ Len(Times(sdp)) \in Nat /\ Len(sdp.medias) \in Nat
      /\ \A j \in 1 .. Len(Times(sdp)) : Len(Times(sdp)[j]) \in Nat
  BY <1>3, LenProperties, ElementOfSeq DEF WellFormed, Times, TimesType
<1>6. CASE sdp.medias = <<>>
  <2>1. i \in 1 .. 13 /\ SessionOrder[i] = key
    BY <1>2, <1>6, KeysOfOrders DEF Reached, Order
  <2>2. key \in SessionKeys /\ (key = "t" <=> i = 10) /\ (i = 9 => key = "b")
    BY <2>1, OrderPlaces
  <2> DEFINE v == sdp.fields[key] \o Entry
  <2>3. /\ WellFormed(next) /\ next.medias = sdp.medias
        /\ key = "t" => /\ Len(v) = Len(Times(sdp)) + 1
                        /\ \A j \in 1 .. Len(Times(sdp)) : v[j] = Times(sdp)[j]
        /\ Times(next) = IF key = "t" THEN v ELSE Times(sdp)
    BY <1>1, <1>6, <2>2, FieldInSession
  <2> HIDE DEF v, next
  <2>7. Freed(sdp) \subseteq Freed(next)
    <3>2. /\ Len(Times(sdp)) <= Len(Times(next)) /\ Len(sdp.medias) <= Len(next.medias)
          /\ \A j \in 1 .. Len(Times(sdp)) : Len(Times(sdp)[j]) <= Len(Times(next)[j])
      BY <1>4, <2>3
    <3>3. QED BY <1>3, <2>3, <3>2, FreedGrows
  <2>8. LET needs == Needs(key, Fields(key, value))
        IN /\ Len(needs) \in Nat /\ DOMAIN needs = 1 .. Len(needs)
           /\ \A j \in DOMAIN needs : needs[j] \in Freed(next)
    <3>1. key # "r" /\ key # "m" /\ Here = 0 /\ Len(next.medias) = 0
      BY <1>6, <2>2, <2>3 DEF SessionKeys, Here
    <3>2. QED BY <1>3, <2>3, <3>1, NeedsFreed
  <2>9. open' \in Nat /\ 1 <= open' /\ open' <= 14 /\ (open' = 10 => key = "t")
    BY <1>2, <2>1, <2>2 DEF Single
  <2>10. open' = 10 => Times(next) # <<>>
    BY <1>4, <2>3, <2>9
  <2>11. QED BY <1>1, <2>3, <2>7, <2>8, <2>9, <2>10, AfterLoad
<1>7. CASE sdp.medias # <<>>
  <2>1. i \in 1 .. 5 /\ MediaOrder[i] = key
    BY <1>2, <1>7, KeysOfOrders DEF Reached, Order
  <2>2. key \in MediaKeys /\ key # "t" /\ key # "r" /\ key # "m" /\ key \notin {"e", "p"}
    BY <2>1, OrderPlaces DEF MediaKeys
  <2>3. /\ Here \in 1 .. Len(sdp.medias)
        /\ WellFormed(next) /\ next.fields = sdp.fields
        /\ Len(next.medias) = Len(sdp.medias)
    BY <1>1, <1>7, <2>2, FieldInStream
  <2> HIDE DEF next
  <2>7. Freed(sdp) \subseteq Freed(next)
    <3>1. Times(next) = Times(sdp)
      BY <2>3 DEF Times
    <3>2. QED BY <1>3, <1>4, <2>3, <3>1, FreedGrows
  <2>8. LET needs == Needs(key, Fields(key, value))
        IN /\ Len(needs) \in Nat /\ DOMAIN needs = 1 .. Len(needs)
           /\ \A j \in DOMAIN needs : needs[j] \in Freed(next)
    <3>1. Here <= Len(next.medias)
      BY <1>4, <2>3
    <3>2. key \notin {"e", "p", "t"}
      BY <2>2
    <3>3. QED BY <1>3, <2>2, <2>3, <3>1, <3>2, NeedsFreed
  <2>9. open' \in Nat /\ 1 <= open' /\ open' <= 14
    BY <1>2, <2>1
  <2>10. next.medias # <<>>
    BY <1>4, <2>3
  <2>11. QED BY <1>1, <2>3, <2>7, <2>8, <2>9, <2>10, AfterLoad
<1>8. QED BY <1>6, <1>7

-------------------------------------------------------------------------------
(* Repeats, streams and what sdp_format writes; types and blocks. *)

\* A repeat joins the last time, which is there.
LEMMA RepeatInTime ==
  ASSUME Inv, ReadRepeat
  PROVE  LET ts   == Times(sdp)
             more == Append(ts[LastTime], Fields("r", value))
             v    == [ts EXCEPT ![LastTime] = more]
             next == [sdp EXCEPT !.fields["t"][LastTime] = Append(@, Fields("r", value))]
         IN /\ status = "parsing" /\ key = "r" /\ doc # <<>> /\ UNCHANGED <<source, open>>
            /\ Load("r", next) /\ Fields("r", value) \in Texts
            /\ sdp.medias = <<>> /\ open = 10
            /\ ts \in TimesType /\ ts # <<>> /\ Len(ts) \in Nat
            /\ \A j \in 1 .. Len(ts) : ts[j] \in Seq(Texts) \ {<<>>}
            /\ LastTime = Len(ts) /\ LastTime \in 1 .. Len(ts)
            /\ Len(ts[LastTime]) \in Nat /\ Len(ts[LastTime]) >= 1
            /\ v \in TimesType /\ Len(v) = Len(ts)
            /\ v[LastTime] = more /\ Len(more) = Len(ts[LastTime]) + 1
            /\ \A j \in 1 .. Len(ts) : j # LastTime => v[j] = ts[j]
            /\ WellFormed(next) /\ next.fields = [sdp.fields EXCEPT !["t"] = v]
            /\ next.medias = sdp.medias /\ Times(next) = v
<1> DEFINE ts == Times(sdp)
           one == ts[LastTime]
           fields == Fields("r", value)
           more == Append(one, fields)
           v == [ts EXCEPT ![LastTime] = more]
           next == [sdp EXCEPT !.fields["t"][LastTime] = Append(@, fields)]
<1>1. /\ status = "parsing" /\ key = "r" /\ UNCHANGED <<source, open>>
      /\ Load("r", next)
  BY Zenon DEF ReadRepeat
<1>2. doc # <<>>
  BY <1>1 DEF key
<1>3. value \in Values /\ WellFormed(sdp)
  BY <1>1, <1>2, ValueType DEF Inv
<1>4. fields \in Texts
  BY <1>3, FieldsType
<1> HIDE DEF fields
<1>5. /\ sdp.medias = <<>> /\ open = 10 /\ ts # <<>>
  <2>1. RepeatReached
    BY DEF ReadRepeat
  <2>2. sdp.medias = <<>> /\ open <= 13 /\ SessionOrder[open] = "t"
    BY <2>1, KeysOfOrders DEF RepeatReached, Order
  <2>3. open \in 1 .. 13
    BY <2>2 DEF Inv
  <2>4. open = 10
    BY <2>2, <2>3, OrderPlaces
  <2>5. QED BY <1>1, <2>2, <2>4 DEF Inv
<1>6. /\ ts \in TimesType /\ Len(ts) \in Nat /\ DOMAIN ts = 1 .. Len(ts)
      /\ \A j \in 1 .. Len(ts) : ts[j] \in Seq(Texts) \ {<<>>}
  <2>1. ts \in TimesType
    BY <1>3 DEF WellFormed, Times
  <2> HIDE DEF ts
  <2>2. QED BY <2>1, LenProperties, ElementOfSeq DEF TimesType
<1>7. LastTime = Len(ts) /\ LastTime \in 1 .. Len(ts)
  <2>1. LastTime = Len(ts)
    BY DEF LastTime
  <2> HIDE DEF ts
  <2>2. Len(ts) # 0
    BY <1>5, <1>6, EmptySeq DEF TimesType
  <2>3. QED BY <1>6, <2>1, <2>2
<1>8. /\ one \in Seq(Texts) /\ Len(one) \in Nat /\ Len(one) >= 1
      /\ more \in Seq(Texts) \ {<<>>} /\ Len(more) = Len(one) + 1
  <2>1. one \in Seq(Texts) /\ one # <<>>
    BY <1>6, <1>7
  <2> HIDE DEF one
  <2>2. Len(one) \in Nat /\ Len(one) >= 1
    BY <2>1, LenProperties, EmptySeq
  <2>3. more \in Seq(Texts) /\ Len(more) = Len(one) + 1
    BY <1>4, <2>1, AppendProperties
  <2>4. more # <<>>
    BY <2>2, <2>3
  <2>5. QED BY <2>1, <2>2, <2>3, <2>4
<1> HIDE DEF more
<1>9. /\ v \in TimesType /\ Len(v) = Len(ts) /\ v[LastTime] = more
      /\ \A j \in 1 .. Len(ts) : j # LastTime => v[j] = ts[j]
  <2> HIDE DEF ts
  <2> DEFINE T == Seq(Texts) \ {<<>>}
             l == LastTime
  <2>1. ts \in Seq(T) /\ more \in T /\ l \in 1 .. Len(ts)
    BY <1>6, <1>7, <1>8 DEF TimesType
  <2> HIDE DEF T, l
  <2>2. [ts EXCEPT ![l] = more] \in Seq(T) /\ Len([ts EXCEPT ![l] = more]) = Len(ts)
    BY <2>1, ExceptSeq
  <2>3. [ts EXCEPT ![l] = more][l] = more
        /\ \A j \in 1 .. Len(ts) : j # l => [ts EXCEPT ![l] = more][j] = ts[j]
    BY <1>6, <2>1
  <2>4. QED BY <2>2, <2>3 DEF T, l, TimesType
<1>10. next = [sdp EXCEPT !.fields["t"] = v]
  BY DEF more, Times
<1> HIDE DEF v, next
<1>11. WellFormed(next) /\ next.fields = [sdp.fields EXCEPT !["t"] = v] /\ next.medias = sdp.medias
  <2> DEFINE n == [sdp EXCEPT !.fields["t"] = v]
  <2>1. "t" \in SessionKeys
    BY DEF SessionKeys
  <2>2. WellFormed(n) /\ n.fields = [sdp.fields EXCEPT !["t"] = v] /\ n.medias = sdp.medias
    BY <1>3, <1>9, <2>1, PutSession
  <2>3. n = next
    BY <1>10
  <2> HIDE DEF n
  <2>4. QED BY <2>2, <2>3
<1>12. Times(next) = v
  BY <1>3, <1>11 DEF Times, WellFormed, SessionKeys
<1>13. QED
  BY <1>1, <1>2, <1>4, <1>5, <1>6, <1>7, <1>8, <1>9, <1>11, <1>12 DEF fields, more, v, next

\* So does an r= line,
LEMMA ReadRepeatStep ==
  ASSUME Inv, ReadRepeat
  PROVE  Inv'
<1> DEFINE ts == Times(sdp)
           more == Append(ts[LastTime], Fields("r", value))
           v == [ts EXCEPT ![LastTime] = more]
           next == [sdp EXCEPT !.fields["t"][LastTime] = Append(@, Fields("r", value))]
<1>1. /\ status = "parsing" /\ key = "r" /\ doc # <<>> /\ UNCHANGED <<source, open>>
      /\ Load("r", next)
      /\ sdp.medias = <<>> /\ open = 10
      /\ ts \in TimesType /\ ts # <<>> /\ Len(ts) \in Nat
      /\ \A j \in 1 .. Len(ts) : ts[j] \in Seq(Texts) \ {<<>>}
      /\ LastTime = Len(ts) /\ LastTime \in 1 .. Len(ts)
      /\ Len(ts[LastTime]) \in Nat /\ Len(ts[LastTime]) >= 1
      /\ v \in TimesType /\ Len(v) = Len(ts)
      /\ v[LastTime] = more /\ Len(more) = Len(ts[LastTime]) + 1
      /\ \A j \in 1 .. Len(ts) : j # LastTime => v[j] = ts[j]
      /\ WellFormed(next) /\ next.medias = sdp.medias /\ Times(next) = v
  BY RepeatInTime
<1>2. WellFormed(sdp)
  BY DEF Inv
<1> HIDE DEF more, v, next
<1>3. Freed(sdp) \subseteq Freed(next)
  <2>1. Len(Times(sdp)) <= Len(Times(next)) /\ Len(sdp.medias) <= Len(next.medias)
    <3>1. Len(sdp.medias) \in Nat
      BY <1>2, LenProperties DEF WellFormed
    <3>2. QED BY <1>1, <3>1
  <2>2. \A j \in 1 .. Len(Times(sdp)) : Len(Times(sdp)[j]) <= Len(Times(next)[j])
    <3> SUFFICES ASSUME NEW j \in 1 .. Len(ts) PROVE Len(ts[j]) <= Len(v[j])
      BY <1>1
    <3>1. CASE j = LastTime
      BY <1>1, <3>1
    <3>2. CASE j # LastTime
      <4>1. Len(ts[j]) \in Nat
        BY <1>1, LenProperties
      <4>2. v[j] = ts[j]
        BY <1>1, <3>2
      <4>3. QED BY <4>1, <4>2
    <3>3. QED BY <3>1, <3>2
  <2>3. QED BY <1>2, <1>1, <2>1, <2>2, FreedGrows
<1>4. LET needs == Needs("r", Fields("r", value))
       IN /\ Len(needs) \in Nat /\ DOMAIN needs = 1 .. Len(needs)
          /\ \A j \in DOMAIN needs : needs[j] \in Freed(next)
  <2>1. /\ LastTime \in 1 .. Len(Times(next)) /\ Len(Times(sdp)[LastTime]) \in Nat
        /\ Len(Times(sdp)[LastTime]) >= 1
        /\ Len(Times(next)[LastTime]) = Len(Times(sdp)[LastTime]) + 1
    BY <1>1
  <2>2. QED BY <1>2, <1>1, <2>1, NeedsFreed
<1>5. open' = 10 /\ Times(next) # <<>>
  <2> HIDE DEF ts
  <2>1. ts # <<>> /\ Len(v) = Len(ts) /\ ts \in TimesType
    BY <1>1
  <2>2. Len(v) # 0
    BY <2>1, EmptySeq DEF TimesType
  <2>3. QED BY <1>1, <2>2
<1>6. Load("r", next)
  BY <1>1
<1>7. QED BY <1>1, <1>2, <1>3, <1>4, <1>5, <1>6, AfterLoad

\* A stream begins with nothing but its m= line.
LEMMA StreamAdded ==
  ASSUME Inv, ReadMedia
  PROVE  LET x    == [info |-> Fields("m", value), fields |-> NoFields]
             next == [sdp EXCEPT !.medias = Append(@, x)]
         IN /\ status = "parsing" /\ key = "m" /\ doc # <<>> /\ UNCHANGED source /\ open' = 1
            /\ Load("m", next) /\ WellFormed(sdp)
            /\ x \in Streams
            /\ WellFormed(next) /\ next.fields = sdp.fields
            /\ next.medias = Append(sdp.medias, x)
            /\ Len(sdp.medias) \in Nat /\ Len(next.medias) = Len(sdp.medias) + 1
            /\ Len(next.medias) = Here + 1 /\ next.medias # <<>>
<1> DEFINE info == Fields("m", value)
           x == [info |-> info, fields |-> NoFields]
           next == [sdp EXCEPT !.medias = Append(@, x)]
<1>1. /\ status = "parsing" /\ key = "m" /\ UNCHANGED source /\ open' = 1
      /\ Load("m", next)
  BY Zenon DEF ReadMedia
<1>2. doc # <<>>
  BY <1>1 DEF key
<1>3. value \in Values /\ WellFormed(sdp)
  BY <1>1, <1>2, ValueType DEF Inv
<1>4. info \in Texts /\ Len(info) >= 3
  BY <1>3, FieldsType
<1> HIDE DEF info
<1>5. NoFields \in [MediaKeys -> Seq(Texts)]
  <2>1. <<>> \in Seq(Texts)
    OBVIOUS
  <2>2. QED BY <2>1, KeysOfOrders DEF NoFields
<1>6. x \in Streams
  BY <1>4, <1>5 DEF Streams
<1> HIDE DEF x
<1>7. /\ WellFormed(next) /\ next.fields = sdp.fields
      /\ next.medias = Append(sdp.medias, x)
      /\ Len(next.medias) = Len(sdp.medias) + 1
  BY <1>3, <1>6, AddMedia
<1> HIDE DEF next
<1>8. Len(sdp.medias) \in Nat /\ Len(next.medias) = Here + 1 /\ next.medias # <<>>
  <2>1. Len(sdp.medias) \in Nat
    BY <1>3, LenProperties DEF WellFormed
  <2>2. next.medias # <<>>
    BY <1>7, <2>1
  <2>3. QED BY <1>7, <2>1, <2>2 DEF Here
<1>9. QED BY <1>1, <1>2, <1>3, <1>6, <1>7, <1>8 DEF info, x, next

\* and an m= line.
LEMMA ReadMediaStep ==
  ASSUME Inv, ReadMedia
  PROVE  Inv'
<1> DEFINE x == [info |-> Fields("m", value), fields |-> NoFields]
           next == [sdp EXCEPT !.medias = Append(@, x)]
<1>1. /\ status = "parsing" /\ doc # <<>> /\ UNCHANGED source /\ open' = 1
      /\ Load("m", next) /\ WellFormed(sdp)
      /\ WellFormed(next) /\ next.fields = sdp.fields
      /\ Len(sdp.medias) \in Nat /\ Len(next.medias) = Len(sdp.medias) + 1
      /\ Len(next.medias) = Here + 1 /\ next.medias # <<>>
  BY StreamAdded
<1> HIDE DEF x, next
<1>2. Freed(sdp) \subseteq Freed(next)
  <2>1. Times(next) = Times(sdp) /\ Times(sdp) \in TimesType
    BY <1>1 DEF Times, WellFormed
  <2>2. Len(Times(sdp)) \in Nat /\ \A j \in 1 .. Len(Times(sdp)) : Len(Times(sdp)[j]) \in Nat
    BY <2>1, LenProperties, ElementOfSeq DEF TimesType
  <2>3. QED BY <1>1, <2>1, <2>2, FreedGrows
<1>3. LET needs == Needs("m", Fields("m", value))
       IN /\ Len(needs) \in Nat /\ DOMAIN needs = 1 .. Len(needs)
          /\ \A j \in DOMAIN needs : needs[j] \in Freed(next)
  BY <1>1, NeedsFreed
<1>4. QED BY <1>1, <1>2, <1>3, AfterLoad

\* A line is written from the fields that are not empty.
LEMMA JoinedType ==
  ASSUME NEW fields \in Texts
  PROVE  Joined(fields) \in Values
<1> DEFINE T == Seq(Int) \ {<<>>}
           parts == [n \in DOMAIN fields |->
                       IF fields[n] = <<>> THEN <<>> ELSE <<fields[n]>>]
<1>1. Len(fields) \in Nat /\ DOMAIN fields = 1 .. Len(fields)
  BY LenProperties DEF Texts
<1>2. \A n \in 1 .. Len(fields) : fields[n] \in Seq(Int)
  BY <1>1, ElementOfSeq DEF Texts
<1>3. parts \in Seq(Seq(T))
  <2>1. \A n \in 1 .. Len(fields) :
          (IF fields[n] = <<>> THEN <<>> ELSE <<fields[n]>>) \in Seq(T)
    <3>1. \A f \in T : <<f>> \in Seq(T)
      OBVIOUS
    <3>2. \A n \in 1 .. Len(fields) : fields[n] = <<>> \/ fields[n] \in T
      BY <1>2
    <3>3. <<>> \in Seq(T)
      OBVIOUS
    <3> HIDE DEF T
    <3>4. QED BY <3>1, <3>2, <3>3
  <2>2. QED BY <1>1, <2>1
<1> HIDE DEF parts, T
<1>4. FlattenSeq(parts) \in Seq(T)
  BY <1>3, FlattenType
<1>5. QED BY <1>4 DEF Joined, Values, parts, T

\* What is written is a line.
LEMMA LineType ==
  ASSUME NEW k \in Letters, NEW fields \in Texts
  PROVE  Line(k, fields) \in Lines
BY JoinedType DEF Line, Lines

\* The letters of the orders are letters a line may have.
LEMMA LettersOfOrders == SessionKeys \cup MediaKeys \cup {"r", "m"} \subseteq Letters
  BY DocumentsAssumption, KeysOfOrders DEF SessionKeys, MediaKeys

\* A section is written line by line.
LEMMA LinesType ==
  ASSUME NEW k \in Letters, NEW entries \in Seq(Texts)
  PROVE  [n \in DOMAIN entries |-> Line(k, entries[n])] \in Seq(Lines)
<1>1. Len(entries) \in Nat /\ DOMAIN entries = 1 .. Len(entries)
  BY LenProperties
<1>2. \A n \in 1 .. Len(entries) : Line(k, entries[n]) \in Lines
  BY ElementOfSeq, LineType
<1>3. QED BY <1>1, <1>2

\* A section of either kind is written as lines.
LEMMA WrittenType ==
  ASSUME NEW k \in SessionKeys, NEW entries,
         k = "t" => entries \in TimesType, k # "t" => entries \in Seq(Texts)
  PROVE  Written(k, entries) \in Seq(Lines)
<1>1. k \in Letters /\ "t" \in Letters /\ "r" \in Letters
  BY LettersOfOrders DEF SessionKeys
<1>2. CASE k # "t"
  BY <1>1, <1>2, LinesType DEF Written
<1>3. CASE k = "t"
  <2> DEFINE Repeats(n) == [j \in DOMAIN entries[n] |-> Line(IF j = 1 THEN "t" ELSE "r", entries[n][j])]
             parts == [n \in DOMAIN entries |-> Repeats(n)]
  <2>1. Len(entries) \in Nat /\ DOMAIN entries = 1 .. Len(entries)
    BY <1>3, LenProperties DEF TimesType
  <2>2. ASSUME NEW n \in 1 .. Len(entries) PROVE Repeats(n) \in Seq(Lines)
    <3> DEFINE e == entries[n]
    <3>1. e \in Seq(Texts)
      BY <1>3, ElementOfSeq DEF TimesType
    <3> HIDE DEF e
    <3>2. Len(e) \in Nat /\ DOMAIN e = 1 .. Len(e)
      BY <3>1, LenProperties
    <3>3. \A j \in 1 .. Len(e) : Line(IF j = 1 THEN "t" ELSE "r", e[j]) \in Lines
      BY <1>1, <3>1, ElementOfSeq, LineType
    <3>4. [j \in DOMAIN e |-> Line(IF j = 1 THEN "t" ELSE "r", e[j])] \in Seq(Lines)
      BY <3>2, <3>3
    <3>5. QED BY <3>4 DEF e
  <2> HIDE DEF Repeats
  <2>3. parts \in Seq(Seq(Lines))
    BY <2>1, <2>2
  <2> HIDE DEF parts
  <2>4. FlattenSeq(parts) \in Seq(Lines)
    BY <2>3, FlattenType
  <2>5. QED BY <1>3, <2>4 DEF Written, parts, Repeats
<1>4. QED BY <1>2, <1>3

\* The lines of a description or of a stream, section by section.
Sections(order, fields) ==
    [i \in DOMAIN order |-> Written(order[i], fields[order[i]])]

\* The session is written section by section,
LEMMA SessionParts ==
  ASSUME NEW s, WellFormed(s)
  PROVE  LET parts == Sections(SessionOrder, s.fields)
         IN /\ InOrder(SessionOrder, s.fields) = FlattenSeq(parts)
            /\ parts \in Seq(Seq(Lines)) /\ Len(parts) = 13
            /\ \A i \in 1 .. 13 :
                 parts[i] = Written(SessionOrder[i], s.fields[SessionOrder[i]])
<1> DEFINE parts == [i \in 1 .. 13 |-> Written(SessionOrder[i], s.fields[SessionOrder[i]])]
<1>1. ASSUME NEW i \in 1 .. 13
      PROVE  Written(SessionOrder[i], s.fields[SessionOrder[i]]) \in Seq(Lines)
  <2> DEFINE k == SessionOrder[i]
             f == s.fields[k]
  <2>1. k \in SessionKeys
    BY OrderPlaces
  <2> HIDE DEF k
  <2>2. /\ k = "t" => f \in TimesType
        /\ k # "t" => f \in Seq(Texts)
    BY <2>1 DEF WellFormed
  <2> HIDE DEF f
  <2>3. Written(k, f) \in Seq(Lines)
    BY <2>1, <2>2, WrittenType
  <2>4. QED BY <2>3 DEF k, f
<1>2. parts \in Seq(Seq(Lines)) /\ Len(parts) = 13
  BY <1>1
<1>3. InOrder(SessionOrder, s.fields) = FlattenSeq(parts) /\ Sections(SessionOrder, s.fields) = parts
  BY KeysOfOrders DEF InOrder, Sections
<1>4. \A i \in 1 .. 13 : parts[i] = Written(SessionOrder[i], s.fields[SessionOrder[i]])
  OBVIOUS
<1> HIDE DEF parts
<1>5. QED BY <1>2, <1>3, <1>4

\* as lines.
LEMMA SessionType ==
  ASSUME NEW s, WellFormed(s)
  PROVE  InOrder(SessionOrder, s.fields) \in Seq(Lines)
BY SessionParts, FlattenType

\* A stream is written section by section,
LEMMA StreamParts ==
  ASSUME NEW m \in Streams
  PROVE  LET parts == Sections(MediaOrder, m.fields)
         IN /\ InOrder(MediaOrder, m.fields) = FlattenSeq(parts)
            /\ parts \in Seq(Seq(Lines)) /\ Len(parts) = 5
            /\ \A i \in 1 .. 5 : parts[i] = Written(MediaOrder[i], m.fields[MediaOrder[i]])
<1> DEFINE parts == [i \in 1 .. 5 |-> Written(MediaOrder[i], m.fields[MediaOrder[i]])]
<1>1. ASSUME NEW i \in 1 .. 5
      PROVE  Written(MediaOrder[i], m.fields[MediaOrder[i]]) \in Seq(Lines)
  <2> DEFINE k == MediaOrder[i]
             f == m.fields[k]
  <2>1. k \in MediaKeys
    BY OrderPlaces
  <2> HIDE DEF k
  <2>2. f \in Seq(Texts)
    BY <2>1 DEF Streams
  <2>3. k \in SessionKeys /\ k # "t"
    BY <2>1 DEF MediaKeys, SessionKeys
  <2> HIDE DEF f
  <2>4. Written(k, f) \in Seq(Lines)
    BY <2>2, <2>3, WrittenType
  <2>5. QED BY <2>4 DEF k, f
<1>2. parts \in Seq(Seq(Lines)) /\ Len(parts) = 5
  BY <1>1
<1>3. InOrder(MediaOrder, m.fields) = FlattenSeq(parts) /\ Sections(MediaOrder, m.fields) = parts
  BY KeysOfOrders DEF InOrder, Sections
<1>4. \A i \in 1 .. 5 : parts[i] = Written(MediaOrder[i], m.fields[MediaOrder[i]])
  OBVIOUS
<1> HIDE DEF parts
<1>5. QED BY <1>2, <1>3, <1>4

\* The lines of a stream.
StreamText(m) == <<Line("m", m.info)>> \o InOrder(MediaOrder, m.fields)

\* as lines behind its m= line.
LEMMA StreamType ==
  ASSUME NEW m \in Streams
  PROVE  /\ StreamText(m) \in Seq(Lines)
         /\ <<Line("m", m.info)>> \in Seq(Lines) /\ InOrder(MediaOrder, m.fields) \in Seq(Lines)
<1> DEFINE head == Line("m", m.info)
           tail == InOrder(MediaOrder, m.fields)
<1>4. tail \in Seq(Lines)
  BY StreamParts, FlattenType
<1>5. head \in Lines
  BY LineType, LettersOfOrders DEF Streams
<1> HIDE DEF head, tail
<1>6. <<head>> \in Seq(Lines)
  BY <1>5
<1>7. <<head>> \o tail \in Seq(Lines)
  BY <1>4, <1>6, ConcatProperties
<1>8. QED BY <1>4, <1>6, <1>7 DEF head, tail, StreamText

\* The lines of every stream.
StreamTexts(ms) == [i \in DOMAIN ms |-> StreamText(ms[i])]

\* A description is the session followed by its streams.
LEMMA FormatParts ==
  ASSUME NEW s, WellFormed(s)
  PROVE  /\ s.medias \in Seq(Streams) /\ Len(s.medias) \in Nat
         /\ StreamTexts(s.medias) \in Seq(Seq(Lines)) /\ Len(StreamTexts(s.medias)) = Len(s.medias)
         /\ \A i \in 1 .. Len(s.medias) : StreamTexts(s.medias)[i] = StreamText(s.medias[i])
         /\ InOrder(SessionOrder, s.fields) \in Seq(Lines)
         /\ FlattenSeq(StreamTexts(s.medias)) \in Seq(Lines)
         /\ Format(s) = InOrder(SessionOrder, s.fields) \o FlattenSeq(StreamTexts(s.medias))
<1> DEFINE parts == StreamTexts(s.medias)
           head == InOrder(SessionOrder, s.fields)
           tail == FlattenSeq(parts)
<1>1. s.medias \in Seq(Streams) /\ Len(s.medias) \in Nat /\ DOMAIN s.medias = 1 .. Len(s.medias)
  BY LenProperties DEF WellFormed
<1>2. \A i \in 1 .. Len(s.medias) : StreamText(s.medias[i]) \in Seq(Lines)
  BY <1>1, ElementOfSeq, StreamType
<1>3. /\ parts \in Seq(Seq(Lines)) /\ Len(parts) = Len(s.medias)
      /\ \A i \in 1 .. Len(s.medias) : parts[i] = StreamText(s.medias[i])
  BY <1>1, <1>2 DEF StreamTexts
<1>5. Format(s) = head \o tail
  BY DEF Format, StreamText, StreamTexts
<1> HIDE DEF parts
<1>4. head \in Seq(Lines) /\ tail \in Seq(Lines)
  BY <1>3, SessionType, FlattenType
<1>6. QED BY <1>1, <1>3, <1>4, <1>5 DEF parts

\* What sdp_format writes are lines.
LEMMA FormatType ==
  ASSUME NEW s, WellFormed(s)
  PROVE  Format(s) \in Seq(Lines)
<1> DEFINE head == InOrder(SessionOrder, s.fields)
           tail == FlattenSeq(StreamTexts(s.medias))
<1>1. head \in Seq(Lines) /\ tail \in Seq(Lines) /\ Format(s) = head \o tail
  BY FormatParts
<1> HIDE DEF head, tail
<1>2. QED BY <1>1, ConcatProperties

\* A second parse begins as the first did, with nothing left of the first.
LEMMA ParseAgainStep ==
  ASSUME Inv, ParseAgain
  PROVE  Inv'
<1>1. Format(sdp) \in Seq(Lines)
  BY FormatType DEF Inv
<1>2. heap' = Start
  BY DEF Inv, ParseAgain, Start
<1>3. Len(Format(sdp)) \in Nat
  BY <1>1, LenProperties
<1>4. QED BY <1>1, <1>2, <1>3, NothingType, FreedStart DEF Inv, ParseAgain

\* The end of a parse keeps the invariant.
LEMMA EndStep ==
  ASSUME Inv, Return \/ Reject
  PROVE  Inv'
<1>1. CASE Return
  BY <1>1 DEF Inv, Return
<1>2. CASE Reject
  <2>1. heap' = {}
    BY <1>2 DEF Inv, Reject
  <2>2. QED BY <1>2, <2>1, NothingType DEF Inv, Reject
<1>3. QED BY <1>1, <1>2

\* Inv is inductive.
LEMMA NextInv == Inv /\ [Next]_vars => Inv'
<1> SUFFICES ASSUME Inv, [Next]_vars PROVE Inv'
  OBVIOUS
<1>1. CASE UNCHANGED vars
  <2>1. UNCHANGED <<source, doc, sdp, open, heap, status>>
    BY <1>1 DEF vars
  <2>2. QED BY <2>1 DEF Inv
<1>2. QED
  BY <1>1, ReadFieldStep, ReadRepeatStep, ReadMediaStep, EndStep, ParseAgainStep DEF Next

\* Everywhere.
LEMMA InvTypes == Inv => TypeOK
<1> SUFFICES ASSUME Inv PROVE TypeOK
  OBVIOUS
<1>1. WellFormed(sdp) /\ sdp.medias \in Seq(Streams) /\ DOMAIN sdp.fields = SessionKeys
  BY DEF Inv, WellFormed
<1>2. \A m \in ToSet(sdp.medias) : m \in Streams
  BY <1>1, LenProperties, ElementOfSeq DEF ToSet
<1>3. heap \subseteq Freed(sdp)
  BY DEF Inv
<1>4. \A block \in heap : block[2] \in Nat /\ block[3] \in Nat
  BY <1>1, <1>3, FreedTyped
<1>5. open \in 1 .. Len(SessionOrder) + 1
  BY KeysOfOrders DEF Inv
<1>6. /\ \A k \in SessionKeys \ {"t"} : sdp.fields[k] \in Seq(Texts)
      /\ sdp.fields["t"] \in Seq(Seq(Texts) \ {<<>>})
  BY <1>1 DEF WellFormed, TimesType
<1>7. \A m \in ToSet(sdp.medias) :
        /\ m.info \in Texts /\ Len(m.info) >= 3
        /\ m.fields \in [MediaKeys -> Seq(Texts)]
  BY <1>2 DEF Streams
<1>8. QED BY <1>1, <1>4, <1>5, <1>6, <1>7, KeysOfOrders DEF Inv, TypeOK

\* TypeOK of every behaviour: what is in the description has the form the code
\* relies on, whatever the documents are (sdp_parser).
THEOREM TypeCorrect == Spec => []TypeOK
<1>1. QED BY InitInv, NextInv, InvTypes, PTL DEF Spec

\* NothingLeaks of every behaviour: sdp_destroy finds every block that was
\* allocated on the way, wherever memory runs out (sdp_parser, sdp_destroy).
THEOREM NoLeaks == Spec => []NothingLeaks
<1>1. Inv => NothingLeaks
  BY DEF Inv, NothingLeaks, Start
<1>2. QED BY <1>1, InitInv, NextInv, PTL DEF Spec

-------------------------------------------------------------------------------
(* The order of the grammar, told by what may follow lines that keep it. *)

\* Lines of the session only.
NoMedia(ks) == \A i \in DOMAIN ks : ks[i] # "m"

\* What Ordered asks of each line,
EachOrdered(ks) ==
    \A i \in DOMAIN ks :
      /\ i <= 3 => ks[i] = SessionOrder[i]
      /\ ks[i] \in IF Part(ks, i) = {} THEN SessionKeys \cup {"r"} ELSE MediaKeys \cup {"m"}
      /\ ks[i] = "r" => ks[i - 1] \in {"t", "r"}

\* of two lines of one description,
PairOrdered(a, b) ==
    /\ Rank(a) <= Rank(b)
    /\ a = b => a \notin Single

\* and of every two.
PairsOrdered(ks) ==
    \A i, j \in DOMAIN ks :
      i < j /\ Part(ks, i) = Part(ks, j) /\ ks[i] # "m" => PairOrdered(ks[i], ks[j])

\* Ordered as a condition on each line and one on every two.
LEMMA OrderedIs ==
  ASSUME NEW ks
  PROVE  Ordered(ks) <=> EachOrdered(ks) /\ PairsOrdered(ks)
BY KeysOfOrders DEF Ordered, EachOrdered, PairsOrdered, PairOrdered, Part

\* The rank of a letter is its place; r= has the place of t=.
LEMMA Ranks ==
  /\ \A i \in 1 .. 13 : Rank(SessionOrder[i]) = i
  /\ Rank("r") = 10
<1>1. \A i \in 1 .. 13 : SessionOrder[i] # "r"
  BY DEF SessionOrder
<1>2. \A i, j \in 1 .. 13 : SessionOrder[i] = SessionOrder[j] => i = j
  BY DEF SessionOrder
<1>3. ASSUME NEW k, NEW i \in 1 .. 13, SessionOrder[i] = (IF k = "r" THEN "t" ELSE k)
      PROVE  Rank(k) = i
  <2> DEFINE Q(h) == SessionOrder[h] = (IF k = "r" THEN "t" ELSE k)
  <2>1. Q(i)
    BY <1>3
  <2>2. \A h \in 1 .. 13 : Q(h) => h = i
    BY <1>2, <1>3
  <2>3. Rank(k) = CHOOSE h \in 1 .. 13 : Q(h)
    BY KeysOfOrders DEF Rank
  <2> HIDE DEF Q
  <2>4. QED BY <2>1, <2>2, <2>3
<1>4. SessionOrder[10] = "t"
  BY SMTT(60) DEF SessionOrder
<1>5. QED BY <1>1, <1>3, <1>4

\* What the next line may be behind lines that keep the order.
Joins(ks, k) ==
    LET n == Len(ks)
    IN \/ n < 3 /\ k = SessionOrder[n + 1]
       \/ n >= 3 /\ k = "m"
       \/ n >= 3 /\ NoMedia(ks) /\ k = "r" /\ ks[n] \in {"t", "r"}
       \/ /\ n >= 3
          /\ NoMedia(ks) => k \in SessionKeys
          /\ ~NoMedia(ks) => k \in MediaKeys
          /\ ks[n] # "m" => PairOrdered(ks[n], k)

\* What one more line changes of the parts of a text.
LEMMA Grown ==
  ASSUME NEW ks \in Seq(Letters), NEW k \in Letters
  PROVE  LET n == Len(ks)
             t == Append(ks, k)
             M == {j \in 1 .. n : ks[j] = "m"}
         IN /\ n \in Nat /\ DOMAIN ks = 1 .. n /\ DOMAIN t = 1 .. n + 1
            /\ \A i \in 1 .. n : t[i] = ks[i] /\ Part(t, i) = Part(ks, i)
            /\ t[n + 1] = k
            /\ k # "m" => Part(t, n + 1) = M
            /\ k = "m" => Part(t, n + 1) # {} /\ \A i \in 1 .. n : Part(t, i) # Part(t, n + 1)
            /\ M = {} <=> NoMedia(ks)
            /\ n # 0 => Part(ks, n) = M
            /\ \A i \in 1 .. n : Part(ks, i) = M /\ ks[n] = "m" => i = n
<1> DEFINE n == Len(ks)
           t == Append(ks, k)
           M == {j \in 1 .. n : ks[j] = "m"}
<1>1. /\ n \in Nat /\ DOMAIN ks = 1 .. n
      /\ \A i \in 1 .. n : t[i] = ks[i]
      /\ t[n + 1] = k
  BY LenProperties, AppendProperties
<1>2. DOMAIN t = 1 .. n + 1
  <2>1. t \in Seq(Letters) /\ Len(t) = n + 1
    BY AppendProperties
  <2> HIDE DEF t
  <2>2. QED BY <2>1, LenProperties
<1> HIDE DEF n, t
<1>3. \A i \in 1 .. n : Part(t, i) = Part(ks, i)
  BY <1>1 DEF Part
<1>4. k # "m" => Part(t, n + 1) = M
  BY <1>1 DEF Part
<1>5. k = "m" => n + 1 \in Part(t, n + 1)
  BY <1>1 DEF Part
<1>6. \A i \in 1 .. n : n + 1 \notin Part(t, i)
  BY <1>1 DEF Part
<1>7. M = {} <=> NoMedia(ks)
  BY <1>1 DEF NoMedia
<1>8. n # 0 => Part(ks, n) = M
  BY <1>1 DEF Part
<1>9. \A i \in 1 .. n : Part(ks, i) = M /\ ks[n] = "m" => i = n
  <2> SUFFICES ASSUME NEW i \in 1 .. n, Part(ks, i) = M, ks[n] = "m" PROVE i = n
    OBVIOUS
  <2>1. n \in M
    BY <1>1
  <2>2. n \in 1 .. i
    BY <2>1 DEF Part
  <2>3. QED BY <1>1, <2>2
<1>10. QED BY <1>1, <1>2, <1>3, <1>4, <1>5, <1>6, <1>7, <1>8, <1>9, ZenonT(60) DEF n, t

\* The keys of a session by their places.
LEMMA SessionPlaces ==
  /\ \A k \in SessionKeys : Rank(k) \in 1 .. 13 /\ SessionOrder[Rank(k)] = k
  /\ \A i \in 1 .. 13 : SessionOrder[i] \in SessionKeys /\ SessionOrder[i] # "r" /\ SessionOrder[i] # "m"
  /\ SessionOrder[10] = "t"
  /\ \A i \in 1 .. 3 : SessionOrder[i] \in Single
  /\ "t" \notin Single /\ "r" \notin Single
<1>1. \A k \in SessionKeys : \E i \in 1 .. 13 : SessionOrder[i] = k
  BY KeysOfOrders DEF ToSet
<1>2. \A i \in 1 .. 13 : SessionOrder[i] \in SessionKeys /\ SessionOrder[i] # "r" /\ SessionOrder[i] # "m"
  BY DEF SessionOrder, SessionKeys
<1>3. SessionOrder[10] = "t" /\ \A i \in 1 .. 3 : SessionOrder[i] \in Single
  BY DEF SessionOrder, Single
<1>4. "t" \notin Single /\ "r" \notin Single
  BY DEF Single
<1>5. QED BY <1>1, <1>2, <1>3, <1>4, Ranks

\* Letters of one rank are one letter, or t= and r=.
LEMMA SameRank ==
  ASSUME NEW a \in SessionKeys \cup {"r"}, NEW b \in SessionKeys \cup {"r"}, Rank(a) = Rank(b)
  PROVE  \/ a = b
         \/ a \in {"t", "r"} /\ b \in {"t", "r"}
<1>1. "t" \in SessionKeys /\ Rank("t") = 10
  BY Ranks, SessionPlaces
<1>2. QED BY <1>1, SessionPlaces, Ranks

\* Ranks are places.
LEMMA RankNumber == \A k \in SessionKeys \cup {"r"} : Rank(k) \in 1 .. 13
  BY SessionPlaces, Ranks

\* The letters of a stream are letters of the session as well.
LEMMA MediaInSession == MediaKeys \subseteq SessionKeys /\ "m" \notin SessionKeys /\ "r" \notin SessionKeys
  BY DEF MediaKeys, SessionKeys

\* What joins lines that keep the order leaves lines that keep it,
LEMMA JoinsOrdered ==
  ASSUME NEW ks \in Seq(Letters), Ordered(ks), NEW k \in Letters, Joins(ks, k)
  PROVE  Ordered(Append(ks, k))
<1> DEFINE n == Len(ks)
           t == Append(ks, k)
           M == {j \in 1 .. n : ks[j] = "m"}
<1>1. /\ n \in Nat /\ DOMAIN ks = 1 .. n /\ DOMAIN t = 1 .. n + 1
      /\ \A i \in 1 .. n : t[i] = ks[i] /\ Part(t, i) = Part(ks, i)
      /\ t[n + 1] = k
      /\ k # "m" => Part(t, n + 1) = M
      /\ k = "m" => Part(t, n + 1) # {} /\ \A i \in 1 .. n : Part(t, i) # Part(t, n + 1)
      /\ M = {} <=> NoMedia(ks)
      /\ n # 0 => Part(ks, n) = M
      /\ \A i \in 1 .. n : Part(ks, i) = M /\ ks[n] = "m" => i = n
  BY Grown, SMTT(60)
<1>2. EachOrdered(ks) /\ PairsOrdered(ks)
  BY OrderedIs, SMTT(60)
<1>3. \/ n < 3 /\ k = SessionOrder[n + 1]
      \/ n >= 3 /\ k = "m"
      \/ n >= 3 /\ NoMedia(ks) /\ k = "r" /\ ks[n] \in {"t", "r"}
      \/ /\ n >= 3
         /\ NoMedia(ks) => k \in SessionKeys
         /\ ~NoMedia(ks) => k \in MediaKeys
         /\ ks[n] # "m" => PairOrdered(ks[n], k)
  BY <1>1 DEF Joins
<1> HIDE DEF n, t, M
<1>4. \A i \in 1 .. n :
        /\ i <= 3 => ks[i] = SessionOrder[i]
        /\ ks[i] \in IF Part(ks, i) = {} THEN SessionKeys \cup {"r"} ELSE MediaKeys \cup {"m"}
        /\ ks[i] = "r" => ks[i - 1] \in {"t", "r"}
  BY <1>1, <1>2 DEF EachOrdered
<1>5. \A i, j \in 1 .. n :
        i < j /\ Part(ks, i) = Part(ks, j) /\ ks[i] # "m" => PairOrdered(ks[i], ks[j])
  BY <1>1, <1>2 DEF PairsOrdered
<1>6. n < 3 => M = {}
  <2>1. \A i \in 1 .. 3 : SessionOrder[i] # "m"
    BY SessionPlaces
  <2>2. n < 3 => \A i \in 1 .. n : ks[i] # "m"
    BY <1>1, <1>4, <2>1
  <2>3. QED BY <2>2 DEF M
<1>7. /\ n + 1 <= 3 => k = SessionOrder[n + 1]
      /\ k \in IF Part(t, n + 1) = {} THEN SessionKeys \cup {"r"} ELSE MediaKeys \cup {"m"}
      /\ k = "r" => n \in 1 .. n /\ ks[n] \in {"t", "r"}
  <2>1. CASE n < 3 /\ k = SessionOrder[n + 1]
    <3>1. k \in SessionKeys /\ k # "m" /\ k # "r"
      BY <1>1, <2>1, SessionPlaces
    <3>2. QED BY <1>1, <1>6, <2>1, <3>1
  <2>2. CASE n >= 3 /\ k = "m"
    BY <1>1, <2>2
  <2>3. CASE n >= 3 /\ NoMedia(ks) /\ k = "r" /\ ks[n] \in {"t", "r"}
    BY <1>1, <2>3
  <2>4. CASE /\ n >= 3
             /\ NoMedia(ks) => k \in SessionKeys
             /\ ~NoMedia(ks) => k \in MediaKeys
             /\ ks[n] # "m" => PairOrdered(ks[n], k)
    BY <1>1, <2>4, MediaInSession
  <2>5. QED BY <1>3, <2>1, <2>2, <2>3, <2>4
<1>8. EachOrdered(t)
  <2> SUFFICES ASSUME NEW i \in 1 .. n + 1
               PROVE  /\ i <= 3 => t[i] = SessionOrder[i]
                      /\ t[i] \in IF Part(t, i) = {} THEN SessionKeys \cup {"r"}
                                  ELSE MediaKeys \cup {"m"}
                      /\ t[i] = "r" => t[i - 1] \in {"t", "r"}
    BY <1>1 DEF EachOrdered
  <2>1. CASE i = n + 1
    <3>1. i - 1 = n
      BY <1>1, <2>1
    <3>2. QED BY <1>1, <1>7, <2>1, <3>1
  <2>2. CASE i \in 1 .. n
    <3>1. ks[i] = "r" => i - 1 \in 1 .. n
      <4>1. ks[1] = "v" \/ n = 0
        BY <1>1, <1>4 DEF SessionOrder
      <4>2. QED BY <1>1, <2>2, <4>1
    <3>2. QED BY <1>1, <1>4, <2>2, <3>1
  <2>3. QED BY <1>1, <2>1, <2>2
\* The last line and the new one.
<1>9. k # "m" /\ n # 0 /\ ks[n] # "m" => PairOrdered(ks[n], k)
  <2>1. CASE n < 3 /\ k = SessionOrder[n + 1]
    <3>1. n # 0 => ks[n] = SessionOrder[n] /\ n \in 1 .. 13 /\ n + 1 \in 1 .. 13
      BY <1>1, <1>4, <2>1
    <3>2. n # 0 => Rank(ks[n]) = n /\ Rank(k) = n + 1
      BY <2>1, <3>1, Ranks
    <3>3. n # 0 => Rank(ks[n]) <= Rank(k) /\ ks[n] # k
      BY <1>1, <3>2
    <3>4. QED BY <3>3 DEF PairOrdered
  <2>2. CASE n >= 3 /\ NoMedia(ks) /\ k = "r" /\ ks[n] \in {"t", "r"}
    <3>1. Rank("t") = 10
      BY Ranks, SessionPlaces
    <3>2. QED BY <2>2, <3>1, Ranks, SessionPlaces DEF PairOrdered
  <2>3. QED BY <1>3, <2>1, <2>2
<1>10. ASSUME NEW i \in 1 .. n, Part(t, i) = Part(t, n + 1), ks[i] # "m"
       PROVE  PairOrdered(ks[i], k)
  <2>1. k # "m"
    BY <1>1, <1>10
  <2>2. n # 0 /\ Part(ks, i) = M /\ Part(ks, n) = M /\ n \in 1 .. n
    BY <1>1, <1>10, <2>1
  <2>3. ks[n] # "m"
    BY <1>1, <1>10, <2>2
  <2>4. PairOrdered(ks[n], k)
    BY <1>9, <2>1, <2>2, <2>3
  <2>5. CASE i = n
    BY <2>4, <2>5
  <2>6. CASE i # n
    <3>1. PairOrdered(ks[i], ks[n])
      BY <1>1, <1>5, <1>10, <2>2, <2>6
    <3>2. {ks[i], ks[n], k} \subseteq SessionKeys \cup {"r"}
      <4>1. \A j \in 1 .. n : ks[j] # "m" => ks[j] \in SessionKeys \cup {"r"}
        BY <1>4, MediaInSession
      <4>2. k \in SessionKeys \cup {"r"}
        BY <1>7, <2>1, MediaInSession
      <4>3. QED BY <1>10, <2>2, <2>3, <4>1, <4>2
    <3>3. Rank(ks[i]) \in 1 .. 13 /\ Rank(ks[n]) \in 1 .. 13 /\ Rank(k) \in 1 .. 13
      BY <3>2, RankNumber
    <3>4. Rank(ks[i]) <= Rank(ks[n]) /\ Rank(ks[n]) <= Rank(k)
      BY <2>4, <3>1 DEF PairOrdered
    <3>5. ASSUME ks[i] = k PROVE k \notin Single
      <4>1. Rank(ks[n]) = Rank(k)
        BY <3>3, <3>4, <3>5
      <4>2. ks[n] = k \/ k \in {"t", "r"}
        BY <3>2, <4>1, SameRank
      <4>3. QED BY <2>4, <4>2, SessionPlaces DEF PairOrdered
    <3>6. QED BY <3>3, <3>4, <3>5 DEF PairOrdered
  <2>7. QED BY <2>5, <2>6
<1>11. PairsOrdered(t)
  <2> SUFFICES ASSUME NEW i \in 1 .. n + 1, NEW j \in 1 .. n + 1, i < j,
                      Part(t, i) = Part(t, j), t[i] # "m"
               PROVE  PairOrdered(t[i], t[j])
    BY <1>1 DEF PairsOrdered
  <2>1. i \in 1 .. n
    BY <1>1
  <2>2. CASE j = n + 1
    BY <1>1, <1>10, <2>1, <2>2
  <2>3. CASE j \in 1 .. n
    BY <1>1, <1>5, <2>1, <2>3
  <2>4. QED BY <1>1, <2>2, <2>3
<1>12. Ordered(t)
  BY <1>8, <1>11, OrderedIs
<1>13. QED BY <1>12 DEF t

\* and nothing else does.
LEMMA OrderedJoins ==
  ASSUME NEW ks \in Seq(Letters), NEW k \in Letters, Ordered(Append(ks, k))
  PROVE  Joins(ks, k)
<1> DEFINE n == Len(ks)
           t == Append(ks, k)
           M == {j \in 1 .. n : ks[j] = "m"}
<1>1. /\ n \in Nat /\ DOMAIN ks = 1 .. n /\ DOMAIN t = 1 .. n + 1
      /\ \A i \in 1 .. n : t[i] = ks[i] /\ Part(t, i) = Part(ks, i)
      /\ t[n + 1] = k
      /\ k # "m" => Part(t, n + 1) = M
      /\ k = "m" => Part(t, n + 1) # {} /\ \A i \in 1 .. n : Part(t, i) # Part(t, n + 1)
      /\ M = {} <=> NoMedia(ks)
      /\ n # 0 => Part(ks, n) = M
      /\ \A i \in 1 .. n : Part(ks, i) = M /\ ks[n] = "m" => i = n
  BY Grown
<1>2. EachOrdered(t) /\ PairsOrdered(t)
  BY OrderedIs
<1> HIDE DEF n, t, M
<1>3. /\ n + 1 <= 3 => k = SessionOrder[n + 1]
      /\ k \in IF Part(t, n + 1) = {} THEN SessionKeys \cup {"r"} ELSE MediaKeys \cup {"m"}
      /\ k = "r" => t[(n + 1) - 1] \in {"t", "r"}
  BY <1>1, <1>2 DEF EachOrdered
<1>4. CASE n < 3
  <2>1. n < 3 /\ k = SessionOrder[n + 1]
    BY <1>1, <1>3, <1>4
  <2>2. QED BY <2>1 DEF Joins, n
<1>5. CASE n >= 3
  <2>1. n \in 1 .. n /\ (n + 1) - 1 = n /\ n < n + 1 /\ n + 1 \in 1 .. n + 1 /\ n \in 1 .. n + 1
    BY <1>1, <1>5
  <2>2. k # "m" /\ ks[n] # "m" => PairOrdered(ks[n], k)
    BY <1>1, <1>2, <2>1, <1>5 DEF PairsOrdered
  <2>3. ~ (n < 3)
    BY <1>1, <1>5
  <2>4. CASE k = "m"
    BY <1>5, <2>4 DEF Joins, n
  <2>5. CASE k = "r"
    <3>1. NoMedia(ks) /\ ks[n] \in {"t", "r"}
      BY <1>1, <1>3, <2>1, <2>5, MediaInSession
    <3>2. QED BY <1>5, <2>5, <3>1 DEF Joins, n
  <2>6. CASE k # "m" /\ k # "r"
    <3>1. /\ NoMedia(ks) => k \in SessionKeys
          /\ ~NoMedia(ks) => k \in MediaKeys
      BY <1>1, <1>3, <2>6
    <3>2. QED BY <1>5, <2>2, <2>6, <3>1 DEF Joins, n
  <2>7. QED BY <2>4, <2>5, <2>6
<1>6. QED BY <1>1, <1>4, <1>5

-------------------------------------------------------------------------------
(* The place in the code stands for all that was read. *)

\* Where the parser stands after a line of this place.
Behind(place, k) == IF k \in Single THEN place + 1 ELSE place

\* Where the parser is, told by the letters it has taken.
Position(ks, streams, place) ==
    LET n == Len(ks)
    IN /\ n = 0 => place = 1
       /\ streams = <<>> <=> NoMedia(ks)
       /\ n # 0 /\ ks[n] = "m" => place = 1
       /\ n # 0 /\ ks[n] # "m" /\ NoMedia(ks) => place = Behind(Rank(ks[n]), ks[n])
       /\ n # 0 /\ ks[n] # "m" /\ ~NoMedia(ks) =>
            \E i \in 1 .. 5 : MediaOrder[i] = ks[n] /\ place = Behind(i, ks[n])

\* The letters the parser has a place for where it stands.
Fitting(k) == \/ Reached(k) # {}
              \/ k = "r" /\ RepeatReached
              \/ k = "m" /\ MediaReached

\* The places of a stream are in the order of their ranks.
LEMMA MediaPlaces ==
  /\ \A k \in MediaKeys : \E i \in 1 .. 5 : MediaOrder[i] = k
  /\ \A i \in 1 .. 5 : MediaOrder[i] \in MediaKeys
  /\ \A i, j \in 1 .. 5 : i <= j <=> Rank(MediaOrder[i]) <= Rank(MediaOrder[j])
  /\ \A i, j \in 1 .. 5 : MediaOrder[i] = MediaOrder[j] => i = j
<1>1. /\ MediaOrder[1] = SessionOrder[4] /\ MediaOrder[2] = SessionOrder[8]
      /\ MediaOrder[3] = SessionOrder[9] /\ MediaOrder[4] = SessionOrder[12]
      /\ MediaOrder[5] = SessionOrder[13]
  BY DEF MediaOrder, SessionOrder
<1>2. /\ Rank(MediaOrder[1]) = 4 /\ Rank(MediaOrder[2]) = 8 /\ Rank(MediaOrder[3]) = 9
      /\ Rank(MediaOrder[4]) = 12 /\ Rank(MediaOrder[5]) = 13
  BY <1>1, Ranks
<1>3. \A i, j \in 1 .. 5 : i <= j <=> Rank(MediaOrder[i]) <= Rank(MediaOrder[j])
  <2> SUFFICES ASSUME NEW i \in 1 .. 5, NEW j \in 1 .. 5
               PROVE  i <= j <=> Rank(MediaOrder[i]) <= Rank(MediaOrder[j])
    OBVIOUS
  <2>1. (i = 1 \/ i = 2 \/ i = 3 \/ i = 4 \/ i = 5) /\ (j = 1 \/ j = 2 \/ j = 3 \/ j = 4 \/ j = 5)
    OBVIOUS
  <2>2. QED BY <1>2, <2>1
<1>4. \A i, j \in 1 .. 5 : MediaOrder[i] = MediaOrder[j] => i = j
  BY <1>3
<1>5. /\ \A k \in MediaKeys : \E i \in 1 .. 5 : MediaOrder[i] = k
      /\ \A i \in 1 .. 5 : MediaOrder[i] \in MediaKeys
  BY KeysOfOrders, OrderPlaces DEF ToSet
<1>6. QED BY <1>3, <1>4, <1>5

\* The places a key may go to, in the session and in a stream.
LEMMA ReachedInSession ==
  ASSUME open \in Nat, sdp.medias = <<>>, NEW k
  PROVE  Reached(k) # {} <=>
           k \in SessionKeys /\ Rank(k) >= open /\ (open <= 3 => Rank(k) = open)
<1>1. Reached(k) = {i \in 1 .. 13 : /\ SessionOrder[i] = k /\ i >= open
                                    /\ open <= 3 => i = open}
  BY KeysOfOrders DEF Reached, Order
<1>2. ASSUME Reached(k) # {}
      PROVE  k \in SessionKeys /\ Rank(k) >= open /\ (open <= 3 => Rank(k) = open)
  <2> PICK i \in 1 .. 13 : /\ SessionOrder[i] = k /\ i >= open
                           /\ open <= 3 => i = open
    BY <1>1, <1>2
  <2>1. k \in SessionKeys /\ Rank(k) = i
    BY SessionPlaces, Ranks
  <2>2. QED BY <2>1
<1>3. ASSUME k \in SessionKeys, Rank(k) >= open, open <= 3 => Rank(k) = open
      PROVE  Reached(k) # {}
  BY <1>1, <1>3, SessionPlaces
<1>4. QED BY <1>2, <1>3

\* The places that are reached in a stream.
LEMMA ReachedInStream ==
  ASSUME open \in Nat, sdp.medias # <<>>, NEW k
  PROVE  Reached(k) # {} <=> \E i \in 1 .. 5 : MediaOrder[i] = k /\ i >= open
<1>1. Reached(k) = {i \in 1 .. 5 : MediaOrder[i] = k /\ i >= open}
  BY KeysOfOrders DEF Reached, Order
<1>2. QED BY <1>1

\* The parser takes a letter where it stands if and only if it may follow all of
\* the letters before.
LEMMA FittingJoins ==
  ASSUME NEW ks \in Seq(Letters), Ordered(ks), Position(ks, sdp.medias, open), open \in Nat, 1 <= open, open <= 14,
         NEW k \in Letters
  PROVE  Fitting(k) <=> Joins(ks, k)
<1> DEFINE n == Len(ks)
<1>1. n \in Nat /\ DOMAIN ks = 1 .. n
  BY LenProperties
<1>2. \A i \in 1 .. n :
        /\ i <= 3 => ks[i] = SessionOrder[i]
        /\ ks[i] \in IF Part(ks, i) = {} THEN SessionKeys \cup {"r"} ELSE MediaKeys \cup {"m"}
  BY <1>1, OrderedIs DEF EachOrdered
<1>3. /\ n = 0 => open = 1
      /\ sdp.medias = <<>> <=> NoMedia(ks)
      /\ n # 0 /\ ks[n] = "m" => open = 1
      /\ n # 0 /\ ks[n] # "m" /\ NoMedia(ks) => open = Behind(Rank(ks[n]), ks[n])
      /\ n # 0 /\ ks[n] # "m" /\ ~NoMedia(ks) =>
            \E i \in 1 .. 5 : MediaOrder[i] = ks[n] /\ open = Behind(i, ks[n])
  BY DEF Position
<1>4. Joins(ks, k) <=>
        \/ n < 3 /\ k = SessionOrder[n + 1]
        \/ n >= 3 /\ k = "m"
        \/ n >= 3 /\ NoMedia(ks) /\ k = "r" /\ ks[n] \in {"t", "r"}
        \/ /\ n >= 3
           /\ NoMedia(ks) => k \in SessionKeys
           /\ ~NoMedia(ks) => k \in MediaKeys
           /\ ks[n] # "m" => PairOrdered(ks[n], k)
  BY DEF Joins
<1>5. (NoMedia(ks) /\ n # 0) => ks[n] # "m" /\ ks[n] \in SessionKeys \cup {"r"}
  BY <1>1, <1>2 DEF NoMedia, Part
<1> HIDE DEF n
<1>6. CASE n < 3
  <2>1. NoMedia(ks)
    BY <1>1, <1>2, <1>6, SessionPlaces DEF NoMedia
  <2>2. open = n + 1
    <3>1. n # 0 => Rank(ks[n]) = n /\ ks[n] \in Single
      BY <1>1, <1>2, <1>6, Ranks, SessionPlaces
    <3>2. QED BY <1>1, <1>3, <1>5, <2>1, <3>1 DEF Behind
  <2>3. Reached(k) # {} <=> k \in SessionKeys /\ Rank(k) = n + 1
    BY <1>1, <1>3, <1>6, <2>1, <2>2, ReachedInSession
  <2>4. k \in SessionKeys /\ Rank(k) = n + 1 <=> k = SessionOrder[n + 1]
    BY <1>1, <1>6, SessionPlaces, Ranks
  <2>5. ~RepeatReached /\ ~MediaReached
    <3>1. \A i \in 1 .. 3 : SessionOrder[i] # "t"
      BY OrderPlaces
    <3>2. QED BY <1>1, <1>3, <1>6, <2>1, <2>2, <3>1 DEF RepeatReached, MediaReached, Order
  <2>6. QED BY <1>1, <1>4, <1>6, <2>3, <2>4, <2>5 DEF Fitting
<1>7. CASE n >= 3 /\ NoMedia(ks)
  <2> DEFINE l == ks[n]
  <2>1. l \in SessionKeys \cup {"r"} /\ l # "m" /\ sdp.medias = <<>> /\ open = Behind(Rank(l), l)
    BY <1>1, <1>3, <1>5, <1>7
  <2>2. Rank(l) \in 1 .. 13 /\ (Rank(l) = 10 <=> l \in {"t", "r"})
    BY <2>1, RankNumber, SessionPlaces, Ranks
  <2>3. Rank(l) >= 3 /\ open > 3
    <3>1. ks[3] = SessionOrder[3] /\ Rank(ks[3]) = 3 /\ ks[3] \in Single
      BY <1>1, <1>2, <1>7, Ranks, SessionPlaces
    <3>2. CASE n = 3
      BY <2>1, <3>1, <3>2 DEF Behind
    <3>3. CASE n # 3
      <4>1. Part(ks, 3) = Part(ks, n)
        BY <1>1, <1>7 DEF Part, NoMedia
      <4>2. PairsOrdered(ks) /\ 3 < n /\ 3 \in 1 .. n /\ n \in 1 .. n
        BY <1>1, <1>7, <3>3, OrderedIs
      <4>3. PairOrdered(ks[3], l)
        BY <1>1, <1>7, <4>1, <4>2 DEF PairsOrdered, NoMedia
      <4>4. Rank(l) >= 3 /\ l # ks[3]
        BY <3>1, <4>3 DEF PairOrdered
      <4>5. Rank(l) # 3
        <5>1. "t" # ks[3] /\ "r" # ks[3]
          BY <3>1, SessionPlaces
        <5>2. ks[3] \in SessionKeys
          BY <3>1, SessionPlaces
        <5>3. QED BY <2>1, <3>1, <4>4, <5>1, <5>2, SameRank
      <4>6. QED BY <2>1, <2>2, <4>4, <4>5 DEF Behind
    <3>4. QED BY <3>2, <3>3
  <2>4. MediaReached
    BY <2>3 DEF MediaReached
  <2>5. RepeatReached <=> l \in {"t", "r"}
    <3>1. RepeatReached <=> open = 10
      <4>1. RepeatReached <=> open <= 13 /\ SessionOrder[open] = "t"
        BY <2>1, KeysOfOrders DEF RepeatReached, Order
      <4>2. open <= 13 => open \in 1 .. 13
        BY <1>1
      <4>3. QED BY <4>1, <4>2, OrderPlaces
    <3>2. l \in Single => Rank(l) # 9
      <4>1. SessionOrder[9] = "b" /\ "b" \notin Single
        BY OrderPlaces DEF Single
      <4>2. QED BY <2>1, <4>1, SessionPlaces, Ranks
    <3>3. l \in {"t", "r"} => l \notin Single
      BY SessionPlaces
    <3>4. open = 10 <=> Rank(l) = 10
      BY <2>1, <2>2, <3>2, <3>3 DEF Behind
    <3>5. QED BY <2>2, <3>1, <3>4
  <2>6. Reached(k) # {} <=> k \in SessionKeys /\ PairOrdered(l, k)
    <3>1. Reached(k) # {} <=> k \in SessionKeys /\ Rank(k) >= open
      BY <2>1, <2>3, ReachedInSession
    <3>2. ASSUME k \in SessionKeys
          PROVE  Rank(k) >= open <=> PairOrdered(l, k)
      <4>1. Rank(k) \in 1 .. 13
        BY <3>2, RankNumber
      <4>2. Rank(l) = Rank(k) => l = k \/ (l \in {"t", "r"} /\ k \in {"t", "r"})
        BY <2>1, <3>2, SameRank
      <4>3. l \in {"t", "r"} => l \notin Single
        BY SessionPlaces
      <4>4. CASE l \in Single
        <5>1. open = Rank(l) + 1
          BY <2>1, <4>4 DEF Behind
        <5>2. PairOrdered(l, k) <=> Rank(l) <= Rank(k) /\ l # k
          BY <4>4 DEF PairOrdered
        <5>3. l # k => Rank(l) # Rank(k)
          BY <4>2, <4>3, <4>4
        <5>4. Rank(l) \in Nat /\ Rank(k) \in Nat /\ (l = k => Rank(l) = Rank(k))
          BY <2>2, <4>1
        <5> HIDE DEF l
        <5>5. Rank(k) >= open <=> Rank(l) <= Rank(k) /\ l # k
          BY <5>1, <5>3, <5>4
        <5>6. QED BY <5>2, <5>5
      <4>5. CASE l \notin Single
        BY <2>1, <2>2, <4>1, <4>5 DEF Behind, PairOrdered
      <4>6. QED BY <4>4, <4>5
    <3>3. QED BY <3>1, <3>2
  <2>7. Joins(ks, k) <=> \/ k = "m"
                         \/ k = "r" /\ l \in {"t", "r"}
                         \/ k \in SessionKeys /\ PairOrdered(l, k)
    BY <1>1, <1>4, <1>7, <2>1
  <2>8. QED BY <2>4, <2>5, <2>6, <2>7 DEF Fitting
<1>8. CASE n >= 3 /\ ~NoMedia(ks)
  <2> DEFINE l == ks[n]
  <2>1. sdp.medias # <<>> /\ MediaReached /\ ~RepeatReached
    BY <1>3, <1>8 DEF MediaReached, RepeatReached
  <2>2. Joins(ks, k) <=> \/ k = "m"
                         \/ k \in MediaKeys /\ (l # "m" => PairOrdered(l, k))
    BY <1>1, <1>4, <1>8
  <2>3. Reached(k) # {} <=> \E i \in 1 .. 5 : MediaOrder[i] = k /\ i >= open
    BY <2>1, ReachedInStream
  <2>4. CASE l = "m"
    <3>1. open = 1
      BY <1>1, <1>3, <1>8, <2>4
    <3>2. Reached(k) # {} <=> k \in MediaKeys
      BY <2>3, <3>1, MediaPlaces
    <3>3. QED BY <2>1, <2>2, <2>4, <3>2 DEF Fitting
  <2>5. CASE l # "m"
    <3>1. PICK i \in 1 .. 5 : MediaOrder[i] = l /\ open = Behind(i, l)
      BY <1>1, <1>3, <1>8, <2>5
    <3>2. ASSUME NEW j \in 1 .. 5, MediaOrder[j] = k
          PROVE  j >= open <=> PairOrdered(l, k)
      <4>1. i <= j <=> Rank(l) <= Rank(k)
        BY <3>1, <3>2, MediaPlaces
      <4>2. i = j <=> l = k
        BY <3>1, <3>2, MediaPlaces
      <4>3. QED BY <3>1, <4>1, <4>2 DEF Behind, PairOrdered
    <3>3. Reached(k) # {} <=> k \in MediaKeys /\ PairOrdered(l, k)
      BY <2>3, <3>2, MediaPlaces
    <3>4. QED BY <2>1, <2>2, <2>5, <3>3 DEF Fitting
  <2>6. QED BY <2>4, <2>5
<1>9. QED BY <1>1, <1>6, <1>7, <1>8

-------------------------------------------------------------------------------
(* The lines taken are the longest beginning that keeps the order. *)

\* How many lines were loaded.
Taken == Len(source) - Len(doc)

\* The letters of the lines taken.
Read == [i \in 1 .. Taken |-> source[i].key]

\* doc is the rest of source; where all lines end alike, what was read keeps the order and
\* the place in the code stands for it.
Along ==
    /\ \A i \in 1 .. Len(doc) : doc[i] = source[Taken + i]
    /\ Uniform =>
        /\ Ordered(Read)
        /\ status \in {"parsing", "parsed"} => Position(Read, sdp.medias, open)
        /\ status = "parsed" => Taken >= 3
        /\ status \in {"parsed", "rejected"} /\ doc # <<>> =>
             \/ ~Ordered(Append(Read, doc[1].key))
             \/ Taken = 0 /\ doc[1].val # <<<<0>>>>

\* The letters read are those of the lines loaded.
LEMMA ReadType ==
  ASSUME Inv
  PROVE  /\ Len(doc) \in Nat /\ Len(source) \in Nat /\ Taken \in Nat
         /\ Read \in Seq(Letters) /\ Len(Read) = Taken /\ DOMAIN Read = 1 .. Taken
         /\ \A i \in 1 .. Taken : Read[i] = source[i].key
         /\ Keys(Loaded) = Read /\ Loaded \in Seq(Lines) /\ Len(Loaded) = Taken
<1>1. doc \in Seq(Lines) /\ source \in Seq(Lines) /\ Len(doc) <= Len(source)
      /\ Len(doc) \in Nat /\ Len(source) \in Nat
  BY LenProperties DEF Inv
<1>2. Taken \in Nat /\ Taken <= Len(source)
  BY <1>1 DEF Taken
<1>3. \A i \in 1 .. Taken : i \in 1 .. Len(source) /\ source[i] \in Lines
  BY <1>1, <1>2, ElementOfSeq
<1>4. \A i \in 1 .. Taken : source[i].key \in Letters
  BY <1>3 DEF Lines
<1>5. Read \in Seq(Letters) /\ Len(Read) = Taken /\ DOMAIN Read = 1 .. Taken
      /\ \A i \in 1 .. Taken : Read[i] = source[i].key
  BY <1>2, <1>4 DEF Read
<1>6. Loaded \in Seq(Lines) /\ DOMAIN Loaded = 1 .. Taken /\ Len(Loaded) = Taken
      /\ \A i \in 1 .. Taken : Loaded[i] = source[i]
  <2> DEFINE n == Taken
             l == SubSeq(source, 1, n)
  <2>1. Loaded = l
    BY DEF Loaded, Taken
  <2>2. n \in Nat /\ n <= Len(source) /\ \A i \in 1 .. n : source[i] \in Lines
    BY <1>2, <1>3
  <2> HIDE DEF n
  <2>3. /\ l \in Seq(Lines) /\ Len(l) = IF 1 <= n THEN n - 1 + 1 ELSE 0
        /\ \A i \in 1 .. Len(l) : l[i] = source[1 + i - 1]
    BY <1>1, <2>2, SubSeqProperties
  <2> HIDE DEF l
  <2>4. Len(l) = n
    BY <2>2, <2>3
  <2>5. DOMAIN l = 1 .. n
    BY <2>3, <2>4, LenProperties
  <2>6. \A i \in 1 .. n : l[i] = source[i]
    BY <2>2, <2>3, <2>4
  <2>7. QED BY <2>1, <2>3, <2>4, <2>5, <2>6 DEF n
<1>7. Keys(Loaded) = Read
  BY <1>6 DEF Keys, Read
<1>8. QED BY <1>1, <1>2, <1>5, <1>6, <1>7

\* Where every line ends as its writer ended it, a line is a line.
LEMMA OneLine ==
  ASSUME Inv, Along, Uniform, doc # <<>>
  PROVE  EntryEnd = 1 /\ value = doc[1].val /\ key = doc[1].key
<1>1. doc \in Seq(Lines) /\ Len(doc) \in Nat /\ Len(doc) >= 1 /\ DOMAIN doc = 1 .. Len(doc)
      /\ source \in Seq(Lines) /\ DOMAIN source = 1 .. Len(source) /\ Len(source) \in Nat
      /\ Len(doc) <= Len(source)
  BY LenProperties, EmptySeq DEF Inv
<1>2. CASE CrLf = {}
  BY <1>2 DEF EntryEnd, value, key
<1>3. CASE CrLf # {}
  <2>1. CrLf \in SUBSET Nat
    BY <1>1 DEF CrLf
  <2>2. Min(CrLf) \in CrLf /\ \A i \in CrLf : Min(CrLf) <= i
    BY <1>3, <2>1, LeastOne
  <2> DEFINE m == Min(CrLf)
  <2>3. m \in 1 .. Len(doc) /\ doc[m].eol = "crlf"
    BY <1>1, <2>2 DEF CrLf
  <2> HIDE DEF m
  <2>4. 1 \in CrLf
    <3> SUFFICES ASSUME 1 \notin CrLf PROVE FALSE
      OBVIOUS
    <3>1. 1 \in 1 .. Len(doc) /\ doc[1] \in Lines
      BY <1>1, ElementOfSeq
    <3>2. doc[1].eol = "lf" /\ m # 1
      BY <1>1, <2>3, <3>1 DEF CrLf, Lines
    <3>3. doc[1] = source[Taken + 1] /\ doc[m] = source[Taken + m]
      BY <2>3, <3>1 DEF Along
    <3>4. Taken + 1 \in DOMAIN source /\ Taken + m \in DOMAIN source /\ Taken + 1 < Taken + m
      BY <1>1, <2>3, <3>2 DEF Taken
    <3>5. source[Taken + m].eol = "lf"
      BY <3>2, <3>3, <3>4 DEF Uniform
    <3>6. QED BY <2>3, <3>3, <3>5
  <2>5. EntryEnd = 1
    <3>1. m \in Nat /\ m <= 1 /\ m >= 1
      BY <2>2, <2>3, <2>4 DEF m
    <3>2. QED BY <1>3, <3>1 DEF EntryEnd, m
  <2>6. QED BY <2>5 DEF value, key
<1>4. QED BY <1>2, <1>3

\* The text read grows by the entry at the head of doc.
LEMMA Advance ==
  ASSUME Inv, Along, doc # <<>>, doc' = SubSeq(doc, EntryEnd + 1, Len(doc)), source' = source
  PROVE  /\ Taken' = Taken + EntryEnd
         /\ \A i \in 1 .. Len(doc') : doc'[i] = source[Taken' + i]
         /\ Uniform => Read' = Append(Read, key) /\ key \in Letters
<1>1. doc \in Seq(Lines) /\ Len(doc) \in Nat /\ source \in Seq(Lines) /\ Len(source) \in Nat
      /\ Len(doc) <= Len(source)
  BY LenProperties DEF Inv
<1> DEFINE e == EntryEnd
           d == SubSeq(doc, e + 1, Len(doc))
<1>2. e \in Nat /\ 1 <= e /\ e <= Len(doc)
  BY <1>1, ValueType
<1>3. doc' = d
  OBVIOUS
<1>4. /\ d \in Seq(Lines) /\ Len(d) = IF e + 1 <= Len(doc) THEN Len(doc) - (e + 1) + 1 ELSE 0
      /\ \A i \in 1 .. Len(d) : d[i] = doc[e + 1 + i - 1]
  <2> HIDE DEF e
  <2>1. \A i \in e + 1 .. Len(doc) : i \in 1 .. Len(doc) /\ doc[i] \in Lines
    BY <1>1, <1>2, ElementOfSeq
  <2>2. QED BY <1>1, <1>2, <2>1, SubSeqProperties
<1> HIDE DEF d, e
<1>5. Len(d) = Len(doc) - e /\ Len(d) \in Nat
  BY <1>1, <1>2, <1>4
<1>6. Taken' = Taken + e /\ Taken \in Nat
  <2>1. Taken' = Len(source) - Len(d) /\ Taken = Len(source) - Len(doc)
    BY <1>3 DEF Taken
  <2>2. QED BY <1>1, <1>2, <1>5, <2>1
<1>7. ASSUME NEW i \in 1 .. Len(d) PROVE d[i] = source[Taken' + i]
  <2>1. d[i] = doc[e + i] /\ e + i \in 1 .. Len(doc)
    <3>1. e + 1 + i - 1 = e + i
      BY <1>2, <1>5
    <3>2. QED BY <1>1, <1>2, <1>4, <1>5, <3>1
  <2>2. doc[e + i] = source[Taken + (e + i)]
    BY <2>1 DEF Along
  <2>3. Taken + (e + i) = Taken' + i
    BY <1>2, <1>5, <1>6
  <2>4. QED BY <2>1, <2>2, <2>3
<1>8. ASSUME Uniform PROVE Read' = Append(Read, key) /\ key \in Letters
  <2>1. e = 1 /\ key = doc[1].key
    BY <1>8, OneLine DEF e
  <2>2. doc[1] = source[Taken + 1] /\ doc[1] \in Lines
    BY <1>1, <1>2, <2>1, ElementOfSeq DEF Along
  <2>3. /\ Read \in Seq(Letters) /\ Len(Read) = Taken
        /\ \A i \in 1 .. Taken : Read[i] = source[i].key
    BY ReadType
  <2>4. key \in Letters
    BY <2>1, <2>2 DEF Lines
  <2>5. Read' = [i \in 1 .. Taken + 1 |-> source[i].key]
    BY <1>6, <2>1 DEF Read
  <2> DEFINE a == Append(Read, key)
             t == Taken
  <2>6. a \in Seq(Letters) /\ Len(a) = t + 1 /\ a[t + 1] = key
        /\ \A i \in 1 .. t : a[i] = Read[i]
    BY <2>3, <2>4, AppendProperties
  <2> HIDE DEF a
  <2>7. DOMAIN a = 1 .. t + 1 /\ a = [i \in DOMAIN a |-> a[i]]
    BY <2>6, LenProperties
  <2>8. \A i \in 1 .. t + 1 : a[i] = source[i].key
    BY <1>6, <2>1, <2>2, <2>3, <2>6
  <2>9. QED BY <2>4, <2>5, <2>7, <2>8 DEF a
<1>9. QED BY <1>3, <1>6, <1>7, <1>8 DEF e

\* After the line the place in the code stands for the letters read and this one.
LEMMA PositionGrows ==
  ASSUME NEW ks \in Seq(Letters), NEW k \in Letters, NEW ms, NEW place, Position(ks, ms, place),
         NEW ms2, NEW place2,
         k = "m" => place2 = 1 /\ ms2 # <<>>,
         k # "m" => (ms2 = <<>> <=> ms = <<>>),
         k # "m" /\ ms = <<>> => place2 = Behind(Rank(k), k),
         k # "m" /\ ms # <<>> => \E i \in 1 .. 5 : MediaOrder[i] = k /\ place2 = Behind(i, k)
  PROVE  Position(Append(ks, k), ms2, place2)
<1> DEFINE n == Len(ks)
           t == Append(ks, k)
<1>1. /\ n \in Nat /\ DOMAIN ks = 1 .. n
      /\ DOMAIN t = 1 .. n + 1 /\ Len(t) = n + 1 /\ t[n + 1] = k
      /\ \A i \in 1 .. n : t[i] = ks[i]
  BY Grown, AppendProperties
<1> HIDE DEF n, t
<1>2. NoMedia(t) <=> NoMedia(ks) /\ k # "m"
  <2>1. \A i \in 1 .. n + 1 : i \in 1 .. n \/ i = n + 1
    BY <1>1
  <2>2. \A i \in 1 .. n : i \in 1 .. n + 1
    BY <1>1
  <2>3. n + 1 \in 1 .. n + 1
    BY <1>1
  <2>4. QED BY <1>1, <2>1, <2>2, <2>3 DEF NoMedia
<1>3. ms = <<>> <=> NoMedia(ks)
  BY DEF Position
<1>4. n + 1 # 0
  BY <1>1
<1>5. QED BY <1>1, <1>2, <1>3, <1>4 DEF Position, t
\* Before the first line.
LEMMA EmptyOrdered ==
  ASSUME NEW f, DOMAIN f = 1 .. 0
  PROVE  Ordered(f) /\ (Len(f) = 0 => Position(f, <<>>, 1))
<1>1. DOMAIN f = {}
  OBVIOUS
<1>2. EachOrdered(f) /\ PairsOrdered(f) /\ NoMedia(f)
  BY <1>1 DEF EachOrdered, PairsOrdered, NoMedia
<1>3. QED BY <1>2, OrderedIs DEF Position

\* v= comes first or not at all.
LEMMA OnlyFirst ==
  ASSUME NEW ks \in Seq(Letters), Ordered(ks), Joins(ks, "v")
  PROVE  Len(ks) = 0
<1> DEFINE n == Len(ks)
<1>1. n \in Nat /\ DOMAIN ks = 1 .. n
  BY LenProperties
<1>2. SessionOrder[1] = "v" /\ "v" \in SessionKeys /\ "v" \notin MediaKeys /\ "v" \in Single
  BY DEF SessionOrder, SessionKeys, MediaKeys, Single
<1>3. Rank("v") = 1
  BY <1>2, Ranks
<1>4. CASE n < 3 /\ "v" = SessionOrder[n + 1]
  <2>1. n + 1 \in 1 .. 13
    BY <1>1, <1>4
  <2>2. n + 1 = 1
    BY <1>3, <1>4, <2>1, Ranks
  <2>3. QED BY <1>1, <2>2
<1>5. CASE n >= 3 /\ NoMedia(ks) /\ (ks[n] # "m" => PairOrdered(ks[n], "v"))
  <2>1. n \in 1 .. n /\ ks[n] # "m"
    BY <1>1, <1>5 DEF NoMedia
  <2>2. ks[n] \in SessionKeys \cup {"r"}
    <3>1. Part(ks, n) = {}
      BY <1>1, <1>5 DEF Part, NoMedia
    <3>2. QED BY <1>1, <2>1, <3>1, OrderedIs DEF EachOrdered
  <2>3. Rank(ks[n]) \in 1 .. 13 /\ Rank(ks[n]) <= 1
    BY <1>3, <1>5, <2>1, <2>2, RankNumber DEF PairOrdered
  <2>4. ks[n] = "v"
    BY <1>2, <1>3, <2>2, <2>3, SameRank
  <2>5. QED BY <1>2, <1>5, <2>1, <2>4 DEF PairOrdered
<1>6. QED BY <1>1, <1>2, <1>4, <1>5 DEF Joins

\* A parse begins with nothing read.
LEMMA InitAlong == Init => Along
<1> SUFFICES ASSUME Init PROVE Along
  OBVIOUS
<1>1. PICK d \in Documents : Begin(d)
  BY DEF Init
<1>2. source = doc /\ doc \in Seq(Lines) /\ Len(doc) \in Nat /\ sdp.medias = <<>> /\ open = 1
      /\ status = "parsing"
  BY <1>1, DocumentsAssumption, LenProperties DEF Begin, Nothing
<1>3. Taken = 0
  BY <1>2 DEF Taken
<1>4. \A i \in 1 .. Len(doc) : doc[i] = source[Taken + i]
  BY <1>2, <1>3
<1>5. Ordered(Read) /\ Position(Read, <<>>, 1)
  <2>1. Read = [i \in 1 .. 0 |-> source[i].key]
    BY <1>3 DEF Read
  <2>2. DOMAIN Read = 1 .. 0 /\ Len(Read) = 0
    BY <2>1
  <2>3. QED BY <2>2, EmptyOrdered
<1>6. QED BY <1>2, <1>3, <1>4, <1>5 DEF Along

\* A line that fits where the parser is, and where the parser is behind it.
Moves(next) ==
    /\ status = "parsing" /\ doc # <<>> /\ UNCHANGED <<source, first>>
    /\ Fitting(key) /\ (key = "v" => IsVersion0)
    /\ Load(key, next)
    /\ key = "m" => open' = 1 /\ next.medias # <<>>
    /\ key # "m" => (next.medias = <<>> <=> sdp.medias = <<>>)
    /\ key # "m" /\ sdp.medias = <<>> => open' = Behind(Rank(key), key)
    /\ key # "m" /\ sdp.medias # <<>> =>
         \E i \in 1 .. 5 : MediaOrder[i] = key /\ open' = Behind(i, key)

\* Such a line keeps Along.
LEMMA LineTaken ==
  ASSUME Inv, Along, NEW next, Moves(next)
  PROVE  Along'
<1>0. /\ status = "parsing" /\ doc # <<>> /\ UNCHANGED source /\ Fitting(key) /\ Load(key, next)
      /\ key = "m" => open' = 1 /\ next.medias # <<>>
      /\ key # "m" => (next.medias = <<>> <=> sdp.medias = <<>>)
      /\ key # "m" /\ sdp.medias = <<>> => open' = Behind(Rank(key), key)
      /\ key # "m" /\ sdp.medias # <<>> =>
           \E i \in 1 .. 5 : MediaOrder[i] = key /\ open' = Behind(i, key)
  BY Zenon DEF Moves
<1>1. \/ /\ sdp' = next /\ doc' = SubSeq(doc, EntryEnd + 1, Len(doc)) /\ status' = status
      \/ status' = "no_memory" /\ doc' = doc
  BY <1>0, Zenon DEF Load
<1>2. Read \in Seq(Letters)
  BY ReadType
<1>3. Uniform' = Uniform
  BY <1>0 DEF Uniform
<1>4. CASE status' = "no_memory" /\ doc' = doc
  <2>1. Read' = Read /\ Taken' = Taken
    BY <1>0, <1>4 DEF Read, Taken
  <2>2. QED BY <1>0, <1>3, <1>4, <2>1 DEF Along
<1>5. CASE /\ sdp' = next /\ doc' = SubSeq(doc, EntryEnd + 1, Len(doc)) /\ status' = status
  <2>1. \A i \in 1 .. Len(doc') : doc'[i] = source[Taken' + i]
    BY <1>0, <1>5, Advance
  <2>2. ASSUME Uniform
        PROVE  Ordered(Read') /\ Position(Read', sdp'.medias, open')
    <3>1. Read' = Append(Read, key) /\ key \in Letters
      BY <1>0, <1>5, <2>2, Advance
    <3>2. Ordered(Read) /\ Position(Read, sdp.medias, open)
      BY <1>0, <2>2 DEF Along
    <3>3. Joins(Read, key)
      BY <1>0, <1>2, <3>1, <3>2, FittingJoins DEF Inv
    <3>4. Ordered(Append(Read, key))
      BY <1>2, <3>1, <3>2, <3>3, JoinsOrdered
    <3>5. Position(Append(Read, key), next.medias, open')
      BY <1>0, <1>2, <3>1, <3>2, PositionGrows
    <3>6. QED BY <1>5, <3>1, <3>4, <3>5
  <2>3. QED BY <1>0, <1>3, <1>5, <2>1, <2>2 DEF Along
<1>6. QED BY <1>1, <1>4, <1>5

\* A line of the order moves the parser,
LEMMA FieldMoves ==
  ASSUME Inv, ReadField
  PROVE  Moves(Placed(Entry))
<1> DEFINE next == Placed(Entry)
<1>1. /\ status = "parsing" /\ doc # <<>> /\ UNCHANGED <<source, first>>
      /\ Load(key, next) /\ (key = "v" => IsVersion0)
  BY Zenon DEF ReadField
<1>2. PICK i \in Reached(key) : open' = Behind(i, key)
  BY DEF ReadField, Behind
<1>3. Fitting(key)
  BY <1>2 DEF Fitting
<1>4. CASE sdp.medias = <<>>
  <2>1. i \in 1 .. 13 /\ SessionOrder[i] = key
    BY <1>2, <1>4, KeysOfOrders DEF Reached, Order
  <2>2. i = Rank(key) /\ key # "m" /\ key \in SessionKeys
    BY <2>1, Ranks, SessionPlaces
  <2>3. next.medias = sdp.medias
    BY <1>1, <1>4, <2>2, FieldInSession
  <2> HIDE DEF next
  <2>4. Moves(next)
    BY <1>1, <1>2, <1>3, <1>4, <2>2, <2>3, Zenon DEF Moves
  <2>5. QED BY <2>4 DEF next
<1>5. CASE sdp.medias # <<>>
  <2>1. i \in 1 .. 5 /\ MediaOrder[i] = key /\ key # "m" /\ key \in MediaKeys
    BY <1>2, <1>5, KeysOfOrders, MediaPlaces, MediaInSession DEF Reached, Order
  <2>2. Here \in 1 .. Len(sdp.medias) /\ Len(next.medias) = Len(sdp.medias)
    BY <1>1, <1>5, <2>1, FieldInStream
  <2> HIDE DEF next
  <2>3. next.medias # <<>>
    BY <2>2
  <2>4. Moves(next)
    BY <1>1, <1>2, <1>3, <1>5, <2>1, <2>3, Zenon DEF Moves
  <2>5. QED BY <2>4 DEF next
<1>6. QED BY <1>4, <1>5

\* an r= line does,
LEMMA RepeatMoves ==
  ASSUME Inv, ReadRepeat
  PROVE  Moves([sdp EXCEPT !.fields["t"][LastTime] = Append(@, Fields("r", value))])
<1> DEFINE f == [sdp.fields EXCEPT !["t"][LastTime] = Append(@, Fields("r", value))]
           next == [sdp EXCEPT !.fields["t"][LastTime] = Append(@, Fields("r", value))]
<1>1. /\ status = "parsing" /\ key = "r" /\ RepeatReached /\ UNCHANGED <<source, open, first>>
      /\ Load("r", next)
  BY Zenon DEF ReadRepeat
<1>2. doc # <<>>
  BY <1>1 DEF key
<1>3. sdp.medias = <<>> /\ open = 10
  <2>1. sdp.medias = <<>> /\ open <= 13 /\ SessionOrder[open] = "t"
    BY <1>1, KeysOfOrders DEF RepeatReached, Order
  <2>2. open \in 1 .. 13
    BY <2>1 DEF Inv
  <2>3. QED BY <2>1, <2>2, OrderPlaces
<1>4. next.medias = sdp.medias
  <2>1. next = [sdp EXCEPT !.fields = f]
    OBVIOUS
  <2> HIDE DEF f
  <2>2. QED BY <2>1 DEF Inv, WellFormed
<1> HIDE DEF next
<1>5. open' = Behind(Rank(key), key)
  BY <1>1, <1>3, Ranks, SessionPlaces DEF Behind
<1>6. Fitting(key)
  BY <1>1 DEF Fitting
<1>7. Load(key, next) /\ key # "m" /\ key # "v"
  BY <1>1
<1>8. Moves(next)
  BY <1>1, <1>2, <1>3, <1>4, <1>5, <1>6, <1>7, Zenon DEF Moves
<1>9. QED BY <1>8 DEF next

\* and an m= line does.
LEMMA MediaMoves ==
  ASSUME Inv, ReadMedia
  PROVE  Moves([sdp EXCEPT !.medias =
                   Append(@, [info |-> Fields("m", value), fields |-> NoFields])])
<1> DEFINE x == [info |-> Fields("m", value), fields |-> NoFields]
           next == [sdp EXCEPT !.medias = Append(@, x)]
<1>1. /\ status = "parsing" /\ key = "m" /\ MediaReached /\ UNCHANGED <<source, first>> /\ open' = 1
      /\ Load("m", next)
  BY Zenon DEF ReadMedia
<1>2. doc # <<>>
  BY <1>1 DEF key
<1> HIDE DEF x
<1>3. next.medias # <<>>
  <2> DEFINE ms == sdp.medias
  <2>1. ms \in Seq(Streams) /\ next.medias = Append(ms, x)
    BY DEF Inv, WellFormed
  <2> HIDE DEF ms
  <2>2. Len(ms) \in Nat /\ Append(ms, x)[Len(ms) + 1] = x /\ Len(Append(ms, x)) = Len(ms) + 1
    BY <2>1, LenProperties
  <2>3. QED BY <2>1, <2>2
<1> HIDE DEF next
<1>4. Fitting(key)
  BY <1>1 DEF Fitting
<1>5. Load(key, next) /\ key # "v"
  BY <1>1
<1>6. Moves(next)
  BY <1>1, <1>2, <1>3, <1>4, <1>5, Zenon DEF Moves
<1>7. QED BY <1>6 DEF next, x

\* The end of a parse keeps Along: the line that ends it has no place.
LEMMA EndAlong ==
  ASSUME Inv, Along, Return \/ Reject
  PROVE  Along'
<1>1. status = "parsing" /\ ~Fits /\ UNCHANGED <<source, doc>> /\ status' \in {"parsed", "rejected"}
      /\ (status' = "parsed" => MediaReached /\ UNCHANGED <<sdp, open>>)
  BY DEF Return, Reject
<1>2. Read' = Read /\ Taken' = Taken /\ Uniform' = Uniform
  BY <1>1 DEF Read, Taken, Uniform
<1>3. Read \in Seq(Letters) /\ Len(Read) = Taken /\ Taken \in Nat
  BY ReadType
<1>4. ASSUME Uniform
      PROVE  Ordered(Read) /\ Position(Read, sdp.medias, open)
  BY <1>1, <1>4 DEF Along
<1>5. ASSUME Uniform, status' = "parsed" PROVE Taken >= 3
  <2>1. "m" \in Letters
    BY LettersOfOrders
  <2>2. Fitting("m")
    BY <1>1, <1>5 DEF Fitting
  <2>3. Joins(Read, "m")
    BY <1>3, <1>4, <1>5, <2>1, <2>2, FittingJoins DEF Inv
  <2>4. \A j \in 1 .. 3 : SessionOrder[j] # "m"
    BY SessionPlaces
  <2>6. Len(Read) + 1 \in 1 .. 3 \/ Len(Read) >= 3
    BY <1>3
  <2>7. QED BY <1>3, <2>3, <2>4, <2>6 DEF Joins
<1>6. ASSUME Uniform, doc # <<>>
      PROVE  \/ ~Ordered(Append(Read, doc[1].key))
             \/ Taken = 0 /\ doc[1].val # <<<<0>>>>
  <2>1. key = doc[1].key /\ value = doc[1].val
    BY <1>6, OneLine
  <2>2. key \in Letters
    <3>1. doc \in Seq(Lines) /\ Len(doc) \in Nat /\ Len(doc) >= 1
      BY <1>6, LenProperties, EmptySeq DEF Inv
    <3>2. doc[1] \in Lines
      BY <3>1, ElementOfSeq
    <3>3. QED BY <2>1, <3>2 DEF Lines
  <2>3. Fitting(key) <=> Joins(Read, key)
    BY <1>3, <1>4, <1>6, <2>2, FittingJoins DEF Inv
  <2>4. CASE ~Fitting(key)
    <3>1. ~Joins(Read, key)
      BY <2>3, <2>4
    <3>2. ~Ordered(Append(Read, key))
      BY <1>3, <2>2, <3>1, OrderedJoins
    <3>3. QED BY <2>1, <3>2
  <2>5. CASE Fitting(key)
    <3>1. key = "v" /\ ~IsVersion0 /\ Joins(Read, "v")
      BY <1>1, <2>3, <2>5 DEF Fits, Fitting
    <3>2. Taken = 0
      BY <1>3, <1>4, <1>6, <3>1, OnlyFirst
    <3>3. QED BY <2>1, <3>1, <3>2 DEF IsVersion0
  <2>6. QED BY <2>4, <2>5
<1>7. QED BY <1>1, <1>2, <1>4, <1>5, <1>6 DEF Along

\* A second parse begins with nothing read.
LEMMA ParseAgainAlong ==
  ASSUME Inv, Along, ParseAgain
  PROVE  Along'
<1>1. Format(sdp) \in Seq(Lines)
  BY FormatType DEF Inv
<1>2. source' = Format(sdp) /\ doc' = Format(sdp) /\ sdp' = Nothing /\ open' = 1 /\ status' = "parsing"
  BY Zenon DEF ParseAgain
<1>3. Len(doc') \in Nat /\ source' = doc'
  BY <1>1, <1>2, LenProperties
<1>4. Taken' = 0
  BY <1>3 DEF Taken
<1>5. Read' = [i \in 1 .. 0 |-> source'[i].key]
  BY <1>4 DEF Read
<1>6. sdp'.medias = <<>>
  BY <1>2 DEF Nothing
<1>7. \A i \in 1 .. Len(doc') : doc'[i] = source'[Taken' + i]
  BY <1>3, <1>4
<1>8. Ordered(Read') /\ Position(Read', <<>>, 1)
  <2>1. DOMAIN (Read') = 1 .. 0 /\ Len(Read') = 0
    BY <1>5
  <2>2. QED BY <2>1, EmptyOrdered
<1>9. QED BY <1>2, <1>6, <1>7, <1>8 DEF Along

\* Along is inductive with Inv.
LEMMA NextAlong == Inv /\ Along /\ [Next]_vars => Along'
<1> SUFFICES ASSUME Inv, Along, [Next]_vars PROVE Along'
  OBVIOUS
<1>1. CASE UNCHANGED vars
  <2>1. UNCHANGED <<source, doc, sdp, open, status>>
    BY <1>1 DEF vars
  <2>2. Read' = Read /\ Taken' = Taken /\ Uniform' = Uniform
    BY <2>1 DEF Read, Taken, Uniform
  <2>3. QED BY <2>1, <2>2 DEF Along
<1>2. QED
  BY <1>1, FieldMoves, RepeatMoves, MediaMoves, LineTaken, EndAlong, ParseAgainAlong DEF Next

\* LongestOrdered of every behaviour: the parser, which knows nothing but its
\* place in the code, takes the longest beginning of the text that keeps the order
\* (sdp_parser, load_next_entry).
THEOREM LongestTaken == Spec => []LongestOrdered
<1>1. Inv /\ Along => LongestOrdered
  <2> SUFFICES ASSUME Inv, Along PROVE LongestOrdered
    OBVIOUS
  <2>1. Keys(Loaded) = Read /\ Len(Loaded) = Taken /\ Loaded \in Seq(Lines) /\ Taken \in Nat
    BY ReadType
  <2>2. Taken = 0 => Loaded = <<>>
    BY <2>1, EmptySeq
  <2>3. QED BY <2>1, <2>2 DEF Along, LongestOrdered
<1>2. QED BY <1>1, InitInv, NextInv, InitAlong, NextAlong, PTL DEF Spec

-------------------------------------------------------------------------------
(* What sdp_format writes grows at its end as lines are read. *)

\* What joins the last sequence that is not empty comes behind all of them.
LEMMA FlattenLast ==
  ASSUME NEW T, NEW s \in Seq(Seq(T)), NEW t \in Seq(Seq(T)), NEW x \in Seq(T),
         NEW p \in 1 .. Len(s), Len(t) = Len(s), t[p] = s[p] \o x,
         \A j \in 1 .. Len(s) : j # p => t[j] = s[j],
         \A j \in 1 .. Len(s) : j > p => s[j] = <<>>
  PROVE  FlattenSeq(t) = FlattenSeq(s) \o x
<1> DEFINE n == Len(s)
           Cat(u, v) == u \o v
<1>0. \A u, v, w \in Seq(T) : Cat(u, Cat(v, w)) = Cat(Cat(u, v), w)
  <2> SUFFICES ASSUME NEW u \in Seq(T), NEW v \in Seq(T), NEW w \in Seq(T)
               PROVE  u \o (v \o w) = (u \o v) \o w
    OBVIOUS
  <2>1. u \in Seq(T) /\ v \in Seq(T) /\ w \in Seq(T)
    OBVIOUS
  <2>2. QED BY ONLY <2>1, SMTT(30)
<1> HIDE DEF Cat
<1>1. n \in Nat /\ n # 0 /\ Len(t) = n
  BY LenProperties
<1>2. PICK f : Flattens(f, s, Len(s)) /\ FlattenSeq(s) = f[Len(s)]
  BY <1>1, FlattenUnfolds
<1>3. PICK g : Flattens(g, t, Len(t)) /\ FlattenSeq(t) = g[Len(t)]
  BY <1>1, FlattenUnfolds
<1>4. \A i \in 1 .. Len(s) : f[i] \in Seq(T)
  BY <1>2, FlattensType
<1> HIDE DEF n
<1>5. /\ \A i \in 1 .. n : f[i] = IF i = 1 THEN s[i] ELSE f[i - 1] \o s[i]
      /\ \A i \in 1 .. n : g[i] = IF i = 1 THEN t[i] ELSE g[i - 1] \o t[i]
  <2>1. n \in Nat /\ Flattens(f, s, n) /\ Flattens(g, t, n)
    BY <1>1, <1>2, <1>3 DEF n
  <2>2. \A i \in 1 .. n : f[i] = IF i = 1 THEN s[i] ELSE f[i - 1] \o s[i]
    BY ONLY <2>1, FlattensAt
  <2>3. \A i \in 1 .. n : g[i] = IF i = 1 THEN t[i] ELSE g[i - 1] \o t[i]
    BY ONLY <2>1, FlattensAt
  <2>4. QED BY <2>2, <2>3
<1>6. /\ \A i \in 1 .. n : f[i] \in Seq(T) /\ s[i] \in Seq(T) /\ t[i] \in Seq(T)
      /\ p \in 1 .. n /\ t[p] = s[p] \o x
      /\ \A j \in 1 .. n : j # p => t[j] = s[j]
      /\ \A j \in 1 .. n : j > p => s[j] = <<>>
  BY <1>1, <1>4, ElementOfSeq DEF n
<1> DEFINE Good(k) == /\ k < p => g[k] = f[k]
                      /\ k >= p => g[k] = f[k] \o x
           S == {k \in Nat : k \in 1 .. n => Good(k)}
<1>7. 0 \in S
  OBVIOUS
<1>8. \A k \in Nat : k \in S => k + 1 \in S
  <2> SUFFICES ASSUME NEW k \in Nat, k \in 1 .. n => Good(k), k + 1 \in 1 .. n
               PROVE  Good(k + 1)
    <3> HIDE DEF Good
    <3> QED OBVIOUS
  <2> DEFINE i == k + 1
             a == s[i]
             b == f[k]
  <2>1. i - 1 = k /\ (k # 0 => k \in 1 .. n) /\ i \in 1 .. n /\ (k = 0 <=> i = 1)
    BY <1>1
  <2>2. f[i] = (IF k = 0 THEN a ELSE b \o a) /\ g[i] = IF k = 0 THEN t[i] ELSE g[k] \o t[i]
    BY <1>5, <2>1
  <2>3. a \in Seq(T) /\ x \in Seq(T) /\ (k # 0 => b \in Seq(T))
    BY <1>6, <2>1
  <2>0. k # 0 => (k < p => g[k] = b) /\ (k >= p => g[k] = b \o x)
    BY <2>1
  <2>4. CASE i < p
    <3>1. k < p /\ t[i] = a /\ (k # 0 => g[k] = b)
      BY <1>6, <2>0, <2>1, <2>4
    <3>2. g[i] = f[i] /\ ~(i >= p)
      BY <2>2, <2>4, <3>1
    <3>3. QED BY <3>2
  <2>5. CASE i = p
    <3>0. t[i] = a \o x
      BY <1>6, <2>5
    <3>1. k < p /\ t[i] = a \o x /\ (k # 0 => g[k] = b)
      <4> HIDE DEF a, b
      <4>1. k < p
        BY <1>6, <2>5
      <4>2. QED BY <2>0, <3>0, <4>1
    <3> HIDE DEF i, a, b
    <3>2. CASE k = 0
      BY <2>2, <3>1, <3>2, <2>5 DEF i
    <3>3. CASE k # 0
      <4>1. g[i] = b \o (a \o x) /\ f[i] = b \o a
        BY <2>2, <3>1, <3>3
      <4>2. a \in Seq(T) /\ x \in Seq(T) /\ b \in Seq(T)
        BY <2>3, <3>3
      <4>3. g[i] = Cat(b, Cat(a, x)) /\ f[i] = Cat(b, a)
        BY <4>1 DEF Cat
      <4> HIDE DEF Cat
      <4>4. g[i] = Cat(f[i], x)
        <5> HIDE DEF S, Good
        <5>1. Cat(b, Cat(a, x)) = Cat(Cat(b, a), x)
           BY <1>0, <4>2
        <5> QED BY <4>3, <5>1
      <4>5. QED BY <2>5, <4>4 DEF i, Cat
    <3>4. QED BY <3>2, <3>3
  <2>6. CASE i > p
    <3>0. t[i] = <<>> /\ a = <<>>
      <4>1. i \in 1 .. n /\ i > p /\ i # p
        BY <1>6, <2>1, <2>6
      <4> HIDE DEF i
      <4>2. QED BY <1>6, <4>1
    <3>1. k >= p /\ k # 0 /\ t[i] = <<>> /\ a = <<>> /\ g[k] = b \o x
      <4> HIDE DEF a, b
      <4>1. k >= p /\ k # 0
        BY <1>6, <2>6
      <4>2. QED BY <2>0, <3>0, <4>1
    <3> HIDE DEF a, b, i
    <3>2. g[i] = (b \o x) \o <<>> /\ f[i] = b \o <<>>
      BY <2>2, <3>1
    <3>3. b \o x \in Seq(T) /\ b \in Seq(T)
      BY <2>3, <3>1, ConcatProperties
    <3>4. g[i] = b \o x /\ f[i] = b
      BY <3>2, <3>3, ConcatEmptySeq
    <3>5. QED BY <2>6, <3>4 DEF i
  <2>7. QED BY <1>6, <2>4, <2>5, <2>6, SMTT(60)
<1>9. Nat \subseteq S
  <2> HIDE DEF S
  <2> QED BY <1>7, <1>8, SetInduction
<1>10. g[n] = f[n] \o x
  <2>1. n \in 1 .. n /\ n >= p
    BY <1>1, <1>6
  <2>2. Good(n)
    <3> HIDE DEF Good
    <3> QED BY <1>9, <2>1
  <2>3. QED BY <2>1, <2>2
<1>11. QED BY <1>1, <1>2, <1>3, <1>10 DEF n

\* The keys of two texts behind one another.
LEMMA KeysConcat ==
  ASSUME NEW a \in Seq(Lines), NEW b \in Seq(Lines)
  PROVE  Keys(a \o b) = Keys(a) \o Keys(b) /\ Keys(a) \in Seq(Letters)
<1>1. /\ \A l \in Lines : l.key \in Letters
      /\ Len(a) \in Nat /\ Len(b) \in Nat /\ DOMAIN a = 1 .. Len(a) /\ DOMAIN b = 1 .. Len(b)
      /\ \A i \in 1 .. Len(a) : a[i] \in Lines
      /\ \A i \in 1 .. Len(b) : b[i] \in Lines
  BY LenProperties, ElementOfSeq DEF Lines
<1> DEFINE c == a \o b
           m == Len(a)
           n == Len(b)
<1>2. /\ c \in Seq(Lines) /\ Len(c) = m + n /\ DOMAIN c = 1 .. m + n
      /\ \A i \in 1 .. m + n : c[i] = IF i <= m THEN a[i] ELSE b[i - m]
  BY <1>1, ConcatProperties, LenProperties
<1> HIDE DEF c, m, n
<1>3. /\ Keys(a) \in Seq(Letters) /\ Len(Keys(a)) = m
      /\ \A i \in 1 .. m : Keys(a)[i] = a[i].key
  BY <1>1 DEF Keys, m
<1>4. /\ Keys(b) \in Seq(Letters) /\ Len(Keys(b)) = n
      /\ \A i \in 1 .. n : Keys(b)[i] = b[i].key
  BY <1>1 DEF Keys, n
<1>5. /\ Keys(a) \o Keys(b) \in Seq(Letters) /\ Len(Keys(a) \o Keys(b)) = m + n
      /\ \A i \in 1 .. m + n : (Keys(a) \o Keys(b))[i] = IF i <= m THEN Keys(a)[i] ELSE Keys(b)[i - m]
  BY <1>3, <1>4, ConcatProperties
<1>6. m \in Nat /\ n \in Nat
  BY <1>1 DEF m, n
<1>7. /\ Keys(c) \in Seq(Letters) /\ Len(Keys(c)) = m + n
      /\ \A i \in 1 .. m + n : Keys(c)[i] = c[i].key
  <2>1. \A i \in 1 .. m + n : c[i].key \in Letters
    <3>1. \A i \in 1 .. m + n : c[i] \in Lines
      BY <1>2, ElementOfSeq
    <3>2. QED BY <1>1, <3>1
  <2>2. QED BY <1>2, <1>6, <2>1 DEF Keys
<1>8. \A i \in 1 .. m + n : Keys(c)[i] = (Keys(a) \o Keys(b))[i]
  <2> SUFFICES ASSUME NEW i \in 1 .. m + n PROVE Keys(c)[i] = (Keys(a) \o Keys(b))[i]
    OBVIOUS
  <2>1. CASE i <= m
    <3>1. i \in 1 .. m
      BY <1>6, <2>1
    <3>2. QED BY <1>2, <1>3, <1>5, <1>7, <2>1, <3>1
  <2>2. CASE ~(i <= m)
    <3>1. i - m \in 1 .. n
      BY <1>6, <2>2
    <3>2. QED BY <1>2, <1>4, <1>5, <1>7, <2>2, <3>1
  <2>3. QED BY <2>1, <2>2
<1>9. Keys(c) = Keys(a) \o Keys(b)
  BY <1>5, <1>7, <1>8, SeqEqual
<1>10. QED BY <1>3, <1>9 DEF c

\* The key of one line.
LEMMA KeysOfOne ==
  ASSUME NEW k, NEW fields
  PROVE  Keys(<<Line(k, fields)>>) = <<k>>
BY DEF Keys, Line

\* An empty section is no line.
LEMMA WrittenNone ==
  ASSUME NEW k
  PROVE  Written(k, <<>>) = <<>>
BY DEF Written, FlattenSeq

\* One more entry is one more line.
LEMMA WrittenOne ==
  ASSUME NEW k \in Letters, k # "t", NEW e \in Seq(Texts), NEW x \in Texts
  PROVE  Written(k, e \o <<x>>) = Written(k, e) \o <<Line(k, x)>>
<1> DEFINE c == e \o <<x>>
           n == Len(e)
<1>1. n \in Nat /\ DOMAIN e = 1 .. n /\ <<x>> \in Seq(Texts)
  BY LenProperties
<1>2. /\ c \in Seq(Texts) /\ Len(c) = n + 1 /\ DOMAIN c = 1 .. n + 1
      /\ \A i \in 1 .. n : c[i] = e[i]
      /\ c[n + 1] = x
  <2>1. c = Append(e, x)
    OBVIOUS
  <2>2. QED BY <2>1, AppendProperties, LenProperties
<1>3. \A y \in Texts : Line(k, y) \in Lines
  BY LineType
<1> DEFINE w == Written(k, e)
           v == Written(k, c)
           l == Line(k, x)
<1>4. /\ w = [i \in 1 .. n |-> Line(k, e[i])]
      /\ v = [i \in 1 .. n + 1 |-> Line(k, c[i])]
  BY <1>1, <1>2 DEF Written
<1>5. /\ \A i \in 1 .. n : e[i] \in Texts
      /\ \A i \in 1 .. n + 1 : c[i] \in Texts
  BY <1>2, ElementOfSeq
<1> HIDE DEF c, n, w, v, l
<1>6. w \in Seq(Lines) /\ v \in Seq(Lines) /\ l \in Lines /\ Len(w) = n /\ Len(v) = n + 1
  <2>1. \A i \in 1 .. n : Line(k, e[i]) \in Lines
    BY <1>3, <1>5
  <2>2. \A i \in 1 .. n + 1 : Line(k, c[i]) \in Lines
    BY <1>3, <1>5
  <2>3. w \in Seq(Lines) /\ Len(w) = n
    BY <1>1, <1>4, <2>1
  <2>4. v \in Seq(Lines) /\ Len(v) = n + 1
    BY <1>1, <1>4, <2>2
  <2>5. QED BY <1>3, <2>3, <2>4 DEF l
<1>7. /\ Append(w, l) \in Seq(Lines) /\ Len(Append(w, l)) = n + 1
      /\ \A i \in 1 .. n : Append(w, l)[i] = w[i]
      /\ Append(w, l)[n + 1] = l
  BY <1>6, AppendProperties
<1>8. \A i \in 1 .. n + 1 : v[i] = Append(w, l)[i]
  <2>1. \A i \in 1 .. n + 1 : i \in 1 .. n \/ i = n + 1
    BY <1>1
  <2>2. \A i \in 1 .. n : i \in 1 .. n + 1
    BY <1>1
  <2>3. n + 1 \in 1 .. n + 1
    BY <1>1
  <2>4. QED BY <1>2, <1>4, <1>7, <2>1, <2>2, <2>3 DEF l
<1>9. v = Append(w, l)
  BY <1>6, <1>7, <1>8, SeqEqual
<1>10. Append(w, l) = w \o <<l>>
  BY <1>6
<1>11. QED BY <1>9, <1>10 DEF c, v, w, l

\* The lines of a time: t=, and an r= for every repeat.
TimeLines(y) == [j \in DOMAIN y |-> Line(IF j = 1 THEN "t" ELSE "r", y[j])]

\* The lines of every time.
AllTimes(e) == [n \in DOMAIN e |-> TimeLines(e[n])]

\* The section of times is written time by time.
LEMMA WrittenTimes == \A e : Written("t", e) = FlattenSeq(AllTimes(e))
  BY DEF Written, AllTimes, TimeLines

\* A time is written as one line for each of its parts.
LEMMA TimeLinesType ==
  ASSUME NEW y \in Seq(Texts)
  PROVE  /\ TimeLines(y) \in Seq(Lines) /\ Len(TimeLines(y)) = Len(y)
         /\ \A j \in 1 .. Len(y) : TimeLines(y)[j] = Line(IF j = 1 THEN "t" ELSE "r", y[j])
<1>1. "t" \in Letters /\ "r" \in Letters
  BY LettersOfOrders DEF SessionKeys
<1>2. Len(y) \in Nat /\ DOMAIN y = 1 .. Len(y)
  BY LenProperties
<1>3. \A j \in 1 .. Len(y) : Line(IF j = 1 THEN "t" ELSE "r", y[j]) \in Lines
  BY <1>1, ElementOfSeq, LineType
<1>4. QED BY <1>2, <1>3 DEF TimeLines

\* The times of a section are sequences of lines.
LEMMA AllTimesType ==
  ASSUME NEW e \in TimesType
  PROVE  /\ AllTimes(e) \in Seq(Seq(Lines)) /\ Len(AllTimes(e)) = Len(e)
         /\ \A n \in 1 .. Len(e) : AllTimes(e)[n] = TimeLines(e[n]) /\ e[n] \in Seq(Texts) /\ e[n] # <<>>
<1>1. Len(e) \in Nat /\ DOMAIN e = 1 .. Len(e)
  BY LenProperties DEF TimesType
<1>2. \A n \in 1 .. Len(e) : e[n] \in Seq(Texts) /\ e[n] # <<>>
  <2>1. \A n \in 1 .. Len(e) : e[n] \in Seq(Texts) \ {<<>>}
    BY ElementOfSeq DEF TimesType
  <2>2. QED BY <2>1
<1>3. \A n \in 1 .. Len(e) : TimeLines(e[n]) \in Seq(Lines)
  BY <1>2, TimeLinesType
<1>4. QED BY <1>1, <1>2, <1>3 DEF AllTimes

\* One more time is one more t= line.
LEMMA WrittenTime ==
  ASSUME NEW e \in TimesType, NEW x \in Texts
  PROVE  Written("t", e \o <<<<x>>>>) = Written("t", e) \o <<Line("t", x)>>
<1> DEFINE y == <<x>>
           c == e \o <<y>>
           n == Len(e)
           line == Line("t", x)
<1>1. y \in Seq(Texts) /\ y # <<>> /\ Len(y) = 1 /\ y[1] = x /\ n \in Nat
  BY LenProperties DEF TimesType
<1>2. TimeLines(y) = <<line>> /\ line \in Lines
  <2>1. TimeLines(y) \in Seq(Lines) /\ Len(TimeLines(y)) = 1 /\ TimeLines(y)[1] = line
    <3> HIDE DEF y
    <3>1. 1 \in 1 .. Len(y)
      BY <1>1
    <3>2. /\ TimeLines(y) \in Seq(Lines) /\ Len(TimeLines(y)) = Len(y)
          /\ \A j \in 1 .. Len(y) : TimeLines(y)[j] = Line(IF j = 1 THEN "t" ELSE "r", y[j])
      BY <1>1, TimeLinesType
    <3>3. TimeLines(y)[1] = Line("t", y[1])
      BY <3>1, <3>2
    <3>4. QED BY <1>1, <3>2, <3>3
  <2> HIDE DEF y, line
  <2>2. line \in Lines
    BY <2>1, ElementOfSeq
  <2>3. QED BY <2>1, <2>2
<1> HIDE DEF y, line
<1>3. /\ c \in TimesType /\ Len(c) = n + 1 /\ c[n + 1] = y
      /\ \A i \in 1 .. n : c[i] = e[i]
  <2> DEFINE T == Seq(Texts) \ {<<>>}
  <2>1. e \in Seq(T) /\ y \in T
    BY <1>1 DEF TimesType
  <2> HIDE DEF T
  <2>2. c = Append(e, y)
    BY <2>1
  <2>3. QED BY <2>1, <2>2, AppendProperties DEF TimesType, T
<1> HIDE DEF c
<1>4. /\ AllTimes(c) \in Seq(Seq(Lines)) /\ Len(AllTimes(c)) = n + 1
      /\ \A i \in 1 .. n + 1 : AllTimes(c)[i] = TimeLines(c[i])
  BY <1>3, AllTimesType
<1>5. /\ AllTimes(e) \in Seq(Seq(Lines)) /\ Len(AllTimes(e)) = n
      /\ \A i \in 1 .. n : AllTimes(e)[i] = TimeLines(e[i])
  BY AllTimesType
<1> DEFINE w == AllTimes(e)
           a == Append(w, <<line>>)
<1>6. <<line>> \in Seq(Lines)
  BY <1>2
<1>7. /\ a \in Seq(Seq(Lines)) /\ Len(a) = n + 1 /\ a[n + 1] = <<line>>
      /\ \A i \in 1 .. n : a[i] = w[i]
  BY <1>5, <1>6, AppendProperties
<1> HIDE DEF a, n
<1>8. \A i \in 1 .. n + 1 : AllTimes(c)[i] = a[i]
  <2>1. \A i \in 1 .. n + 1 : i \in 1 .. n \/ i = n + 1
    BY <1>1
  <2>2. \A i \in 1 .. n : i \in 1 .. n + 1
    BY <1>1
  <2>3. n + 1 \in 1 .. n + 1
    BY <1>1
  <2>4. QED BY <1>2, <1>3, <1>4, <1>5, <1>7, <2>1, <2>2, <2>3, ZenonT(60)
<1>9. AllTimes(c) = a
  BY <1>4, <1>7, <1>8, SeqEqual
<1>10. FlattenSeq(a) = FlattenSeq(w) \o <<line>>
  BY <1>5, <1>6, FlattenAppend DEF a
<1>11. QED BY <1>9, <1>10, WrittenTimes DEF c, y, line

\* One more repeat is one more line of its time,
LEMMA TimeGrows ==
  ASSUME NEW y \in Seq(Texts), y # <<>>, NEW x \in Texts
  PROVE  TimeLines(Append(y, x)) = TimeLines(y) \o <<Line("r", x)>> /\ Line("r", x) \in Lines
<1> DEFINE n == Len(y)
           c == Append(y, x)
           w == TimeLines(y)
           v == TimeLines(c)
           l == Line("r", x)
<1>1. n \in Nat /\ n >= 1
  BY LenProperties, EmptySeq
<1>2. /\ c \in Seq(Texts) /\ Len(c) = n + 1 /\ c[n + 1] = x
      /\ \A i \in 1 .. n : c[i] = y[i]
  BY AppendProperties
<1>3. l \in Lines
  BY LineType, LettersOfOrders
<1>4. /\ w \in Seq(Lines) /\ Len(w) = n
      /\ \A i \in 1 .. n : w[i] = Line(IF i = 1 THEN "t" ELSE "r", y[i])
  BY TimeLinesType
<1> HIDE DEF c
<1>5. /\ v \in Seq(Lines) /\ Len(v) = n + 1
      /\ \A i \in 1 .. n + 1 : v[i] = Line(IF i = 1 THEN "t" ELSE "r", c[i])
  BY <1>2, TimeLinesType
<1> HIDE DEF n, w, v
<1>6. /\ Append(w, l) \in Seq(Lines) /\ Len(Append(w, l)) = n + 1 /\ Append(w, l)[n + 1] = l
      /\ \A i \in 1 .. n : Append(w, l)[i] = w[i]
  BY <1>3, <1>4, AppendProperties
<1>7. \A i \in 1 .. n + 1 : v[i] = Append(w, l)[i]
  <2>1. \A i \in 1 .. n + 1 : i \in 1 .. n \/ i = n + 1
    BY <1>1
  <2>2. \A i \in 1 .. n : i \in 1 .. n + 1
    BY <1>1
  <2>3. n + 1 \in 1 .. n + 1 /\ n + 1 # 1
    BY <1>1
  <2>4. \A i \in 1 .. n : v[i] = Append(w, l)[i]
    BY <1>2, <1>4, <1>5, <1>6, <2>2
  <2>5. v[n + 1] = l
    BY <1>2, <1>5, <2>3
  <2>6. QED BY <1>6, <2>1, <2>4, <2>5
<1>8. v = Append(w, l)
  BY <1>5, <1>6, <1>7, SeqEqual
<1> HIDE DEF l
<1>9. Append(w, l) = w \o <<l>>
  BY <1>3, <1>4
<1>10. QED BY <1>3, <1>8, <1>9 DEF c, v, w, l

\* and of the section, as it joins the last time.
LEMMA WrittenRepeat ==
  ASSUME NEW e \in TimesType, e # <<>>, NEW x \in Texts
  PROVE  Written("t", [e EXCEPT ![Len(e)] = Append(@, x)]) = Written("t", e) \o <<Line("r", x)>>
<1> DEFINE n == Len(e)
           y == e[n]
           c == [e EXCEPT ![n] = Append(y, x)]
           l == Line("r", x)
<1>1. n \in Nat /\ n \in 1 .. n
  BY LenProperties, EmptySeq DEF TimesType
<1>2. y \in Seq(Texts) /\ y # <<>>
  BY <1>1, AllTimesType
<1> HIDE DEF y
<1>3. TimeLines(Append(y, x)) = TimeLines(y) \o <<l>> /\ l \in Lines
  BY <1>2, TimeGrows, SMTT(60)
<1>4. /\ c \in TimesType /\ Len(c) = n /\ c[n] = Append(y, x)
      /\ \A i \in 1 .. n : i # n => c[i] = e[i]
  <2> DEFINE T == Seq(Texts) \ {<<>>}
             z == Append(y, x)
  <2>1. z \in Seq(Texts) /\ Len(z) = Len(y) + 1 /\ Len(y) \in Nat
    BY <1>2, AppendProperties, LenProperties
  <2>2. e \in Seq(T) /\ z \in T /\ n \in 1 .. Len(e)
    <3> HIDE DEF z
    <3>1. z # <<>>
      BY <2>1
    <3>2. QED BY <1>1, <2>1, <3>1 DEF TimesType
  <2> HIDE DEF T, z, n
  <2>3. [e EXCEPT ![n] = z] \in Seq(T) /\ Len([e EXCEPT ![n] = z]) = Len(e)
        /\ \A j \in 1 .. Len(e) : [e EXCEPT ![n] = z][j] = IF j = n THEN z ELSE e[j]
    BY <2>2, ExceptSeq
  <2>4. QED BY <2>2, <2>3, ZenonT(60) DEF T, z, n, TimesType
<1>5. c = [e EXCEPT ![Len(e)] = Append(@, x)]
  BY DEF y
<1> HIDE DEF c, l
<1>6. /\ AllTimes(c) \in Seq(Seq(Lines)) /\ Len(AllTimes(c)) = n
      /\ \A i \in 1 .. n : AllTimes(c)[i] = TimeLines(c[i])
  BY <1>4, AllTimesType
<1>7. /\ AllTimes(e) \in Seq(Seq(Lines)) /\ Len(AllTimes(e)) = n
      /\ \A i \in 1 .. n : AllTimes(e)[i] = TimeLines(e[i])
  BY AllTimesType
<1> HIDE DEF n
<1>8. <<l>> \in Seq(Lines)
  BY <1>3
<1>9. /\ AllTimes(c)[n] = AllTimes(e)[n] \o <<l>>
      /\ \A i \in 1 .. n : i # n => AllTimes(c)[i] = AllTimes(e)[i]
      /\ \A i \in 1 .. n : i > n => AllTimes(e)[i] = <<>>
  <2>1. AllTimes(c)[n] = TimeLines(Append(y, x)) /\ AllTimes(e)[n] = TimeLines(y)
    BY <1>1, <1>4, <1>6, <1>7 DEF y
  <2>2. \A i \in 1 .. n : i # n => AllTimes(c)[i] = AllTimes(e)[i]
    BY <1>4, <1>6, <1>7
  <2>3. \A i \in 1 .. n : ~(i > n)
    BY <1>1
  <2>4. QED BY <1>3, <2>1, <2>2, <2>3
<1>10. FlattenSeq(AllTimes(c)) = FlattenSeq(AllTimes(e)) \o <<l>>
  <2> DEFINE a == AllTimes(c)
             b == AllTimes(e)
  <2>1. /\ a \in Seq(Seq(Lines)) /\ b \in Seq(Seq(Lines)) /\ Len(a) = Len(b) /\ n \in 1 .. Len(b)
        /\ a[n] = b[n] \o <<l>>
        /\ \A i \in 1 .. Len(b) : i # n => a[i] = b[i]
        /\ \A i \in 1 .. Len(b) : i > n => b[i] = <<>>
    BY <1>1, <1>6, <1>7, <1>9
  <2> HIDE DEF a, b
  <2>2. FlattenSeq(a) = FlattenSeq(b) \o <<l>>
    BY <1>8, <2>1, FlattenLast
  <2>3. QED BY <2>2 DEF a, b
<1>11. QED BY <1>5, <1>10, WrittenTimes DEF l

\* What a section of the session grows by is at the end of the session, if nothing
\* is written behind it.
LEMMA SessionGrows ==
  ASSUME NEW s, WellFormed(s), NEW n, WellFormed(n), NEW i \in 1 .. 13, NEW w \in Seq(Lines),
         \A j \in 1 .. 13 : j # i => n.fields[SessionOrder[j]] = s.fields[SessionOrder[j]],
         Written(SessionOrder[i], n.fields[SessionOrder[i]])
           = Written(SessionOrder[i], s.fields[SessionOrder[i]]) \o w,
         \A j \in 1 .. 13 : j > i => s.fields[SessionOrder[j]] = <<>>
  PROVE  InOrder(SessionOrder, n.fields) = InOrder(SessionOrder, s.fields) \o w
<1> DEFINE a == Sections(SessionOrder, s.fields)
           b == Sections(SessionOrder, n.fields)
<1>1. /\ InOrder(SessionOrder, s.fields) = FlattenSeq(a)
      /\ a \in Seq(Seq(Lines)) /\ Len(a) = 13
      /\ \A j \in 1 .. 13 : a[j] = Written(SessionOrder[j], s.fields[SessionOrder[j]])
  BY SessionParts
<1>2. /\ InOrder(SessionOrder, n.fields) = FlattenSeq(b)
      /\ b \in Seq(Seq(Lines)) /\ Len(b) = 13
      /\ \A j \in 1 .. 13 : b[j] = Written(SessionOrder[j], n.fields[SessionOrder[j]])
  BY SessionParts
<1> HIDE DEF a, b
<1>3. b[i] = a[i] \o w
  BY <1>1, <1>2
<1>4. \A j \in 1 .. Len(a) : j # i => b[j] = a[j]
  BY <1>1, <1>2, SMTT(60)
<1>5. \A j \in 1 .. Len(a) : j > i => a[j] = <<>>
  <2> SUFFICES ASSUME NEW j \in 1 .. Len(a), j > i PROVE a[j] = <<>>
    OBVIOUS
  <2>1. j \in 1 .. 13 /\ s.fields[SessionOrder[j]] = <<>>
    BY <1>1
  <2>2. a[j] = Written(SessionOrder[j], <<>>)
    BY <1>1, <2>1
  <2>3. QED BY <2>2, WrittenNone
<1>6. FlattenSeq(b) = FlattenSeq(a) \o w
  <2>1. /\ a \in Seq(Seq(Lines)) /\ b \in Seq(Seq(Lines)) /\ w \in Seq(Lines)
        /\ Len(b) = Len(a) /\ i \in 1 .. Len(a) /\ b[i] = a[i] \o w
        /\ \A j \in 1 .. Len(a) : j # i => b[j] = a[j]
        /\ \A j \in 1 .. Len(a) : j > i => a[j] = <<>>
    BY <1>1, <1>2, <1>3, <1>4, <1>5
  <2>2. FlattenSeq(b) = FlattenSeq(a) \o w
    BY ONLY <2>1, FlattenLast
  <2>3. QED BY <2>2
<1>7. QED BY <1>1, <1>2, <1>6

\* The same for a section of a stream.
LEMMA StreamGrows ==
  ASSUME NEW s \in Streams, NEW n \in Streams, NEW i \in 1 .. 5, NEW w \in Seq(Lines),
         n.info = s.info,
         \A j \in 1 .. 5 : j # i => n.fields[MediaOrder[j]] = s.fields[MediaOrder[j]],
         Written(MediaOrder[i], n.fields[MediaOrder[i]])
           = Written(MediaOrder[i], s.fields[MediaOrder[i]]) \o w,
         \A j \in 1 .. 5 : j > i => s.fields[MediaOrder[j]] = <<>>
  PROVE  StreamText(n) = StreamText(s) \o w
<1> DEFINE a == Sections(MediaOrder, s.fields)
           b == Sections(MediaOrder, n.fields)
           c == InOrder(MediaOrder, s.fields)
           d == InOrder(MediaOrder, n.fields)
           h == <<Line("m", s.info)>>
<1>1. /\ c = FlattenSeq(a)
      /\ a \in Seq(Seq(Lines)) /\ Len(a) = 5
      /\ \A j \in 1 .. 5 : a[j] = Written(MediaOrder[j], s.fields[MediaOrder[j]])
  BY StreamParts
<1>2. /\ d = FlattenSeq(b)
      /\ b \in Seq(Seq(Lines)) /\ Len(b) = 5
      /\ \A j \in 1 .. 5 : b[j] = Written(MediaOrder[j], n.fields[MediaOrder[j]])
  BY StreamParts
<1>3. h \in Seq(Lines) /\ c \in Seq(Lines) /\ StreamText(s) = h \o c /\ StreamText(n) = h \o d
  BY StreamType DEF StreamText
<1> HIDE DEF a, b, c, d, h
<1>4. b[i] = a[i] \o w
  BY <1>1, <1>2
<1>5. \A j \in 1 .. Len(a) : j # i => b[j] = a[j]
  BY <1>1, <1>2
<1>6. \A j \in 1 .. Len(a) : j > i => a[j] = <<>>
  BY <1>1, WrittenNone
<1>7. FlattenSeq(b) = FlattenSeq(a) \o w
  <2>1. /\ a \in Seq(Seq(Lines)) /\ b \in Seq(Seq(Lines)) /\ w \in Seq(Lines)
        /\ Len(b) = Len(a) /\ i \in 1 .. Len(a) /\ b[i] = a[i] \o w
        /\ \A j \in 1 .. Len(a) : j # i => b[j] = a[j]
        /\ \A j \in 1 .. Len(a) : j > i => a[j] = <<>>
    BY <1>1, <1>2, <1>4, <1>5, <1>6
  <2>2. FlattenSeq(b) = FlattenSeq(a) \o w
    BY ONLY <2>1, FlattenLast
  <2>3. QED BY <2>2
<1>8. d = c \o w
  BY <1>1, <1>2, <1>7
<1>9. h \o (c \o w) = (h \o c) \o w
  <2>1. w \in Seq(Lines)
    OBVIOUS
  <2>2. QED BY ONLY <1>3, <2>1, SMTT(30)
<1>10. QED BY <1>3, <1>8, <1>9

\* Lines that join the session are at the end as long as there is no stream.
LEMMA FormatSession ==
  ASSUME NEW s, WellFormed(s), s.medias = <<>>
  PROVE  Format(s) = InOrder(SessionOrder, s.fields) /\ Format(s) \in Seq(Lines)
<1>1. /\ InOrder(SessionOrder, s.fields) \in Seq(Lines)
      /\ Format(s) = InOrder(SessionOrder, s.fields) \o FlattenSeq(StreamTexts(<<>>))
  BY FormatParts
<1>2. FlattenSeq(StreamTexts(<<>>)) = <<>>
  BY DEF FlattenSeq, StreamTexts
<1> DEFINE h == InOrder(SessionOrder, s.fields)
<1> HIDE DEF h
<1>3. h \in Seq(Lines) /\ Format(s) = h \o <<>>
  BY <1>1, <1>2 DEF h
<1>4. QED BY <1>3, ConcatEmptySeq DEF h

\* What the last stream grows by is at the end of the description.
LEMMA FormatStream ==
  ASSUME NEW s, WellFormed(s), NEW n, WellFormed(n), n.fields = s.fields,
         Len(n.medias) = Len(s.medias), NEW p \in 1 .. Len(s.medias), p = Len(s.medias),
         NEW w \in Seq(Lines), StreamText(n.medias[p]) = StreamText(s.medias[p]) \o w,
         \A i \in 1 .. Len(s.medias) : i # p => n.medias[i] = s.medias[i]
  PROVE  Format(n) = Format(s) \o w
<1> DEFINE a == StreamTexts(s.medias)
           b == StreamTexts(n.medias)
           h == InOrder(SessionOrder, s.fields)
           c == FlattenSeq(a)
<1>1. /\ Len(s.medias) \in Nat
      /\ a \in Seq(Seq(Lines)) /\ Len(a) = Len(s.medias)
      /\ \A i \in 1 .. Len(s.medias) : a[i] = StreamText(s.medias[i])
      /\ h \in Seq(Lines) /\ c \in Seq(Lines)
      /\ Format(s) = h \o c
  BY FormatParts
<1>2. /\ b \in Seq(Seq(Lines)) /\ Len(b) = Len(s.medias)
      /\ \A i \in 1 .. Len(s.medias) : b[i] = StreamText(n.medias[i])
      /\ Format(n) = h \o FlattenSeq(b)
  BY FormatParts
<1> HIDE DEF a, b, h
<1>3. b[p] = a[p] \o w
  BY <1>1, <1>2
<1>4. \A j \in 1 .. Len(a) : j # p => b[j] = a[j]
  BY <1>1, <1>2
<1>5. \A j \in 1 .. Len(a) : j > p => a[j] = <<>>
  <2>1. \A j \in 1 .. Len(a) : ~(j > p)
    BY <1>1
  <2>2. QED BY <2>1
<1>6. FlattenSeq(b) = c \o w
  <2>1. /\ a \in Seq(Seq(Lines)) /\ b \in Seq(Seq(Lines)) /\ w \in Seq(Lines)
        /\ Len(b) = Len(a) /\ p \in 1 .. Len(a) /\ b[p] = a[p] \o w
        /\ \A j \in 1 .. Len(a) : j # p => b[j] = a[j]
        /\ \A j \in 1 .. Len(a) : j > p => a[j] = <<>>
    BY <1>1, <1>2, <1>3, <1>4, <1>5
  <2>2. FlattenSeq(b) = FlattenSeq(a) \o w
    BY ONLY <2>1, FlattenLast
  <2>3. QED BY <2>2
<1> HIDE DEF c
<1>7. h \o (c \o w) = (h \o c) \o w
  <2>1. w \in Seq(Lines)
    OBVIOUS
  <2>2. QED BY ONLY <1>1, <2>1, SMTT(30)
<1>8. QED BY <1>1, <1>2, <1>6, <1>7

\* A stream that is added is at the end of the description.
LEMMA FormatMedia ==
  ASSUME NEW s, WellFormed(s), NEW n, WellFormed(n), n.fields = s.fields,
         NEW x \in Streams, n.medias = Append(s.medias, x)
  PROVE  Format(n) = Format(s) \o StreamText(x)
<1> DEFINE a == StreamTexts(s.medias)
           b == StreamTexts(n.medias)
           h == InOrder(SessionOrder, s.fields)
           c == FlattenSeq(a)
           w == StreamText(x)
           k == Len(s.medias)
<1>1. /\ s.medias \in Seq(Streams) /\ k \in Nat
      /\ a \in Seq(Seq(Lines)) /\ Len(a) = k
      /\ \A i \in 1 .. k : a[i] = StreamText(s.medias[i])
      /\ h \in Seq(Lines) /\ c \in Seq(Lines)
      /\ Format(s) = h \o c
  BY FormatParts
<1>2. /\ b \in Seq(Seq(Lines)) /\ Len(b) = Len(n.medias)
      /\ \A i \in 1 .. Len(n.medias) : b[i] = StreamText(n.medias[i])
      /\ Format(n) = h \o FlattenSeq(b)
  BY FormatParts
<1>3. /\ Len(n.medias) = k + 1 /\ n.medias[k + 1] = x
      /\ \A i \in 1 .. k : n.medias[i] = s.medias[i]
  BY <1>1, AppendProperties
<1>4. w \in Seq(Lines)
  BY StreamType
<1> HIDE DEF a, b, h, w
<1>5. /\ Append(a, w) \in Seq(Seq(Lines)) /\ Len(Append(a, w)) = k + 1 /\ Append(a, w)[k + 1] = w
      /\ \A i \in 1 .. k : Append(a, w)[i] = a[i]
  BY <1>1, <1>4, AppendProperties
<1>6. \A i \in 1 .. k + 1 : b[i] = Append(a, w)[i]
  <2> HIDE DEF k
  <2>1. \A i \in 1 .. k + 1 : i \in 1 .. k \/ i = k + 1
    BY <1>1
  <2>2. \A i \in 1 .. k : i \in 1 .. k + 1
    BY <1>1
  <2>3. k + 1 \in 1 .. k + 1
    BY <1>1
  <2>4. \A i \in 1 .. k : b[i] = Append(a, w)[i]
    BY <1>1, <1>2, <1>3, <1>5, <2>2, ZenonT(60)
  <2>5. b[k + 1] = w
    BY <1>2, <1>3, <2>3 DEF w
  <2>6. QED BY <1>5, <2>1, <2>4, <2>5
<1>7. b = Append(a, w)
  BY <1>2, <1>3, <1>5, <1>6, SeqEqual, ZenonT(60)
<1>8. FlattenSeq(b) = c \o w
  BY <1>1, <1>4, <1>7, FlattenAppend
<1> HIDE DEF c
<1>9. h \o (c \o w) = (h \o c) \o w
  BY ONLY <1>1, <1>4, SMTT(30)
<1>10. QED BY <1>1, <1>2, <1>8, <1>9 DEF w

-------------------------------------------------------------------------------
(* The line written for a line read, and its key. *)

\* The line sdp_format writes for the line being read.
Rewritten ==
    IF key = "z" /\ Fields(key, value) = <<>> THEN <<>>
    ELSE <<Line(key, Fields(key, value))>>

\* The key of a line both functions know of.
KeyKept(line) == IF line.key = "z" /\ line.val = <<>> THEN <<>> ELSE <<line.key>>

\* The keys that are kept of every line.
AllKept(lines) == [i \in DOMAIN lines |-> KeyKept(lines[i])]

\* KeysKept by single lines.
LEMMA KeysKeptIs == \A lines : KeysKept(lines) = FlattenSeq(AllKept(lines))
  BY DEF KeysKept, AllKept, KeyKept

\* A z= line has no adjustments if and only if its value is empty.
LEMMA NoAdjustments ==
  ASSUME NEW val \in Values
  PROVE  Fields("z", val) = <<>> <=> val = <<>>
<1> DEFINE t == [out |-> <<>>, rest |-> val]
           fmt == <<"t", "t">>
           u == SplitAll(fmt, t)
<1>1. t \in Pair /\ t.rest = val /\ t.out = <<>>
  BY DEF Pair, Texts
<1>2. fmt \in Seq(Formats) /\ Len(fmt) = 2
  BY DEF Formats
<1>3. Fields("z", val) = u.out
  BY DEF Fields
<1> HIDE DEF t, fmt
<1>4. /\ u \in Pair
      /\ t.rest = <<>> => u = t
      /\ t.rest # <<>> => Len(u.out) >= Len(t.out) + Len(fmt)
  BY <1>1, <1>2, SplitAllType
<1> HIDE DEF u
<1>5. val = <<>> => u.out = <<>>
  BY <1>1, <1>4
<1>6. val # <<>> => u.out # <<>>
  BY <1>1, <1>2, <1>4
<1>7. QED BY <1>3, <1>5, <1>6

\* What joins a section is written behind it.
LEMMA EntryWritten ==
  ASSUME doc \in Seq(Lines), doc # <<>>, key \in SessionKeys, NEW e,
         key = "t" => e \in TimesType, key # "t" => e \in Seq(Texts)
  PROVE  Written(key, e \o Entry) = Written(key, e) \o Rewritten /\ Rewritten \in Seq(Lines)
<1> DEFINE x == Fields(key, value)
<1>1. x \in Texts /\ key \in Letters
  BY ValueType, FieldsType, LettersOfOrders
<1>2. PICK k : k = key
  OBVIOUS
<1> HIDE DEF x
<1>3. k \in Letters /\ k \in SessionKeys /\ Line(k, x) \in Lines
  BY <1>1, <1>2, LineType
<1>4. CASE k = "t"
  <2>1. Entry = <<<<x>>>> /\ Rewritten = <<Line("t", x)>>
    BY <1>2, <1>4 DEF Entry, Rewritten, x
  <2>2. Written("t", e \o <<<<x>>>>) = Written("t", e) \o <<Line("t", x)>>
    BY <1>1, <1>2, <1>4, WrittenTime
  <2>3. QED BY <1>2, <1>3, <1>4, <2>1, <2>2
<1>5. CASE k # "t" /\ k = "z" /\ x = <<>>
  <2>1. Entry = <<>> /\ Rewritten = <<>>
    BY <1>2, <1>5 DEF Entry, Rewritten, x
  <2>2. e \in Seq(Texts)
    BY <1>2, <1>5
  <2>3. Written(k, e) \in Seq(Lines)
    BY <1>3, <1>5, <2>2, WrittenType
  <2>4. e \o <<>> = e
    BY <2>2, ConcatEmptySeq
  <2>5. Written(k, e) \o <<>> = Written(k, e)
    BY <2>3, ConcatEmptySeq
  <2>6. <<>> \in Seq(Lines)
    OBVIOUS
  <2>7. QED BY <1>2, <2>1, <2>4, <2>5, <2>6
<1>6. CASE k # "t" /\ ~(k = "z" /\ x = <<>>)
  <2>1. Entry = <<x>> /\ Rewritten = <<Line(k, x)>>
    BY <1>2, <1>6 DEF Entry, Rewritten, x
  <2>2. e \in Seq(Texts)
    BY <1>2, <1>6
  <2>3. Written(k, e \o <<x>>) = Written(k, e) \o <<Line(k, x)>>
    BY <1>1, <1>3, <1>6, <2>2, WrittenOne
  <2>4. QED BY <1>2, <1>3, <2>1, <2>3
<1>7. QED BY <1>4, <1>5, <1>6

\* Its key is the key of the line read.
LEMMA RewrittenKept ==
  ASSUME Inv, Along, Uniform, doc # <<>>
  PROVE  /\ Keys(Rewritten) = KeyKept(doc[1])
         /\ key # "z" => KeyKept(doc[1]) = <<key>>
<1>1. value = doc[1].val /\ key = doc[1].key
  BY OneLine
<1>2. value \in Values
  BY ValueType DEF Inv
<1>3. key = "z" => (Fields(key, value) = <<>> <=> value = <<>>)
  BY <1>2, NoAdjustments
<1> DEFINE x == Fields(key, value)
<1> HIDE DEF x
<1>4. CASE key = "z" /\ x = <<>>
  <2>1. Rewritten = <<>> /\ KeyKept(doc[1]) = <<>>
    BY <1>1, <1>3, <1>4 DEF Rewritten, KeyKept, x
  <2>2. Keys(<<>>) = <<>>
    BY DEF Keys
  <2>3. QED BY <1>4, <2>1, <2>2
<1>5. CASE ~(key = "z" /\ x = <<>>)
  <2>1. Rewritten = <<Line(key, x)>> /\ KeyKept(doc[1]) = <<key>>
    BY <1>1, <1>3, <1>5 DEF Rewritten, KeyKept, x
  <2>2. Keys(<<Line(key, x)>>) = <<key>>
    BY KeysOfOne
  <2>3. QED BY <2>1, <2>2
<1>6. QED BY <1>4, <1>5

\* One more line is one more key that is kept, or none.
LEMMA KeysKeptGrow ==
  ASSUME NEW l \in Seq(Lines), NEW x \in Lines
  PROVE  KeysKept(Append(l, x)) = KeysKept(l) \o KeyKept(x) /\ KeyKept(x) \in Seq(Letters)
<1> DEFINE a == AllKept(l)
           b == AllKept(Append(l, x))
           w == KeyKept(x)
           k == Len(l)
<1>0. \A y \in Lines : KeyKept(y) \in Seq(Letters)
  BY DEF Lines, KeyKept
<1>1. /\ k \in Nat /\ DOMAIN l = 1 .. k /\ \A i \in 1 .. k : l[i] \in Lines
      /\ Append(l, x) \in Seq(Lines) /\ DOMAIN Append(l, x) = 1 .. k + 1
      /\ Append(l, x)[k + 1] = x /\ \A i \in 1 .. k : Append(l, x)[i] = l[i]
  BY AppendProperties, LenProperties, ElementOfSeq
<1>2. \A i \in 1 .. k + 1 : Append(l, x)[i] \in Lines
  BY <1>1, ElementOfSeq, AppendProperties
<1> HIDE DEF k
<1>3. /\ a \in Seq(Seq(Letters)) /\ Len(a) = k /\ \A i \in 1 .. k : a[i] = KeyKept(l[i])
  <2>1. \A i \in 1 .. k : KeyKept(l[i]) \in Seq(Letters)
    BY <1>0, <1>1
  <2>2. QED BY <1>1, <2>1 DEF AllKept
<1>4. /\ b \in Seq(Seq(Letters)) /\ Len(b) = k + 1 /\ \A i \in 1 .. k + 1 : b[i] = KeyKept(Append(l, x)[i])
  <2>1. \A i \in 1 .. k + 1 : KeyKept(Append(l, x)[i]) \in Seq(Letters)
    BY <1>0, <1>2
  <2>2. QED BY <1>1, <2>1 DEF AllKept
<1>5. w \in Seq(Letters)
  BY <1>0
<1> HIDE DEF a, b, w
<1>6. /\ Append(a, w) \in Seq(Seq(Letters)) /\ Len(Append(a, w)) = k + 1 /\ Append(a, w)[k + 1] = w
      /\ \A i \in 1 .. k : Append(a, w)[i] = a[i]
  BY <1>3, <1>5, AppendProperties
<1>7. \A i \in 1 .. k + 1 : b[i] = Append(a, w)[i]
  <2>1. \A i \in 1 .. k + 1 : i \in 1 .. k \/ i = k + 1
    BY <1>1
  <2>2. \A i \in 1 .. k : i \in 1 .. k + 1
    BY <1>1
  <2>3. k + 1 \in 1 .. k + 1
    BY <1>1
  <2>4. \A i \in 1 .. k : b[i] = Append(a, w)[i]
    BY <1>1, <1>3, <1>4, <1>6, <2>2
  <2>5. b[k + 1] = w
    BY <1>1, <1>4, <2>3 DEF w
  <2>6. QED BY <1>6, <2>1, <2>4, <2>5
<1>8. b = Append(a, w)
  BY <1>4, <1>6, <1>7, SeqEqual
<1>9. FlattenSeq(b) = FlattenSeq(a) \o w
  BY <1>3, <1>5, <1>8, FlattenAppend
<1>10. QED BY <1>5, <1>9, KeysKeptIs DEF a, b, w

\* Where all lines end alike, a line is loaded at a time.
LEMMA LoadedGrows ==
  ASSUME Inv, Along, Uniform, doc # <<>>, doc' = SubSeq(doc, EntryEnd + 1, Len(doc)), source' = source
  PROVE  Loaded' = Append(Loaded, doc[1]) /\ doc[1] \in Lines /\ Loaded \in Seq(Lines)
<1>1. /\ Len(doc) \in Nat /\ Len(source) \in Nat /\ Taken \in Nat
      /\ Loaded \in Seq(Lines) /\ Loaded = SubSeq(source, 1, Taken)
  BY ReadType DEF Loaded, Taken
<1>2. EntryEnd = 1 /\ Len(doc) >= 1 /\ source \in Seq(Lines) /\ doc \in Seq(Lines)
  BY <1>1, OneLine, EmptySeq DEF Inv
<1>3. Taken' = Taken + 1
  BY <1>2, Advance
<1>4. Taken + 1 \in 1 .. Len(source) /\ Loaded' = SubSeq(source, 1, Taken + 1)
  <2>1. Len(doc) <= Len(source) /\ Taken = Len(source) - Len(doc)
    BY DEF Inv, Taken
  <2>2. Taken + 1 \in 1 .. Len(source)
    BY <1>1, <1>2, <2>1
  <2>3. Loaded' = SubSeq(source, 1, Taken')
    BY DEF Loaded, Taken
  <2>4. QED BY <1>3, <2>2, <2>3
<1>5. SubSeq(source, 1, Taken + 1) = Append(SubSeq(source, 1, Taken), source[Taken + 1])
  BY <1>1, <1>2, <1>4, SubSeqRecursiveSecond
<1>6. doc[1] = source[Taken + 1]
  BY <1>1, <1>2 DEF Along
<1>7. doc[1] \in Lines
  BY <1>2, ElementOfSeq
<1>8. QED BY <1>1, <1>4, <1>5, <1>6, <1>7

-------------------------------------------------------------------------------
(* Every line read is written again. *)

\* Behind the place the next line may go to nothing has been written yet.
Ahead(s, place) ==
    /\ s.medias = <<>> =>
         \A j \in 1 .. 13 : j > place => s.fields[SessionOrder[j]] = <<>>
    /\ s.medias # <<>> =>
         \A j \in 1 .. 5 : j > place => s.medias[Len(s.medias)].fields[MediaOrder[j]] = <<>>

\* What fields leave in the section of their letter.
EntryOf(k, f) ==
    IF k = "t" THEN <<<<f>>>> ELSE IF k = "z" /\ f = <<>> THEN <<>> ELSE <<f>>

\* A description with the fields of one more line in it.
Put(s, k, f) ==
    IF k = "m" THEN [s EXCEPT !.medias = Append(@, [info |-> f, fields |-> NoFields])]
    ELSE IF k = "r" THEN [s EXCEPT !.fields["t"][Len(Times(s))] = Append(@, f)]
    ELSE IF s.medias = <<>> THEN [s EXCEPT !.fields[k] = @ \o EntryOf(k, f)]
    ELSE [s EXCEPT !.medias[Len(s.medias)].fields[k] = @ \o EntryOf(k, f)]

\* The line at the head of doc goes in at the end of what is written.
Grows(next) ==
    /\ WellFormed(next) /\ Ahead(next, open')
    /\ Rewritten \in Seq(Lines) /\ Format(next) = Format(sdp) \o Rewritten
    /\ next = Put(sdp, key, Fields(key, value))

\* What is written of the description are the lines loaded.
Gathered ==
    status \in {"parsing", "parsed"} =>
        /\ Ahead(sdp, open)
        /\ Uniform => Keys(Format(sdp)) = KeysKept(Loaded)

\* A line that goes in there keeps its key.
LEMMA LineGathered ==
  ASSUME Inv, Along, Gathered, NEW next, Moves(next), Grows(next)
  PROVE  Gathered'
<1> DEFINE w == Rewritten
<1>0. /\ status = "parsing" /\ doc # <<>> /\ UNCHANGED source /\ Load(key, next)
      /\ WellFormed(next) /\ Ahead(next, open')
      /\ w \in Seq(Lines) /\ Format(next) = Format(sdp) \o w
      /\ Uniform => Keys(w) = KeyKept(doc[1])
  <2>1. status = "parsing" /\ doc # <<>> /\ UNCHANGED source /\ Load(key, next)
    BY Zenon DEF Moves
  <2>2. Uniform => Keys(w) = KeyKept(doc[1])
    BY <2>1, RewrittenKept
  <2>3. QED BY <2>1, <2>2, Zenon DEF Grows
<1> HIDE DEF w
<1>1. \/ /\ sdp' = next /\ doc' = SubSeq(doc, EntryEnd + 1, Len(doc)) /\ status' = status
      \/ status' = "no_memory"
  BY <1>0, Zenon DEF Load
<1>2. CASE status' = "no_memory"
  BY <1>2 DEF Gathered
<1>3. CASE sdp' = next /\ doc' = SubSeq(doc, EntryEnd + 1, Len(doc)) /\ status' = status
  <2>1. Ahead(sdp', open')
    BY <1>0, <1>3
  <2>2. ASSUME Uniform
        PROVE  Keys(Format(sdp')) = KeysKept(Loaded')
    <3>1. Loaded' = Append(Loaded, doc[1]) /\ doc[1] \in Lines /\ Loaded \in Seq(Lines)
      BY <1>0, <1>3, <2>2, LoadedGrows
    <3>2. KeysKept(Append(Loaded, doc[1])) = KeysKept(Loaded) \o KeyKept(doc[1])
      BY <3>1, KeysKeptGrow
    <3>3. Format(sdp) \in Seq(Lines)
      BY FormatType DEF Inv
    <3>4. Keys(Format(sdp) \o w) = Keys(Format(sdp)) \o Keys(w)
      BY <1>0, <3>3, KeysConcat
    <3>5. Keys(Format(sdp)) = KeysKept(Loaded)
      BY <1>0, <2>2 DEF Gathered
    <3>6. Keys(w) = KeyKept(doc[1])
      BY <1>0, <2>2
    <3>7. Keys(Format(next)) = KeysKept(Loaded')
      BY <1>0, <3>1, <3>2, <3>4, <3>5, <3>6
    <3>8. QED BY <1>3, <3>7
  <2>3. Uniform' = Uniform
    BY <1>0 DEF Uniform
  <2>4. QED BY <2>1, <2>2, <2>3 DEF Gathered
<1>4. QED BY <1>1, <1>2, <1>3

\* A line of the order joins the session at its end,
LEMMA FieldGrows ==
  ASSUME Inv, Ahead(sdp, open), ReadField, sdp.medias = <<>>
  PROVE  Grows(Placed(Entry))
<1> DEFINE next == Placed(Entry)
           v == sdp.fields[key] \o Entry
<1>1. /\ status = "parsing" /\ doc # <<>> /\ UNCHANGED source /\ Load(key, next)
  BY Zenon DEF ReadField
<1>2. PICK i \in Reached(key) : open' = Behind(i, key)
  BY DEF ReadField, Behind
<1>3. i \in 1 .. 13 /\ SessionOrder[i] = key /\ i >= open
  BY <1>2, KeysOfOrders DEF Reached, Order
<1>4. key \in SessionKeys /\ \A j \in 1 .. 13 : j # i => SessionOrder[j] # key
  BY <1>3, Ranks, SessionPlaces
<1>5. /\ WellFormed(next) /\ next.fields = [sdp.fields EXCEPT ![key] = v] /\ next.medias = <<>>
  BY <1>1, <1>4, FieldInSession
<1>6. WellFormed(sdp) /\ doc \in Seq(Lines) /\ open \in Nat
  BY DEF Inv
<1>7. Written(key, v) = Written(key, sdp.fields[key]) \o Rewritten /\ Rewritten \in Seq(Lines)
  <2>1. /\ key = "t" => sdp.fields[key] \in TimesType
        /\ key # "t" => sdp.fields[key] \in Seq(Texts)
    BY <1>4, <1>6 DEF WellFormed
  <2>2. QED BY <1>1, <1>4, <1>6, <2>1, EntryWritten
<1>16. next = Put(sdp, key, Fields(key, value))
  <2>1. key # "m" /\ key # "r" /\ Entry = EntryOf(key, Fields(key, value))
    BY <1>4, MediaInSession DEF Entry, EntryOf
  <2>2. QED BY <2>1 DEF Placed, Put
<1> HIDE DEF v, next
<1>8. DOMAIN sdp.fields = SessionKeys
  BY <1>6 DEF WellFormed
<1>9. /\ next.fields[SessionOrder[i]] = v
      /\ \A j \in 1 .. 13 : j # i => next.fields[SessionOrder[j]] = sdp.fields[SessionOrder[j]]
  <2>1. next.fields[key] = v
    BY <1>4, <1>5, <1>8
  <2>2. ASSUME NEW j \in 1 .. 13, j # i
        PROVE  next.fields[SessionOrder[j]] = sdp.fields[SessionOrder[j]]
    <3>1. SessionOrder[j] # key /\ SessionOrder[j] \in SessionKeys
      BY <1>4, <2>2, SessionPlaces
    <3>2. QED BY <1>5, <1>8, <3>1
  <2>3. QED BY <1>3, <2>1, <2>2
<1>10. \A j \in 1 .. 13 : j > i => sdp.fields[SessionOrder[j]] = <<>>
  <2> SUFFICES ASSUME NEW j \in 1 .. 13, j > i PROVE sdp.fields[SessionOrder[j]] = <<>>
    BY SMTT(60)
  <2>1. j > open
    BY <1>3, <1>6
  <2>2. QED BY <1>1, <2>1 DEF Ahead
<1>11. InOrder(SessionOrder, next.fields) = InOrder(SessionOrder, sdp.fields) \o Rewritten
  <2>1. Written(SessionOrder[i], next.fields[SessionOrder[i]])
          = Written(SessionOrder[i], sdp.fields[SessionOrder[i]]) \o Rewritten
    BY <1>3, <1>7, <1>9
  <2>2. /\ WellFormed(sdp) /\ WellFormed(next) /\ i \in 1 .. 13 /\ Rewritten \in Seq(Lines)
        /\ \A j \in 1 .. 13 : j # i => next.fields[SessionOrder[j]] = sdp.fields[SessionOrder[j]]
        /\ Written(SessionOrder[i], next.fields[SessionOrder[i]])
             = Written(SessionOrder[i], sdp.fields[SessionOrder[i]]) \o Rewritten
        /\ \A j \in 1 .. 13 : j > i => sdp.fields[SessionOrder[j]] = <<>>
    BY <1>3, <1>5, <1>6, <1>7, <1>9, <1>10, <2>1
  <2>3. QED BY ONLY <2>2, SessionGrows, ZenonT(60)
<1>12. Format(next) = Format(sdp) \o Rewritten
  <2>1. Format(next) = InOrder(SessionOrder, next.fields)
    BY <1>5, FormatSession
  <2>2. Format(sdp) = InOrder(SessionOrder, sdp.fields)
    BY <1>6, FormatSession
  <2>3. QED BY <1>11, <2>1, <2>2
<1>13. Ahead(next, open')
  <2>1. ASSUME NEW j \in 1 .. 13, j > open'
        PROVE  next.fields[SessionOrder[j]] = <<>>
    <3>1. j > i /\ j # i
      BY <1>2, <1>3, <2>1 DEF Behind
    <3>2. QED BY <1>9, <1>10, <3>1
  <2>2. QED BY <1>5, <2>1 DEF Ahead
<1>14. Grows(next)
  BY <1>5, <1>7, <1>12, <1>13, <1>16, Zenon DEF Grows
<1>15. QED BY <1>14 DEF next

\* or the last stream at its end;
LEMMA StreamFieldGrows ==
  ASSUME Inv, Ahead(sdp, open), ReadField, sdp.medias # <<>>
  PROVE  Grows(Placed(Entry))
<1> DEFINE next == Placed(Entry)
           p == Here
           m == sdp.medias[p]
           v == m.fields[key] \o Entry
           n == next.medias[p]
<1>1. /\ status = "parsing" /\ doc # <<>> /\ UNCHANGED source /\ Load(key, next)
  BY Zenon DEF ReadField
<1>2. PICK i \in Reached(key) : open' = Behind(i, key)
  BY DEF ReadField, Behind
<1>3. i \in 1 .. 5 /\ MediaOrder[i] = key /\ i >= open
  BY <1>2, KeysOfOrders DEF Reached, Order
<1>4. /\ key \in MediaKeys /\ key \in SessionKeys /\ key # "t"
      /\ \A j \in 1 .. 5 : j # i => MediaOrder[j] # key
  <2>1. key \in MediaKeys /\ \A j \in 1 .. 5 : j # i => MediaOrder[j] # key
    BY <1>3, MediaPlaces
  <2>2. QED BY <2>1 DEF MediaKeys, SessionKeys
<1>5. /\ p \in 1 .. Len(sdp.medias) /\ p = Len(sdp.medias)
      /\ WellFormed(next) /\ next.fields = sdp.fields
      /\ next.medias = [sdp.medias EXCEPT ![p].fields[key] = v]
      /\ Len(next.medias) = Len(sdp.medias)
      /\ m \in Streams /\ m.fields[key] \in Seq(Texts)
  BY <1>1, <1>4, FieldInStream
<1>6. WellFormed(sdp) /\ doc \in Seq(Lines) /\ open \in Nat
  BY DEF Inv
<1>7. Written(key, v) = Written(key, m.fields[key]) \o Rewritten /\ Rewritten \in Seq(Lines)
  BY <1>1, <1>4, <1>5, <1>6, EntryWritten
<1>8. /\ n = [m EXCEPT !.fields[key] = v] /\ n \in Streams
      /\ \A j \in 1 .. Len(sdp.medias) : j # p => next.medias[j] = sdp.medias[j]
  <2> HIDE DEF v, next
  <2>1. sdp.medias \in Seq(Streams) /\ next.medias \in Seq(Streams)
    BY <1>5, <1>6 DEF WellFormed
  <2> DEFINE ms == sdp.medias
             x == [m EXCEPT !.fields[key] = v]
  <2>2. next.medias = [ms EXCEPT ![p] = x]
    BY <1>5
  <2>3. n \in Streams
    BY <1>5, <2>1, ElementOfSeq
  <2>4. ms \in Seq(Streams) /\ DOMAIN ms = 1 .. Len(ms)
    BY <2>1, LenProperties
  <2> HIDE DEF x
  <2>5. n = x
    BY <1>5, <2>2, <2>4
  <2>6. \A j \in 1 .. Len(ms) : j # p => next.medias[j] = ms[j]
    BY <2>2, <2>4
  <2>7. QED BY <2>3, <2>5, <2>6 DEF x
<1>17. next = Put(sdp, key, Fields(key, value))
  <2>1. key # "m" /\ key # "r" /\ Entry = EntryOf(key, Fields(key, value))
    BY <1>4, MediaInSession DEF Entry, EntryOf
  <2>2. QED BY <2>1 DEF Placed, Put, Here
<1> HIDE DEF v, next, n, m, p
<1>9. /\ n.info = m.info /\ n.fields = [m.fields EXCEPT ![key] = v] /\ DOMAIN m.fields = MediaKeys
  BY <1>5, <1>8 DEF Streams
<1>10. /\ n.fields[MediaOrder[i]] = v
       /\ \A j \in 1 .. 5 : j # i => n.fields[MediaOrder[j]] = m.fields[MediaOrder[j]]
  <2>1. n.fields[key] = v
    BY <1>4, <1>9
  <2>2. ASSUME NEW j \in 1 .. 5, j # i
        PROVE  n.fields[MediaOrder[j]] = m.fields[MediaOrder[j]]
    <3>1. MediaOrder[j] # key /\ MediaOrder[j] \in MediaKeys
      BY <1>4, <2>2, MediaPlaces
    <3>2. QED BY <1>9, <3>1
  <2>3. QED BY <1>3, <2>1, <2>2
<1>11. \A j \in 1 .. 5 : j > i => m.fields[MediaOrder[j]] = <<>>
  <2> SUFFICES ASSUME NEW j \in 1 .. 5, j > i PROVE m.fields[MediaOrder[j]] = <<>>
    OBVIOUS
  <2>1. j > open
    BY <1>3, <1>6
  <2>2. QED BY <1>1, <1>5, <2>1 DEF Ahead, m
<1>12. StreamText(n) = StreamText(m) \o Rewritten
  <2>1. Written(MediaOrder[i], n.fields[MediaOrder[i]])
          = Written(MediaOrder[i], m.fields[MediaOrder[i]]) \o Rewritten
    BY <1>3, <1>7, <1>10
  <2>2. /\ m \in Streams /\ n \in Streams /\ i \in 1 .. 5 /\ Rewritten \in Seq(Lines)
        /\ n.info = m.info
        /\ \A j \in 1 .. 5 : j # i => n.fields[MediaOrder[j]] = m.fields[MediaOrder[j]]
        /\ Written(MediaOrder[i], n.fields[MediaOrder[i]])
             = Written(MediaOrder[i], m.fields[MediaOrder[i]]) \o Rewritten
        /\ \A j \in 1 .. 5 : j > i => m.fields[MediaOrder[j]] = <<>>
    BY <1>3, <1>5, <1>7, <1>8, <1>9, <1>10, <1>11, <2>1, ZenonT(60) DEF m
  <2>3. QED BY ONLY <2>2, StreamGrows
<1>13. Format(next) = Format(sdp) \o Rewritten
  <2>1. StreamText(next.medias[p]) = StreamText(sdp.medias[p]) \o Rewritten
    BY <1>12 DEF m, n
  <2>2. /\ WellFormed(sdp) /\ WellFormed(next) /\ next.fields = sdp.fields
        /\ Len(next.medias) = Len(sdp.medias) /\ p \in 1 .. Len(sdp.medias) /\ p = Len(sdp.medias)
        /\ Rewritten \in Seq(Lines) /\ StreamText(next.medias[p]) = StreamText(sdp.medias[p]) \o Rewritten
        /\ \A j \in 1 .. Len(sdp.medias) : j # p => next.medias[j] = sdp.medias[j]
    BY <1>5, <1>6, <1>7, <1>8, <2>1
  <2>3. QED BY ONLY <2>2, FormatStream
<1>14. Ahead(next, open')
  <2>1. ASSUME NEW j \in 1 .. 5, j > open'
        PROVE  n.fields[MediaOrder[j]] = <<>>
    <3>1. j > i /\ j # i
      BY <1>2, <1>3, <2>1 DEF Behind
    <3>2. QED BY <1>10, <1>11, <3>1
  <2>2. n = next.medias[Len(next.medias)] /\ next.medias # <<>>
    BY <1>5 DEF n
  <2>3. QED BY <2>1, <2>2 DEF Ahead
<1>15. Grows(next)
  BY <1>5, <1>7, <1>13, <1>14, <1>17, Zenon DEF Grows
<1>16. QED BY <1>15 DEF next

\* a repeat joins the times, behind which nothing was read;
LEMMA RepeatGrows ==
  ASSUME Inv, Ahead(sdp, open), ReadRepeat
  PROVE  Grows([sdp EXCEPT !.fields["t"][LastTime] = Append(@, Fields("r", value))])
<1> DEFINE ts == Times(sdp)
           x == Fields("r", value)
           v == [ts EXCEPT ![LastTime] = Append(ts[LastTime], x)]
           next == [sdp EXCEPT !.fields["t"][LastTime] = Append(@, x)]
           w == <<Line("r", x)>>
<1>1. /\ status = "parsing" /\ key = "r" /\ doc # <<>> /\ UNCHANGED <<source, open>>
      /\ Load("r", next) /\ x \in Texts
      /\ sdp.medias = <<>> /\ open = 10
      /\ ts \in TimesType /\ ts # <<>> /\ LastTime = Len(ts)
      /\ WellFormed(next) /\ next.fields = [sdp.fields EXCEPT !["t"] = v]
      /\ next.medias = sdp.medias
  BY RepeatInTime
<1>2. WellFormed(sdp) /\ open \in Nat
  BY DEF Inv
<1>3. w = Rewritten
  BY <1>1 DEF Rewritten
<1>4. w \in Seq(Lines)
  <2>1. Line("r", x) \in Lines
    BY <1>1, LineType, LettersOfOrders
  <2> HIDE DEF x
  <2>2. QED BY <2>1
<1>14. next = Put(sdp, key, Fields(key, value))
  BY <1>1 DEF Put, LastTime
<1> HIDE DEF x
<1>5. Written("t", v) = Written("t", ts) \o w
  <2> HIDE DEF ts
  <2>1. v = [ts EXCEPT ![Len(ts)] = Append(@, x)]
    BY <1>1
  <2>2. QED BY <1>1, <2>1, WrittenRepeat
<1> HIDE DEF v, next, w
<1>6. /\ next.fields["t"] = v /\ sdp.fields["t"] = ts
      /\ \A k \in SessionKeys : k # "t" => next.fields[k] = sdp.fields[k]
  <2>1. DOMAIN sdp.fields = SessionKeys /\ "t" \in SessionKeys
    BY <1>2 DEF WellFormed, SessionKeys
  <2>2. QED BY <1>1, <2>1 DEF Times
<1> HIDE DEF ts
<1>7. SessionOrder[10] = "t" /\ \A j \in 1 .. 13 : SessionOrder[j] \in SessionKeys /\ (j # 10 => SessionOrder[j] # "t")
  BY OrderPlaces
<1>8. \A j \in 1 .. 13 : j > 10 => sdp.fields[SessionOrder[j]] = <<>>
  BY <1>1, SMTT(60) DEF Ahead
<1>9. InOrder(SessionOrder, next.fields) = InOrder(SessionOrder, sdp.fields) \o w
  <2>1. Written(SessionOrder[10], next.fields[SessionOrder[10]])
          = Written(SessionOrder[10], sdp.fields[SessionOrder[10]]) \o w
    BY <1>5, <1>6, <1>7
  <2>2. \A j \in 1 .. 13 : j # 10 => next.fields[SessionOrder[j]] = sdp.fields[SessionOrder[j]]
    BY <1>6, <1>7
  <2>3. /\ WellFormed(sdp) /\ WellFormed(next) /\ 10 \in 1 .. 13 /\ w \in Seq(Lines)
        /\ \A j \in 1 .. 13 : j # 10 => next.fields[SessionOrder[j]] = sdp.fields[SessionOrder[j]]
        /\ Written(SessionOrder[10], next.fields[SessionOrder[10]])
             = Written(SessionOrder[10], sdp.fields[SessionOrder[10]]) \o w
        /\ \A j \in 1 .. 13 : j > 10 => sdp.fields[SessionOrder[j]] = <<>>
    BY <1>1, <1>2, <1>4, <1>8, <2>1, <2>2
  <2>4. QED BY ONLY <2>3, SessionGrows, ZenonT(60)
<1>10. Format(next) = Format(sdp) \o w
  <2>1. Format(next) = InOrder(SessionOrder, next.fields)
    BY <1>1, FormatSession
  <2>2. Format(sdp) = InOrder(SessionOrder, sdp.fields)
    BY <1>1, <1>2, FormatSession
  <2>3. QED BY <1>9, <2>1, <2>2
<1>11. Ahead(next, open')
  <2>1. \A j \in 1 .. 13 : j > 10 => next.fields[SessionOrder[j]] = <<>>
    BY <1>6, <1>7, <1>8
  <2>2. QED BY <1>1, <2>1 DEF Ahead
<1>12. Grows(next)
  BY <1>1, <1>3, <1>4, <1>10, <1>11, <1>14, Zenon DEF Grows
<1>13. QED BY <1>12 DEF next, x

\* a stream joins the streams.
LEMMA MediaGrows ==
  ASSUME Inv, ReadMedia
  PROVE  Grows([sdp EXCEPT !.medias =
                   Append(@, [info |-> Fields("m", value), fields |-> NoFields])])
<1> DEFINE x == [info |-> Fields("m", value), fields |-> NoFields]
           next == [sdp EXCEPT !.medias = Append(@, x)]
           w == StreamText(x)
<1>1. /\ status = "parsing" /\ key = "m" /\ doc # <<>> /\ UNCHANGED source /\ open' = 1
      /\ Load("m", next) /\ WellFormed(sdp) /\ x \in Streams
      /\ WellFormed(next) /\ next.fields = sdp.fields
      /\ next.medias = Append(sdp.medias, x)
      /\ Len(sdp.medias) \in Nat /\ Len(next.medias) = Len(sdp.medias) + 1
      /\ next.medias # <<>>
  BY StreamAdded
<1>2. x.fields = NoFields /\ \A j \in 1 .. 5 : NoFields[MediaOrder[j]] = <<>>
  BY KeysOfOrders, MediaPlaces DEF NoFields
<1>3. InOrder(MediaOrder, NoFields) = <<>>
  <2> DEFINE parts == [i \in 1 .. 5 |-> Written(MediaOrder[i], NoFields[MediaOrder[i]])]
  <2>1. \A i \in 1 .. 5 : Written(MediaOrder[i], NoFields[MediaOrder[i]]) = <<>>
    BY <1>2, WrittenNone
  <2>2. parts = [i \in 1 .. 5 |-> <<>>]
    BY <2>1
  <2>3. parts \in Seq(Seq({}))
    <3> DEFINE U == Seq({})
               e == <<>>
    <3>1. e \in U
      OBVIOUS
    <3> HIDE DEF U, e
    <3>2. [i \in 1 .. 5 |-> e] \in Seq(U)
      BY <3>1
    <3>3. QED BY <2>2, <3>2 DEF U, e
  <2>4. InOrder(MediaOrder, NoFields) = FlattenSeq(parts)
    BY KeysOfOrders DEF InOrder
  <2> HIDE DEF parts
  <2>5. FlattenSeq(parts) \in Seq({})
    BY <2>3, FlattenType
  <2>6. QED BY <2>4, <2>5
<1>4. Format(next) = Format(sdp) \o w /\ w \in Seq(Lines)
  BY <1>1, FormatMedia, StreamType
<1>5. w = Rewritten
  <2>1. w = <<Line("m", Fields("m", value))>> \o <<>>
    BY <1>2, <1>3 DEF StreamText
  <2>2. <<Line("m", Fields("m", value))>> \in Seq(Lines)
    BY <1>1, StreamType
  <2>3. <<Line("m", Fields("m", value))>> \o <<>> = <<Line("m", Fields("m", value))>>
    BY <2>2, ConcatEmptySeq
  <2>4. QED BY <1>1, <2>1, <2>3 DEF Rewritten
<1>6. Ahead(next, open')
  <2>1. next.medias[Len(next.medias)] = x
    <3> HIDE DEF x, next
    <3>1. sdp.medias \in Seq(Streams)
      BY <1>1 DEF WellFormed
    <3>2. QED BY <1>1, <3>1, AppendProperties
  <2> HIDE DEF x, next
  <2>2. QED BY <1>1, <1>2, <2>1 DEF Ahead
<1>7. next = Put(sdp, key, Fields(key, value))
  BY <1>1 DEF Put
<1> HIDE DEF next, w
<1>8. Grows(next)
  BY <1>1, <1>4, <1>5, <1>6, <1>7, Zenon DEF Grows
<1>9. QED BY <1>8 DEF next, x

\* A line that is read moves the parser and goes in at the end.
LEMMA LineStep ==
  ASSUME Inv, Ahead(sdp, open), ReadField \/ ReadRepeat \/ ReadMedia
  PROVE  \E next : Moves(next) /\ Grows(next)
<1>1. CASE ReadField
  BY <1>1, FieldMoves, FieldGrows, StreamFieldGrows
<1>2. CASE ReadRepeat
  BY <1>2, RepeatMoves, RepeatGrows
<1>3. CASE ReadMedia
  BY <1>3, MediaMoves, MediaGrows
<1>4. QED BY <1>1, <1>2, <1>3

\* An empty description is written as no line.
LEMMA FormatNothing == Format(Nothing) = <<>> /\ Ahead(Nothing, 1)
<1>1. WellFormed(Nothing) /\ Nothing.medias = <<>>
  BY NothingType DEF Nothing
<1>2. \A j \in 1 .. 13 : Nothing.fields[SessionOrder[j]] = <<>>
  BY KeysOfOrders, OrderPlaces DEF Nothing
<1> DEFINE parts == Sections(SessionOrder, Nothing.fields)
<1>3. /\ InOrder(SessionOrder, Nothing.fields) = FlattenSeq(parts)
      /\ parts \in Seq(Seq(Lines)) /\ Len(parts) = 13
      /\ \A i \in 1 .. 13 : parts[i] = Written(SessionOrder[i], Nothing.fields[SessionOrder[i]])
  BY <1>1, SessionParts
<1> HIDE DEF parts
<1>4. \A i \in 1 .. 13 : parts[i] = <<>>
  BY <1>2, <1>3, WrittenNone
<1>5. parts \in Seq(Seq({}))
  <2> DEFINE U == Seq({})
  <2>0. <<>> \in U
    OBVIOUS
  <2>1. \A i \in 1 .. 13 : parts[i] \in U
    <3> HIDE DEF U
    <3>1. QED BY <1>4, <2>0
  <2> HIDE DEF U
  <2>2. parts = [i \in 1 .. 13 |-> parts[i]]
    BY <1>3
  <2>3. parts \in Seq(U)
    BY <2>1, <2>2
  <2>4. QED BY <2>3 DEF U
<1>6. FlattenSeq(parts) = <<>>
  <2>1. FlattenSeq(parts) \in Seq({})
    BY <1>5, FlattenType
  <2>2. QED BY <2>1
<1>7. Format(Nothing) = <<>>
  BY <1>1, <1>3, <1>6, FormatSession
<1>8. QED BY <1>1, <1>2, <1>7 DEF Ahead

\* Nothing is written of no lines.
LEMMA NothingGathered ==
  ASSUME NEW d \in Seq(Lines)
  PROVE  Keys(Format(Nothing)) = KeysKept(SubSeq(d, 1, Len(d) - Len(d)))
<1>1. Keys(Format(Nothing)) = <<>>
  BY FormatNothing DEF Keys
<1>2. SubSeq(d, 1, Len(d) - Len(d)) = <<>>
  <2>1. Len(d) - Len(d) = 0
    BY LenProperties
  <2>2. SubSeq(d, 1, 0) = <<>>
    BY SubSeqEmpty
  <2>3. QED BY <2>1, <2>2
<1>3. KeysKept(<<>>) = <<>>
  BY DEF KeysKept, FlattenSeq
<1>4. QED BY <1>1, <1>2, <1>3

\* A parse begins with Gathered.
LEMMA InitGathered == Init => Gathered
<1> SUFFICES ASSUME Init PROVE Gathered
  OBVIOUS
<1>1. source \in Seq(Lines) /\ doc = source /\ sdp = Nothing /\ open = 1
  BY InitInv DEF Init, Begin, Inv
<1>2. Keys(Format(sdp)) = KeysKept(Loaded)
  BY <1>1, NothingGathered DEF Loaded
<1>3. QED BY <1>1, <1>2, FormatNothing DEF Gathered

\* The end of a parse keeps it,
LEMMA EndGathered ==
  ASSUME Inv, Along, Gathered, Return \/ Reject
  PROVE  Gathered'
<1>1. CASE Return
  <2>1. UNCHANGED <<source, doc, sdp, open>> /\ status = "parsing"
    BY <1>1 DEF Return
  <2>2. Loaded' = Loaded /\ Uniform' = Uniform
    BY <2>1 DEF Loaded, Uniform
  <2>3. QED BY <2>1, <2>2 DEF Gathered
<1>2. CASE Reject
  BY <1>2 DEF Reject, Gathered
<1>3. QED BY <1>1, <1>2

\* and a second parse begins with it.
LEMMA ParseAgainGathered ==
  ASSUME Inv, ParseAgain
  PROVE  Gathered'
<1>1. Format(sdp) \in Seq(Lines)
  BY FormatType DEF Inv
<1>2. source' = Format(sdp) /\ doc' = Format(sdp) /\ sdp' = Nothing /\ open' = 1
  BY Zenon DEF ParseAgain
<1> DEFINE d == Format(sdp)
<1> HIDE DEF d
<1>3. d \in Seq(Lines) /\ source' = d /\ doc' = d
  BY <1>1, <1>2 DEF d
<1>4. Loaded' = SubSeq(d, 1, Len(d) - Len(d))
  BY <1>3 DEF Loaded
<1>5. Keys(Format(sdp')) = KeysKept(Loaded')
  BY <1>2, <1>3, <1>4, NothingGathered
<1>6. Ahead(sdp', open')
  BY <1>2, FormatNothing
<1>7. QED BY <1>5, <1>6 DEF Gathered

\* Gathered is inductive with Inv and Along.
LEMMA NextGathered == Inv /\ Along /\ Gathered /\ [Next]_vars => Gathered'
<1> SUFFICES ASSUME Inv, Along, Gathered, [Next]_vars PROVE Gathered'
  OBVIOUS
<1>1. CASE UNCHANGED vars
  <2>1. UNCHANGED <<source, doc, sdp, open, status>>
    BY <1>1 DEF vars
  <2>2. Loaded' = Loaded /\ Uniform' = Uniform
    BY <2>1 DEF Loaded, Uniform
  <2>3. QED BY <2>1, <2>2 DEF Gathered
<1>2. CASE ReadField \/ ReadRepeat \/ ReadMedia
  <2>1. status = "parsing"
    BY <1>2 DEF ReadField, ReadRepeat, ReadMedia
  <2>2. Ahead(sdp, open)
    BY <2>1 DEF Gathered
  <2>3. PICK next : Moves(next) /\ Grows(next)
    BY <1>2, <2>2, LineStep
  <2>4. QED BY <2>3, LineGathered
<1>3. QED
  BY <1>1, <1>2, EndGathered, ParseAgainGathered DEF Next

\* EveryLineKept of every behaviour: written out, the description has the lines
\* that were read, once, in their order and under their streams (sdp_parser,
\* sdp_format).
THEOREM LinesKept == Spec => []EveryLineKept
<1>1. Gathered => EveryLineKept
  BY DEF Gathered, EveryLineKept
<1>2. QED
  BY <1>1, InitInv, NextInv, InitAlong, NextAlong, InitGathered, NextGathered, PTL DEF Spec

-------------------------------------------------------------------------------
(* What str_split_values and str_join_values read again of what was written. *)

\* The fields and the rests str_split_values goes through, letter by letter.
LEMMA TakesPath ==
  ASSUME NEW T, NEW fmt \in Seq(T), NEW t \in Pair
  PROVE  \E p \in [0 .. Len(fmt) -> Pair] :
           /\ p[0] = t /\ p[Len(fmt)] = FoldLeft(Take, t, fmt)
           /\ \A k \in 1 .. Len(fmt) : p[k] = Take(p[k - 1], fmt[k])
<1> DEFINE n == Len(fmt)
           step == [i \in 1 .. n |-> [p \in Pair |-> Take(p, fmt[i])]]
<1>1. n \in Nat /\ DOMAIN fmt = 1 .. n
  BY LenProperties
<1>2. step \in [1 .. n -> [Pair -> Pair]]
  BY TakeType
<1>3. \A i \in 1 .. n : \A p \in Pair : step[i][p] = Take(p, fmt[i])
  OBVIOUS
<1> HIDE DEF step
<1>4. PICK g : TakesAll(g, fmt, t) /\ FoldLeft(Take, t, fmt) = g[DOMAIN fmt]
  <2> DEFINE h == CHOOSE f : TakesAll(f, fmt, t)
  <2>1. \E f : TakesAll(f, fmt, t)
    BY TakesExist
  <2>2. TakesAll(h, fmt, t)
    BY <2>1, Zenon
  <2>3. FoldLeft(Take, t, fmt) = h[DOMAIN fmt]
    BY TakesUnfold
  <2> HIDE DEF h
  <2>4. QED BY <2>2, <2>3
<1>6. /\ g[{}] = t
      /\ \A s \in SUBSET (1 .. n) : s # {} => g[s] = Take(g[s \ {Max(s)}], fmt[Max(s)])
  <2>1. /\ g[{}] = t
        /\ \A s \in SUBSET DOMAIN fmt : s # {} => g[s] = Take(g[s \ {Max(s)}], fmt[Max(s)])
    BY <1>4, TakesAllAt, Zenon
  <2>2. QED BY <1>1, <2>1
<1>7. \A s \in SUBSET (1 .. n) :
         s # {} /\ g[s \ {Max(s)}] \in Pair => g[s] = step[Max(s)][g[s \ {Max(s)}]]
  <2> SUFFICES ASSUME NEW s \in SUBSET (1 .. n), s # {}, g[s \ {Max(s)}] \in Pair
               PROVE  g[s] = step[Max(s)][g[s \ {Max(s)}]]
    OBVIOUS
  <2>1. Max(s) \in 1 .. n
    BY <1>1, GreatestOne
  <2>2. g[s] = Take(g[s \ {Max(s)}], fmt[Max(s)])
    BY <1>6
  <2>3. QED BY <1>3, <2>1, <2>2
<1>8. FoldsIn(Pair, g, t, step, n)
  BY <1>6, <1>7 DEF FoldsIn
<1>9. \E p \in [0 .. n -> Pair] : Unrolls(p, t, step, n) /\ p[n] = g[1 .. n]
  <2> HIDE DEF n
  <2>1. n \in Nat
    BY <1>1
  <2>2. t \in Pair
    OBVIOUS
  <2>3. Unrolled(Pair, t, step, n, g)
    BY ONLY <1>2, <1>8, <2>1, <2>2, FoldUnrolled
  <2>4. QED BY <2>3, Zenon DEF Unrolled
<1> PICK p \in [0 .. n -> Pair] : Unrolls(p, t, step, n) /\ p[n] = g[1 .. n]
  BY <1>9
<1>10. \A k \in 1 .. n : p[k] = Take(p[k - 1], fmt[k])
  <2> SUFFICES ASSUME NEW k \in 1 .. n PROVE p[k] = Take(p[k - 1], fmt[k])
    OBVIOUS
  <2>1. p[k - 1] \in Pair
    <3>1. k - 1 \in 0 .. n
      BY <1>1
    <3>2. QED BY <3>1
  <2>2. QED BY <1>3, <2>1 DEF Unrolls
<1>11. QED BY <1>1, <1>4, <1>10 DEF Unrolls

\* The rounds SplitAll goes through, as many as there are atoms.
LEMMA RoundsPath ==
  ASSUME NEW T, NEW fmt \in Seq(T), NEW t \in Pair
  PROVE  LET n == Len(FlattenSeq(t.rest))
         IN /\ n \in Nat
            /\ \E p \in [0 .. n -> Pair] :
                 /\ p[0] = t /\ p[n] = SplitAll(fmt, t)
                 /\ \A k \in 1 .. n : p[k] = Again(fmt, p[k - 1])
<1> DEFINE atoms == FlattenSeq(t.rest)
           n == Len(atoms)
           step == [i \in 1 .. n |-> [p \in Pair |-> Again(fmt, p)]]
           g == CHOOSE f : Rounds(f, fmt, t, atoms)
<1>0. atoms \in Seq(Int)
  <2>1. t.rest \in Seq(Seq(Int))
    BY SeqMonotonic DEF Pair, Values
  <2>2. QED BY <2>1, FlattenType
<1>0a. SplitAll(fmt, t) = g[DOMAIN atoms]
  BY RoundsUnfold
<1> HIDE DEF atoms
<1>1. n \in Nat /\ DOMAIN atoms = 1 .. n
  BY <1>0, LenProperties
<1>2. step \in [1 .. n -> [Pair -> Pair]]
  BY AgainType
<1>3. \A i \in 1 .. n : \A p \in Pair : step[i][p] = Again(fmt, p)
  OBVIOUS
<1> HIDE DEF step
<1>4. Rounds(g, fmt, t, atoms)
  <2>1. \E f : Rounds(f, fmt, t, atoms)
    BY <1>0, RoundsExist
  <2>2. QED BY <2>1, Zenon
<1> HIDE DEF g
<1>6. /\ g[{}] = t
      /\ \A s \in SUBSET (1 .. n) : s # {} => g[s] = Again(fmt, g[s \ {Max(s)}])
  <2>1. /\ g[{}] = t
        /\ \A s \in SUBSET DOMAIN atoms : s # {} => g[s] = Again(fmt, g[s \ {Max(s)}])
    BY <1>4, RoundsAt, ZenonT(60)
  <2>2. QED BY <1>1, <2>1
<1>7. \A s \in SUBSET (1 .. n) :
         s # {} /\ g[s \ {Max(s)}] \in Pair => g[s] = step[Max(s)][g[s \ {Max(s)}]]
  <2> SUFFICES ASSUME NEW s \in SUBSET (1 .. n), s # {}, g[s \ {Max(s)}] \in Pair
               PROVE  g[s] = step[Max(s)][g[s \ {Max(s)}]]
    OBVIOUS
  <2>1. Max(s) \in 1 .. n
    BY <1>1, GreatestOne
  <2>2. g[s] = Again(fmt, g[s \ {Max(s)}])
    BY <1>6
  <2>3. QED BY <1>3, <2>1, <2>2
<1>8. FoldsIn(Pair, g, t, step, n)
  BY <1>6, <1>7 DEF FoldsIn
<1>9. \E p \in [0 .. n -> Pair] : Unrolls(p, t, step, n) /\ p[n] = g[1 .. n]
  <2> HIDE DEF n
  <2>1. n \in Nat
    BY <1>1
  <2>2. t \in Pair
    OBVIOUS
  <2>3. Unrolled(Pair, t, step, n, g)
    BY ONLY <1>2, <1>8, <2>1, <2>2, FoldUnrolled
  <2>4. QED BY <2>3, Zenon DEF Unrolled
<1> PICK p \in [0 .. n -> Pair] : Unrolls(p, t, step, n) /\ p[n] = g[1 .. n]
  BY <1>9
<1>10. \A k \in 1 .. n : p[k] = Again(fmt, p[k - 1])
  <2> SUFFICES ASSUME NEW k \in 1 .. n PROVE p[k] = Again(fmt, p[k - 1])
    OBVIOUS
  <2>1. p[k - 1] \in Pair
    <3>1. k - 1 \in 0 .. n
      BY <1>1
    <3>2. QED BY <3>1
  <2>2. QED BY <1>3, <2>1 DEF Unrolls
<1>11. /\ n \in Nat
       /\ \E q \in [0 .. n -> Pair] :
            /\ q[0] = t /\ q[n] = SplitAll(fmt, t)
            /\ \A k \in 1 .. n : q[k] = Again(fmt, q[k - 1])
  BY <1>0a, <1>1, <1>10 DEF Unrolls
<1>12. QED BY <1>11 DEF atoms

\* A field that was read as a number.
NumberToken(f) == f \in Seq(Int) /\ Len(f) = 1 /\ f[1] >= 0

\* A number read is a number that may be written,
LEMMA NumberRead ==
  ASSUME NEW o \in Texts, NEW r \in Values, NEW u, u = TakeNumber(o, r)
  PROVE  \E f \in Seq(Int) : /\ u.out = Append(o, f) /\ NumberToken(f)
                             /\ r = <<>> => u.rest = <<>>
<1>1. CASE IsNumber(r)
  <2>1. r # <<>> /\ r[1][1] >= 0
    BY <1>1 DEF IsNumber
  <2>2. r[1][1] \in Int
    BY <2>1, HeadOfValue
  <2>3. NumberToken(<<r[1][1]>>)
    BY <2>1, <2>2 DEF NumberToken
  <2>4. u.out = Append(o, <<r[1][1]>>)
    BY <1>1 DEF TakeNumber
  <2>5. QED BY <2>1, <2>3, <2>4 DEF NumberToken
<1>2. CASE ~IsNumber(r)
  <2>1. NumberToken(<<0>>)
    BY DEF NumberToken
  <2>2. u.out = Append(o, <<0>>) /\ u.rest = <<>>
    BY <1>2 DEF TakeNumber
  <2>3. QED BY <2>1, <2>2 DEF NumberToken
<1>3. QED BY <1>1, <1>2

\* and so is a time,
LEMMA TimeRead ==
  ASSUME NEW o \in Texts, NEW r \in Values, NEW u, u = TakeTime(o, r)
  PROVE  \E f \in Seq(Int) : /\ u.out = Append(o, f) /\ NumberToken(f)
                             /\ r = <<>> => u.rest = <<>>
<1>1. CASE HasUnit(r)
  <2> DEFINE a == r[1][1]
             b == Unit[r[1][2]]
  <2>1. r # <<>> /\ a >= 0 /\ r[1][2] \in DOMAIN Unit
    BY <1>1 DEF HasUnit, IsNumber
  <2>2. a \in Nat
    <3>1. a \in Int
      BY <2>1, HeadOfValue
    <3> HIDE DEF a
    <3>2. QED BY <2>1, <3>1
  <2>3. b \in {86400, 3600, 60}
    BY <2>1 DEF Unit
  <2>4. u.out = Append(o, <<a * b>>)
    BY <1>1 DEF TakeTime
  <2> HIDE DEF a, b
  <2>5. a * b \in Int /\ a * b >= 0
    BY <2>2, <2>3
  <2>6. NumberToken(<<a * b>>)
    BY <2>5 DEF NumberToken
  <2>7. QED BY <2>1, <2>4, <2>6 DEF NumberToken
<1>2. CASE ~HasUnit(r)
  <2>1. u = TakeNumber(o, r)
    BY <1>2 DEF TakeTime
  <2>2. QED BY <2>1, NumberRead
<1>3. QED BY <1>1, <1>2

\* a string is one of the tokens, or nothing if there is none left.
LEMMA StringRead ==
  ASSUME NEW o \in Texts, NEW r \in Values, NEW u, u = TakeString(o, r)
  PROVE  \E f \in Seq(Int) : /\ u.out = Append(o, f)
                             /\ f = <<>> <=> r = <<>>
                             /\ r = <<>> => u.rest = <<>>
<1>1. CASE r = <<>>
  <2>1. u.out = Append(o, <<>>) /\ u.rest = <<>> /\ <<>> \in Seq(Int)
    BY <1>1 DEF TakeString
  <2>2. QED BY <1>1, <2>1
<1>2. CASE r # <<>>
  <2>1. u.out = Append(o, Head(r)) /\ Head(r) = r[1]
    BY <1>2, HeadTailProperties DEF TakeString, Values
  <2>2. r[1] \in Seq(Int) /\ r[1] # <<>>
    BY <1>2, HeadOfValue
  <2>3. QED BY <1>2, <2>1, <2>2
<1>3. QED BY <1>1, <1>2

\* What one letter of a format adds to the fields.
LEMMA TakeReads ==
  ASSUME NEW t \in Pair, NEW letter
  PROVE  LET u == Take(t, letter)
             n == Len(t.out)
         IN /\ u \in Pair /\ n \in Nat /\ Len(u.out) = n + 1
            /\ \A i \in 1 .. n : u.out[i] = t.out[i]
            /\ letter # "s" => NumberToken(u.out[n + 1])
            /\ letter = "s" => (u.out[n + 1] = <<>> <=> t.rest = <<>>)
            /\ t.rest = <<>> => u.rest = <<>>
<1> DEFINE u == Take(t, letter)
           n == Len(t.out)
<1>1. t.out \in Texts /\ t.rest \in Values /\ n \in Nat
  BY LenProperties DEF Pair, Texts
<1>2. u \in Pair /\ Len(u.out) = n + 1
  BY TakeType
<1>3. \E f \in Seq(Int) : /\ u.out = Append(t.out, f)
                          /\ letter # "s" => NumberToken(f)
                          /\ letter = "s" => (f = <<>> <=> t.rest = <<>>)
                          /\ t.rest = <<>> => u.rest = <<>>
  <2>1. CASE letter = "s"
    <3>1. u = TakeString(t.out, t.rest)
      BY <2>1 DEF Take
    <3> HIDE DEF u
    <3>2. QED BY <1>1, <2>1, <3>1, StringRead
  <2>2. CASE letter = "t"
    <3>1. u = TakeTime(t.out, t.rest)
      BY <2>2 DEF Take
    <3> HIDE DEF u
    <3>2. QED BY <1>1, <2>2, <3>1, TimeRead
  <2>3. CASE letter # "s" /\ letter # "t"
    <3>1. u = TakeNumber(t.out, t.rest)
      BY <2>3 DEF Take
    <3> HIDE DEF u
    <3>2. QED BY <1>1, <2>3, <3>1, NumberRead
  <2>4. QED BY <2>1, <2>2, <2>3
<1> HIDE DEF u
<1>4. PICK f \in Seq(Int) : /\ u.out = Append(t.out, f)
                            /\ letter # "s" => NumberToken(f)
                            /\ letter = "s" => (f = <<>> <=> t.rest = <<>>)
                            /\ t.rest = <<>> => u.rest = <<>>
  BY <1>3
<1>5. u.out[n + 1] = f /\ \A i \in 1 .. n : u.out[i] = t.out[i]
  BY <1>1, <1>4, AppendProperties DEF Texts
<1>6. QED BY <1>1, <1>2, <1>4, <1>5 DEF u

\* The k fields behind the first n are what a format asks for: numbers, and no
\* string behind one that is missing.
Suits(f, fmt, n, k) ==
    /\ \A i \in 1 .. k : fmt[i] # "s" => NumberToken(f[n + i])
    /\ \A i, j \in 1 .. k :
         i < j /\ fmt[i] = "s" /\ fmt[j] = "s" /\ f[n + i] = <<>> => f[n + j] = <<>>

\* Only the text at its end leaves a string empty.
Ended(u, fmt, n, k) ==
    \A i \in 1 .. k : fmt[i] = "s" /\ u.out[n + i] = <<>> => u.rest = <<>>

\* A format is read field by field.
LEMMA FormatReads ==
  ASSUME NEW T, NEW fmt \in Seq(T), NEW t \in Pair
  PROVE  LET u == FoldLeft(Take, t, fmt)
             n == Len(t.out)
         IN /\ u \in Pair /\ Len(u.out) = n + Len(fmt)
            /\ \A i \in 1 .. n : u.out[i] = t.out[i]
            /\ Suits(u.out, fmt, n, Len(fmt)) /\ Ended(u, fmt, n, Len(fmt))
<1> DEFINE n == Len(t.out)
           m == Len(fmt)
<1>0. n \in Nat /\ m \in Nat
  BY LenProperties DEF Pair, Texts
<1>1. PICK p \in [0 .. m -> Pair] :
        /\ p[0] = t /\ p[m] = FoldLeft(Take, t, fmt)
        /\ \A k \in 1 .. m : p[k] = Take(p[k - 1], fmt[k])
  BY TakesPath
<1> HIDE DEF n, m
<1> DEFINE Good(k) == /\ Len(p[k].out) = n + k
                      /\ \A i \in 1 .. n : p[k].out[i] = t.out[i]
                      /\ Suits(p[k].out, fmt, n, k) /\ Ended(p[k], fmt, n, k)
           S == {k \in Nat : k <= m => Good(k)}
<1>2. 0 \in S
  BY <1>0, <1>1 DEF Suits, Ended, n
<1>3. \A k \in Nat : k \in S => k + 1 \in S
  <2> SUFFICES ASSUME NEW k \in Nat, k \in S, k + 1 <= m PROVE Good(k + 1)
    <3> HIDE DEF Good
    <3> QED OBVIOUS
  <2>1. Good(k)
    <3> HIDE DEF Good
    <3>1. k <= m
      BY <1>0
    <3>2. QED BY <3>1
  <2> DEFINE v == p[k]
             w == p[k + 1]
             l == fmt[k + 1]
  <2>2. v \in Pair /\ w = Take(v, l)
    <3>1. k + 1 \in 1 .. m /\ k \in 0 .. m /\ (k + 1) - 1 = k
      BY <1>0
    <3>2. QED BY <1>1, <3>1
  <2>3. /\ Len(v.out) = n + k
        /\ \A i \in 1 .. n : v.out[i] = t.out[i]
        /\ Suits(v.out, fmt, n, k) /\ Ended(v, fmt, n, k)
    BY <2>1
  <2> HIDE DEF v, w, l
  <2>4. /\ Len(w.out) = (n + k) + 1
        /\ \A i \in 1 .. n + k : w.out[i] = v.out[i]
        /\ l # "s" => NumberToken(w.out[n + k + 1])
        /\ l = "s" => (w.out[n + k + 1] = <<>> <=> v.rest = <<>>)
        /\ v.rest = <<>> => w.rest = <<>>
    <3>1. LET q == Len(v.out)
          IN /\ Len(w.out) = q + 1
             /\ \A i \in 1 .. q : w.out[i] = v.out[i]
             /\ l # "s" => NumberToken(w.out[q + 1])
             /\ l = "s" => (w.out[q + 1] = <<>> <=> v.rest = <<>>)
             /\ v.rest = <<>> => w.rest = <<>>
      BY <2>2, TakeReads
    <3>2. QED BY <2>3, <3>1
  <2>5. n + (k + 1) = n + k + 1 /\ (n + k) + 1 = n + (k + 1)
    BY <1>0
  <2>6. /\ \A i \in 1 .. n : i \in 1 .. n + k
        /\ \A i \in 1 .. k : n + i \in 1 .. n + k
        /\ \A i \in 1 .. k + 1 : i \in 1 .. k \/ i = k + 1
    BY <1>0
  <2>7. \A i \in 1 .. k : w.out[n + i] = v.out[n + i]
    BY <2>4, <2>6
  <2>8. Suits(w.out, fmt, n, k + 1)
    <3>1. ASSUME NEW i \in 1 .. k + 1, fmt[i] # "s" PROVE NumberToken(w.out[n + i])
      BY <2>3, <2>4, <2>5, <2>6, <2>7, <3>1 DEF Suits, l
    <3>2. ASSUME NEW i \in 1 .. k + 1, NEW j \in 1 .. k + 1, i < j, fmt[i] = "s", fmt[j] = "s",
                 w.out[n + i] = <<>>
          PROVE  w.out[n + j] = <<>>
      <4>1. i \in 1 .. k
        BY <2>6, <3>2
      <4>2. v.out[n + i] = <<>>
        BY <2>7, <3>2, <4>1
      <4>3. v.rest = <<>>
        BY <2>3, <3>2, <4>1, <4>2 DEF Ended
      <4>4. CASE j \in 1 .. k
        BY <2>3, <2>7, <3>2, <4>1, <4>2, <4>4 DEF Suits
      <4>5. CASE j = k + 1
        BY <2>4, <2>5, <3>2, <4>3, <4>5 DEF l
      <4>6. QED BY <2>6, <4>4, <4>5
    <3>3. QED BY <3>1, <3>2 DEF Suits
  <2>9. Ended(w, fmt, n, k + 1)
    <3> SUFFICES ASSUME NEW i \in 1 .. k + 1, fmt[i] = "s", w.out[n + i] = <<>>
                 PROVE  w.rest = <<>>
      BY DEF Ended
    <3>1. CASE i \in 1 .. k
      BY <2>3, <2>4, <2>7, <3>1 DEF Ended
    <3>2. CASE i = k + 1
      BY <2>4, <2>5, <3>2 DEF l
    <3>3. QED BY <2>6, <3>1, <3>2
  <2>10. \A i \in 1 .. n : w.out[i] = t.out[i]
    BY <2>3, <2>4, <2>6
  <2>11. QED BY <2>4, <2>5, <2>8, <2>9, <2>10 DEF w
<1>4. Nat \subseteq S
  <2> HIDE DEF S
  <2> QED BY <1>2, <1>3, SetInduction
<1>5. Good(m)
  <2> HIDE DEF Good
  <2>1. m \in S /\ m <= m
    BY <1>0, <1>4
  <2>2. QED BY <2>1
<1>6. p[m] \in Pair
  BY <1>0
<1>7. QED BY <1>1, <1>5, <1>6 DEF n, m

-------------------------------------------------------------------------------
(* Formats of numbers, and ports. *)

\* A format of numbers only, of one letter or two.
NumberFormat(fmt) ==
    /\ Len(fmt) \in {1, 2}
    /\ \A i \in 1 .. Len(fmt) : fmt[i] # "s"

\* Numbers have been read behind the first n fields, two at a time if the format
\* has two letters.
NumbersBehind(f, fmt, n) ==
    /\ Len(f) >= n
    /\ \A i \in 1 .. Len(f) : i > n => NumberToken(f[i])
    /\ Len(fmt) = 2 => \E q \in Nat : Len(f) = n + 2 * q

\* What is split to the end are numbers behind the fields there were.
LEMMA SplitAllReads ==
  ASSUME NEW T, NEW fmt \in Seq(T), NumberFormat(fmt), NEW t \in Pair
  PROVE  LET u == SplitAll(fmt, t)
             n == Len(t.out)
         IN /\ u \in Pair /\ n \in Nat
            /\ \A i \in 1 .. n : u.out[i] = t.out[i]
            /\ NumbersBehind(u.out, fmt, n)
<1> DEFINE n == Len(t.out)
           m == Len(FlattenSeq(t.rest))
           l == Len(fmt)
<1>0. n \in Nat /\ l \in {1, 2}
  BY LenProperties DEF Pair, Texts, NumberFormat
<1>1. /\ m \in Nat
      /\ \E p \in [0 .. m -> Pair] :
           /\ p[0] = t /\ p[m] = SplitAll(fmt, t)
           /\ \A k \in 1 .. m : p[k] = Again(fmt, p[k - 1])
  BY RoundsPath
<1> PICK p \in [0 .. m -> Pair] :
           /\ p[0] = t /\ p[m] = SplitAll(fmt, t)
           /\ \A k \in 1 .. m : p[k] = Again(fmt, p[k - 1])
  BY <1>1
<1>2. m \in Nat /\ p[0] = t /\ p[m] = SplitAll(fmt, t) /\ \A k \in 1 .. m : p[k] = Again(fmt, p[k - 1])
  BY <1>1
<1> HIDE DEF n, m
<1> DEFINE Good(k) == /\ \A i \in 1 .. n : p[k].out[i] = t.out[i]
                      /\ NumbersBehind(p[k].out, fmt, n)
           S == {k \in Nat : k <= m => Good(k)}
<1>3. 0 \in S
  <2>1. p[0] = t /\ Len(t.out) = n
    BY <1>2 DEF n
  <2>2. n = n + 2 * 0
    BY <1>0
  <2>3. NumbersBehind(t.out, fmt, n)
    BY <1>0, <2>1, <2>2 DEF NumbersBehind
  <2>4. QED BY <2>1, <2>3
<1>4. \A k \in Nat : k \in S => k + 1 \in S
  <2> SUFFICES ASSUME NEW k \in Nat, k \in S, k + 1 <= m PROVE Good(k + 1)
    <3> HIDE DEF Good
    <3> QED OBVIOUS
  <2>1. Good(k)
    <3> HIDE DEF Good
    <3>1. k <= m
      BY <1>2
    <3>2. QED BY <3>1
  <2> DEFINE v == p[k]
             w == p[k + 1]
             x == FoldLeft(Take, v, fmt)
             h == Len(v.out)
  <2>2. v \in Pair /\ w = Again(fmt, v)
    <3>1. k + 1 \in 1 .. m /\ k \in 0 .. m /\ (k + 1) - 1 = k
      BY <1>2
    <3>2. QED BY <1>2, <3>1
  <2>3. w = v \/ w = x
    BY <2>2 DEF Again
  <2>4. /\ \A i \in 1 .. n : v.out[i] = t.out[i]
        /\ NumbersBehind(v.out, fmt, n)
    BY <2>1
  <2>5. /\ x \in Pair /\ Len(x.out) = h + l
        /\ \A i \in 1 .. h : x.out[i] = v.out[i]
        /\ Suits(x.out, fmt, h, l)
    BY <2>2, FormatReads
  <2>6. h \in Nat
    BY <2>2, LenProperties DEF Pair, Texts
  <2> HIDE DEF v, w, x
  <2>7. h >= n /\ \A i \in 1 .. h : i > n => NumberToken(v.out[i])
    BY <2>4 DEF NumbersBehind
  <2>8. \A i \in 1 .. l : NumberToken(x.out[h + i])
    BY <2>5 DEF Suits, NumberFormat
  <2>9. l = 2 => \E q \in Nat : h + l = n + 2 * q
    <3> SUFFICES ASSUME l = 2 PROVE \E q \in Nat : h + l = n + 2 * q
      OBVIOUS
    <3>1. PICK q \in Nat : h = n + 2 * q
      BY <2>4 DEF NumbersBehind
    <3>2. h + l = n + 2 * (q + 1) /\ q + 1 \in Nat
      <4> HIDE DEF h, l
      <4> QED BY <1>0, <3>1
    <3>3. QED BY <3>2
  <2> HIDE DEF h, l
  <2>10. \A i \in 1 .. h + l : i > n => NumberToken(x.out[i])
    <3> SUFFICES ASSUME NEW i \in 1 .. h + l, i > n PROVE NumberToken(x.out[i])
      OBVIOUS
    <3>1. CASE i <= h
      BY <2>5, <2>6, <2>7, <3>1
    <3>2. CASE i > h
      <4>1. i - h \in 1 .. l /\ h + (i - h) = i
        BY <1>0, <2>6, <3>2
      <4>2. QED BY <2>8, <4>1
    <3>3. QED BY <2>6, <3>1, <3>2
  <2>11. h + l >= n
    BY <1>0, <2>6, <2>7
  <2>12. NumbersBehind(x.out, fmt, n)
    BY <2>5, <2>9, <2>10, <2>11 DEF NumbersBehind, l
  <2>13. \A i \in 1 .. n : x.out[i] = t.out[i]
    BY <1>0, <2>4, <2>5, <2>6, <2>7, SMTT(60)
  <2>14. QED BY <2>3, <2>4, <2>12, <2>13 DEF w
<1>5. Nat \subseteq S
  <2> HIDE DEF S
  <2> QED BY <1>3, <1>4, SetInduction
<1>6. Good(m)
  <2> HIDE DEF Good
  <2>1. m \in S /\ m <= m
    BY <1>2, <1>5
  <2>2. QED BY <2>1
<1>7. p[m] \in Pair
  BY <1>2
<1>8. QED BY <1>0, <1>2, <1>6, <1>7 DEF n

\* A port as TakePort writes it: a number, and behind a slash how many there are.
PortToken(f) ==
    \/ NumberToken(f)
    \/ f \in Seq(Int) /\ Len(f) = 3 /\ f[1] >= 0 /\ f[2] = Slash /\ f[3] > 0

\* What is read in the place of a port.
LEMMA PortReads ==
  ASSUME NEW t \in Pair
  PROVE  LET u == TakePort(t)
             n == Len(t.out)
         IN /\ u \in Pair /\ n \in Nat /\ Len(u.out) = n + 1
            /\ \A i \in 1 .. n : u.out[i] = t.out[i]
            /\ PortToken(u.out[n + 1])
<1> DEFINE toks == t.rest
           tok  == IF toks = <<>> THEN <<>> ELSE toks[1]
           d    == IF IsNumber(toks) THEN 1 ELSE 0
           s    == IF Len(tok) > d /\ tok[d + 1] = Slash THEN 1 ELSE 0
           e    == IF s = 1 /\ Len(tok) > d + 1 /\ tok[d + 2] >= 0 THEN 1 ELSE 0
           port == IF d = 1 THEN tok[1] ELSE 0
           port_n == IF e = 1 THEN tok[d + 2] ELSE 0
           f == IF port_n = 0 THEN <<port>> ELSE <<port, Slash, port_n>>
           u == TakePort(t)
           n == Len(t.out)
<1>1. t.out \in Texts /\ toks \in Values /\ n \in Nat
  BY LenProperties DEF Pair, Texts
<1>2. tok \in Seq(Int) /\ Len(tok) \in Nat
  BY <1>1, HeadOfValue, LenProperties
<1>3. d \in {0, 1} /\ (d = 1 => toks # <<>> /\ Len(tok) >= 1 /\ tok[1] >= 0)
  BY <1>1, HeadOfValue DEF IsNumber
<1>4. port \in Int /\ port >= 0
  <2> HIDE DEF d
  <2>1. d = 1 => 1 \in 1 .. Len(tok)
    <3> HIDE DEF tok
    <3> QED BY <1>2, <1>3
  <2> HIDE DEF tok
  <2>2. QED BY <1>2, <1>3, <2>1
<1>5. port_n \in Int /\ port_n >= 0
  <2>1. e = 1 => Len(tok) > d + 1 /\ tok[d + 2] >= 0
    OBVIOUS
  <2> HIDE DEF e
  <2>2. e = 1 => d + 2 \in 1 .. Len(tok)
    <3> HIDE DEF tok, d
    <3> QED BY <1>2, <1>3, <2>1
  <2> HIDE DEF tok, d
  <2>3. QED BY <1>2, <2>1, <2>2
<1>6. u.out = Append(t.out, f)
  BY Zenon DEF TakePort
<1> HIDE DEF port, port_n
<1>7. PortToken(f) /\ f \in Seq(Int)
  <2>1. CASE port_n = 0
    <3>1. NumberToken(<<port>>)
      BY <1>4 DEF NumberToken
    <3>2. QED BY <2>1, <3>1 DEF PortToken, NumberToken
  <2>2. CASE port_n # 0
    <3>1. /\ <<port, Slash, port_n>> \in Seq(Int) /\ Len(<<port, Slash, port_n>>) = 3
          /\ port >= 0 /\ port_n > 0
      BY <1>4, <1>5, <2>2 DEF Slash
    <3>2. f = <<port, Slash, port_n>>
      BY <2>2
    <3>3. QED BY <3>1, <3>2 DEF PortToken
  <2>3. QED BY <2>1, <2>2
<1>8. u \in Pair /\ Len(u.out) = n + 1
  BY PortType
<1> HIDE DEF f, u
<1>9. u.out[n + 1] = f /\ \A i \in 1 .. n : u.out[i] = t.out[i]
  BY <1>1, <1>6, <1>7, AppendProperties DEF Texts
<1>10. QED BY <1>1, <1>7, <1>8, <1>9 DEF u

-------------------------------------------------------------------------------
(* Fields up to a place: an m= line. *)

\* The fields up to the c-th are there, the others are not.
Packed(f, c) ==
    /\ c \in 0 .. Len(f)
    /\ \A i \in 1 .. Len(f) : f[i] = <<>> <=> i > c

\* What is written of such fields are the first c of them.
LEMMA JoinedPacked ==
  ASSUME NEW f \in Texts, NEW c, Packed(f, c)
  PROVE  /\ Joined(f) \in Values /\ Len(Joined(f)) = c
         /\ \A i \in 1 .. c : Joined(f)[i] = f[i]
<1> DEFINE T == Seq(Int)
           n == Len(f)
           s == [i \in DOMAIN f |-> IF f[i] = <<>> THEN <<>> ELSE <<f[i]>>]
<1>1. Joined(f) \in Values
  BY JoinedType
<1>2. n \in Nat /\ DOMAIN f = 1 .. n /\ \A i \in 1 .. n : f[i] \in T
  BY LenProperties, ElementOfSeq DEF Texts
<1>3. Joined(f) = FlattenSeq(s)
  BY DEF Joined
<1> HIDE DEF T
<1>4. s \in Seq(Seq(T)) /\ Len(s) = n /\ \A i \in 1 .. n : s[i] = IF f[i] = <<>> THEN <<>> ELSE <<f[i]>>
  BY <1>2
<1>5. c \in Nat /\ c <= n /\ \A i \in 1 .. n : f[i] = <<>> <=> i > c
  BY <1>2 DEF Packed
<1> HIDE DEF s, n
<1>6. CASE n = 0
  <2>1. s = <<>>
    BY <1>4, <1>6, EmptySeq
  <2>2. FlattenSeq(s) = <<>>
    BY <2>1 DEF FlattenSeq
  <2>3. QED BY <1>1, <1>3, <1>5, <1>6, <2>2
<1>7. CASE n # 0
  <2>1. PICK h : Flattens(h, s, n) /\ FlattenSeq(s) = h[n]
    BY <1>2, <1>4, <1>7, FlattenUnfolds
  <2>2. \A i \in 1 .. n : h[i] \in Seq(T)
    BY <1>4, <2>1, FlattensType
  <2>3. \A i \in 1 .. n : h[i] = IF i = 1 THEN s[i] ELSE h[i - 1] \o s[i]
    BY <1>2, <2>1, FlattensAt
  <2> DEFINE Least(k) == IF k <= c THEN k ELSE c
             Good(k) == Len(h[k]) = Least(k) /\ \A i \in 1 .. Least(k) : h[k][i] = f[i]
             S == {k \in Nat : k \in 1 .. n => Good(k)}
  <2>4. 0 \in S
    OBVIOUS
  <2>5. \A k \in Nat : k \in S => k + 1 \in S
    <3> SUFFICES ASSUME NEW k \in Nat, k \in S, k + 1 \in 1 .. n PROVE Good(k + 1)
      <4> HIDE DEF Good
      <4> QED OBVIOUS
    <3> DEFINE b == s[k + 1]
               w == h[k + 1]
               e == f[k + 1]
    <3>1. b = IF e = <<>> THEN <<>> ELSE <<e>>
      BY <1>4
    <3>2. e = <<>> <=> k + 1 > c
      BY <1>5
    <3>3. e \in T /\ w \in Seq(T)
      BY <1>2, <2>2
    <3>4. CASE k = 0
      <4>1. w = b
        BY <2>3, <3>4
      <4> HIDE DEF b, w
      <4>2. CASE e = <<>>
        <5>1. w = <<>> /\ c = 0
          BY <1>5, <3>1, <3>2, <3>4, <4>1, <4>2
        <5>2. QED BY <3>4, <5>1 DEF w
      <4>3. CASE e # <<>>
        <5>1. w = <<e>> /\ c >= 1
          BY <1>5, <3>1, <3>2, <3>4, <4>1, <4>3
        <5> HIDE DEF e
        <5>2. Len(w) = 1 /\ w[1] = e
          BY <5>1
        <5>3. Least(k + 1) = 1
          BY <1>5, <3>4, <5>1
        <5>4. QED BY <3>4, <5>2, <5>3 DEF w, e
      <4>4. QED BY <4>2, <4>3
    <3>5. CASE k # 0
      <4> DEFINE a == h[k]
      <4>1. k \in 1 .. n /\ (k + 1) - 1 = k
        BY <1>2, <3>5
      <4>2. w = a \o b
        <5>1. k + 1 # 1
          BY <3>5
        <5>2. h[k + 1] = h[(k + 1) - 1] \o s[k + 1]
          BY <2>3, <5>1
        <5>3. QED BY <4>1, <5>2
      <4>3. Good(k)
        <5> HIDE DEF Good
        <5> QED BY <4>1
      <4>4. a \in Seq(T) /\ Len(a) = Least(k) /\ \A i \in 1 .. Least(k) : a[i] = f[i]
        BY <2>2, <4>1, <4>3
      <4> HIDE DEF a, b, w, e
      <4>5. CASE e = <<>>
        <5>1. w = a
          BY <3>1, <4>2, <4>4, <4>5, ConcatEmptySeq
        <5>2. Least(k + 1) = Least(k)
          BY <1>5, <3>2, <4>5
        <5>3. QED BY <4>4, <5>1, <5>2 DEF w
      <4>6. CASE e # <<>>
        <5>1. b = <<e>> /\ Len(b) = 1 /\ b[1] = e /\ b \in Seq(T)
          BY <3>1, <3>3, <4>6
        <5>2. Least(k) = k /\ Least(k + 1) = k + 1
          BY <1>5, <3>2, <4>6
        <5>3. /\ Len(w) = k + 1 /\ \A i \in 1 .. k : w[i] = a[i]
              /\ w[k + 1] = e
          BY <4>2, <4>4, <5>1, <5>2, ConcatProperties
        <5>4. \A i \in 1 .. k + 1 : w[i] = f[i]
          <6> SUFFICES ASSUME NEW i \in 1 .. k + 1 PROVE w[i] = f[i]
            OBVIOUS
          <6>1. CASE i \in 1 .. k
            BY <4>4, <5>2, <5>3, <6>1
          <6>2. CASE i = k + 1
            BY <5>3, <6>2 DEF e
          <6>3. QED BY <6>1, <6>2
        <5>5. QED BY <5>2, <5>3, <5>4 DEF w
      <4>7. QED BY <4>5, <4>6
    <3>6. QED BY <3>4, <3>5
  <2>6. Nat \subseteq S
    <3> HIDE DEF S
    <3> QED BY <2>4, <2>5, SetInduction
  <2>7. Good(n)
    <3> HIDE DEF Good
    <3>1. n \in S /\ n \in 1 .. n
      BY <1>2, <1>7, <2>6
    <3>2. QED BY <3>1
  <2>8. Least(n) = c
    BY <1>2, <1>5
  <2>9. QED BY <1>1, <1>3, <2>1, <2>7, <2>8
<1>8. QED BY <1>6, <1>7

\* Nothing but the fields is left to read: i of them have been taken, and the rest
\* of the first c is the text.
Stands(u, f, c, i) ==
    /\ u \in Pair
    /\ Len(u.out) = i /\ \A j \in 1 .. i : u.out[j] = f[j]
    /\ Len(u.rest) = IF i <= c THEN c - i ELSE 0
    /\ \A j \in 1 .. Len(u.rest) : u.rest[j] = f[i + j]

\* A text that is read again starts with the first field.
LEMMA StandsFirst ==
  ASSUME NEW f \in Texts, NEW c, Packed(f, c)
  PROVE  Stands([out |-> <<>>, rest |-> Joined(f)], f, c, 0)
<1>1. /\ Joined(f) \in Values /\ Len(Joined(f)) = c
      /\ \A i \in 1 .. c : Joined(f)[i] = f[i]
  BY JoinedPacked
<1>2. c \in Nat
  BY LenProperties DEF Packed, Texts
<1> DEFINE v == Joined(f)
           u == [out |-> <<>>, rest |-> v]
<1> HIDE DEF v
<1>3. u \in Pair
  BY <1>1 DEF Pair, Texts, v
<1>4. u.out = <<>> /\ u.rest = v /\ Len(u.out) = 0
  OBVIOUS
<1> HIDE DEF u
<1>5. \A j \in 1 .. Len(u.rest) : u.rest[j] = f[0 + j]
  BY <1>1, <1>2, <1>4 DEF v
<1>6. Stands(u, f, c, 0)
  BY <1>1, <1>2, <1>3, <1>4, <1>5 DEF Stands, v
<1>7. QED BY <1>6 DEF u, v

\* When all are taken, they have been read as they were written.
LEMMA StandsLast ==
  ASSUME NEW f \in Texts, NEW c, NEW u, Stands(u, f, c, Len(f))
  PROVE  u.out = f
  BY SeqEqual DEF Stands, Pair, Texts

\* A field that starts the rest of the text, and what is behind it.
LEMMA StandsAhead ==
  ASSUME NEW f \in Texts, NEW c, Packed(f, c), NEW i \in Nat, i < c, NEW u, Stands(u, f, c, i)
  PROVE  /\ u.rest \in Values /\ u.rest # <<>> /\ u.rest[1] = f[i + 1] /\ Head(u.rest) = f[i + 1]
         /\ f[i + 1] \in Seq(Int) /\ f[i + 1] # <<>>
         /\ \A v \in Pair : v.out = Append(u.out, f[i + 1]) /\ v.rest = Tail(u.rest)
                              => Stands(v, f, c, i + 1)
<1>1. c \in Nat /\ Len(f) \in Nat /\ c <= Len(f) /\ i + 1 \in 1 .. Len(f) /\ i <= c
  BY LenProperties DEF Packed, Texts
<1>2. f[i + 1] \in Seq(Int) /\ f[i + 1] # <<>>
  BY <1>1, ElementOfSeq DEF Packed, Texts
<1>3. /\ u \in Pair /\ u.rest \in Values /\ u.out \in Seq(Seq(Int)) /\ Len(u.out) = i
      /\ \A j \in 1 .. i : u.out[j] = f[j]
      /\ Len(u.rest) = c - i /\ \A j \in 1 .. Len(u.rest) : u.rest[j] = f[i + j]
  BY <1>1 DEF Stands, Pair, Texts
<1>4. u.rest # <<>> /\ u.rest[1] = f[i + 1] /\ 1 \in 1 .. Len(u.rest)
  <2>1. Len(u.rest) >= 1
    BY <1>1, <1>3
  <2>2. QED BY <1>1, <1>3, <2>1
<1>5. /\ Head(u.rest) = f[i + 1] /\ Tail(u.rest) \in Values /\ Len(Tail(u.rest)) = (c - i) - 1
      /\ \A j \in 1 .. Len(Tail(u.rest)) : Tail(u.rest)[j] = u.rest[j + 1]
  BY <1>3, <1>4, HeadTailProperties DEF Values
<1>6. ASSUME NEW v \in Pair, v.out = Append(u.out, f[i + 1]), v.rest = Tail(u.rest)
      PROVE  Stands(v, f, c, i + 1)
  <2>1. /\ Len(v.out) = i + 1 /\ v.out[i + 1] = f[i + 1]
        /\ \A j \in 1 .. i : v.out[j] = u.out[j]
    BY <1>2, <1>3, <1>6, AppendProperties
  <2>2. \A j \in 1 .. i + 1 : v.out[j] = f[j]
    <3>1. \A j \in 1 .. i + 1 : j \in 1 .. i \/ j = i + 1
      OBVIOUS
    <3>2. QED BY <1>3, <2>1, <3>1
  <2>3. Len(v.rest) = c - (i + 1) /\ i + 1 <= c
    BY <1>1, <1>5, <1>6
  <2>4. ASSUME NEW j \in 1 .. Len(v.rest) PROVE v.rest[j] = f[(i + 1) + j]
    <3>1. j + 1 \in 1 .. Len(u.rest) /\ i + (j + 1) = (i + 1) + j
      BY <1>1, <1>3, <2>3
    <3>2. v.rest[j] = u.rest[j + 1]
      BY <1>5, <1>6
    <3>3. u.rest[j + 1] = f[i + (j + 1)]
      BY <1>3, <3>1
    <3>4. QED BY <3>1, <3>2, <3>3
  <2>5. QED BY <2>1, <2>2, <2>3, <2>4 DEF Stands
<1>7. QED BY <1>2, <1>3, <1>4, <1>5, <1>6

\* A letter may read the next field again: a number for a number, and behind the
\* end of the text only a string.
MayRead(letter, f, c, i) ==
    /\ i <= c /\ letter # "s" => NumberToken(f[i])
    /\ i > c => letter = "s"

\* It takes the field it was written from.
LEMMA TakesAgain ==
  ASSUME NEW f \in Texts, NEW c, Packed(f, c), NEW i \in Nat, i < Len(f), NEW u, Stands(u, f, c, i),
         NEW letter, MayRead(letter, f, c, i + 1)
  PROVE  Stands(Take(u, letter), f, c, i + 1)
<1> DEFINE v == Take(u, letter)
<1>1. c \in Nat /\ Len(f) \in Nat /\ c <= Len(f) /\ u \in Pair
  BY LenProperties DEF Packed, Texts, Stands
<1>2. v \in Pair
  BY <1>1, TakeType
<1>3. CASE i < c
  <2>1. /\ u.rest \in Values /\ u.rest # <<>> /\ u.rest[1] = f[i + 1] /\ Head(u.rest) = f[i + 1]
        /\ f[i + 1] \in Seq(Int) /\ f[i + 1] # <<>>
        /\ \A w \in Pair : w.out = Append(u.out, f[i + 1]) /\ w.rest = Tail(u.rest)
                             => Stands(w, f, c, i + 1)
    BY <1>3, StandsAhead
  <2>2. CASE letter = "s"
    <3>1. v = [out |-> Append(u.out, Head(u.rest)), rest |-> Tail(u.rest)]
      BY <2>1, <2>2 DEF Take, TakeString
    <3> HIDE DEF v
    <3>2. v.out = Append(u.out, f[i + 1]) /\ v.rest = Tail(u.rest)
      BY <2>1, <3>1
    <3>3. QED BY <1>2, <2>1, <3>2 DEF v
  <2>3. CASE letter # "s"
    <3> DEFINE e == f[i + 1]
    <3>1. e \in Seq(Int) /\ Len(e) = 1 /\ e[1] >= 0
      <4>1. i + 1 <= c
        BY <1>1, <1>3
      <4>2. QED BY <2>3, <4>1 DEF MayRead, NumberToken
    <3> HIDE DEF e
    <3>2. u.rest # <<>> /\ u.rest[1] = e
      BY <2>1 DEF e
    <3>3. IsNumber(u.rest) /\ ~HasUnit(u.rest) /\ Skip(u.rest, 1) = Tail(u.rest)
      <4> DEFINE r == u.rest
      <4> HIDE DEF r
      <4>1. e = r[1] /\ r # <<>>
        BY <3>2 DEF r
      <4>2. IsNumber(r) /\ ~HasUnit(r) /\ Skip(r, 1) = Tail(r)
        BY <3>1, <4>1 DEF IsNumber, HasUnit, Skip
      <4>3. QED BY <4>2 DEF r
    <3>4. v = [out |-> Append(u.out, <<e[1]>>), rest |-> Tail(u.rest)]
      BY <2>3, <3>2, <3>3 DEF Take, TakeTime, TakeNumber
    <3>5. <<e[1]>> = e
      BY <3>1
    <3> HIDE DEF v
    <3>6. v.out = Append(u.out, f[i + 1]) /\ v.rest = Tail(u.rest)
      BY <3>4, <3>5 DEF e
    <3>7. QED BY <1>2, <2>1, <3>6 DEF v
  <2>4. QED BY <2>2, <2>3
<1>4. CASE i >= c
  <2>1. letter = "s"
    BY <1>1, <1>4 DEF MayRead
  <2>2. f[i + 1] = <<>>
    BY <1>1, <1>4 DEF Packed
  <2>3. Len(u.rest) = 0 /\ u.rest = <<>>
    <3>1. Len(u.rest) = 0
      BY <1>1, <1>4 DEF Stands
    <3>2. QED BY <1>1, <3>1, EmptySeq DEF Pair, Values
  <2>4. v = [out |-> Append(u.out, <<>>), rest |-> <<>>]
    BY <2>1, <2>3 DEF Take, TakeString
  <2> HIDE DEF v
  <2>5. u.out \in Seq(Seq(Int)) /\ <<>> \in Seq(Int) /\ Len(u.out) = i
    BY <1>1 DEF Stands, Pair, Texts
  <2>6. /\ Len(v.out) = i + 1 /\ v.out[i + 1] = <<>>
        /\ \A j \in 1 .. i : v.out[j] = u.out[j]
    <3> DEFINE e == <<>>
    <3>1. e \in Seq(Int) /\ v.out = Append(u.out, e)
      BY <2>4, <2>5
    <3> HIDE DEF e
    <3>2. /\ Len(v.out) = i + 1 /\ v.out[i + 1] = e
          /\ \A j \in 1 .. i : v.out[j] = u.out[j]
      BY <2>5, <3>1, AppendProperties
    <3>3. QED BY <3>2 DEF e
  <2>7. \A j \in 1 .. i + 1 : v.out[j] = f[j]
    <3>1. \A j \in 1 .. i + 1 : j \in 1 .. i \/ j = i + 1
      OBVIOUS
    <3>2. \A j \in 1 .. i : u.out[j] = f[j]
      BY DEF Stands
    <3>3. QED BY <2>2, <2>6, <3>1, <3>2
  <2>8. Len(v.rest) = 0 /\ ~(i + 1 <= c)
    BY <1>1, <1>4, <2>4
  <2>9. QED BY <1>2, <2>6, <2>7, <2>8 DEF Stands, v
<1>5. QED BY <1>1, <1>3, <1>4

\* A format takes the fields it was written from.
LEMMA FormatAgain ==
  ASSUME NEW f \in Texts, NEW c, Packed(f, c), NEW i \in Nat, NEW T, NEW fmt \in Seq(T),
         i + Len(fmt) <= Len(f), NEW u, Stands(u, f, c, i),
         \A k \in 1 .. Len(fmt) : MayRead(fmt[k], f, c, i + k)
  PROVE  Stands(FoldLeft(Take, u, fmt), f, c, i + Len(fmt))
<1> DEFINE m == Len(fmt)
<1>0. m \in Nat /\ Len(f) \in Nat /\ u \in Pair
  BY LenProperties DEF Texts, Stands
<1>1. PICK p \in [0 .. m -> Pair] :
        /\ p[0] = u /\ p[m] = FoldLeft(Take, u, fmt)
        /\ \A k \in 1 .. m : p[k] = Take(p[k - 1], fmt[k])
  BY <1>0, TakesPath
<1> HIDE DEF m
<1> DEFINE Good(k) == Stands(p[k], f, c, i + k)
           S == {k \in Nat : k <= m => Good(k)}
<1>2. 0 \in S
  BY <1>1
<1>3. \A k \in Nat : k \in S => k + 1 \in S
  <2> SUFFICES ASSUME NEW k \in Nat, k \in S, k + 1 <= m PROVE Good(k + 1)
    <3> HIDE DEF Good
    <3> QED OBVIOUS
  <2>1. Stands(p[k], f, c, i + k)
    BY <1>0
  <2>2. p[k + 1] = Take(p[k], fmt[k + 1]) /\ k + 1 \in 1 .. m
    <3>1. k + 1 \in 1 .. m /\ (k + 1) - 1 = k
      BY <1>0
    <3>2. QED BY <1>1, <3>1
  <2>3. i + k \in Nat /\ i + k < Len(f) /\ i + (k + 1) = (i + k) + 1
    BY <1>0 DEF m
  <2>4. MayRead(fmt[k + 1], f, c, (i + k) + 1)
    BY <2>2, <2>3 DEF m
  <2> DEFINE x == i + k
             v == p[k]
             l == fmt[k + 1]
  <2>5. x \in Nat /\ x < Len(f) /\ Stands(v, f, c, x) /\ MayRead(l, f, c, x + 1)
    BY <2>1, <2>3, <2>4
  <2> HIDE DEF x, v, l
  <2>6. Stands(Take(v, l), f, c, x + 1)
    BY <2>5, TakesAgain
  <2>7. QED BY <2>2, <2>3, <2>6 DEF x, v, l
<1>4. Nat \subseteq S
  <2> HIDE DEF S
  <2> QED BY <1>2, <1>3, SetInduction
<1>5. Good(m)
  <2> HIDE DEF Good
  <2>1. m \in S /\ m <= m
    BY <1>0, <1>4
  <2>2. QED BY <2>1
<1>6. QED BY <1>1, <1>5 DEF m

\* A text of numbers up to its end, and of pairs of them for two letters.
NumbersAhead(f, fmt, i) ==
    /\ \A j \in 1 .. Len(f) : j > i => NumberToken(f[j])
    /\ Len(fmt) = 2 => \E q \in Nat : Len(f) = i + 2 * q

\* A text has at least as many atoms as tokens.
LEMMA AtomsEnough ==
  ASSUME NEW val \in Values
  PROVE  /\ Len(FlattenSeq(val)) \in Nat
         /\ Len(FlattenSeq(val)) >= Len(val)
<1> DEFINE n == Len(val)
<1>1. n \in Nat /\ val \in Seq(Seq(Int)) /\ \A i \in 1 .. n : val[i] \in Seq(Int) /\ Len(val[i]) \in Nat /\ Len(val[i]) >= 1
  <2>1. \A i \in 1 .. n : val[i] \in Seq(Int) /\ val[i] # <<>>
    BY ElementOfSeq DEF Values
  <2>2. QED BY <2>1, LenProperties, EmptySeq, SeqMonotonic DEF Values
<1>2. FlattenSeq(val) \in Seq(Int)
  BY <1>1, FlattenType
<1>3. Len(FlattenSeq(val)) \in Nat
  BY <1>2, LenProperties
<1>4. CASE n = 0
  BY <1>3, <1>4
<1>5. CASE n # 0
  <2>1. PICK h : Flattens(h, val, n) /\ FlattenSeq(val) = h[n]
    BY <1>1, <1>5, FlattenUnfolds
  <2>2. \A i \in 1 .. n : h[i] \in Seq(Int)
    BY <1>1, <2>1, FlattensType
  <2>3. \A i \in 1 .. n : h[i] = IF i = 1 THEN val[i] ELSE h[i - 1] \o val[i]
    BY <1>1, <2>1, FlattensAt
  <2> HIDE DEF n
  <2> DEFINE Good(k) == Len(h[k]) >= k
             S == {k \in Nat : k \in 1 .. n => Good(k)}
  <2>4. 0 \in S
    OBVIOUS
  <2>5. \A k \in Nat : k \in S => k + 1 \in S
    <3> SUFFICES ASSUME NEW k \in Nat, k \in S, k + 1 \in 1 .. n PROVE Good(k + 1)
      OBVIOUS
    <3>1. CASE k = 0
      BY <1>1, <2>3, <3>1
    <3>2. CASE k # 0
      <4> DEFINE a == h[k]
                 b == val[k + 1]
      <4>1. k \in 1 .. n /\ (k + 1) - 1 = k /\ k + 1 # 1
        BY <1>1, <3>2
      <4>2. h[k + 1] = a \o b
        BY <2>3, <4>1
      <4>3. a \in Seq(Int) /\ Len(a) >= k /\ b \in Seq(Int) /\ Len(b) >= 1
        BY <1>1, <2>2, <4>1
      <4> HIDE DEF a, b
      <4>4. Len(a \o b) = Len(a) + Len(b) /\ Len(a) \in Nat /\ Len(b) \in Nat
        BY <4>3, ConcatProperties, LenProperties
      <4>5. QED BY <4>2, <4>3, <4>4
    <3>3. QED BY <3>1, <3>2
  <2>6. Nat \subseteq S
    <3> HIDE DEF S
    <3> QED BY <2>4, <2>5, SetInduction
  <2>7. n \in S /\ n \in 1 .. n
    BY <1>1, <1>5, <2>6
  <2>8. QED BY <2>1, <2>7 DEF n
<1>6. QED BY <1>4, <1>5

\* What was split to the end is split to the end again.
LEMMA SplitAllAgain ==
  ASSUME NEW f \in Texts, NEW i \in Nat, i <= Len(f), Packed(f, Len(f)),
         NEW T, NEW fmt \in Seq(T), NumberFormat(fmt), NumbersAhead(f, fmt, i),
         NEW u, Stands(u, f, Len(f), i)
  PROVE  Stands(SplitAll(fmt, u), f, Len(f), Len(f))
<1> DEFINE c == Len(f)
           m == Len(FlattenSeq(u.rest))
           l == Len(fmt)
<1>0. c \in Nat /\ u \in Pair /\ u.rest \in Values /\ l \in {1, 2} /\ Len(u.rest) = c - i
  BY LenProperties DEF Texts, Stands, Pair, NumberFormat
<1>1. /\ m \in Nat
      /\ \E p \in [0 .. m -> Pair] :
           /\ p[0] = u /\ p[m] = SplitAll(fmt, u)
           /\ \A k \in 1 .. m : p[k] = Again(fmt, p[k - 1])
  BY <1>0, RoundsPath
<1> PICK p \in [0 .. m -> Pair] :
           /\ p[0] = u /\ p[m] = SplitAll(fmt, u)
           /\ \A k \in 1 .. m : p[k] = Again(fmt, p[k - 1])
  BY <1>1
<1>2. m \in Nat /\ p[0] = u /\ p[m] = SplitAll(fmt, u) /\ \A k \in 1 .. m : p[k] = Again(fmt, p[k - 1])
  BY <1>1
<1>3. m >= c - i
  BY <1>0, AtomsEnough
<1> HIDE DEF m
<1> DEFINE Good(k) == \E j \in i .. c : /\ Stands(p[k], f, c, j)
                                        /\ j = c \/ j >= i + k
                                        /\ l = 2 => \E q \in Nat : c = j + 2 * q
           S == {k \in Nat : k <= m => Good(k)}
<1>4. 0 \in S
  <2>1. i \in i .. c /\ i >= i + 0
    BY <1>0
  <2>2. l = 2 => \E q \in Nat : c = i + 2 * q
    BY DEF NumbersAhead
  <2>3. QED BY <1>2, <2>1, <2>2
<1>5. \A k \in Nat : k \in S => k + 1 \in S
  <2> SUFFICES ASSUME NEW k \in Nat, k \in S, k + 1 <= m PROVE Good(k + 1)
    <3> HIDE DEF Good
    <3> QED OBVIOUS
  <2>1. Good(k)
    <3> HIDE DEF Good
    <3>1. k <= m
      BY <1>2
    <3>2. QED BY <3>1
  <2>2. PICK j \in i .. c : /\ Stands(p[k], f, c, j)
                            /\ j = c \/ j >= i + k
                            /\ l = 2 => \E q \in Nat : c = j + 2 * q
    BY <2>1
  <2> DEFINE v == p[k]
             w == p[k + 1]
  <2>3. v \in Pair /\ w = Again(fmt, v)
    <3>1. k + 1 \in 1 .. m /\ k \in 0 .. m /\ (k + 1) - 1 = k
      BY <1>2
    <3>2. QED BY <1>2, <3>1
  <2>4. Stands(v, f, c, j)
    BY <2>2
  <2> HIDE DEF v, w
  <2>5. Len(v.rest) = c - j /\ v.rest \in Values
    BY <1>0, <2>3, <2>4 DEF Stands, Pair
  <2>6. CASE j = c
    <3>1. v.rest = <<>>
      <4>1. Len(v.rest) = 0
        BY <1>0, <2>5, <2>6
      <4>2. QED BY <2>5, <4>1, EmptySeq DEF Values
    <3>2. w = v
      BY <2>3, <3>1 DEF Again
    <3>3. QED BY <2>2, <2>4, <2>6, <3>2 DEF w
  <2>7. CASE j # c
    <3>1. w = FoldLeft(Take, v, fmt)
      <4>1. v.rest # <<>>
        BY <1>0, <2>5, <2>7
      <4>2. QED BY <2>3, <4>1 DEF Again
    <3>2. j \in Nat /\ j + l <= c /\ j < c
      <4>1. l = 2 => j + 2 <= c
        <5>1. l = 2 => \E q \in Nat : c = j + 2 * q
          BY <2>2
        <5>2. QED BY <1>0, <2>7, <5>1
      <4>2. j \in i .. c
        OBVIOUS
      <4> HIDE DEF c, l
      <4>3. QED BY <1>0, <2>7, <4>1, <4>2
    <3>3. \A x \in 1 .. l : MayRead(fmt[x], f, c, j + x)
      <4> SUFFICES ASSUME NEW x \in 1 .. l PROVE MayRead(fmt[x], f, c, j + x)
        OBVIOUS
      <4>1. j + x \in 1 .. c /\ j + x > i /\ ~(j + x > c)
        BY <1>0, <3>2
      <4>2. NumberToken(f[j + x])
        BY <4>1 DEF NumbersAhead
      <4>3. QED BY <4>1, <4>2 DEF MayRead
    <3>4. Stands(w, f, c, j + l)
      <4>1. Packed(f, c) /\ l <= c /\ f \in Texts /\ fmt \in Seq(T)
        BY <1>0, <3>2
      <4>2. /\ j \in Nat /\ j + Len(fmt) <= Len(f) /\ Stands(v, f, c, j)
            /\ \A x \in 1 .. Len(fmt) : MayRead(fmt[x], f, c, j + x)
        BY <2>4, <3>2, <3>3
      <4> HIDE DEF c
      <4>3. Stands(FoldLeft(Take, v, fmt), f, c, j + Len(fmt))
        BY ONLY <4>1, <4>2, FormatAgain
      <4>4. QED BY <3>1, <4>3
    <3>5. j + l \in i .. c /\ (j + l = c \/ j + l >= i + (k + 1))
      <4>1. j \in i .. c /\ (j = c \/ j >= i + k)
        BY <2>2
      <4> HIDE DEF c, l
      <4>2. QED BY <1>0, <2>7, <3>2, <4>1
    <3>6. l = 2 => \E q \in Nat : c = (j + l) + 2 * q
      <4> SUFFICES ASSUME l = 2 PROVE \E q \in Nat : c = (j + l) + 2 * q
        OBVIOUS
      <4>1. PICK q \in Nat : c = j + 2 * q
        BY <2>2
      <4>2. q # 0
        BY <1>0, <2>7, <3>2, <4>1
      <4>3. q - 1 \in Nat /\ c = (j + l) + 2 * (q - 1)
        <5> HIDE DEF c, l
        <5> QED BY <1>0, <3>2, <4>1, <4>2
      <4>4. QED BY <4>3
    <3>7. QED BY <3>4, <3>5, <3>6 DEF w
  <2>8. QED BY <2>6, <2>7
<1>6. Nat \subseteq S
  <2> HIDE DEF S
  <2> QED BY <1>4, <1>5, SetInduction
<1>7. Good(m)
  <2> HIDE DEF Good
  <2>1. m \in S /\ m <= m
    BY <1>2, <1>6
  <2>2. QED BY <2>1
<1>8. Stands(p[m], f, c, c)
  <2>1. PICK j \in i .. c : Stands(p[m], f, c, j) /\ (j = c \/ j >= i + m)
    BY <1>7
  <2>2. j = c
    BY <1>0, <1>2, <1>3, <2>1
  <2>3. QED BY <2>1, <2>2
<1>9. QED BY <1>2, <1>8

\* A port is read again with the number of ports behind it.
LEMMA PortAgain ==
  ASSUME NEW f \in Texts, NEW c, Packed(f, c), NEW i \in Nat, i < c, NEW u, Stands(u, f, c, i),
         PortToken(f[i + 1])
  PROVE  Stands(TakePort(u), f, c, i + 1)
<1> DEFINE tok  == f[i + 1]
           toks == u.rest
           v    == TakePort(u)
<1>1. /\ toks \in Values /\ toks # <<>> /\ toks[1] = tok /\ tok \in Seq(Int) /\ tok # <<>>
      /\ \A w \in Pair : w.out = Append(u.out, tok) /\ w.rest = Tail(toks) => Stands(w, f, c, i + 1)
  BY StandsAhead
<1>2. u \in Pair
  BY DEF Stands
<1>3. v \in Pair
  BY <1>2, PortType
<1>4. tok[1] >= 0 /\ IsNumber(toks)
  <2>1. tok[1] >= 0
    BY DEF PortToken, NumberToken
  <2>2. toks[1][1] >= 0
    BY <1>1, <2>1
  <2>3. QED BY <1>1, <2>1, <2>2 DEF IsNumber
<1> DEFINE s == IF Len(tok) > 1 /\ tok[1 + 1] = Slash THEN 1 ELSE 0
           e == IF s = 1 /\ Len(tok) > 1 + 1 /\ tok[1 + 2] >= 0 THEN 1 ELSE 0
           n == IF e = 1 THEN tok[1 + 2] ELSE 0
           g == IF n = 0 THEN <<tok[1]>> ELSE <<tok[1], Slash, n>>
           r == IF 1 + s = 0 THEN toks ELSE Skip(toks, 1 + s + e)
<1>5. v = [out |-> Append(u.out, g), rest |-> r]
  BY <1>1, <1>4, Zenon DEF TakePort
<1>6. g = tok /\ r = Skip(toks, Len(tok))
  <2>1. CASE NumberToken(tok)
    <3>1. tok \in Seq(Int) /\ Len(tok) = 1
      BY <2>1 DEF NumberToken
    <3> HIDE DEF tok, toks
    <3>2. s = 0
      BY <3>1
    <3>3. e = 0
      BY <3>2
    <3>4. n = 0
      BY <3>3
    <3>5. g = <<tok[1]>> /\ r = Skip(toks, 1)
      BY <3>2, <3>3, <3>4
    <3>6. QED BY <3>1, <3>5
  <2>2. CASE tok \in Seq(Int) /\ Len(tok) = 3 /\ tok[1] >= 0 /\ tok[2] = Slash /\ tok[3] > 0
    <3> HIDE DEF tok, toks
    <3>1. tok[3] \in Int
      <4>1. tok \in Seq(Int) /\ 3 \in 1 .. Len(tok)
        BY <2>2
      <4>2. QED BY <4>1, ElementOfSeq
    <3>2. s = 1
      BY <2>2
    <3>3. e = 1
      BY <2>2, <3>1, <3>2
    <3>4. n = tok[3] /\ n # 0
      BY <2>2, <3>1, <3>3
    <3>5. g = <<tok[1], tok[2], tok[3]>> /\ r = Skip(toks, 3)
      BY <2>2, <3>2, <3>3, <3>4
    <3>6. tok = <<tok[1], tok[2], tok[3]>>
      BY <2>2
    <3>7. QED BY <2>2, <3>5, <3>6
  <2>3. QED BY <2>1, <2>2 DEF PortToken
<1>7. Skip(toks, Len(tok)) = Tail(toks)
  BY <1>1 DEF Skip
<1> HIDE DEF s, e, n, g, r, v
<1>8. v.out = Append(u.out, tok) /\ v.rest = Tail(toks)
  BY <1>5, <1>6, <1>7
<1>9. QED BY <1>1, <1>3, <1>8 DEF v

\* Fields of which the last are empty are so from one place on.
LEMMA PackedSomewhere ==
  ASSUME NEW f \in Texts,
         \A i, j \in 1 .. Len(f) : i < j /\ f[i] = <<>> => f[j] = <<>>
  PROVE  \E c : Packed(f, c)
<1> DEFINE n == Len(f)
           I == {i \in 1 .. n : f[i] # <<>>}
<1>1. n \in Nat
  BY LenProperties DEF Texts
<1>2. CASE I = {}
  <2>1. Packed(f, 0)
    BY <1>1, <1>2 DEF Packed
  <2>2. QED BY <2>1
<1>3. CASE I # {}
  <2>1. Max(I) \in I /\ \A i \in I : i <= Max(I)
    BY <1>1, <1>3, GreatestOne
  <2> DEFINE c == Max(I)
  <2>2. c \in 1 .. n /\ f[c] # <<>> /\ \A i \in 1 .. n : f[i] # <<>> => i <= c
    BY <2>1
  <2> HIDE DEF c
  <2>3. \A i \in 1 .. n : f[i] = <<>> <=> i > c
    BY <1>1, <2>2
  <2>4. Packed(f, c)
    BY <1>1, <2>2, <2>3 DEF Packed
  <2>5. QED BY <2>4
<1>4. QED BY <1>2, <1>3

\* Numbers are all there.
LEMMA PackedNumbers ==
  ASSUME NEW f \in Texts, \A i \in 1 .. Len(f) : f[i] # <<>>
  PROVE  Packed(f, Len(f))
<1>1. Len(f) \in Nat
  BY LenProperties DEF Texts
<1>2. QED BY <1>1 DEF Packed

\* A number is not empty.
LEMMA NumberThere == \A f : NumberToken(f) \/ PortToken(f) => f # <<>>
  BY DEF NumberToken, PortToken

\* What a format has taken may be taken again.
LEMMA MayReadAll ==
  ASSUME NEW f \in Texts, NEW c, Packed(f, c), NEW fmt, NEW n \in Nat, n <= Len(f),
         Suits(f, fmt, 0, n)
  PROVE  \A k \in 1 .. n : MayRead(fmt[k], f, c, 0 + k)
<1> SUFFICES ASSUME NEW k \in 1 .. n PROVE MayRead(fmt[k], f, c, k)
  OBVIOUS
<1>1. fmt[k] # "s" => NumberToken(f[k])
  BY DEF Suits
<1>2. k > c => fmt[k] = "s"
  <2>1. k \in 1 .. Len(f)
    BY LenProperties DEF Texts
  <2>2. k > c => f[k] = <<>>
    BY <2>1 DEF Packed
  <2>3. QED BY <1>1, <2>2, NumberThere
<1>3. QED BY <1>1, <1>2 DEF MayRead

\* What a format has made of a value it makes of the text it is written as, if no
\* string that a number follows is empty.
LEMMA SplitAgain ==
  ASSUME NEW T, NEW fmt \in Seq(T), NEW val \in Values,
         LET f == Split(fmt, val).out
         IN \A i, j \in 1 .. Len(fmt) : i < j /\ fmt[i] = "s" /\ fmt[j] # "s" => f[i] # <<>>
  PROVE  LET f == Split(fmt, val).out IN Split(fmt, Joined(f)).out = f
<1> DEFINE t == [out |-> <<>>, rest |-> val]
           f == Split(fmt, val).out
           n == Len(fmt)
<1>1. t \in Pair /\ Len(t.out) = 0 /\ n \in Nat
  BY LenProperties DEF Pair, Texts
<1>2. Split(fmt, val) = FoldLeft(Take, t, fmt)
  BY DEF Split
<1> HIDE DEF t
<1>3. f \in Texts /\ Len(f) = n /\ Suits(f, fmt, 0, n)
  <2>1. LET u == FoldLeft(Take, t, fmt)
        IN u \in Pair /\ Len(u.out) = 0 + n /\ Suits(u.out, fmt, 0, n)
    BY <1>1, FormatReads
  <2>2. QED BY <1>1, <1>2, <2>1 DEF Pair
<1>4. \A i, j \in 1 .. n : i < j /\ fmt[i] = "s" /\ fmt[j] # "s" => f[i] # <<>>
  OBVIOUS
<1> HIDE DEF f
<1>5. \A i, j \in 1 .. n : i < j /\ f[i] = <<>> => f[j] = <<>>
  <2> SUFFICES ASSUME NEW i \in 1 .. n, NEW j \in 1 .. n, i < j, f[i] = <<>> PROVE f[j] = <<>>
    OBVIOUS
  <2>1. fmt[i] = "s"
    BY <1>3, NumberThere DEF Suits
  <2>2. fmt[j] = "s"
    BY <1>4, <2>1
  <2>3. QED BY <1>3, <2>1, <2>2 DEF Suits
<1>6. PICK c : Packed(f, c)
  BY <1>3, <1>5, PackedSomewhere
<1> DEFINE w == [out |-> <<>>, rest |-> Joined(f)]
<1>7. Stands(w, f, c, 0)
  BY <1>3, <1>6, StandsFirst
<1>8. \A k \in 1 .. n : MayRead(fmt[k], f, c, 0 + k)
  BY <1>1, <1>3, <1>6, MayReadAll
<1>9. Split(fmt, Joined(f)) = FoldLeft(Take, w, fmt)
  BY DEF Split
<1> HIDE DEF w
<1>10. Stands(FoldLeft(Take, w, fmt), f, c, 0 + n)
  <2>1. 0 \in Nat /\ 0 + Len(fmt) <= Len(f)
    BY <1>1, <1>3
  <2>2. QED BY <1>3, <1>6, <1>7, <1>8, <2>1, FormatAgain
<1>11. FoldLeft(Take, w, fmt).out = f
  BY <1>1, <1>3, <1>10, StandsLast
<1>12. QED BY <1>9, <1>11 DEF f

\* So is what a format has made of the beginning of a value and another one,
\* to the end, of the rest, where all are numbers.
LEMMA NumbersAgain ==
  ASSUME NEW T, NEW start \in Seq(T), NEW fmt \in Seq(T), NumberFormat(fmt), NEW val \in Values,
         \A i \in 1 .. Len(start) : start[i] # "s"
  PROVE  LET f == SplitAll(fmt, Split(start, val)).out
         IN SplitAll(fmt, Split(start, Joined(f))).out = f
<1> DEFINE t == [out |-> <<>>, rest |-> val]
           a == Split(start, val)
           f == SplitAll(fmt, a).out
           n == Len(start)
<1>1. t \in Pair /\ Len(t.out) = 0 /\ n \in Nat
  BY LenProperties DEF Pair, Texts
<1>2. a = FoldLeft(Take, t, start)
  BY DEF Split
<1> HIDE DEF t
<1>3. a \in Pair /\ Len(a.out) = n /\ Suits(a.out, start, 0, n)
  <2>1. LET u == FoldLeft(Take, t, start)
        IN u \in Pair /\ Len(u.out) = 0 + n /\ Suits(u.out, start, 0, n)
    BY <1>1, FormatReads
  <2>2. QED BY <1>1, <1>2, <2>1
<1> HIDE DEF a
<1>4. f \in Texts /\ NumbersBehind(f, fmt, n) /\ \A i \in 1 .. n : f[i] = a.out[i]
  <2>1. LET u == SplitAll(fmt, a)
        IN /\ u \in Pair
           /\ \A i \in 1 .. Len(a.out) : u.out[i] = a.out[i]
           /\ NumbersBehind(u.out, fmt, Len(a.out))
    BY <1>3, SplitAllReads
  <2>2. QED BY <1>3, <2>1 DEF Pair
<1> HIDE DEF f
<1>5. Len(f) \in Nat /\ Len(f) >= n
  BY <1>4, LenProperties DEF Texts, NumbersBehind
<1>6. \A i \in 1 .. Len(f) : NumberToken(f[i])
  <2> SUFFICES ASSUME NEW i \in 1 .. Len(f) PROVE NumberToken(f[i])
    OBVIOUS
  <2>1. CASE i <= n
    <3>1. i \in 1 .. n
      BY <1>1, <2>1
    <3>2. NumberToken(a.out[0 + i])
      BY <1>3, <3>1 DEF Suits
    <3>3. QED BY <1>4, <3>1, <3>2
  <2>2. CASE i > n
    BY <1>4, <2>2 DEF NumbersBehind
  <2>3. QED BY <1>1, <2>1, <2>2
<1> DEFINE c == Len(f)
           w == [out |-> <<>>, rest |-> Joined(f)]
           b == Split(start, Joined(f))
<1>7. Packed(f, c)
  BY <1>4, <1>6, PackedNumbers, NumberThere
<1>8. Stands(w, f, c, 0)
  BY <1>4, <1>7, StandsFirst
<1>9. b = FoldLeft(Take, w, start)
  BY DEF Split
<1> HIDE DEF w, b
<1>10. Stands(b, f, c, n)
  <2>1. \A k \in 1 .. n : MayRead(start[k], f, c, 0 + k)
    <3> SUFFICES ASSUME NEW k \in 1 .. n PROVE MayRead(start[k], f, c, k)
      OBVIOUS
    <3>1. k \in 1 .. Len(f) /\ ~(k > c)
      BY <1>1, <1>5
    <3>2. QED BY <1>6, <3>1 DEF MayRead
  <2>2. 0 \in Nat /\ 0 + Len(start) <= Len(f)
    BY <1>1, <1>5
  <2>3. Stands(FoldLeft(Take, w, start), f, c, 0 + Len(start))
    BY <1>4, <1>7, <1>8, <2>1, <2>2, FormatAgain
  <2>4. QED BY <1>1, <1>9, <2>3
<1>11. NumbersAhead(f, fmt, n)
  BY <1>4, <1>6 DEF NumbersAhead, NumbersBehind
<1>12. Stands(SplitAll(fmt, b), f, Len(f), Len(f))
  BY <1>1, <1>4, <1>5, <1>7, <1>10, <1>11, SplitAllAgain
<1>13. SplitAll(fmt, b).out = f
  BY <1>4, <1>12, StandsLast
<1>14. QED BY <1>13 DEF b, f, a

-------------------------------------------------------------------------------
(* The fields of a line, written and read again, are the fields. *)

\* The fields of an m= line are written and read again, if the first is there.
LEMMA MediaAgain ==
  ASSUME NEW val \in Values, MediaInfo(val)[1] # <<>>
  PROVE  MediaInfo(Joined(MediaInfo(val))) = MediaInfo(val)
<1> DEFINE t == [out |-> <<>>, rest |-> val]
           a == Split(<<"s">>, val)
           b == TakePort(a)
           k == Take(b, "s")
           d == SplitAll(<<"i">>, k)
           f == MediaInfo(val)
<1>1. t \in Pair /\ Len(t.out) = 0 /\ <<"s">> \in Seq({"s"}) /\ Len(<<"s">>) = 1 /\ <<"s">>[1] = "s"
  BY DEF Pair, Texts
<1>2. <<"i">> \in Seq({"i"}) /\ Len(<<"i">>) = 1 /\ NumberFormat(<<"i">>)
  BY DEF NumberFormat
<1>3. a = FoldLeft(Take, t, <<"s">>) /\ f = d.out
  BY DEF Split, MediaInfo
<1> HIDE DEF t, f
<1>4. a \in Pair /\ Len(a.out) = 1
  <2>1. LET u == FoldLeft(Take, t, <<"s">>)
        IN u \in Pair /\ Len(u.out) = Len(t.out) + Len(<<"s">>)
    BY <1>1, FormatReads
  <2>2. QED BY <1>1, <1>3, <2>1
<1> HIDE DEF a
<1>5. /\ b \in Pair /\ Len(b.out) = 2 /\ b.out[1] = a.out[1] /\ PortToken(b.out[2])
  <2>1. /\ b \in Pair /\ Len(b.out) = Len(a.out) + 1
        /\ \A i \in 1 .. Len(a.out) : b.out[i] = a.out[i]
        /\ PortToken(b.out[Len(a.out) + 1])
    BY <1>4, PortReads
  <2>2. QED BY <1>4, <2>1
<1> HIDE DEF b
<1>6. /\ k \in Pair /\ Len(k.out) = 3 /\ k.out[1] = b.out[1] /\ k.out[2] = b.out[2]
      /\ k.out[3] = <<>> => k.rest = <<>>
  <2>1. /\ k \in Pair /\ Len(k.out) = Len(b.out) + 1
        /\ \A i \in 1 .. Len(b.out) : k.out[i] = b.out[i]
        /\ k.out[Len(b.out) + 1] = <<>> <=> b.rest = <<>>
        /\ b.rest = <<>> => k.rest = <<>>
    BY <1>5, TakeReads
  <2>2. QED BY <1>5, <2>1
<1> HIDE DEF k
<1>7. /\ d \in Pair /\ \A i \in 1 .. 3 : d.out[i] = k.out[i]
      /\ NumbersBehind(d.out, <<"i">>, 3)
      /\ k.rest = <<>> => d = k
  <2>1. /\ d \in Pair /\ \A i \in 1 .. Len(k.out) : d.out[i] = k.out[i]
        /\ NumbersBehind(d.out, <<"i">>, Len(k.out))
    BY <1>2, <1>6, SplitAllReads
  <2>2. k.rest = <<>> => d = k
    BY <1>2, <1>6, SplitAllType
  <2>3. QED BY <1>6, <2>1, <2>2
<1> HIDE DEF d
<1>8. /\ f \in Texts /\ Len(f) \in Nat /\ Len(f) >= 3 /\ f[1] # <<>> /\ PortToken(f[2]) /\ f[2] # <<>>
      /\ \A i \in 1 .. Len(f) : i > 3 => NumberToken(f[i]) /\ f[i] # <<>>
      /\ f[3] = <<>> => Len(f) = 3
  <2>1. f \in Texts /\ Len(f) \in Nat
    BY <1>3, <1>7, LenProperties DEF Pair, Texts
  <2>2. Len(f) >= 3 /\ \A i \in 1 .. Len(f) : i > 3 => NumberToken(f[i])
    BY <1>3, <1>7 DEF NumbersBehind
  <2>3. f[1] # <<>>
    BY DEF f
  <2>4. PortToken(f[2])
    BY <1>3, <1>5, <1>6, <1>7
  <2>5. f[3] = <<>> => Len(f) = 3
    BY <1>3, <1>6, <1>7
  <2>6. QED BY <2>1, <2>2, <2>3, <2>4, <2>5, NumberThere
<1> DEFINE c == IF f[3] = <<>> THEN 2 ELSE Len(f)
           w == [out |-> <<>>, rest |-> Joined(f)]
           u1 == Split(<<"s">>, Joined(f))
           u2 == TakePort(u1)
           u3 == Take(u2, "s")
           u4 == SplitAll(<<"i">>, u3)
<1>9. c \in Nat /\ 2 <= c /\ c <= Len(f) /\ (c = Len(f) \/ (c = 2 /\ Len(f) = 3))
  BY <1>8
<1>10. Packed(f, c)
  <2>1. CASE f[3] = <<>>
    <3>1. c = 2 /\ Len(f) = 3
      BY <1>8, <2>1
    <3>2. \A i \in 1 .. 3 : f[i] = <<>> <=> i > 2
      <4>1. \A i \in 1 .. 3 : i = 1 \/ i = 2 \/ i = 3
        OBVIOUS
      <4>2. QED BY <1>8, <2>1, <4>1
    <3>3. QED BY <3>1, <3>2 DEF Packed
  <2>2. CASE f[3] # <<>>
    <3>1. c = Len(f)
      BY <2>2
    <3>2. \A i \in 1 .. Len(f) : f[i] # <<>>
      <4>1. \A i \in 1 .. Len(f) : i = 1 \/ i = 2 \/ i = 3 \/ i > 3
        BY <1>8
      <4>2. QED BY <1>8, <2>2, <4>1
    <3>3. QED BY <1>8, <3>1, <3>2, PackedNumbers
  <2>3. QED BY <2>1, <2>2
<1> HIDE DEF c
<1>11. Stands(w, f, c, 0)
  BY <1>8, <1>10, StandsFirst
<1>12. u1 = FoldLeft(Take, w, <<"s">>)
  BY DEF Split
<1>13. MediaInfo(Joined(f)) = u4.out
  BY DEF MediaInfo
<1> HIDE DEF w, u1
<1>14. Stands(u1, f, c, 1)
  <2>1. \A x \in 1 .. Len(<<"s">>) : MayRead(<<"s">>[x], f, c, 0 + x)
    BY <1>1 DEF MayRead
  <2>2. 0 \in Nat /\ 0 + Len(<<"s">>) <= Len(f)
    BY <1>1, <1>8
  <2>3. Stands(FoldLeft(Take, w, <<"s">>), f, c, 0 + Len(<<"s">>))
    BY <1>1, <1>8, <1>10, <1>11, <2>1, <2>2, FormatAgain
  <2>4. QED BY <1>1, <1>12, <2>3
<1>15. Stands(u2, f, c, 2)
  <2>1. 1 \in Nat /\ 1 < c /\ PortToken(f[1 + 1]) /\ 1 + 1 = 2
    BY <1>8, <1>9
  <2>2. QED BY <1>8, <1>10, <1>14, <2>1, PortAgain
<1> HIDE DEF u2
<1>16. Stands(u3, f, c, 3)
  <2>1. 2 \in Nat /\ 2 < Len(f) /\ 2 + 1 = 3 /\ MayRead("s", f, c, 2 + 1)
    BY <1>8 DEF MayRead
  <2>2. QED BY <1>8, <1>10, <1>15, <2>1, TakesAgain
<1> HIDE DEF u3
<1>17. Stands(u4, f, c, Len(f))
  <2>1. CASE c = Len(f)
    <3>1. NumbersAhead(f, <<"i">>, 3) /\ 3 \in Nat
      BY <1>2, <1>8 DEF NumbersAhead
    <3>2. QED BY <1>2, <1>8, <1>10, <1>16, <2>1, <3>1, SplitAllAgain
  <2>2. CASE c = 2 /\ Len(f) = 3
    <3>1. u3 \in Pair /\ Len(u3.rest) = 0
      BY <1>16, <2>2 DEF Stands
    <3>2. u3.rest = <<>>
      BY <3>1, EmptySeq DEF Pair, Values
    <3>3. u4 = u3
      BY <1>2, <3>1, <3>2, SplitAllType
    <3>4. QED BY <1>16, <2>2, <3>3
  <2>3. QED BY <1>9, <2>1, <2>2
<1>18. u4.out = f
  BY <1>8, <1>17, StandsLast
<1>19. QED BY <1>13, <1>18 DEF f

\* What is split from the beginning starts with nothing taken.
LEMMA SplitNone == \A val \in Values : Split(<<>>, val) = [out |-> <<>>, rest |-> val]
<1> SUFFICES ASSUME NEW val \in Values PROVE Split(<<>>, val) = [out |-> <<>>, rest |-> val]
  OBVIOUS
<1> DEFINE t == [out |-> <<>>, rest |-> val]
<1>1. t \in Pair /\ <<>> \in Seq({}) /\ Len(<<>>) = 0
  BY DEF Pair, Texts
<1>2. Split(<<>>, val) = FoldLeft(Take, t, <<>>)
  BY DEF Split
<1> HIDE DEF t
<1>3. PICK p \in [0 .. Len(<<>>) -> Pair] :
        p[0] = t /\ p[Len(<<>>)] = FoldLeft(Take, t, <<>>)
  BY <1>1, TakesPath
<1>4. QED BY <1>1, <1>2, <1>3 DEF t

\* What has no field of its own is written as it is.
LEMMA JoinedValue == \A val \in Values : Joined(val) = val
<1> SUFFICES ASSUME NEW val \in Values PROVE Joined(val) = val
  OBVIOUS
<1>1. val \in Texts
  BY SeqMonotonic DEF Values, Texts
<1>2. \A i \in 1 .. Len(val) : val[i] # <<>>
  BY ElementOfSeq DEF Values
<1>3. Packed(val, Len(val))
  BY <1>1, <1>2, PackedNumbers
<1>4. /\ Joined(val) \in Values /\ Len(Joined(val)) = Len(val)
      /\ \A i \in 1 .. Len(val) : Joined(val)[i] = val[i]
  BY <1>1, <1>3, JoinedPacked
<1>5. QED BY <1>4, SeqEqual DEF Values

\* What a line has made of its value it makes of the text it is written as.
LEMMA Reread ==
  ASSUME NEW k, NEW val \in Values, k \in {"o", "m"} => Fields(k, val)[1] # <<>>
  PROVE  Fields(k, Joined(Fields(k, val))) = Fields(k, val)
<1>1. CASE k = "o"
  <2> DEFINE fmt == <<"s", "l", "l", "s", "s", "s">>
             f == Split(fmt, val).out
  <2>1. f = Fields(k, val) /\ Fields(k, Joined(f)) = Split(fmt, Joined(f)).out
    BY <1>1 DEF Fields
  <2>2. fmt \in Seq(Formats) /\ Len(fmt) = 6
    BY DEF Formats
  <2>3. \A i, j \in 1 .. Len(fmt) : i < j /\ fmt[i] = "s" /\ fmt[j] # "s" => f[i] # <<>>
    <3>1. f[1] # <<>>
      BY <1>1, <2>1
    <3>2. \A i, j \in 1 .. Len(fmt) : i < j /\ fmt[i] = "s" /\ fmt[j] # "s" => i = 1
      OBVIOUS
    <3>3. QED BY <3>1, <3>2
  <2> HIDE DEF fmt
  <2>4. Split(fmt, Joined(f)).out = f
    BY <2>2, <2>3, SplitAgain
  <2>5. QED BY <2>1, <2>4
<1>2. CASE k = "c"
  <2> DEFINE fmt == <<"s", "s", "s">>
             f == Split(fmt, val).out
  <2>1. f = Fields(k, val) /\ Fields(k, Joined(f)) = Split(fmt, Joined(f)).out
    BY <1>2 DEF Fields
  <2>2. fmt \in Seq(Formats) /\ \A j \in 1 .. Len(fmt) : fmt[j] = "s"
    BY DEF Formats
  <2> HIDE DEF fmt
  <2>3. Split(fmt, Joined(f)).out = f
    BY <2>2, SplitAgain
  <2>4. QED BY <2>1, <2>3
<1>3. CASE k = "b"
  <2> DEFINE fmt == <<"s", "s">>
             f == Split(fmt, val).out
  <2>1. f = Fields(k, val) /\ Fields(k, Joined(f)) = Split(fmt, Joined(f)).out
    BY <1>3 DEF Fields
  <2>2. fmt \in Seq(Formats) /\ \A j \in 1 .. Len(fmt) : fmt[j] = "s"
    BY DEF Formats
  <2> HIDE DEF fmt
  <2>3. Split(fmt, Joined(f)).out = f
    BY <2>2, SplitAgain
  <2>4. QED BY <2>1, <2>3
<1>4. CASE k = "t"
  <2> DEFINE fmt == <<"t", "t">>
             f == Split(fmt, val).out
  <2>1. f = Fields(k, val) /\ Fields(k, Joined(f)) = Split(fmt, Joined(f)).out
    BY <1>4 DEF Fields
  <2>2. fmt \in Seq(Formats) /\ \A j \in 1 .. Len(fmt) : fmt[j] # "s"
    BY DEF Formats
  <2> HIDE DEF fmt
  <2>3. Split(fmt, Joined(f)).out = f
    BY <2>2, SplitAgain
  <2>4. QED BY <2>1, <2>3
<1>5. CASE k = "r"
  <2> DEFINE start == <<"t", "t">>
             fmt == <<"t">>
             f == SplitAll(fmt, Split(start, val)).out
  <2>1. f = Fields(k, val) /\ Fields(k, Joined(f)) = SplitAll(fmt, Split(start, Joined(f))).out
    BY <1>5 DEF Fields
  <2>2. /\ start \in Seq(Formats) /\ \A j \in 1 .. Len(start) : start[j] # "s"
        /\ fmt \in Seq(Formats) /\ NumberFormat(fmt)
    BY DEF Formats, NumberFormat
  <2> HIDE DEF fmt, start
  <2>3. SplitAll(fmt, Split(start, Joined(f))).out = f
    BY <2>2, NumbersAgain
  <2>4. QED BY <2>1, <2>3
<1>6. CASE k = "z"
  <2> DEFINE start == <<>>
             fmt == <<"t", "t">>
             f == SplitAll(fmt, Split(start, val)).out
  <2>1. /\ start \in Seq(Formats) /\ \A j \in 1 .. Len(start) : start[j] # "s"
        /\ fmt \in Seq(Formats) /\ NumberFormat(fmt)
    BY DEF Formats, NumberFormat
  <2>2. Split(start, val) = [out |-> <<>>, rest |-> val]
    BY SplitNone
  <2>3. f = Fields(k, val)
    BY <1>6, <2>2 DEF Fields
  <2>4. f \in Texts
    BY <2>3, FieldsType
  <2>5. Joined(f) \in Values
    BY <2>4, JoinedType
  <2>6. Split(start, Joined(f)) = [out |-> <<>>, rest |-> Joined(f)]
    BY <2>5, SplitNone
  <2>7. Fields(k, Joined(f)) = SplitAll(fmt, Split(start, Joined(f))).out
    BY <1>6, <2>6 DEF Fields
  <2> HIDE DEF fmt, start
  <2>8. SplitAll(fmt, Split(start, Joined(f))).out = f
    BY <2>1, NumbersAgain
  <2>9. QED BY <2>3, <2>7, <2>8
<1>7. CASE k = "m"
  <2>1. \A x : Fields(k, x) = MediaInfo(x)
    BY <1>7 DEF Fields
  <2>2. QED BY <1>7, <2>1, MediaAgain
<1>8. CASE k \notin {"o", "c", "b", "t", "r", "z", "m"}
  <2>1. \A x : Fields(k, x) = x
    BY <1>8 DEF Fields
  <2>2. QED BY <2>1, JoinedValue
<1>9. QED BY <1>1, <1>2, <1>3, <1>4, <1>5, <1>6, <1>7, <1>8

-------------------------------------------------------------------------------
(* A description whose o= and m= lines say something. *)

\* What is taken, stands for a line of a letter that has a place there.
LEMMA KeyPlaces ==
  ASSUME Inv, NEW next, Moves(next)
  PROVE  /\ key \in SessionKeys \cup {"r", "m"} /\ key \in Letters
         /\ sdp.medias # <<>> => key \in MediaKeys \cup {"m"}
         /\ key = "r" => Times(sdp) # <<>> /\ sdp.medias = <<>> /\ open = 10
<1>1. Fitting(key) /\ status = "parsing"
  BY Zenon DEF Moves
<1>2. open \in Nat /\ open \in 1 .. 14
  BY DEF Inv
<1>3. CASE Reached(key) # {}
  <2>1. CASE sdp.medias = <<>>
    BY <1>2, <1>3, <2>1, ReachedInSession, LettersOfOrders, MediaInSession
  <2>2. CASE sdp.medias # <<>>
    <3>1. key \in MediaKeys
      BY <1>2, <1>3, <2>2, ReachedInStream, MediaPlaces
    <3>2. QED BY <2>2, <3>1, LettersOfOrders, MediaInSession
  <2>3. QED BY <2>1, <2>2
<1>4. CASE key = "r" /\ RepeatReached
  <2>1. sdp.medias = <<>> /\ open = 10
    <3>1. sdp.medias = <<>> /\ open <= 13 /\ SessionOrder[open] = "t"
      BY <1>4, KeysOfOrders DEF RepeatReached, Order
    <3>2. open \in 1 .. 13
      BY <1>2, <3>1
    <3>3. QED BY <3>1, <3>2, OrderPlaces
  <2>2. Times(sdp) # <<>>
    BY <1>1, <2>1 DEF Inv
  <2>3. QED BY <1>4, <2>1, <2>2, LettersOfOrders
<1>5. CASE key = "m" /\ MediaReached
  BY <1>5, LettersOfOrders
<1>6. QED BY <1>1, <1>3, <1>4, <1>5 DEF Fitting

\* o= and m= lines whose first field is there.
Titled(s) ==
    /\ \A n \in DOMAIN s.fields["o"] : s.fields["o"][n][1] # <<>>
    /\ \A i \in DOMAIN s.medias : s.medias[i].info[1] # <<>>

\* They are there as long as they are in the lines that are read.
LEMMA PutTitled ==
  ASSUME Inv, NEW next, Moves(next), Grows(next)
  PROVE  LET f == Fields(key, value)
         IN /\ f \in Texts
            /\ next.fields["o"] = IF key = "o" THEN sdp.fields["o"] \o <<f>> ELSE sdp.fields["o"]
            /\ sdp.fields["o"] \in Seq(Texts)
            /\ Titled(next) => Titled(sdp) /\ (key \in {"o", "m"} => f[1] # <<>>)
<1> DEFINE f == Fields(key, value)
           ms == sdp.medias
<1>1. /\ f \in Texts /\ value \in Values
  <2>1. doc # <<>>
    BY Zenon DEF Moves
  <2>2. QED BY <2>1, ValueType, FieldsType DEF Inv
<1>2. /\ key \in SessionKeys \cup {"r", "m"}
      /\ ms # <<>> => key \in MediaKeys \cup {"m"}
      /\ key = "r" => ms = <<>>
  BY KeyPlaces
<1>3. next = Put(sdp, key, f) /\ WellFormed(next) /\ WellFormed(sdp)
  BY Zenon DEF Grows, Inv
<1>4. PICK k : k = key
  OBVIOUS
<1>5. PICK s : s = sdp
  OBVIOUS
<1> HIDE DEF f
<1>6. /\ s \in [fields : [SessionKeys -> Seq(Texts) \cup TimesType], medias : Seq(Streams)]
      /\ s.fields["o"] \in Seq(Texts) /\ "o" \in SessionKeys
  BY <1>3, <1>5 DEF WellFormed, SessionKeys
<1>7. ms = s.medias /\ Len(s.medias) \in Nat /\ DOMAIN s.medias = 1 .. Len(s.medias)
  BY <1>5, <1>6, LenProperties
<1> HIDE DEF ms
<1>8. CASE k = "m"
  <2> DEFINE x == [info |-> f, fields |-> NoFields]
  <2>1. next = [s EXCEPT !.medias = Append(@, x)]
    BY <1>3, <1>4, <1>5, <1>8 DEF Put
  <2>2. x \in Streams
    <3>1. next.medias = Append(s.medias, x)
      BY <1>6, <2>1
    <3>2. f \in {i \in Texts : Len(i) >= 3}
      BY <1>1, <1>4, <1>8, FieldsType DEF f
    <3>3. NoFields \in [MediaKeys -> Seq(Texts)]
      BY KeysOfOrders DEF NoFields
    <3>4. QED BY <3>2, <3>3 DEF Streams
  <2>3. next.fields = s.fields /\ next.medias = Append(s.medias, x)
    BY <1>6, <2>1
  <2>4. s.medias \in Seq(Streams) /\ x.info = f
    BY <1>6
  <2> HIDE DEF x
  <2>5. /\ DOMAIN next.medias = 1 .. Len(s.medias) + 1
        /\ \A i \in 1 .. Len(s.medias) : next.medias[i] = s.medias[i]
        /\ next.medias[Len(s.medias) + 1] = x
    BY <1>7, <2>2, <2>3, <2>4, AppendProperties, LenProperties
  <2>6. ASSUME Titled(next) PROVE Titled(s) /\ f[1] # <<>>
    <3>1. \A i \in 1 .. Len(s.medias) + 1 : next.medias[i].info[1] # <<>>
      BY <2>5, <2>6 DEF Titled
    <3>2. x.info[1] # <<>>
      <4>1. Len(s.medias) + 1 \in 1 .. Len(s.medias) + 1
        BY <1>7
      <4>2. QED BY <2>5, <3>1, <4>1
    <3>3. \A i \in 1 .. Len(s.medias) : s.medias[i].info[1] # <<>>
      <4>1. \A i \in 1 .. Len(s.medias) : i \in 1 .. Len(s.medias) + 1
        BY <1>7
      <4>2. QED BY <2>5, <3>1, <4>1
    <3>4. QED BY <1>7, <2>3, <2>4, <2>6, <3>2, <3>3 DEF Titled
  <2>7. next.fields["o"] = s.fields["o"]
    BY <2>3
  <2>8. QED BY <1>1, <1>4, <1>5, <1>6, <1>8, <2>6, <2>7 DEF f
<1>9. CASE k = "r"
  <2> DEFINE t == [s.fields EXCEPT !["t"][Len(Times(s))] = Append(@, f)]
  <2>1. next = [s EXCEPT !.fields = t]
    BY <1>3, <1>4, <1>5, <1>9 DEF Put
  <2>2. t["o"] = s.fields["o"]
    BY <1>6
  <2> HIDE DEF t
  <2>3. next.fields["o"] = s.fields["o"] /\ next.medias = s.medias
    BY <1>6, <2>1, <2>2
  <2>4. Titled(next) => Titled(s)
    BY <2>3 DEF Titled
  <2>5. QED BY <1>1, <1>4, <1>5, <1>6, <1>9, <2>3, <2>4 DEF f
<1>10. CASE k \in SessionKeys /\ s.medias = <<>>
  <2> DEFINE e == EntryOf(k, f)
             v == s.fields[k] \o e
             t == [s.fields EXCEPT ![k] = v]
  <2>0. k # "m" /\ k # "r"
    BY <1>10, MediaInSession
  <2>1. next = [s EXCEPT !.fields = t]
    BY <1>3, <1>4, <1>5, <1>10, <2>0 DEF Put
  <2>2. t["o"] = IF k = "o" THEN v ELSE s.fields["o"]
    BY <1>6, <1>10
  <2> HIDE DEF t
  <2>3. next.fields["o"] = (IF k = "o" THEN v ELSE s.fields["o"]) /\ next.medias = s.medias
    BY <1>6, <2>1, <2>2
  <2>4. k = "o" => v = s.fields["o"] \o <<f>>
    BY DEF EntryOf
  <2> HIDE DEF v
  <2>5. CASE k # "o"
    <3>1. Titled(next) => Titled(s)
      BY <2>3, <2>5 DEF Titled
    <3>2. QED BY <1>1, <1>4, <1>5, <1>6, <2>0, <2>3, <2>5, <3>1 DEF f
  <2>6. CASE k = "o"
    <3> DEFINE o == s.fields["o"]
               w == o \o <<f>>
    <3>1. /\ Len(o) \in Nat /\ DOMAIN o = 1 .. Len(o)
          /\ DOMAIN w = 1 .. Len(o) + 1
          /\ \A i \in 1 .. Len(o) : w[i] = o[i]
          /\ w[Len(o) + 1] = f
      <4>1. <<f>> \in Seq(Texts) /\ Len(<<f>>) = 1 /\ <<f>>[1] = f /\ o \in Seq(Texts)
        BY <1>1, <1>6 DEF f
      <4> HIDE DEF o
      <4>2. QED BY <4>1, ConcatProperties, LenProperties
    <3>2. next.fields["o"] = w
      BY <2>3, <2>4, <2>6
    <3> HIDE DEF w
    <3>3. ASSUME Titled(next) PROVE Titled(s) /\ f[1] # <<>>
      <4>1. \A i \in 1 .. Len(o) + 1 : w[i][1] # <<>>
        BY <3>1, <3>2, <3>3 DEF Titled
      <4>2. Len(o) + 1 \in 1 .. Len(o) + 1 /\ \A i \in 1 .. Len(o) : i \in 1 .. Len(o) + 1
        BY <3>1
      <4>3. f[1] # <<>> /\ \A i \in 1 .. Len(o) : o[i][1] # <<>>
        BY <3>1, <4>1, <4>2
      <4>4. QED BY <2>3, <3>1, <3>3, <4>3 DEF Titled
    <3>4. QED BY <1>1, <1>4, <1>5, <1>6, <2>6, <3>2, <3>3 DEF f, w
  <2>7. QED BY <2>5, <2>6
<1>11. CASE k \in MediaKeys /\ s.medias # <<>>
  <2> DEFINE p == Len(s.medias)
             m == s.medias[p]
             v == m.fields[k] \o EntryOf(k, f)
             x == [m EXCEPT !.fields[k] = v]
             ns == [s.medias EXCEPT ![p] = x]
  <2>0. k # "m" /\ k # "r" /\ k # "o" /\ k \in SessionKeys
    BY <1>11 DEF MediaKeys, SessionKeys
  <2>1. next = [s EXCEPT !.medias = ns]
    BY <1>3, <1>4, <1>5, <1>11, <2>0 DEF Put
  <2>2. next.fields = s.fields /\ next.medias = ns
    BY <1>6, <2>1
  <2>3. m \in Streams /\ p \in 1 .. Len(s.medias)
    <3>1. p \in 1 .. Len(s.medias)
      BY <1>6, <1>7, <1>11, EmptySeq
    <3>2. QED BY <1>6, <3>1, ElementOfSeq
  <2>4. x.info = m.info
    BY <2>3 DEF Streams
  <2>5. DOMAIN ns = DOMAIN s.medias /\ \A i \in DOMAIN s.medias : ns[i].info = s.medias[i].info
    <3> HIDE DEF x
    <3>1. \A i \in DOMAIN s.medias : ns[i] = IF i = p THEN x ELSE s.medias[i]
      BY <1>6
    <3>2. QED BY <2>4, <3>1
  <2> HIDE DEF ns
  <2>6. Titled(next) => Titled(s)
    BY <2>2, <2>5 DEF Titled
  <2>7. next.fields["o"] = s.fields["o"]
    BY <2>2
  <2>8. QED BY <1>1, <1>4, <1>5, <1>6, <2>0, <2>6, <2>7 DEF f
<1>12. QED BY <1>2, <1>4, <1>5, <1>7, <1>8, <1>9, <1>10, <1>11

-------------------------------------------------------------------------------
(* A description is put together from the lines written for it. *)

\* A line that is written again as it is.
Verbatim(line) ==
    /\ line.eol = "crlf"
    /\ Line(line.key, Fields(line.key, line.val)) = line
    /\ line.key = "z" => line.val # <<>>

\* What is written for a line that was read, if it is written at all, has the
\* fields that were read and is written as it is the next time.
LEMMA RewrittenVerbatim ==
  ASSUME Inv, doc # <<>>, key \in {"o", "m"} => Fields(key, value)[1] # <<>>
  PROVE  LET f == Fields(key, value)
             line == Line(key, f)
         IN /\ Rewritten = IF key = "z" /\ f = <<>> THEN <<>> ELSE <<line>>
            /\ line.key = key /\ Fields(key, line.val) = f
            /\ ~(key = "z" /\ f = <<>>) => Verbatim(line)
<1> DEFINE f == Fields(key, value)
           line == Line(key, f)
<1>1. value \in Values /\ f \in Texts
  BY ValueType, FieldsType DEF Inv
<1>2. PICK k : k = key
  OBVIOUS
<1>3. PICK v : v = value
  OBVIOUS
<1>4. Fields(k, Joined(Fields(k, v))) = Fields(k, v)
  <2>1. k \in {"o", "m"} => Fields(k, v)[1] # <<>>
    BY <1>2, <1>3
  <2>2. QED BY <1>1, <1>3, <2>1, Reread
<1>5. f = Fields(k, v)
  BY <1>2, <1>3
<1> HIDE DEF f
<1>6. line.key = k /\ line.val = Joined(f) /\ line.eol = "crlf" /\ line = Line(k, f)
  BY <1>2 DEF Line
<1>7. Fields(k, line.val) = f
  BY <1>4, <1>5, <1>6
<1>8. Rewritten = IF k = "z" /\ f = <<>> THEN <<>> ELSE <<line>>
  BY <1>2, <1>6 DEF Rewritten, f
<1>9. ASSUME ~(k = "z" /\ f = <<>>) PROVE Verbatim(line)
  <2>1. ASSUME k = "z" PROVE line.val # <<>>
    <3>1. Joined(f) \in Values
      BY <1>1, JoinedType
    <3>2. Fields("z", Joined(f)) # <<>>
      BY <1>6, <1>7, <1>9, <2>1
    <3>3. QED BY <1>6, <3>1, <3>2, NoAdjustments
  <2> HIDE DEF line
  <2>2. QED BY <1>6, <1>7, <2>1 DEF Verbatim
<1> HIDE DEF line
<1>10. QED BY <1>2, <1>6, <1>7, <1>8, <1>9 DEF f, line

\* A description is what the lines written of it put together, one after another.
Rebuilding(p, s, lines) ==
    LET n == Len(lines)
    IN /\ p[0] = Nothing /\ p[n] = s
       /\ \A i \in 1 .. n : p[i] = Put(p[i - 1], lines[i].key, Fields(lines[i].key, lines[i].val))

Rebuilds(s) == \E p : Rebuilding(p, s, Format(s))

\* The text tells the description.
LEMMA RebuiltAlike ==
  ASSUME NEW a, NEW b, Rebuilds(a), Rebuilds(b), Format(a) = Format(b), Len(Format(a)) \in Nat
  PROVE  a = b
<1> DEFINE l == Format(a)
           n == Len(l)
<1>1. PICK p : Rebuilding(p, a, l)
  BY DEF Rebuilds
<1>2. PICK q : Rebuilding(q, b, l)
  BY DEF Rebuilds
<1> HIDE DEF l
<1>3. /\ n \in Nat /\ p[0] = q[0] /\ p[n] = a /\ q[n] = b
      /\ \A i \in 1 .. n : /\ p[i] = Put(p[i - 1], l[i].key, Fields(l[i].key, l[i].val))
                           /\ q[i] = Put(q[i - 1], l[i].key, Fields(l[i].key, l[i].val))
  BY <1>1, <1>2 DEF Rebuilding, l
<1> HIDE DEF n
<1> DEFINE S == {i \in Nat : i <= n => p[i] = q[i]}
<1>4. 0 \in S
  BY <1>3
<1>5. \A i \in Nat : i \in S => i + 1 \in S
  <2> SUFFICES ASSUME NEW i \in Nat, i \in S, i + 1 <= n PROVE p[i + 1] = q[i + 1]
    OBVIOUS
  <2>1. i + 1 \in 1 .. n /\ (i + 1) - 1 = i /\ i <= n
    BY <1>3
  <2>2. p[i] = q[i]
    BY <2>1
  <2>3. QED BY <1>3, <2>1, <2>2
<1>6. Nat \subseteq S
  <2> HIDE DEF S
  <2> QED BY <1>4, <1>5, SetInduction
<1>7. n \in S /\ n <= n
  BY <1>3, <1>6
<1>8. QED BY <1>3, <1>7

\* The empty description has no lines.
LEMMA NothingRebuilt == Rebuilds(Nothing)
<1> DEFINE p == [i \in {0} |-> Nothing]
<1>1. Format(Nothing) = <<>> /\ Len(<<>>) = 0
  BY FormatNothing
<1>2. Rebuilding(p, Nothing, <<>>)
  <2>1. p[0] = Nothing
    OBVIOUS
  <2> HIDE DEF p
  <2>2. QED BY <1>1, <2>1 DEF Rebuilding
<1>3. QED BY <1>1, <1>2 DEF Rebuilds

\* One more line puts its fields in,
LEMMA RebuildingGrows ==
  ASSUME NEW s, NEW lines \in Seq(Lines), NEW x \in Lines, NEW p, Rebuilding(p, s, lines)
  PROVE  \E q : Rebuilding(q, Put(s, x.key, Fields(x.key, x.val)), lines \o <<x>>)
<1> DEFINE n == Len(lines)
           t == lines \o <<x>>
           next == Put(s, x.key, Fields(x.key, x.val))
           q == [i \in 0 .. n + 1 |-> IF i = n + 1 THEN next ELSE p[i]]
<1>1. /\ n \in Nat /\ Len(t) = n + 1 /\ t[n + 1] = x
      /\ \A i \in 1 .. n : t[i] = lines[i]
  <2>1. <<x>> \in Seq(Lines) /\ Len(<<x>>) = 1 /\ <<x>>[1] = x
    OBVIOUS
  <2>2. QED BY <2>1, ConcatProperties, LenProperties
<1>2. /\ p[0] = Nothing /\ p[n] = s
      /\ \A i \in 1 .. n : p[i] = Put(p[i - 1], lines[i].key, Fields(lines[i].key, lines[i].val))
  BY DEF Rebuilding
<1> HIDE DEF n, t, next
<1>3. /\ q[n + 1] = next
      /\ \A i \in 0 .. n : q[i] = p[i]
  BY <1>1
<1> HIDE DEF q
<1>4. q[0] = Nothing /\ q[n] = s
  BY <1>1, <1>2, <1>3
<1>5. ASSUME NEW i \in 1 .. n + 1
      PROVE  q[i] = Put(q[i - 1], t[i].key, Fields(t[i].key, t[i].val))
  <2>1. CASE i = n + 1
    <3>1. i - 1 = n
      BY <1>1, <2>1
    <3>2. q[i - 1] = s /\ t[i] = x /\ q[i] = next
      BY <1>1, <1>3, <1>4, <2>1, <3>1
    <3>3. QED BY <3>2 DEF next
  <2>2. CASE i # n + 1
    <3>1. i \in 1 .. n /\ i \in 0 .. n /\ i - 1 \in 0 .. n
      BY <1>1, <2>2
    <3>2. q[i] = p[i] /\ q[i - 1] = p[i - 1] /\ t[i] = lines[i]
      BY <1>1, <1>3, <3>1
    <3>3. QED BY <1>2, <3>1, <3>2
  <2>3. QED BY <2>1, <2>2
<1>6. Rebuilding(q, next, t)
  BY <1>1, <1>3, <1>4, <1>5 DEF Rebuilding
<1>7. QED BY <1>6 DEF next, t

\* and a line that is not written none.
LEMMA PutEmpty ==
  ASSUME NEW s, WellFormed(s), s.medias = <<>>
  PROVE  Put(s, "z", <<>>) = s
<1> DEFINE e == s.fields["z"]
           t == [s.fields EXCEPT !["z"] = e \o <<>>]
<1>1. /\ s \in [fields : [SessionKeys -> Seq(Texts) \cup TimesType], medias : Seq(Streams)]
      /\ e \in Seq(Texts)
  BY DEF WellFormed, SessionKeys
<1>2. Put(s, "z", <<>>) = [s EXCEPT !.fields = t]
  BY DEF Put, EntryOf
<1>3. e \o <<>> = e
  BY <1>1, ConcatEmptySeq
<1>4. t = s.fields
  BY <1>1, <1>3
<1> HIDE DEF t
<1>5. QED BY <1>1, <1>2, <1>4

\* What a description that rebuilds has become with a line it rebuilds too, if the
\* line is written with the fields that were read.
LEMMA GrownRebuilds ==
  ASSUME Inv, NEW next, Moves(next), Grows(next), Rebuilds(sdp),
         LET f == Fields(key, value)
             line == Line(key, f)
         IN /\ Rewritten = IF key = "z" /\ f = <<>> THEN <<>> ELSE <<line>>
            /\ line.key = key /\ Fields(key, line.val) = f
  PROVE  Rebuilds(next)
<1> DEFINE f == Fields(key, value)
           line == Line(key, f)
<1>1. /\ Rewritten = IF key = "z" /\ f = <<>> THEN <<>> ELSE <<line>>
      /\ line.key = key /\ Fields(key, line.val) = f
  OBVIOUS
<1>2. /\ Rewritten \in Seq(Lines) /\ Format(next) = Format(sdp) \o Rewritten
      /\ next = Put(sdp, key, f)
  BY Zenon DEF Grows
<1>3. WellFormed(sdp) /\ Format(sdp) \in Seq(Lines)
  BY FormatType DEF Inv
<1> HIDE DEF f, line
<1>4. CASE key = "z" /\ f = <<>>
  <2>1. sdp.medias = <<>>
    BY <1>4, KeyPlaces DEF MediaKeys
  <2>2. next = sdp
    BY <1>2, <1>3, <1>4, <2>1, PutEmpty
  <2>3. QED BY <2>2
<1>5. CASE ~(key = "z" /\ f = <<>>)
  <2>1. Rewritten = <<line>>
    BY <1>1, <1>5
  <2>2. line \in Lines
    <3>1. Len(<<line>>) = 1 /\ <<line>>[1] = line /\ <<line>> \in Seq(Lines)
      BY <1>2, <2>1
    <3>2. QED BY <3>1, ElementOfSeq
  <2>3. PICK p : Rebuilding(p, sdp, Format(sdp))
    BY DEF Rebuilds
  <2>4. \E q : Rebuilding(q, Put(sdp, line.key, Fields(line.key, line.val)), Format(sdp) \o <<line>>)
    BY <1>3, <2>2, <2>3, RebuildingGrows
  <2>5. Put(sdp, line.key, Fields(line.key, line.val)) = next
    BY <1>1, <1>2
  <2>6. Format(sdp) \o <<line>> = Format(next)
    BY <1>2, <2>1
  <2>7. QED BY <2>4, <2>5, <2>6 DEF Rebuilds
<1>6. QED BY <1>4, <1>5

-------------------------------------------------------------------------------
(* What is written of a description is a text sdp_parser reads in full. *)

\* The letters of lines, and of one more.
LEMMA KeysType ==
  ASSUME NEW l \in Seq(Lines)
  PROVE  /\ Keys(l) \in Seq(Letters) /\ Len(Keys(l)) = Len(l) /\ Len(l) \in Nat
         /\ \A i \in 1 .. Len(l) : Keys(l)[i] = l[i].key /\ l[i].key \in Letters
<1>1. Len(l) \in Nat /\ DOMAIN l = 1 .. Len(l)
  BY LenProperties
<1>2. \A i \in 1 .. Len(l) : l[i] \in Lines
  BY ElementOfSeq
<1>3. \A i \in 1 .. Len(l) : l[i].key \in Letters
  BY <1>2 DEF Lines
<1>4. QED BY <1>1, <1>3 DEF Keys

\* The parser is at the place of the last line written, or behind an empty z=,
\* which is not written.
Behindhand(ks, place) ==
    /\ Position(ks, sdp.medias, place)
    /\ \/ place = open
       \/ sdp.medias = <<>> /\ open = 12 /\ place \in Nat /\ place <= 11 /\ Len(ks) >= 3

\* What fits where the parser is may follow what is written.
LEMMA MovesJoin ==
  ASSUME Inv, NEW next, Moves(next), NEW ks \in Seq(Letters), Ordered(ks),
         NEW place, Behindhand(ks, place)
  PROVE  Joins(ks, key)
<1>1. Fitting(key) /\ open \in Nat /\ 1 <= open /\ open <= 14
  BY Zenon DEF Moves, Inv
<1>2. key \in SessionKeys \cup {"r", "m"} /\ key \in Letters
  BY KeyPlaces
<1>3. CASE place = open
  BY <1>1, <1>2, <1>3, FittingJoins DEF Behindhand
<1>4. CASE sdp.medias = <<>> /\ open = 12 /\ place \in Nat /\ place <= 11 /\ Len(ks) >= 3
  <2> DEFINE n == Len(ks)
  <2>1. n \in Nat /\ n >= 3 /\ n # 0 /\ n \in 1 .. n /\ DOMAIN ks = 1 .. n /\ ~(n < 3)
    BY <1>4, LenProperties
  <2>2. NoMedia(ks) /\ ks[n] # "m" /\ place = Behind(Rank(ks[n]), ks[n])
    BY <1>4, <2>1 DEF Behindhand, Position, NoMedia
  <2>3. ks[n] \in SessionKeys \cup {"r"}
    <3>1. Part(ks, n) = {}
      BY <2>1, <2>2 DEF Part, NoMedia
    <3>2. QED BY <2>1, <3>1, OrderedIs DEF EachOrdered
  <2>4. Rank(ks[n]) \in 1 .. 13 /\ Rank(ks[n]) <= 11
    BY <1>4, <2>2, <2>3, RankNumber DEF Behind
  <2>5. CASE key = "m"
    BY <2>1, <2>5 DEF Joins
  <2>6. CASE key # "m"
    <3>1. ~RepeatReached
      <4>1. SessionOrder[12] # "t"
        BY DEF SessionOrder
      <4>2. QED BY <1>4, <4>1 DEF RepeatReached, Order
    <3>2. key \in SessionKeys /\ Rank(key) >= 12
      BY <1>1, <1>4, <2>6, <3>1, ReachedInSession DEF Fitting
    <3>3. Rank(key) \in 1 .. 13 /\ Rank(ks[n]) <= Rank(key) /\ ks[n] # key
      BY <2>4, <3>2, RankNumber
    <3>4. PairOrdered(ks[n], key)
      BY <3>3 DEF PairOrdered
    <3>5. QED BY <2>1, <2>2, <3>2, <3>4 DEF Joins
  <2>7. QED BY <2>5, <2>6
<1>5. QED BY <1>3, <1>4 DEF Behindhand

\* What is written of the description keeps the order and begins with v=0.
InShape ==
    LET ks == Keys(Format(sdp))
    IN /\ Ordered(ks)
       /\ \E place : Behindhand(ks, place)
       /\ ks # <<>> => Format(sdp)[1].val = <<<<0>>>>

\* There is one o= line, and none before its place.
OneOrigin ==
    /\ Len(sdp.fields["o"]) <= 1
    /\ sdp.medias = <<>> /\ open <= 2 => sdp.fields["o"] = <<>>

\* The lines written put the description together and are written as they are.
Faithful ==
    Titled(sdp) => /\ Rebuilds(sdp)
                   /\ \A i \in DOMAIN Format(sdp) : Verbatim(Format(sdp)[i])

\* The text of a description is one sdp_parser reads in full.
Shaped ==
    status \in {"parsing", "parsed"} =>
        /\ InShape /\ OneOrigin /\ Faithful
        /\ status = "parsed" => MediaReached

\* A line keeps the text in shape,
LEMMA LineInShape ==
  ASSUME Inv, InShape, NEW next, Moves(next), Grows(next), sdp' = next
  PROVE  InShape'
<1> DEFINE ks == Keys(Format(sdp))
           f == Fields(key, value)
           line == Line(key, f)
<1>1. Format(sdp) \in Seq(Lines)
  BY FormatType DEF Inv
<1>2. ks \in Seq(Letters) /\ Len(ks) = Len(Format(sdp)) /\ Len(Format(sdp)) \in Nat
  BY <1>1, KeysType
<1>3. PICK place : Behindhand(ks, place)
  BY DEF InShape
<1>4. Ordered(ks) /\ (ks # <<>> => Format(sdp)[1].val = <<<<0>>>>)
  BY DEF InShape
<1>5. Rewritten \in Seq(Lines) /\ Format(next) = Format(sdp) \o Rewritten
  BY Zenon DEF Grows
<1>6. Joins(ks, key)
  BY <1>2, <1>3, <1>4, MovesJoin
<1>7. key \in Letters /\ key \in SessionKeys \cup {"r", "m"}
  BY KeyPlaces
<1>8. /\ key = "v" => IsVersion0
      /\ key = "m" => open' = 1 /\ next.medias # <<>>
      /\ key # "m" => (next.medias = <<>> <=> sdp.medias = <<>>)
      /\ key # "m" /\ sdp.medias = <<>> => open' = Behind(Rank(key), key)
      /\ key # "m" /\ sdp.medias # <<>> =>
           \E i \in 1 .. 5 : MediaOrder[i] = key /\ open' = Behind(i, key)
  BY Zenon DEF Moves
<1>9. Rewritten = IF key = "z" /\ f = <<>> THEN <<>> ELSE <<line>>
  BY DEF Rewritten
<1>10. Position(ks, sdp.medias, place)
  BY <1>3 DEF Behindhand
<1> HIDE DEF ks
<1>11. CASE key = "z" /\ f = <<>>
  <2>1. Format(next) = Format(sdp) /\ Keys(Format(next)) = ks
    <3>1. Format(sdp) \o <<>> = Format(sdp)
      BY <1>1, ConcatEmptySeq
    <3>2. QED BY <1>5, <1>9, <1>11, <3>1 DEF ks
  <2>2. SessionOrder[11] = "z" /\ Rank("z") = 11 /\ "z" \notin MediaKeys /\ "z" \in Single
    <3>1. SessionOrder[11] = "z"
      BY DEF SessionOrder
    <3>2. QED BY <3>1, Ranks DEF MediaKeys, Single
  <2>3. sdp.medias = <<>> /\ next.medias = <<>> /\ open' = 12
    <3>1. sdp.medias = <<>>
      BY <1>11, <2>2, KeyPlaces
    <3>2. QED BY <1>8, <1>11, <2>2, <3>1 DEF Behind
  <2>4. Len(ks) >= 3
    <3>1. ~(Len(ks) < 3 /\ "z" = SessionOrder[Len(ks) + 1])
      <4>1. SessionOrder[1] # "z" /\ SessionOrder[2] # "z" /\ SessionOrder[3] # "z"
        BY DEF SessionOrder
      <4>2. Len(ks) < 3 => Len(ks) + 1 = 1 \/ Len(ks) + 1 = 2 \/ Len(ks) + 1 = 3
        BY <1>2
      <4>3. QED BY <4>1, <4>2
    <3>2. QED BY <1>6, <1>11, <3>1 DEF Joins
  <2>5. place \in Nat /\ place <= 11
    <3>1. CASE place = open
      <4>1. open \in Nat /\ Fitting(key)
        BY Zenon DEF Moves, Inv
      <4>2. Rank("z") >= open
        BY <1>11, <2>3, <4>1, ReachedInSession DEF Fitting
      <4>3. QED BY <2>2, <3>1, <4>1, <4>2
    <3>2. QED BY <1>3, <3>1 DEF Behindhand
  <2>6. Behindhand(ks, place)'
    <3>1. Position(ks, sdp'.medias, place)
      BY <1>10, <2>3
    <3>2. ks' = ks
      BY <2>1 DEF ks
    <3>3. QED BY <2>3, <2>4, <2>5, <3>1, <3>2 DEF Behindhand
  <2>7. Keys(Format(sdp')) = ks /\ Format(sdp') = Format(sdp)
    BY <2>1
  <2>8. Ordered(Keys(Format(sdp'))) /\ (Keys(Format(sdp')) # <<>> => Format(sdp')[1].val = <<<<0>>>>)
    BY <1>4, <2>7
  <2>9. \E x : Behindhand(Keys(Format(sdp)), x)'
    BY <2>6 DEF ks
  <2>10. QED BY <2>8, <2>9 DEF InShape
<1>12. CASE ~(key = "z" /\ f = <<>>)
  <2>1. Rewritten = <<line>> /\ line.key = key /\ line.val = Joined(f)
    BY <1>9, <1>12 DEF Line
  <2> HIDE DEF line
  <2>2. Keys(Format(next)) = Append(ks, key)
    <3>1. Keys(Format(sdp) \o Rewritten) = Keys(Format(sdp)) \o Keys(Rewritten)
      BY <1>1, <1>5, KeysConcat
    <3>2. Keys(Rewritten) = <<key>>
      BY <1>12, KeysOfOne DEF Rewritten, f
    <3>3. ks \o <<key>> = Append(ks, key)
      BY <1>2, <1>7, AppendIsConcat
    <3>4. QED BY <1>5, <3>1, <3>2, <3>3 DEF ks
  <2>3. Ordered(Append(ks, key))
    BY <1>2, <1>4, <1>6, <1>7, JoinsOrdered
  <2>4. Position(Append(ks, key), next.medias, open')
    BY <1>2, <1>7, <1>8, <1>10, PositionGrows
  <2>5. Format(next)[1].val = <<<<0>>>>
    <3>1. CASE ks # <<>>
      <4>1. Len(Format(sdp)) >= 1
        BY <1>2, <3>1, EmptySeq
      <4>2. 1 \in 1 .. Len(Format(sdp))
        BY <1>2, <4>1
      <4>3. Format(next)[1] = Format(sdp)[1]
        BY <1>1, <1>5, <4>2, ConcatProperties
      <4>4. QED BY <1>4, <3>1, <4>3
    <3>2. CASE ks = <<>>
      <4>1. Len(ks) = 0 /\ Len(Format(sdp)) = 0
        BY <1>2, <3>2
      <4>2. key = "v"
        <5>1. SessionOrder[0 + 1] = "v"
          BY DEF SessionOrder
        <5>2. QED BY <1>6, <4>1, <5>1 DEF Joins
      <4>3. f = <<<<0>>>>
        BY <1>8, <4>2 DEF IsVersion0, Fields
      <4>4. <<<<0>>>> \in Values
        BY DEF Values
      <4>5. line.val = <<<<0>>>>
        BY <2>1, <4>3, <4>4, JoinedValue
      <4>6. Format(next) = <<line>>
        <5>1. Format(sdp) = <<>>
          BY <1>1, <4>1, EmptySeq
        <5>2. <<>> \o Rewritten = Rewritten
          BY <1>5, ConcatEmptySeq
        <5>3. QED BY <1>5, <2>1, <5>1, <5>2
      <4>7. QED BY <4>5, <4>6
    <3>3. QED BY <3>1, <3>2
  <2>6. Behindhand(Keys(Format(sdp)), open)'
    BY <2>2, <2>4 DEF Behindhand
  <2>7. \E x : Behindhand(Keys(Format(sdp)), x)'
    BY <2>6
  <2>8. Ordered(Keys(Format(sdp'))) /\ Format(sdp')[1].val = <<<<0>>>>
    BY <2>2, <2>3, <2>5
  <2>9. QED BY <2>7, <2>8 DEF InShape
<1>13. QED BY <1>11, <1>12

\* the o= line alone,
LEMMA LineOneOrigin ==
  ASSUME Inv, OneOrigin, NEW next, Moves(next), Grows(next), sdp' = next
  PROVE  OneOrigin'
<1> DEFINE f == Fields(key, value)
<1>1. /\ f \in Texts
      /\ next.fields["o"] = IF key = "o" THEN sdp.fields["o"] \o <<f>> ELSE sdp.fields["o"]
      /\ sdp.fields["o"] \in Seq(Texts)
  BY PutTitled
<1>2. /\ key = "m" => open' = 1 /\ next.medias # <<>>
      /\ key # "m" => (next.medias = <<>> <=> sdp.medias = <<>>)
      /\ key # "m" /\ sdp.medias = <<>> => open' = Behind(Rank(key), key)
      /\ Fitting(key) /\ open \in Nat
  BY Zenon DEF Moves, Inv
<1>3. key \in SessionKeys \cup {"r", "m"} /\ (sdp.medias # <<>> => key \in MediaKeys \cup {"m"})
  BY KeyPlaces
<1> HIDE DEF f
<1>4. SessionOrder[2] = "o" /\ Rank("o") = 2 /\ "o" \notin MediaKeys /\ "o" \in Single /\ "o" \in SessionKeys
  <2>1. SessionOrder[2] = "o"
    BY DEF SessionOrder
  <2>2. QED BY <2>1, Ranks DEF MediaKeys, Single, SessionKeys
<1>5. CASE key = "o"
  <2>1. sdp.medias = <<>> /\ open <= 2 /\ open' = 3
    <3>1. sdp.medias = <<>>
      BY <1>3, <1>4, <1>5
    <3>2. Rank("o") >= open
      BY <1>2, <1>5, <3>1, ReachedInSession DEF Fitting
    <3>3. QED BY <1>2, <1>4, <1>5, <3>1, <3>2 DEF Behind
  <2>2. next.fields["o"] = <<f>>
    <3>1. sdp.fields["o"] = <<>>
      BY <2>1 DEF OneOrigin
    <3>2. <<f>> \in Seq(Texts)
      BY <1>1 DEF f
    <3>3. <<>> \o <<f>> = <<f>>
      BY <3>2, ConcatEmptySeq
    <3>4. QED BY <1>1, <1>5, <3>1, <3>3 DEF f
  <2>3. Len(next.fields["o"]) <= 1
    BY <2>2
  <2>4. QED BY <2>1, <2>3 DEF OneOrigin
<1>6. CASE key # "o"
  <2>1. next.fields["o"] = sdp.fields["o"]
    BY <1>1, <1>6
  <2>2. ASSUME next.medias = <<>>, open' <= 2 PROVE sdp.fields["o"] = <<>>
    <3>1. sdp.medias = <<>> /\ key # "m"
      BY <1>2, <2>2
    <3>2. open' = Behind(Rank(key), key)
      BY <1>2, <3>1
    <3>3. Rank(key) \in 1 .. 13
      BY <1>3, <3>1, RankNumber
    <3>4. Rank(key) <= 2
      BY <2>2, <3>2, <3>3 DEF Behind
    <3>5. Reached(key) # {}
      <4>1. key # "r"
        BY <3>3, <3>4, Ranks
      <4>2. QED BY <1>2, <3>1, <4>1 DEF Fitting
    <3>6. Rank(key) >= open
      BY <1>2, <3>1, <3>5, ReachedInSession
    <3>7. open <= 2
      BY <1>2, <3>3, <3>4, <3>6
    <3>8. QED BY <3>1, <3>7 DEF OneOrigin
  <2>3. QED BY <2>1, <2>2 DEF OneOrigin
<1>7. QED BY <1>5, <1>6

\* and what is written again as it is.
LEMMA LineFaithful ==
  ASSUME Inv, Faithful, NEW next, Moves(next), Grows(next), sdp' = next
  PROVE  Faithful'
<1> SUFFICES ASSUME Titled(next)
             PROVE  /\ Rebuilds(next)
                    /\ \A i \in DOMAIN Format(next) : Verbatim(Format(next)[i])
  BY DEF Faithful
<1> DEFINE f == Fields(key, value)
           line == Line(key, f)
           a == Format(sdp)
           w == Rewritten
<1>1. Titled(sdp) /\ (key \in {"o", "m"} => f[1] # <<>>) /\ doc # <<>>
  <2>1. doc # <<>>
    BY Zenon DEF Moves
  <2>2. QED BY <2>1, PutTitled
<1>2. /\ w = IF key = "z" /\ f = <<>> THEN <<>> ELSE <<line>>
      /\ line.key = key /\ Fields(key, line.val) = f
      /\ ~(key = "z" /\ f = <<>>) => Verbatim(line)
  BY <1>1, RewrittenVerbatim
<1>3. Rebuilds(sdp) /\ \A i \in DOMAIN a : Verbatim(a[i])
  BY <1>1 DEF Faithful
<1>4. Rebuilds(next)
  BY <1>2, <1>3, GrownRebuilds
<1>5. w \in Seq(Lines) /\ Format(next) = a \o w /\ a \in Seq(Lines)
  BY FormatType, Zenon DEF Grows, Inv
<1> HIDE DEF line, f, w, a
<1>6. \A i \in DOMAIN w : Verbatim(w[i])
  <2>1. CASE key = "z" /\ f = <<>>
    BY <1>2, <2>1
  <2>2. CASE ~(key = "z" /\ f = <<>>)
    <3>1. w = <<line>> /\ Verbatim(line)
      BY <1>2, <2>2
    <3>2. DOMAIN <<line>> = {1} /\ <<line>>[1] = line
      OBVIOUS
    <3>3. QED BY <3>1, <3>2
  <2>3. QED BY <2>1, <2>2
<1>7. ASSUME NEW i \in DOMAIN (a \o w) PROVE Verbatim((a \o w)[i])
  <2>1. /\ Len(a) \in Nat /\ Len(w) \in Nat /\ DOMAIN a = 1 .. Len(a) /\ DOMAIN w = 1 .. Len(w)
        /\ DOMAIN (a \o w) = 1 .. Len(a) + Len(w)
        /\ \A j \in 1 .. Len(a) + Len(w) : (a \o w)[j] = IF j <= Len(a) THEN a[j] ELSE w[j - Len(a)]
    BY <1>5, ConcatProperties, LenProperties
  <2>2. CASE i <= Len(a)
    <3>1. i \in 1 .. Len(a) /\ (a \o w)[i] = a[i]
      BY <2>1, <2>2
    <3>2. QED BY <1>3, <2>1, <3>1
  <2>3. CASE i > Len(a)
    <3>1. i - Len(a) \in 1 .. Len(w) /\ (a \o w)[i] = w[i - Len(a)]
      BY <2>1, <2>3
    <3>2. QED BY <1>6, <2>1, <3>1
  <2>4. QED BY <2>1, <2>2, <2>3
<1>8. QED BY <1>4, <1>5, <1>7

\* A parse begins with the empty text.
LEMMA NothingShaped == sdp = Nothing /\ open = 1 => InShape /\ OneOrigin /\ Faithful
<1> SUFFICES ASSUME sdp = Nothing, open = 1 PROVE InShape /\ OneOrigin /\ Faithful
  OBVIOUS
<1>1. Format(sdp) = <<>> /\ sdp.medias = <<>> /\ sdp.fields["o"] = <<>>
  BY FormatNothing, KeysOfOrders DEF Nothing, SessionKeys
<1>2. Keys(<<>>) = <<>> /\ DOMAIN <<>> = 1 .. 0 /\ Len(<<>>) = 0
  BY DEF Keys
<1>3. Ordered(<<>>) /\ Position(<<>>, <<>>, 1)
  BY <1>2, EmptyOrdered
<1>4. Behindhand(<<>>, 1)
  BY <1>1, <1>3 DEF Behindhand
<1>5. InShape
  BY <1>1, <1>2, <1>3, <1>4 DEF InShape
<1>6. OneOrigin
  BY <1>1, <1>2 DEF OneOrigin
<1>7. Faithful
  BY <1>1, <1>2, NothingRebuilt DEF Faithful
<1>8. QED BY <1>5, <1>6, <1>7

\* Before the first line nothing is written, which is in shape.
LEMMA InitShaped == Init => Shaped
<1> SUFFICES ASSUME Init PROVE Shaped
  OBVIOUS
<1>1. sdp = Nothing /\ open = 1 /\ status = "parsing"
  BY DEF Init, Begin
<1>2. QED BY <1>1, NothingShaped DEF Shaped

\* A step that leaves the description leaves its shape.
LEMMA ShapeStays ==
  ASSUME UNCHANGED <<sdp, open>>
  PROVE  InShape' = InShape /\ OneOrigin' = OneOrigin /\ Faithful' = Faithful
<1>1. InShape' = InShape
  BY DEF InShape, Behindhand
<1>2. QED BY <1>1 DEF OneOrigin, Faithful

\* Shaped is inductive with Inv and Gathered.
LEMMA NextShaped == Inv /\ Gathered /\ Shaped /\ [Next]_vars => Shaped'
<1> SUFFICES ASSUME Inv, Gathered, Shaped, [Next]_vars PROVE Shaped'
  OBVIOUS
<1>1. CASE UNCHANGED vars
  <2>1. UNCHANGED <<sdp, open>> /\ status' = status /\ MediaReached' = MediaReached
    BY <1>1 DEF vars, MediaReached
  <2>2. QED BY <2>1, ShapeStays DEF Shaped
<1>2. CASE ReadField \/ ReadRepeat \/ ReadMedia
  <2>1. status = "parsing"
    BY <1>2 DEF ReadField, ReadRepeat, ReadMedia
  <2>2. Ahead(sdp, open) /\ InShape /\ OneOrigin /\ Faithful
    BY <2>1 DEF Gathered, Shaped
  <2>3. PICK next : Moves(next) /\ Grows(next)
    BY <1>2, <2>2, LineStep
  <2>4. (sdp' = next /\ status' = status) \/ status' = "no_memory"
    <3>1. Load(key, next)
      BY <2>3, Zenon DEF Moves
    <3>2. QED BY <3>1, Zenon DEF Load
  <2>5. CASE status' = "no_memory"
    BY <2>5 DEF Shaped
  <2>6. CASE sdp' = next /\ status' = status
    <3>1. InShape' /\ OneOrigin' /\ Faithful'
      BY <2>2, <2>3, <2>6, LineInShape, LineOneOrigin, LineFaithful
    <3>2. status' = "parsing"
      BY <2>1, <2>6
    <3>3. QED BY <3>1, <3>2 DEF Shaped
  <2>7. QED BY <2>4, <2>5, <2>6
<1>3. CASE Return
  <2>1. UNCHANGED <<sdp, open>> /\ MediaReached /\ status = "parsing"
    BY <1>3 DEF Return
  <2>2. MediaReached'
    BY <2>1 DEF MediaReached
  <2>3. QED BY <2>1, <2>2, ShapeStays DEF Shaped
<1>4. CASE Reject
  BY <1>4 DEF Reject, Shaped
<1>5. CASE ParseAgain
  <2>1. sdp' = Nothing /\ open' = 1 /\ status' = "parsing"
    BY <1>5, Zenon DEF ParseAgain
  <2>2. (sdp = Nothing /\ open = 1)'
    BY <2>1
  <2>3. InShape' /\ OneOrigin' /\ Faithful'
    BY <2>2, NothingShaped, PTL
  <2>4. QED BY <2>1, <2>3 DEF Shaped
<1>6. QED BY <1>1, <1>2, <1>3, <1>4, <1>5 DEF Next

-------------------------------------------------------------------------------
(* The second parse writes what it reads, and so reads it to the end. *)

\* A text that is read in full, and the description it is read as.
Readable(text, s) ==
    /\ text = Format(s) /\ text \in Seq(Lines) /\ Rebuilds(s)
    /\ Ordered(Keys(text)) /\ Len(text) >= 3 /\ text[1].val = <<<<0>>>>
    /\ \A i \in DOMAIN text : Verbatim(text[i])

\* The second parse writes what it reads, and reads it to the end.
Copied ==
    first # Nothing =>
        /\ Len(first.fields["o"]) <= 1 /\ first.fields["o"] \in Seq(Texts)
        /\ first.medias \in Seq(Streams)
        /\ Titled(first) =>
             /\ Readable(source, first)
             /\ status \in {"parsing", "parsed"} => Format(sdp) = Loaded /\ Rebuilds(sdp)
             /\ status # "rejected"
             /\ status = "parsed" => doc = <<>>

\* All that was written ends in a line end of its own.
LEMMA ReadableUniform ==
  ASSUME NEW s, Readable(source, s)
  PROVE  Uniform
BY DEF Readable, Verbatim, Uniform

\* A line of the second parse is written as it was read.
LEMMA LineCopied ==
  ASSUME Inv, Along, Copied, NEW next, Moves(next), Grows(next)
  PROVE  Copied'
<1>1. status = "parsing" /\ doc # <<>> /\ UNCHANGED <<source, first>> /\ Load(key, next)
  BY Zenon DEF Moves
<1>2. \/ /\ sdp' = next /\ doc' = SubSeq(doc, EntryEnd + 1, Len(doc)) /\ status' = status
      \/ status' = "no_memory"
  BY <1>1, Zenon DEF Load
<1>3. CASE status' = "no_memory"
  BY <1>1, <1>3 DEF Copied, Readable
<1>4. CASE sdp' = next /\ doc' = SubSeq(doc, EntryEnd + 1, Len(doc)) /\ status' = status
  <2>1. ASSUME first # Nothing, Titled(first)
        PROVE  Format(next) = Loaded' /\ Rebuilds(next)
    <3>1. Readable(source, first) /\ Format(sdp) = Loaded /\ Rebuilds(sdp)
      BY <1>1, <2>1 DEF Copied
    <3>2. Uniform
      BY <3>1, ReadableUniform
    <3>3. value = doc[1].val /\ key = doc[1].key
      BY <1>1, <3>2, OneLine
    <3>4. Loaded' = Append(Loaded, doc[1]) /\ doc[1] \in Lines /\ Loaded \in Seq(Lines)
      BY <1>1, <1>4, <3>2, LoadedGrows
    <3>5. Verbatim(doc[1])
      <4>1. /\ doc \in Seq(Lines) /\ source \in Seq(Lines) /\ Len(doc) <= Len(source)
            /\ Len(doc) \in Nat /\ Len(source) \in Nat /\ Len(doc) >= 1
            /\ DOMAIN source = 1 .. Len(source)
        BY <1>1, LenProperties, EmptySeq DEF Inv
      <4>2. doc[1] = source[Taken + 1] /\ Taken + 1 \in DOMAIN source
        BY <4>1 DEF Along, Taken
      <4>3. QED BY <3>1, <4>2 DEF Readable
    <3> DEFINE x == doc[1]
    <3> HIDE DEF x
    <3>6. key = x.key /\ value = x.val /\ Line(x.key, Fields(x.key, x.val)) = x /\ (x.key = "z" => x.val # <<>>)
      BY <3>3, <3>5 DEF Verbatim, x
    <3>7. Line(key, Fields(key, value)) = x
      BY <3>6
    <3>8. ~(key = "z" /\ Fields(key, value) = <<>>)
      <4>1. x.val \in Values
        BY <3>4 DEF Lines, x
      <4>2. QED BY <3>6, <4>1, NoAdjustments
    <3>9. Rewritten = <<x>>
      BY <3>7, <3>8 DEF Rewritten
    <3>10. Format(next) = Loaded \o <<x>>
      <4>1. Format(next) = Format(sdp) \o Rewritten
        BY Zenon DEF Grows
      <4>2. QED BY <3>1, <3>9, <4>1
    <3>11. Loaded \o <<x>> = Loaded'
      BY <3>4, AppendIsConcat DEF x
    <3>12. Rebuilds(next)
      <4> DEFINE f == Fields(key, value)
                 line == Line(key, f)
      <4>1. Rewritten = IF key = "z" /\ f = <<>> THEN <<>> ELSE <<line>>
        BY DEF Rewritten
      <4>2. line.key = key /\ Fields(key, line.val) = f
        <5>1. line = x
          BY <3>7
        <5> HIDE DEF line
        <5>2. QED BY <3>6, <5>1
      <4>3. QED BY <3>1, <4>1, <4>2, GrownRebuilds
    <3>13. QED BY <3>10, <3>11, <3>12
  <2>2. /\ source' = source /\ first' = first /\ status' = "parsing" /\ sdp' = next
    BY <1>1, <1>4
  <2>3. ASSUME first # Nothing, Titled(first) PROVE Readable(source, first)
    BY <2>3 DEF Copied
  <2>4. (first # Nothing /\ Titled(first) => Format(sdp) = Loaded /\ Rebuilds(sdp))'
    <3>1. Format(sdp') = Format(next) /\ Rebuilds(sdp') = Rebuilds(next)
      BY <2>2
    <3>2. QED BY <2>1, <2>2, <3>1
  <2>5. (first # Nothing /\ Titled(first) => Readable(source, first))'
    BY <2>2, <2>3
  <2>6. (first # Nothing => /\ Len(first.fields["o"]) <= 1 /\ first.fields["o"] \in Seq(Texts)
                            /\ first.medias \in Seq(Streams))'
    BY <2>2 DEF Copied
  <2>7. QED BY <2>2, <2>4, <2>5, <2>6 DEF Copied
<1>5. QED BY <1>2, <1>3, <1>4

\* The letters up to a place of lines that keep the order keep it.
LEMMA BeginningOrdered ==
  ASSUME NEW ks \in Seq(Letters), NEW t \in Seq(Letters), Ordered(t), Len(ks) <= Len(t),
         \A i \in 1 .. Len(ks) : ks[i] = t[i]
  PROVE  Ordered(ks)
<1> DEFINE n == Len(ks)
<1>1. /\ n \in Nat /\ Len(t) \in Nat /\ DOMAIN ks = 1 .. n /\ DOMAIN t = 1 .. Len(t)
      /\ \A i \in 1 .. n : i \in 1 .. Len(t) /\ ks[i] = t[i]
  BY LenProperties
<1> HIDE DEF n
<1>2. \A i \in 1 .. n : Part(ks, i) = Part(t, i)
  <2> SUFFICES ASSUME NEW i \in 1 .. n PROVE Part(ks, i) = Part(t, i)
    OBVIOUS
  <2>1. \A j \in 1 .. i : j \in 1 .. n
    BY <1>1
  <2>2. \A j \in 1 .. i : ks[j] = t[j]
    BY <1>1, <2>1
  <2>3. QED BY <2>2 DEF Part
<1>3. EachOrdered(t) /\ PairsOrdered(t)
  BY OrderedIs
<1>4. EachOrdered(ks)
  <2> SUFFICES ASSUME NEW i \in 1 .. n
               PROVE  /\ i <= 3 => ks[i] = SessionOrder[i]
                      /\ ks[i] \in IF Part(ks, i) = {} THEN SessionKeys \cup {"r"} ELSE MediaKeys \cup {"m"}
                      /\ ks[i] = "r" => ks[i - 1] \in {"t", "r"}
    BY <1>1 DEF EachOrdered
  <2>1. /\ i <= 3 => t[i] = SessionOrder[i]
        /\ t[i] \in IF Part(t, i) = {} THEN SessionKeys \cup {"r"} ELSE MediaKeys \cup {"m"}
        /\ t[i] = "r" => t[i - 1] \in {"t", "r"}
    BY <1>1, <1>3 DEF EachOrdered
  <2>2. ks[i] = t[i] /\ Part(ks, i) = Part(t, i)
    BY <1>1, <1>2
  <2>3. ASSUME ks[i] = "r" PROVE ks[i - 1] = t[i - 1]
    <3>1. i # 1
      <4>1. SessionOrder[1] # "r"
        BY SessionPlaces
      <4>2. QED BY <2>1, <2>2, <2>3, <4>1
    <3>2. i - 1 \in 1 .. n
      BY <1>1, <3>1
    <3>3. QED BY <1>1, <3>2
  <2>4. QED BY <2>1, <2>2, <2>3
<1>5. PairsOrdered(ks)
  BY <1>1, <1>2, <1>3 DEF PairsOrdered
<1>6. QED BY <1>4, <1>5, OrderedIs

\* The end of a second parse is the end of the text.
LEMMA EndCopied ==
  ASSUME Inv, Along, Copied, Return \/ Reject
  PROVE  Copied'
<1>1. /\ status = "parsing" /\ ~Fits /\ UNCHANGED <<source, doc, first>>
      /\ status' \in {"parsed", "rejected"}
      /\ status' = "parsed" => UNCHANGED sdp
      /\ status' = "rejected" => ~MediaReached
  BY DEF Return, Reject
<1>2. Along'
  BY EndAlong
<1>3. /\ Read \in Seq(Letters) /\ Len(Read) = Taken /\ Taken \in Nat
      /\ Len(doc) \in Nat /\ Len(source) \in Nat
      /\ \A i \in 1 .. Taken : Read[i] = source[i].key
  BY ReadType
<1>4. source \in Seq(Lines) /\ doc \in Seq(Lines) /\ Len(doc) <= Len(source)
  BY DEF Inv
<1>5. Read' = Read /\ Taken' = Taken /\ Loaded' = Loaded /\ Uniform' = Uniform
  BY <1>1 DEF Read, Taken, Loaded, Uniform
<1>6. ASSUME first # Nothing, Titled(first)
      PROVE  doc = <<>> /\ status' = "parsed"
  <2>1. Readable(source, first)
    BY <1>6 DEF Copied
  <2>2. Uniform
    BY <2>1, ReadableUniform
  <2>3. Ordered(Keys(source)) /\ Len(source) >= 3 /\ source[1].val = <<<<0>>>>
    BY <2>1 DEF Readable
  <2>4. doc = <<>>
    <3> SUFFICES ASSUME doc # <<>> PROVE FALSE
      OBVIOUS
    <3> DEFINE k == doc[1].key
               t == Append(Read, k)
               n == Taken
    <3>1. \/ ~Ordered(t)
          \/ n = 0 /\ doc[1].val # <<<<0>>>>
      BY <1>1, <1>2, <1>5, <2>2 DEF Along
    <3>2. Len(doc) >= 1 /\ doc[1] = source[n + 1] /\ n + 1 \in 1 .. Len(source)
      <4>1. Len(doc) >= 1
        BY <1>3, <1>4, EmptySeq
      <4>2. QED BY <1>3, <1>4, <4>1 DEF Along, Taken
    <3>3. /\ Keys(source) \in Seq(Letters) /\ Len(Keys(source)) = Len(source)
          /\ \A i \in 1 .. Len(source) : Keys(source)[i] = source[i].key /\ source[i].key \in Letters
      BY <1>4, KeysType
    <3>4. k \in Letters /\ k = source[n + 1].key
      BY <3>2, <3>3
    <3> HIDE DEF k, n
    <3>5. /\ t \in Seq(Letters) /\ Len(t) = n + 1 /\ t[n + 1] = k
          /\ \A i \in 1 .. n : t[i] = Read[i]
      BY <1>3, <3>4, AppendProperties DEF n
    <3> HIDE DEF t
    <3>6. \A i \in 1 .. n + 1 : t[i] = Keys(source)[i]
      <4> SUFFICES ASSUME NEW i \in 1 .. n + 1 PROVE t[i] = Keys(source)[i]
        OBVIOUS
      <4>1. i \in 1 .. Len(source) /\ (i \in 1 .. n \/ i = n + 1)
        BY <1>3, <3>2 DEF n
      <4>2. i \in 1 .. n => t[i] = source[i].key
        BY <1>3, <3>5 DEF n
      <4>3. QED BY <3>3, <3>4, <3>5, <4>1, <4>2
    <3>7. Ordered(t)
      <4>1. Len(t) <= Len(Keys(source))
        BY <1>3, <3>2, <3>3, <3>5
      <4>2. QED BY <2>3, <3>3, <3>5, <3>6, <4>1, BeginningOrdered
    <3>8. n = 0 => doc[1].val = <<<<0>>>>
      BY <2>3, <3>2
    <3>9. QED BY <3>1, <3>7, <3>8
  <2>5. MediaReached
    <3>1. Len(Read) >= 3
      BY <1>3, <2>3, <2>4 DEF Taken
    <3>2. Joins(Read, "m")
      BY <3>1 DEF Joins
    <3>3. Ordered(Read) /\ Position(Read, sdp.medias, open) /\ open \in Nat /\ 1 <= open /\ open <= 14
      BY <1>1, <2>2 DEF Along, Inv
    <3>4. Fitting("m")
      BY <1>3, <3>2, <3>3, FittingJoins, LettersOfOrders
    <3>5. Reached("m") = {}
      <4>1. CASE sdp.medias = <<>>
        BY <3>3, <4>1, ReachedInSession, MediaInSession
      <4>2. CASE sdp.medias # <<>>
        BY <4>2 DEF MediaReached, Reached, Order, MediaOrder
      <4>3. QED BY <4>1, <4>2
    <3>6. QED BY <3>4, <3>5 DEF Fitting
  <2>6. QED BY <1>1, <2>4, <2>5
<1>7. ASSUME first # Nothing, Titled(first), status' = "parsed"
      PROVE  Format(sdp') = Loaded' /\ Rebuilds(sdp')
  BY <1>1, <1>5, <1>7 DEF Copied
<1>8. (first # Nothing /\ Titled(first) => Readable(source, first))'
  BY <1>1 DEF Copied
<1>9. (first # Nothing => /\ Len(first.fields["o"]) <= 1 /\ first.fields["o"] \in Seq(Texts)
                          /\ first.medias \in Seq(Streams))'
  BY <1>1 DEF Copied
<1>10. QED BY <1>1, <1>6, <1>7, <1>8, <1>9 DEF Copied

\* A second parse begins with what was written,
LEMMA ParseAgainCopied ==
  ASSUME Inv, Shaped, ParseAgain
  PROVE  Copied'
<1>1. /\ status = "parsed" /\ first' = sdp /\ source' = Format(sdp) /\ doc' = Format(sdp)
      /\ sdp' = Nothing /\ status' = "parsing"
  BY Zenon DEF ParseAgain
<1>2. InShape /\ OneOrigin /\ Faithful /\ MediaReached
  BY <1>1 DEF Shaped
<1>3. WellFormed(sdp) /\ Format(sdp) \in Seq(Lines)
  BY FormatType DEF Inv
<1> DEFINE d == Format(sdp)
<1>4. Loaded' = <<>>
  <2> HIDE DEF d
  <2>1. d \in Seq(Lines) /\ source' = d /\ doc' = d
    BY <1>1, <1>3 DEF d
  <2>2. Len(d) - Len(d) = 0
    BY <2>1, LenProperties
  <2>3. SubSeq(d, 1, 0) = <<>>
    BY <2>1, SubSeqEmpty
  <2>4. QED BY <2>1, <2>2, <2>3 DEF Loaded
<1>5. ASSUME Titled(sdp) PROVE Readable(d, sdp)
  <2> DEFINE ks == Keys(d)
  <2>1. ks \in Seq(Letters) /\ Len(ks) = Len(d) /\ Len(d) \in Nat
    BY <1>3, KeysType
  <2>2. Ordered(ks) /\ (ks # <<>> => d[1].val = <<<<0>>>>)
    BY <1>2 DEF InShape
  <2>3. PICK place : Behindhand(ks, place)
    BY <1>2 DEF InShape
  <2> HIDE DEF d, ks
  <2>4. Len(ks) >= 3
    <3>1. CASE place = open
      <4>1. Fitting("m") /\ open \in Nat /\ 1 <= open /\ open <= 14 /\ "m" \in Letters
        BY <1>2, LettersOfOrders DEF Fitting, Inv
      <4>2. Joins(ks, "m")
        BY <2>1, <2>2, <2>3, <3>1, <4>1, FittingJoins DEF Behindhand
      <4>3. \A j \in 1 .. 3 : SessionOrder[j] # "m"
        BY SessionPlaces
      <4>4. Len(ks) + 1 \in 1 .. 3 \/ Len(ks) >= 3
        BY <2>1
      <4>5. QED BY <4>2, <4>3, <4>4 DEF Joins
    <3>2. QED BY <2>3, <3>1 DEF Behindhand
  <2>5. ks # <<>>
    BY <2>4
  <2>6. Rebuilds(sdp) /\ \A i \in DOMAIN d : Verbatim(d[i])
    BY <1>2, <1>5 DEF Faithful, d
  <2>7. QED BY <1>3, <2>1, <2>2, <2>4, <2>5, <2>6 DEF Readable, d, ks
<1>6. Format(sdp') = <<>> /\ Rebuilds(sdp')
  BY <1>1, FormatNothing, NothingRebuilt
<1>7. Len(sdp.fields["o"]) <= 1 /\ sdp.fields["o"] \in Seq(Texts) /\ sdp.medias \in Seq(Streams)
  BY <1>2, <1>3 DEF OneOrigin, WellFormed, SessionKeys
<1>8. ASSUME Titled(first') PROVE Readable(source', first')
  <2>1. Titled(sdp)
    BY <1>1, <1>8
  <2>2. QED BY <1>1, <1>5, <2>1
<1>9. QED BY <1>1, <1>4, <1>6, <1>7, <1>8 DEF Copied

\* At first there is no second parse.
LEMMA InitCopied == Init => Copied
  BY DEF Init, Copied

\* and copies it.
LEMMA NextCopied == Inv /\ Along /\ Gathered /\ Shaped /\ Copied /\ [Next]_vars => Copied'
<1> SUFFICES ASSUME Inv, Along, Gathered, Shaped, Copied, [Next]_vars PROVE Copied'
  OBVIOUS
<1>1. CASE UNCHANGED vars
  <2>1. UNCHANGED <<source, doc, sdp, status, first>>
    BY <1>1 DEF vars
  <2>2. Loaded' = Loaded
    BY <2>1 DEF Loaded
  <2>3. QED BY <2>1, <2>2 DEF Copied
<1>2. CASE ReadField \/ ReadRepeat \/ ReadMedia
  <2>1. status = "parsing"
    BY <1>2 DEF ReadField, ReadRepeat, ReadMedia
  <2>2. Ahead(sdp, open)
    BY <2>1 DEF Gathered
  <2>3. PICK next : Moves(next) /\ Grows(next)
    BY <1>2, <2>2, LineStep
  <2>4. QED BY <2>3, LineCopied
<1>3. QED BY <1>1, <1>2, EndCopied, ParseAgainCopied DEF Next

\* RoundTrip of every behaviour: the text sdp_format writes of a description with
\* names is read in full, as that description (sdp_parser, sdp_format).
THEOREM RoundTripHolds == Spec => []RoundTrip
<1>1. Inv /\ Copied => RoundTrip
  <2> SUFFICES ASSUME Inv, Copied, first # Nothing, Named(first), status \in {"parsed", "rejected"}
               PROVE  status = "parsed" /\ sdp = first /\ doc = <<>>
    BY DEF RoundTrip
  <2>1. /\ Len(first.fields["o"]) <= 1 /\ first.fields["o"] \in Seq(Texts)
        /\ first.medias \in Seq(Streams)
    BY DEF Copied
  <2>2. Titled(first)
    <3>1. \A n \in DOMAIN first.fields["o"] : n = 1
      BY <2>1, LenProperties
    <3>2. \A i \in DOMAIN first.medias : first.medias[i] \in ToSet(first.medias)
      BY DEF ToSet
    <3>3. QED BY <3>1, <3>2 DEF Named, Titled
  <2>3. /\ Readable(source, first) /\ Format(sdp) = Loaded /\ Rebuilds(sdp)
        /\ status = "parsed" /\ doc = <<>>
    BY <2>2 DEF Copied
  <2>4. Loaded = source
    <3>1. Len(<<>>) = 0 /\ source \in Seq(Lines) /\ Len(source) \in Nat
      BY LenProperties DEF Inv
    <3>2. Loaded = SubSeq(source, 1, Len(source))
      BY <2>3, <3>1 DEF Loaded
    <3>3. QED BY <3>1, <3>2, SubSeqFull
  <2>5. Format(sdp) = Format(first) /\ Rebuilds(first) /\ Len(Format(sdp)) \in Nat
    BY <2>3, <2>4, LenProperties DEF Readable
  <2>6. sdp = first
    BY <2>3, <2>5, RebuiltAlike
  <2>7. QED BY <2>3, <2>6
<1>2. QED
  BY <1>1, InitInv, NextInv, InitAlong, NextAlong, InitGathered, NextGathered, InitShaped, NextShaped,
     InitCopied, NextCopied, PTL DEF Spec
===============================================================================
