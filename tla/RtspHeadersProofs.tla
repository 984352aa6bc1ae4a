-------------------------- MODULE RtspHeadersProofs --------------------------
(***************************************************************************)
(* Proofs about RtspHeaders, for any replies, any numbers and an array of  *)
(* any length.                                                             *)
(***************************************************************************)
EXTENDS RtspHeaders, SequenceLemmas

-------------------------------------------------------------------------------
(* Texts *)

\* The pieces of a text are texts.
LEMMA PieceType ==
  ASSUME NEW T, NEW s \in Seq(T), NEW i \in Nat \ {0}, NEW j \in Int, j <= Len(s)
  PROVE  SubSeq(s, i, j) \in Seq(T)
<1>1. CASE i <= j
  BY <1>1, LenProperties, SubSeqProperties
<1>2. CASE ~(i <= j)
  <2>1. SubSeq(s, i, j) = <<>>
    BY <1>2
  <2>2. QED BY <2>1
<1>3. QED BY <1>1, <1>2

\* The first character that is not a blank.
LEMMA FirstCharacter ==
  ASSUME NEW T, NEW s \in Seq(T), ~OnlyBlanks(s)
  PROVE  LET i == SelectInSeq(s, LAMBDA c : c # Space)
         IN /\ i \in 1 .. Len(s) /\ s[i] # Space
            /\ \A j \in 1 .. i - 1 : s[j] = Space
<1> DEFINE I == {i \in 1 .. Len(s) : s[i] # Space}
<1>1. Len(s) \in Nat /\ DOMAIN s = 1 .. Len(s)
  BY LenProperties
<1>2. I \in SUBSET Nat /\ I # {}
  <2>1. \E i \in DOMAIN s : s[i] # Space
    BY Zenon DEF OnlyBlanks
  <2>2. QED BY <1>1, <2>1
<1>3. Min(I) \in I /\ \A i \in I : Min(I) <= i
  <2> HIDE DEF I
  <2> QED BY <1>2, LeastOne
<1>4. SelectInSeq(s, LAMBDA c : c # Space) = Min(I)
  BY <1>2 DEF SelectInSeq
<1> DEFINE m == Min(I)
<1>5. m \in 1 .. Len(s) /\ s[m] # Space /\ \A j \in 1 .. Len(s) : s[j] # Space => m <= j
  BY <1>3
<1> HIDE DEF m
<1>6. \A j \in 1 .. m - 1 : s[j] = Space
  <2>1. \A j \in 1 .. m - 1 : j \in 1 .. Len(s) /\ ~(m <= j)
    BY <1>1, <1>5
  <2>2. QED BY <1>5, <2>1, Zenon
<1>7. QED BY <1>4, <1>5, <1>6 DEF m

LEMMA SkipBlanksType ==
  ASSUME NEW T, NEW s \in Seq(T)
  PROVE  SkipBlanks(s) \in Seq(T)
<1>1. CASE OnlyBlanks(s)
  BY <1>1 DEF SkipBlanks
<1>2. CASE ~OnlyBlanks(s)
  <2> DEFINE i == SelectInSeq(s, LAMBDA c : c # Space)
  <2>1. i \in 1 .. Len(s)
    BY <1>2, FirstCharacter
  <2>2. SkipBlanks(s) = SubSeq(s, i, Len(s))
    BY <1>2 DEF SkipBlanks
  <2> HIDE DEF i
  <2>3. Len(s) \in Nat
    BY LenProperties
  <2>4. QED BY <2>1, <2>2, <2>3, PieceType
<1>3. QED BY <1>1, <1>2

LEMMA CutType ==
  ASSUME NEW T, NEW s \in Seq(T), NEW seps, NEW keepSep \in BOOLEAN
  PROVE  LET cut == CutUntilChar(s, seps, keepSep)
         IN cut.head \in Seq(T) /\ cut.rest \in Seq(T)
<1> DEFINE I == {i \in 1 .. Len(s) : s[i] \in seps}
           n == SelectInSeq(s, LAMBDA c : c \in seps)
<1>1. Len(s) \in Nat
  BY LenProperties
<1>2. n = 0 \/ n \in 1 .. Len(s)
  <2>1. CASE I = {}
    BY <2>1 DEF SelectInSeq
  <2>2. CASE I # {}
    <3>1. n = Min(I)
      BY <2>2 DEF SelectInSeq
    <3>2. I \in SUBSET Nat
      OBVIOUS
    <3>3. Min(I) \in I
      <4> HIDE DEF I
      <4> QED BY <2>2, <3>2, LeastOne
    <3>4. QED BY <3>1, <3>3
  <2>3. QED BY <2>1, <2>2
<1>3. CutUntilChar(s, seps, keepSep) =
        IF n = 0 THEN [head |-> s, rest |-> <<>>]
        ELSE [head |-> SubSeq(s, 1, n - 1),
              rest |-> SubSeq(s, IF keepSep THEN n ELSE n + 1, Len(s))]
  BY Zenon DEF CutUntilChar
<1> HIDE DEF n
<1>4. CASE n = 0
  BY <1>3, <1>4
<1>5. CASE n # 0
  <2>1. n \in 1 .. Len(s)
    BY <1>2, <1>5
  <2>2. SubSeq(s, 1, n - 1) \in Seq(T)
    BY <1>1, <2>1, PieceType
  <2>3. SubSeq(s, n, Len(s)) \in Seq(T) /\ SubSeq(s, n + 1, Len(s)) \in Seq(T)
    BY <1>1, <2>1, PieceType
  <2>4. QED BY <1>3, <1>5, <2>2, <2>3
<1>6. QED BY <1>4, <1>5

\* Where a piece that starts at i ends.
CutBehind(s, sep, i) == Min({j \in i .. Len(s) : s[j] = sep} \cup {Len(s) + 1})

LEMMA CutBehindAt ==
  ASSUME NEW T, NEW s \in Seq(T), NEW sep, NEW i \in 1 .. Len(s)
  PROVE  LET c == CutBehind(s, sep, i)
         IN /\ c \in i .. Len(s) + 1
            /\ c <= Len(s) => s[c] = sep
            /\ \A j \in i .. c - 1 : s[j] # sep
<1> DEFINE I == {j \in i .. Len(s) : s[j] = sep} \cup {Len(s) + 1}
           c == Min(I)
<1>1. Len(s) \in Nat
  BY LenProperties
<1>2. I \in SUBSET Nat /\ I # {}
  BY <1>1
<1>3. c \in I /\ \A j \in I : c <= j
  <2> HIDE DEF I
  <2> QED BY <1>2, LeastOne
<1>4. /\ c \in i .. Len(s) + 1
      /\ c <= Len(s) => s[c] = sep
      /\ \A j \in i .. Len(s) : s[j] = sep => c <= j
  <2> HIDE DEF c
  <2> QED BY <1>1, <1>3
<1>5. c = CutBehind(s, sep, i)
  BY DEF CutBehind
<1> HIDE DEF c
<1>6. \A j \in i .. c - 1 : s[j] # sep
  BY <1>1, <1>4
<1>7. QED BY <1>4, <1>5, <1>6

\* The pieces by the places where they start.
Starting(s, sep) ==
    [i \in DOMAIN s |->
       IF s[i] # sep /\ (i = 1 \/ s[i - 1] = sep)
         THEN <<SubSeq(s, i, CutBehind(s, sep, i) - 1)>> ELSE <<>>]

LEMMA SplitType ==
  ASSUME NEW T, NEW s \in Seq(T), NEW sep
  PROVE  /\ Starting(s, sep) \in Seq(Seq(Seq(T)))
         /\ Split(s, sep) = FlattenSeq(Starting(s, sep))
         /\ Split(s, sep) \in Seq(Seq(T))
<1>1. Len(s) \in Nat /\ DOMAIN s = 1 .. Len(s)
  BY LenProperties
<1>2. \A i \in 1 .. Len(s) : SubSeq(s, i, CutBehind(s, sep, i) - 1) \in Seq(T)
  <2> SUFFICES ASSUME NEW i \in 1 .. Len(s)
               PROVE  SubSeq(s, i, CutBehind(s, sep, i) - 1) \in Seq(T)
    OBVIOUS
  <2>1. CutBehind(s, sep, i) \in i .. Len(s) + 1
    BY CutBehindAt
  <2> DEFINE j == CutBehind(s, sep, i) - 1
  <2>2. j \in Int /\ j <= Len(s)
    BY <1>1, <2>1
  <2> HIDE DEF j
  <2>3. SubSeq(s, i, j) \in Seq(T)
    BY <2>2, PieceType
  <2>4. QED BY <2>3 DEF j
<1>3. Starting(s, sep) \in Seq(Seq(Seq(T)))
  <2>1. \A x : x \in Seq(T) => <<x>> \in Seq(Seq(T))
    OBVIOUS
  <2>2. <<>> \in Seq(Seq(T))
    OBVIOUS
  <2>3. \A i \in 1 .. Len(s) : Starting(s, sep)[i] \in Seq(Seq(T))
    BY <1>1, <1>2, <2>1, <2>2 DEF Starting
  <2>4. Starting(s, sep) \in [1 .. Len(s) -> Seq(Seq(T))]
    BY <1>1, <2>3 DEF Starting
  <2>5. QED BY <1>1, <2>4, SeqDef
<1>4. Split(s, sep) = FlattenSeq(Starting(s, sep))
  BY DEF Split, Starting, CutBehind
<1>5. QED BY <1>3, <1>4, FlattenType

-------------------------------------------------------------------------------
(* What a line makes of a message *)

\* What a text is read as.
LEMMA ReadType ==
  ASSUME NEW text
  PROVE  /\ IsNumber(text) => ValueOf(text) \in Nat
         /\ IsInt(text) => ValueOf(text) \in 0 .. MaxInt
<1>1. IsNumber(text) => ValueOf(text) \in Nat
  BY MessagesAssumption DEF IsNumber, ValueOf
<1> DEFINE v == ValueOf(text)
<1>2. IsInt(text) => IsNumber(text) /\ v <= MaxInt
  BY DEF IsInt
<1> HIDE DEF v
<1>3. \A n \in Nat : n <= MaxInt => n \in 0 .. MaxInt
  BY BoundsAssumption
<1>4. QED BY <1>1, <1>2, <1>3 DEF v

LEMMA RangeType ==
  ASSUME NEW text, ReadableRange(text)
  PROVE  ParseRange(text) \in Number \X Number
<1> DEFINE vec == Split(text, "-")
           n == IF Len(vec) = 2 THEN 2 ELSE 1
<1>1. IsInt(vec[1]) /\ IsInt(vec[n])
  BY DEF ReadableRange
<1>2. ValueOf(vec[1]) \in 0 .. MaxInt /\ ValueOf(vec[n]) \in 0 .. MaxInt
  BY <1>1, ReadType
<1>3. ParseRange(text) = <<ValueOf(vec[1]), ValueOf(vec[n])>>
  BY DEF ParseRange
<1> HIDE DEF vec, n
<1>4. QED BY <1>2, <1>3 DEF Number

LEMMA FieldType ==
  ASSUME NEW t \in Transport, NEW field, ReadableField(field)
  PROVE  ReadField(t, field) \in Transport
<1> DEFINE name == CutUntilChar(field, {"="}, FALSE).head
           text == CutUntilChar(field, {"="}, FALSE).rest
<1>1. ReadField(t, field) =
        CASE name = <<"multicast">> -> Multicast(t)
          [] Len(name) = 1 /\ name[1] \in Ranges -> [t EXCEPT !.ranges[name[1]] = ParseRange(text)]
          [] name = <<"ttl">> -> [t EXCEPT !.ttl = ValueOf(text)]
          [] name = <<"mode">> ->
               [t EXCEPT !.mode_record = IF text \in {<<"record">>, <<"receive">>} THEN 1 ELSE @]
          [] OTHER -> t
  BY DEF ReadField
<1>2. /\ Len(name) = 1 /\ name[1] \in Ranges => ReadableRange(text)
      /\ name = <<"ttl">> => IsInt(text)
  BY DEF ReadableField
<1>3. \/ ReadField(t, field) = Multicast(t)
      \/ name[1] \in Ranges /\ ReadableRange(text)
           /\ ReadField(t, field) = [t EXCEPT !.ranges[name[1]] = ParseRange(text)]
      \/ IsInt(text) /\ ReadField(t, field) = [t EXCEPT !.ttl = ValueOf(text)]
      \/ ReadField(t, field) = [t EXCEPT !.mode_record = IF text \in {<<"record">>, <<"receive">>} THEN 1 ELSE @]
      \/ ReadField(t, field) = t
  <2> HIDE DEF name, text
  <2>1. QED BY <1>1, <1>2
<1> HIDE DEF name, text
<1>4. CASE ReadField(t, field) = Multicast(t)
  BY <1>4 DEF Multicast, Transport
<1>5. CASE name[1] \in Ranges /\ ReadableRange(text)
           /\ ReadField(t, field) = [t EXCEPT !.ranges[name[1]] = ParseRange(text)]
  <2>1. ParseRange(text) \in Number \X Number
    BY <1>5, RangeType
  <2>2. QED BY <1>5, <2>1 DEF Transport
<1>6. CASE IsInt(text) /\ ReadField(t, field) = [t EXCEPT !.ttl = ValueOf(text)]
  <2>1. ValueOf(text) \in 0 .. MaxInt
    BY <1>6, ReadType
  <2>2. QED BY <1>6, <2>1 DEF Transport, Number
<1>7. CASE \/ ReadField(t, field) = t
           \/ ReadField(t, field) = [t EXCEPT !.mode_record = IF text \in {<<"record">>, <<"receive">>} THEN 1 ELSE @]
  BY <1>7 DEF Transport
<1>8. QED BY <1>3, <1>4, <1>5, <1>6, <1>7

\* What the recursion of FoldLeft says of ReadField.
ReadsFields(f, t, fields) ==
    f = [s \in SUBSET DOMAIN fields |->
           IF s = {} THEN t ELSE ReadField(f[s \ {Max(s)}], fields[Max(s)])]

\* The fields of a transport are read one behind the other.
LEMMA FieldsRead ==
  ASSUME NEW t \in Transport, NEW T, NEW fields \in Seq(T),
         \A i \in DOMAIN fields : ReadableField(fields[i])
  PROVE  \E p \in [0 .. Len(fields) -> Transport] :
            /\ p[0] = t
            /\ \A k \in 1 .. Len(fields) : p[k] = ReadField(p[k - 1], fields[k])
            /\ FoldLeft(ReadField, t, fields) = p[Len(fields)]
<1> DEFINE n == Len(fields)
           step == [i \in 1 .. n |-> [x \in Transport |-> ReadField(x, fields[i])]]
<1>1. n \in Nat /\ DOMAIN fields = 1 .. n
  BY LenProperties
<1>2. step \in [1 .. n -> [Transport -> Transport]]
  BY <1>1, FieldType
<1>3. \A i \in 1 .. n : \A x \in Transport : step[i][x] = ReadField(x, fields[i])
  OBVIOUS
<1> HIDE DEF step
<1>4. \E f : ReadsFields(f, t, fields)
  <2>1. PICK f \in [SUBSET (1 .. n) -> Transport] : FoldsTo(f, t, step, n)
    BY <1>1, <1>2, FoldExists
  <2>2. \A s \in SUBSET (1 .. n) :
           f[s] = IF s = {} THEN t ELSE ReadField(f[s \ {Max(s)}], fields[Max(s)])
    <3> SUFFICES ASSUME NEW s \in SUBSET (1 .. n), s # {}
                 PROVE  f[s] = ReadField(f[s \ {Max(s)}], fields[Max(s)])
      BY <2>1 DEF FoldsTo
    <3>1. f[s] = step[Max(s)][f[s \ {Max(s)}]]
      BY <2>1 DEF FoldsTo
    <3>2. Max(s) \in 1 .. n /\ f[s \ {Max(s)}] \in Transport
      BY <1>1, <2>1, GreatestOne
    <3>3. QED BY <1>3, <3>1, <3>2
  <2>3. QED BY <1>1, <2>1, <2>2 DEF ReadsFields
<1> DEFINE g == CHOOSE f : ReadsFields(f, t, fields)
<1>5. ReadsFields(g, t, fields)
  BY <1>4, Zenon
<1>6. FoldLeft(ReadField, t, fields) = g[DOMAIN fields]
  BY DEF FoldLeft, MapThenFoldSet, ReadsFields
<1> HIDE DEF g
<1>7. /\ g[{}] = t
      /\ \A s \in SUBSET (1 .. n) :
           s # {} => g[s] = ReadField(g[s \ {Max(s)}], fields[Max(s)])
  <2> DEFINE h == [s \in SUBSET DOMAIN fields |->
                     IF s = {} THEN t ELSE ReadField(g[s \ {Max(s)}], fields[Max(s)])]
  <2>1. g = h
    BY <1>5 DEF ReadsFields
  <2>2. /\ h[{}] = t
        /\ \A s \in SUBSET DOMAIN fields :
             s # {} => h[s] = ReadField(g[s \ {Max(s)}], fields[Max(s)])
    OBVIOUS
  <2> HIDE DEF h
  <2>3. QED BY <1>1, <2>1, <2>2
<1>8. \A s \in SUBSET (1 .. n) :
         s # {} /\ g[s \ {Max(s)}] \in Transport => g[s] = step[Max(s)][g[s \ {Max(s)}]]
  <2> SUFFICES ASSUME NEW s \in SUBSET (1 .. n), s # {}, g[s \ {Max(s)}] \in Transport
               PROVE  g[s] = step[Max(s)][g[s \ {Max(s)}]]
    OBVIOUS
  <2>1. Max(s) \in 1 .. n
    BY <1>1, GreatestOne
  <2>2. g[s] = ReadField(g[s \ {Max(s)}], fields[Max(s)])
    BY <1>7
  <2>3. QED BY <1>3, <2>1, <2>2
<1>9. FoldsIn(Transport, g, t, step, n)
  BY <1>7, <1>8 DEF FoldsIn
<1>10. \E p \in [0 .. n -> Transport] : Unrolls(p, t, step, n) /\ p[n] = g[1 .. n]
  <2> HIDE DEF n
  <2>1. n \in Nat
    BY <1>1
  <2>2. t \in Transport
    OBVIOUS
  <2>3. QED BY ONLY <1>2, <1>9, <2>1, <2>2, FoldUnrolls
<1> PICK p \in [0 .. n -> Transport] : Unrolls(p, t, step, n) /\ p[n] = g[1 .. n]
  BY <1>10
<1>11. \A k \in 1 .. n : p[k] = ReadField(p[k - 1], fields[k])
  <2> SUFFICES ASSUME NEW k \in 1 .. n PROVE p[k] = ReadField(p[k - 1], fields[k])
    OBVIOUS
  <2>1. p[k - 1] \in Transport
    <3>1. k - 1 \in 0 .. n
      BY <1>1
    <3>2. QED BY <3>1
  <2>2. QED BY <1>3, <2>1 DEF Unrolls
<1>12. QED BY <1>1, <1>6, <1>11 DEF Unrolls

\* What a transport is read into, and what it is read from.
Chars == STRING \cup {"UDP"}

Reading == [nb : 0 .. MaxTransports, transports : [1 .. MaxTransports -> Transport],
            lower : Seq(Chars), bad : BOOLEAN]

LEMMA LeadingType ==
  ASSUME NEW text \in Seq(Chars), NEW lower \in Seq(Chars)
  PROVE  LET lead == Leading(text, lower)
         IN /\ lead.rtp \in BOOLEAN /\ lead.bad \in BOOLEAN
            /\ lead.lower \in Seq(Chars) /\ lead.rest \in Seq(Chars)
<1> DEFINE protocol == CutUntilChar(text, {"/"}, FALSE)
           profile  == CutUntilChar(protocol.rest, {"/", ";", ","}, TRUE)
           named    == CutUntilChar(Tail(profile.rest), {";", ","}, FALSE)
<1>1. protocol.head \in Seq(Chars) /\ protocol.rest \in Seq(Chars)
  BY CutType
<1>2. profile.rest \in Seq(Chars)
  <2> HIDE DEF protocol
  <2> QED BY <1>1, CutType
<1>3. profile.rest # <<>> =>
        /\ Tail(profile.rest) \in Seq(Chars)
        /\ named.head \in Seq(Chars) /\ named.rest \in Seq(Chars)
  <2> SUFFICES ASSUME profile.rest # <<>>
               PROVE  /\ Tail(profile.rest) \in Seq(Chars)
                      /\ named.head \in Seq(Chars) /\ named.rest \in Seq(Chars)
    OBVIOUS
  <2>1. Tail(profile.rest) \in Seq(Chars)
    <3> HIDE DEF profile
    <3> QED BY <1>2
  <2> HIDE DEF profile
  <2>2. QED BY <2>1, CutType
<1>4. Leading(text, lower) =
        IF protocol.head # <<"RTP">>
          THEN [rtp |-> FALSE, bad |-> FALSE, lower |-> lower, rest |-> protocol.rest]
        ELSE IF profile.rest = <<>>
          THEN [rtp |-> TRUE, bad |-> TRUE, lower |-> lower, rest |-> <<>>]
        ELSE IF profile.rest[1] = "/"
          THEN [rtp |-> TRUE, bad |-> FALSE, lower |-> named.head, rest |-> named.rest]
        ELSE [rtp |-> TRUE, bad |-> FALSE, lower |-> lower, rest |-> Tail(profile.rest)]
  BY DEF Leading
<1> HIDE DEF protocol, profile, named
<1>5. <<>> \in Seq(Chars)
  OBVIOUS
<1>6. QED BY <1>1, <1>3, <1>4, <1>5

\* A transport before its fields are read.
Started(m, lead) ==
    [m.transports[m.nb + 1] EXCEPT
       !.rtp = lead.rtp \/ @,
       !.lower = IF lead.lower = <<"TCP">> THEN TCP ELSE UDP]

LEMMA StartedType ==
  ASSUME NEW m \in Reading, m.nb < MaxTransports, NEW lead, lead.rtp \in BOOLEAN
  PROVE  Started(m, lead) \in Transport
<1>1. m.nb + 1 \in 1 .. MaxTransports
  BY BoundsAssumption DEF Reading
<1>2. m.transports[m.nb + 1] \in Transport
  BY <1>1 DEF Reading
<1>3. QED BY <1>2 DEF Started, Transport

LEMMA TransportType ==
  ASSUME NEW m \in Reading, NEW text \in Seq(Chars)
  PROVE  ReadTransport(m, text) \in Reading
<1> DEFINE lead   == Leading(text, m.lower)
           fields == Split(lead.rest, ";")
           read   == FoldLeft(ReadField, Started(m, lead), fields)
<1>1. m.lower \in Seq(Chars) /\ m.nb \in Nat
  BY BoundsAssumption DEF Reading
<1>2. /\ lead.rtp \in BOOLEAN /\ lead.bad \in BOOLEAN
      /\ lead.lower \in Seq(Chars) /\ lead.rest \in Seq(Chars)
  BY <1>1, LeadingType
<1>3. ReadTransport(m, text) =
        IF ~Room(m.nb) \/ m.bad THEN m
        ELSE IF lead.bad \/ \E i \in DOMAIN fields : ~ReadableField(fields[i])
          THEN [m EXCEPT !.bad = TRUE]
        ELSE [m EXCEPT !.lower = lead.lower, !.nb = m.nb + 1,
                       !.transports[m.nb + 1] = read]
  BY DEF ReadTransport, Started
<1> HIDE DEF lead
<1>4. fields \in Seq(Seq(Chars))
  BY <1>2, SplitType
<1> HIDE DEF fields
<1>5. m.nb < MaxTransports /\ (\A i \in DOMAIN fields : ReadableField(fields[i])) => read \in Transport
  <2> SUFFICES ASSUME m.nb < MaxTransports, \A i \in DOMAIN fields : ReadableField(fields[i])
               PROVE  read \in Transport
    OBVIOUS
  <2>1. Started(m, lead) \in Transport
    BY <1>2, StartedType
  <2>2. PICK p \in [0 .. Len(fields) -> Transport] : read = p[Len(fields)]
    BY <1>4, <2>1, FieldsRead, ZenonT(60)
  <2>3. Len(fields) \in 0 .. Len(fields)
    BY <1>4, LenProperties
  <2>4. QED BY <2>2, <2>3
<1> HIDE DEF read
<1>6. CASE ~Room(m.nb) \/ m.bad
  BY <1>3, <1>6
<1>7. CASE ~(~Room(m.nb) \/ m.bad) /\ (lead.bad \/ \E i \in DOMAIN fields : ~ReadableField(fields[i]))
  <2>1. ReadTransport(m, text) = [m EXCEPT !.bad = TRUE]
    BY <1>3, <1>7
  <2>2. QED BY <2>1 DEF Reading
<1>8. CASE ~(~Room(m.nb) \/ m.bad) /\ ~(lead.bad \/ \E i \in DOMAIN fields : ~ReadableField(fields[i]))
  <2>1. ReadTransport(m, text) = [m EXCEPT !.lower = lead.lower, !.nb = m.nb + 1,
                                           !.transports[m.nb + 1] = read]
    BY <1>3, <1>8
  <2>2. m.nb < MaxTransports /\ read \in Transport
    BY <1>5, <1>8 DEF Room
  <2>3. m.nb + 1 \in 0 .. MaxTransports /\ m.nb + 1 \in 1 .. MaxTransports
    BY <1>1, <2>2, BoundsAssumption
  <2> DEFINE ts == [m.transports EXCEPT ![m.nb + 1] = read]
  <2>4. ts \in [1 .. MaxTransports -> Transport]
    BY <2>2, <2>3 DEF Reading
  <2>5. ReadTransport(m, text) = [m EXCEPT !.lower = lead.lower, !.nb = m.nb + 1,
                                           !.transports = ts]
    BY <2>1
  <2> HIDE DEF ts
  <2>6. QED BY <1>2, <2>3, <2>4, <2>5 DEF Reading
<1>9. QED BY <1>6, <1>7, <1>8

\* What the recursion of FoldLeft says of ReadTransport.
ReadsTransports(f, m, pieces) ==
    f = [s \in SUBSET DOMAIN pieces |->
           IF s = {} THEN m ELSE ReadTransport(f[s \ {Max(s)}], pieces[Max(s)])]

\* FoldUnrolls for the transports of a header.
LEMMA ReadingUnrolls ==
  ASSUME NEW m \in Reading, NEW n \in Nat, NEW step \in [1 .. n -> [Reading -> Reading]],
         NEW g, FoldsIn(Reading, g, m, step, n)
  PROVE  \E p \in [0 .. n -> Reading] : Unrolls(p, m, step, n) /\ p[n] = g[1 .. n]
  BY ONLY FoldUnrolls, m \in Reading, n \in Nat, step \in [1 .. n -> [Reading -> Reading]],
     FoldsIn(Reading, g, m, step, n)

\* The transports of a header are read one behind the other.
LEMMA TransportsRead ==
  ASSUME NEW m \in Reading, NEW pieces \in Seq(Seq(Chars))
  PROVE  \E p \in [0 .. Len(pieces) -> Reading] :
            /\ p[0] = m
            /\ \A k \in 1 .. Len(pieces) : p[k] = ReadTransport(p[k - 1], pieces[k])
            /\ FoldLeft(ReadTransport, m, pieces) = p[Len(pieces)]
<1> DEFINE n == Len(pieces)
           step == [i \in 1 .. n |-> [x \in Reading |-> ReadTransport(x, pieces[i])]]
<1>1. n \in Nat /\ DOMAIN pieces = 1 .. n /\ \A i \in 1 .. n : pieces[i] \in Seq(Chars)
  BY LenProperties, ElementOfSeq
<1>2. step \in [1 .. n -> [Reading -> Reading]]
  BY <1>1, TransportType
<1>3. \A i \in 1 .. n : \A x \in Reading : step[i][x] = ReadTransport(x, pieces[i])
  OBVIOUS
<1> HIDE DEF step
<1>4. \E f : ReadsTransports(f, m, pieces)
  <2>1. PICK f \in [SUBSET (1 .. n) -> Reading] : FoldsTo(f, m, step, n)
    BY <1>1, <1>2, FoldExists
  <2>2. \A s \in SUBSET (1 .. n) :
           f[s] = IF s = {} THEN m ELSE ReadTransport(f[s \ {Max(s)}], pieces[Max(s)])
    <3> SUFFICES ASSUME NEW s \in SUBSET (1 .. n), s # {}
                 PROVE  f[s] = ReadTransport(f[s \ {Max(s)}], pieces[Max(s)])
      BY <2>1 DEF FoldsTo
    <3>1. f[s] = step[Max(s)][f[s \ {Max(s)}]]
      BY <2>1 DEF FoldsTo
    <3>2. Max(s) \in 1 .. n /\ f[s \ {Max(s)}] \in Reading
      BY <1>1, <2>1, GreatestOne
    <3>3. QED BY <1>3, <3>1, <3>2
  <2>3. QED BY <1>1, <2>1, <2>2 DEF ReadsTransports
<1> DEFINE g == CHOOSE f : ReadsTransports(f, m, pieces)
<1>5. ReadsTransports(g, m, pieces)
  BY <1>4, Zenon
<1>6. FoldLeft(ReadTransport, m, pieces) = g[DOMAIN pieces]
  BY DEF FoldLeft, MapThenFoldSet, ReadsTransports
<1> HIDE DEF g
<1>7. /\ g[{}] = m
      /\ \A s \in SUBSET (1 .. n) :
           s # {} => g[s] = ReadTransport(g[s \ {Max(s)}], pieces[Max(s)])
  <2> DEFINE h == [s \in SUBSET DOMAIN pieces |->
                     IF s = {} THEN m ELSE ReadTransport(g[s \ {Max(s)}], pieces[Max(s)])]
  <2>1. g = h
    BY <1>5 DEF ReadsTransports
  <2>2. /\ h[{}] = m
        /\ \A s \in SUBSET DOMAIN pieces :
             s # {} => h[s] = ReadTransport(g[s \ {Max(s)}], pieces[Max(s)])
    OBVIOUS
  <2> HIDE DEF h
  <2>3. QED BY <1>1, <2>1, <2>2
<1>8. \A s \in SUBSET (1 .. n) :
         s # {} /\ g[s \ {Max(s)}] \in Reading => g[s] = step[Max(s)][g[s \ {Max(s)}]]
  <2> SUFFICES ASSUME NEW s \in SUBSET (1 .. n), s # {}, g[s \ {Max(s)}] \in Reading
               PROVE  g[s] = step[Max(s)][g[s \ {Max(s)}]]
    OBVIOUS
  <2>1. Max(s) \in 1 .. n
    BY <1>1, GreatestOne
  <2>2. g[s] = ReadTransport(g[s \ {Max(s)}], pieces[Max(s)])
    BY <1>7
  <2>3. QED BY <1>3, <2>1, <2>2
<1>9. FoldsIn(Reading, g, m, step, n)
  BY <1>7, <1>8 DEF FoldsIn
<1>10. \E p \in [0 .. n -> Reading] : Unrolls(p, m, step, n) /\ p[n] = g[1 .. n]
  <2> HIDE DEF n
  <2>1. n \in Nat
    BY <1>1
  <2>2. m \in Reading
    OBVIOUS
  <2>3. \A st \in [1 .. n -> [Reading -> Reading]] : \A h : FoldsIn(Reading, h, m, st, n) =>
           \E p \in [0 .. n -> Reading] : Unrolls(p, m, st, n) /\ p[n] = h[1 .. n]
    BY <2>1, ReadingUnrolls
  <2>4. FoldsIn(Reading, g, m, step, n) => \E p \in [0 .. n -> Reading] : Unrolls(p, m, step, n) /\ p[n] = g[1 .. n]
    BY <1>2, <2>3, Zenon
  <2>5. QED BY <1>9, <2>4
<1> PICK p \in [0 .. n -> Reading] : Unrolls(p, m, step, n) /\ p[n] = g[1 .. n]
  BY <1>10
<1>11. \A k \in 1 .. n : p[k] = ReadTransport(p[k - 1], pieces[k])
  <2> SUFFICES ASSUME NEW k \in 1 .. n PROVE p[k] = ReadTransport(p[k - 1], pieces[k])
    OBVIOUS
  <2>1. p[k - 1] \in Reading
    <3>1. k - 1 \in 0 .. n
      BY <1>1
    <3>2. QED BY <3>1
  <2>2. QED BY <1>3, <2>1 DEF Unrolls
<1>12. QED BY <1>1, <1>6, <1>11 DEF Unrolls

\* rtsp_parse_transport starts with no transport, over those that were there.
Cleared(r) == [nb |-> 0, transports |-> r.transports, lower |-> <<"UDP">>, bad |-> FALSE]

LEMMA ClearedType == ASSUME NEW r \in Message PROVE Cleared(r) \in Reading
<1>1. 0 \in 0 .. MaxTransports
  BY BoundsAssumption
<1>2. "UDP" \in Chars
  BY DEF Chars
<1> DEFINE u == "UDP"
<1>3. <<u>> \in Seq(Chars)
  <2>1. u \in Chars
    BY <1>2
  <2> HIDE DEF u
  <2>2. QED BY <2>1
<1>4. r.transports \in [1 .. MaxTransports -> Transport]
  BY DEF Message
<1>5. Cleared(r) = [nb |-> 0, transports |-> r.transports, lower |-> <<u>>, bad |-> FALSE]
  BY DEF Cleared
<1> HIDE DEF u
<1>6. QED BY <1>1, <1>3, <1>4, <1>5 DEF Reading

\* The value of a line.
LEMMA ValueType ==
  ASSUME NEW line \in Lines
  PROVE  /\ SkipBlanks(line.val) \in Seq(STRING)
         /\ SkipBlanks(line.val) \in Seq(Chars)
<1>1. line.val \in Seq(STRING)
  BY DEF Lines
<1>2. SkipBlanks(line.val) \in Seq(STRING)
  BY <1>1, SkipBlanksType
<1>3. STRING \subseteq Chars
  BY DEF Chars
<1> DEFINE t == SkipBlanks(line.val)
<1> HIDE DEF t
<1>4. t \in Seq(STRING)
  BY <1>2 DEF t
<1>5. t \in Seq(Chars)
  <2>1. Len(t) \in Nat /\ t \in [1 .. Len(t) -> STRING]
    BY <1>4, LenProperties
  <2>2. t \in [1 .. Len(t) -> Chars]
    BY <1>3, <2>1
  <2>3. QED BY <2>1, <2>2, SeqDef
<1>6. QED BY <1>4, <1>5 DEF t

LEMMA ParseTransportType ==
  ASSUME NEW r \in Message, NEW text \in Seq(Chars)
  PROVE  ParseTransport(r, text) \in Reading
<1> DEFINE pieces == Split(text, LineEnd)
<1>1. pieces \in Seq(Seq(Chars))
  BY SplitType
<1>2. ParseTransport(r, text) = FoldLeft(ReadTransport, Cleared(r), pieces)
  BY DEF ParseTransport, Cleared
<1> HIDE DEF pieces
<1>3. PICK p \in [0 .. Len(pieces) -> Reading] :
        FoldLeft(ReadTransport, Cleared(r), pieces) = p[Len(pieces)]
  BY <1>1, ClearedType, TransportsRead
<1>4. Len(pieces) \in 0 .. Len(pieces)
  BY <1>1, LenProperties
<1>5. QED BY <1>2, <1>3, <1>4

LEMMA TimestrType ==
  ASSUME NEW text, NEW now \in Nat, text = <<"now">> \/ IsNumber(text)
  PROVE  Timestr(text, now) \in Nat
<1>1. IsNumber(text) => ValueOf(text) \in Nat
  BY ReadType
<1>2. QED BY <1>1 DEF Timestr

LEMMA NptType ==
  ASSUME NEW r \in Message, NEW text \in Seq(STRING), text # <<>>, ReadableNpt(text),
         NEW t1 \in Nat, NEW t2 \in Nat
  PROVE  RangeNpt(r, text, t1, t2) \in Message
<1> DEFINE vec == Split(SkipBlanks(Tail(text)), "-")
           s == IF vec = <<>> THEN NOPTS ELSE Timestr(vec[1], t1)
           e == IF Len(vec) < 2 THEN NOPTS ELSE Timestr(vec[2], t2)
<1>1. vec \in Seq(Seq(STRING))
  <2>1. SkipBlanks(Tail(text)) \in Seq(STRING)
    <3>1. Tail(text) \in Seq(STRING)
      OBVIOUS
    <3>2. QED BY <3>1, SkipBlanksType
  <2>2. QED BY <2>1, SplitType
<1>2. \A i \in DOMAIN vec : i <= 2 => vec[i] = <<"now">> \/ IsNumber(vec[i])
  BY DEF ReadableNpt
<1>3. RangeNpt(r, text, t1, t2) = [r EXCEPT !.start = s, !.end = e]
  BY DEF RangeNpt
<1> HIDE DEF vec
<1>4. Len(vec) \in Nat /\ DOMAIN vec = 1 .. Len(vec) /\ (vec # <<>> <=> Len(vec) # 0)
  BY <1>1, LenProperties, EmptySeq
<1>5. s \in Nat \cup {NOPTS}
  <2>1. vec # <<>> => Timestr(vec[1], t1) \in Nat
    <3> SUFFICES ASSUME vec # <<>> PROVE Timestr(vec[1], t1) \in Nat
      OBVIOUS
    <3>1. 1 \in DOMAIN vec /\ 1 <= 2
      BY <1>4
    <3>2. vec[1] = <<"now">> \/ IsNumber(vec[1])
      BY <1>2, <3>1
    <3>3. QED BY <3>2, TimestrType
  <2>2. QED BY <2>1
<1>6. e \in Nat \cup {NOPTS}
  <2>1. ~(Len(vec) < 2) => Timestr(vec[2], t2) \in Nat
    <3> SUFFICES ASSUME ~(Len(vec) < 2) PROVE Timestr(vec[2], t2) \in Nat
      OBVIOUS
    <3>1. 2 \in DOMAIN vec /\ 2 <= 2
      BY <1>4
    <3>2. vec[2] = <<"now">> \/ IsNumber(vec[2])
      BY <1>2, <3>1
    <3>3. QED BY <3>2, TimestrType
  <2>2. QED BY <2>1
<1> HIDE DEF s, e
<1>7. QED BY <1>3, <1>5, <1>6 DEF Message, Time

\* What a line with this text may do to a message.
Effect(q, r, line, text, t1, t2) ==
    \/ line.key \in Numbers /\ q = [r EXCEPT !.numbers[line.key] = ValueOf(text)]
    \/ line.key \in Texts /\ q = [r EXCEPT !.texts[line.key] = text]
    \/ q = [r EXCEPT !.get_parameter =
              @ \/ ("GET_PARAMETER" \in ToSet(text) /\ method = "OPTIONS")]
    \/ line.key = "Range" /\ IsNpt(text) /\ q = RangeNpt(r, text, t1, t2)
    \/ /\ line.key = "Session"
       /\ q = [r EXCEPT !.session = CutUntilChar(text, {";"}, FALSE).head,
                        !.timeout = IF HasTimeout(text) THEN ValueOf(Timeout(text)) ELSE @]
    \/ /\ line.key = "Transport"
       /\ q = [r EXCEPT !.nb = ParseTransport(r, text).nb,
                        !.transports = ParseTransport(r, text).transports]
    \/ q = r

LEMMA LineEffect ==
  ASSUME NEW r, NEW line, NEW t1, NEW t2
  PROVE  Effect(ParseLine(r, line, t1, t2), r, line, SkipBlanks(line.val), t1, t2)
<1> DEFINE text == SkipBlanks(line.val)
           m == ParseTransport(r, text)
           k == line.key
           q == ParseLine(r, line, t1, t2)
<1>1. q =
       CASE k \in Numbers -> [r EXCEPT !.numbers[k] = ValueOf(text)]
         [] k \in Texts   -> [r EXCEPT !.texts[k] = text]
         [] k = "Public"  ->
              [r EXCEPT !.get_parameter = @ \/ ("GET_PARAMETER" \in ToSet(text) /\ method = "OPTIONS")]
         [] k = "Range" /\ IsNpt(text) -> RangeNpt(r, text, t1, t2)
         [] k = "Session" ->
              [r EXCEPT !.session = CutUntilChar(text, {";"}, FALSE).head,
                        !.timeout = IF HasTimeout(text) THEN ValueOf(Timeout(text)) ELSE @]
         [] k = "Transport" -> [r EXCEPT !.nb = m.nb, !.transports = m.transports]
         [] OTHER -> r
  BY DEF ParseLine, IsClocked
<1> HIDE DEF text, k, q, m
<1>2. \/ k \in Numbers /\ q = [r EXCEPT !.numbers[k] = ValueOf(text)]
      \/ k \in Texts /\ q = [r EXCEPT !.texts[k] = text]
      \/ q = [r EXCEPT !.get_parameter =
                @ \/ ("GET_PARAMETER" \in ToSet(text) /\ method = "OPTIONS")]
      \/ k = "Range" /\ IsNpt(text) /\ q = RangeNpt(r, text, t1, t2)
      \/ k = "Session" /\
         q = [r EXCEPT !.session = CutUntilChar(text, {";"}, FALSE).head,
                       !.timeout = IF HasTimeout(text) THEN ValueOf(Timeout(text)) ELSE @]
      \/ k = "Transport" /\ q = [r EXCEPT !.nb = m.nb, !.transports = m.transports]
      \/ q = r
  BY <1>1
<1>3. Effect(q, r, line, text, t1, t2)
  BY <1>2 DEF Effect, k, m
<1>4. QED BY <1>3 DEF q, text

\* A line that can be read leaves a message.
LEMMA LineType ==
  ASSUME NEW r \in Message, NEW line \in Lines, Readable(line), NEW t1 \in Nat, NEW t2 \in Nat
  PROVE  ParseLine(r, line, t1, t2) \in Message
<1> DEFINE text == SkipBlanks(line.val)
           q == ParseLine(r, line, t1, t2)
           m == ParseTransport(r, text)
<1>1. text \in Seq(STRING) /\ text \in Seq(Chars)
  BY ValueType
<1>2. /\ line.key \in Numbers => IsInt(text)
      /\ line.key = "Session" /\ HasTimeout(text) => IsInt(Timeout(text))
      /\ line.key = "Range" /\ IsNpt(text) => ReadableNpt(text)
  BY DEF Readable, IsClocked
<1>3. Effect(q, r, line, text, t1, t2)
  BY LineEffect
<1> SUFFICES q \in Message
  OBVIOUS
<1> HIDE DEF text, q
<1>4. CASE line.key \in Numbers /\ q = [r EXCEPT !.numbers[line.key] = ValueOf(text)]
  <2>1. ValueOf(text) \in 0 .. MaxInt
    BY <1>2, <1>4, ReadType
  <2>2. QED BY <1>4, <2>1 DEF Message, Number
<1>5. CASE line.key \in Texts /\ q = [r EXCEPT !.texts[line.key] = text]
  BY <1>1, <1>5 DEF Message
<1>6. CASE q = [r EXCEPT !.get_parameter =
                  @ \/ ("GET_PARAMETER" \in ToSet(text) /\ method = "OPTIONS")]
  <2> DEFINE b == r.get_parameter \/ ("GET_PARAMETER" \in ToSet(text) /\ method = "OPTIONS")
  <2>1. b \in BOOLEAN
    OBVIOUS
  <2>2. q = [r EXCEPT !.get_parameter = b]
    BY <1>6
  <2> HIDE DEF b
  <2>3. QED BY <2>1, <2>2 DEF Message
<1>7. CASE line.key = "Range" /\ IsNpt(text) /\ q = RangeNpt(r, text, t1, t2)
  BY <1>1, <1>2, <1>7, NptType DEF IsNpt
<1>8. CASE /\ line.key = "Session"
           /\ q = [r EXCEPT !.session = CutUntilChar(text, {";"}, FALSE).head,
                            !.timeout = IF HasTimeout(text) THEN ValueOf(Timeout(text)) ELSE @]
  <2> DEFINE h == CutUntilChar(text, {";"}, FALSE).head
             n == IF HasTimeout(text) THEN ValueOf(Timeout(text)) ELSE r.timeout
  <2>1. h \in Seq(STRING)
    BY <1>1, CutType
  <2>2. n \in Number
    <3>1. HasTimeout(text) => ValueOf(Timeout(text)) \in 0 .. MaxInt
      BY <1>2, <1>8, ReadType
    <3>2. r.timeout \in Number
      BY DEF Message
    <3>3. QED BY <3>1, <3>2 DEF Number
  <2>3. q = [r EXCEPT !.session = h, !.timeout = n]
    BY <1>8
  <2> HIDE DEF h, n
  <2>4. QED BY <2>1, <2>2, <2>3 DEF Message
<1>9. CASE line.key = "Transport" /\ q = [r EXCEPT !.nb = m.nb, !.transports = m.transports]
  <2>1. m \in Reading
    BY <1>1, ParseTransportType
  <2> HIDE DEF m
  <2>2. m.nb \in 0 .. MaxTransports /\ m.transports \in [1 .. MaxTransports -> Transport]
    BY <2>1 DEF Reading
  <2>3. QED BY <1>9, <2>2 DEF Message
<1>10. CASE q = r
  BY <1>10
<1>11. QED BY <1>3, <1>4, <1>5, <1>6, <1>7, <1>8, <1>9, <1>10 DEF Effect

-------------------------------------------------------------------------------
(* Types *)

LEMMA NewMessageType == NewMessage \in Message
<1>1. NoTransport \in Transport
  BY DEF NoTransport, Transport, Number
<1>2. 0 \in 0 .. MaxTransports
  BY BoundsAssumption
<1>3. <<>> \in Seq(STRING)
  OBVIOUS
<1>4. QED BY <1>1, <1>2, <1>3 DEF NewMessage, Message, Number, Time

LEMMA InitTypes == Init => TypeOK
<1> SUFFICES ASSUME Init PROVE TypeOK
  OBVIOUS
<1>1. reply \in Message
  BY NewMessageType DEF Init
<1>2. lines \in Seq(Lines) /\ Len(lines) = 0
  BY DEF Init
<1>3. received \in 0 .. 2 /\ idx \in 1 .. Len(lines) + 1
  BY <1>2 DEF Init
<1>4. setBack \in BOOLEAN
  BY Zenon DEF Init
<1>5. QED BY <1>1, <1>2, <1>3, <1>4 DEF Init, TypeOK

LEMMA NextTypes == TypeOK /\ [Next]_vars => TypeOK'
<1> SUFFICES ASSUME TypeOK, [Next]_vars PROVE TypeOK'
  OBVIOUS
<1>0. Len(lines) \in Nat /\ lines \in Seq(Lines) /\ idx \in Nat
  <2>1. lines \in Seq(Lines)
    BY DEF TypeOK
  <2>2. Len(lines) \in Nat
    BY <2>1, LenProperties
  <2>3. QED BY <2>1, <2>2 DEF TypeOK
<1>1. CASE Receive
  <2>1. PICK msg \in Messages : lines' = lines \o <<[key |-> "unknown", val |-> <<>>]>> \o msg
    BY <1>1 DEF Receive
  <2>2. lines' \in Seq(Lines) /\ Len(lines') >= 1 /\ Len(lines') \in Nat
    <3> DEFINE st == <<[key |-> "unknown", val |-> <<>>]>>
    <3>1. msg \in Seq(Lines)
      BY MessagesAssumption
    <3>2. st \in Seq(Lines) /\ Len(st) = 1
      <4>1. <<>> \in Seq(STRING)
        OBVIOUS
      <4>2. [key |-> "unknown", val |-> <<>>] \in Lines
        BY <4>1 DEF Lines, Keys
      <4>3. QED BY <4>2
    <3> HIDE DEF st
    <3>3. st \o msg \in Seq(Lines) /\ Len(st \o msg) = 1 + Len(msg) /\ Len(msg) \in Nat
      BY <3>1, <3>2, ConcatProperties, LenProperties, ZenonT(60)
    <3>4. lines \o st \in Seq(Lines) /\ Len(lines \o st) = Len(lines) + 1
      <4> PICK q \in Seq(Lines) : q = lines
        BY <1>0
      <4>1. q \o st \in Seq(Lines) /\ Len(q \o st) = Len(q) + 1
        BY <3>2, ConcatProperties
      <4>2. QED BY <4>1
    <3>5. /\ (lines \o st) \o msg \in Seq(Lines)
          /\ Len((lines \o st) \o msg) = Len(lines \o st) + Len(msg)
      BY <3>1, <3>4, ConcatProperties
    <3>6. lines' = (lines \o st) \o msg
      BY <2>1 DEF st
    <3>7. QED BY <1>0, <3>3, <3>4, <3>5, <3>6
  <2>3. received' \in 0 .. 2
    BY <1>1 DEF Receive, TypeOK
  <2>4. QED BY <1>1, <2>2, <2>3 DEF Receive, TypeOK
<1>2. CASE Parse
  <2> PICK t1 \in 0 .. MaxClock, t2 \in 0 .. MaxClock :
        /\ reply' = ParseLine(reply, lines[idx], t1, t2)
        /\ setBack' = IF IsClocked(lines[idx]) THEN t2 < t1 ELSE setBack
    BY <1>2, Zenon DEF Parse
  <2>1. /\ reply' = ParseLine(reply, lines[idx], t1, t2)
        /\ setBack' = IF IsClocked(lines[idx]) THEN t2 < t1 ELSE setBack
    OBVIOUS
  <2>2. t1 \in Nat /\ t2 \in Nat
    BY BoundsAssumption
  <2>3. lines[idx] \in Lines
    BY <1>0, <1>2, ElementOfSeq DEF Parse, TypeOK
  <2>4. reply \in Message /\ Readable(lines[idx])
    BY <1>2 DEF Parse, TypeOK
  <2>5. ParseLine(reply, lines[idx], t1, t2) \in Message
    BY <2>2, <2>3, <2>4, LineType
  <2>6. reply' \in Message
    BY <2>1, <2>5
  <2>7. idx' \in 1 .. Len(lines) + 1
    BY <1>0, <1>2 DEF Parse, TypeOK
  <2>8. setBack' \in BOOLEAN
    <3> DEFINE b == IsClocked(lines[idx])
    <3>1. setBack' = IF b THEN t2 < t1 ELSE setBack
      BY <2>1
    <3> HIDE DEF b
    <3>2. (t2 < t1) \in BOOLEAN /\ setBack \in BOOLEAN
      BY <2>2 DEF TypeOK
    <3>3. QED BY <3>1, <3>2
  <2>9. QED BY <1>2, <2>6, <2>7, <2>8 DEF Parse, TypeOK
<1>3. CASE Throw
  BY <1>3 DEF Throw, TypeOK
<1>4. CASE Parsed
  BY <1>4 DEF Parsed, TypeOK
<1>5. CASE UNCHANGED vars
  BY <1>5 DEF vars, TypeOK
<1>6. QED BY <1>1, <1>2, <1>3, <1>4, <1>5 DEF Next

\* TypeOK of every behaviour: no header leaves anything in the message that is
\* not of its type, as long as nothing is thrown (rtsp_parse_line).
THEOREM TypeCorrect == Spec => []TypeOK
<1>1. QED BY InitTypes, NextTypes, PTL DEF Spec

-------------------------------------------------------------------------------
(* One line read into two messages *)

\* A place that holds the same in both, or what it held in each.
Kept(a1, b1, a, b) == a1 = b1 \/ (a1 = a /\ b1 = b)

AlikeTransports(t1, u1, t, u) ==
    /\ Kept(t1.lower, u1.lower, t.lower, u.lower)
    /\ \A r \in Ranges : Kept(t1.ranges[r], u1.ranges[r], t.ranges[r], u.ranges[r])
    /\ Kept(t1.ttl, u1.ttl, t.ttl, u.ttl)
    /\ Kept(t1.mode_record, u1.mode_record, t.mode_record, u.mode_record)
    /\ Kept(t1.rtp, u1.rtp, t.rtp, u.rtp)

LEMMA AlikeFurther ==
  ASSUME NEW t2, NEW u2, NEW t1, NEW u1, NEW t, NEW u,
         AlikeTransports(t2, u2, t1, u1), AlikeTransports(t1, u1, t, u)
  PROVE  AlikeTransports(t2, u2, t, u)
  BY DEF AlikeTransports, Kept

\* A field is read into both in the same way.
LEMMA FieldAlike ==
  ASSUME NEW t \in Transport, NEW u \in Transport, NEW field, t.lower = u.lower
  PROVE  /\ AlikeTransports(ReadField(t, field), ReadField(u, field), t, u)
         /\ ReadField(t, field).lower = ReadField(u, field).lower
<1> DEFINE name == CutUntilChar(field, {"="}, FALSE).head
           text == CutUntilChar(field, {"="}, FALSE).rest
           R(x) ==
             CASE name = <<"multicast">> -> Multicast(x)
               [] Len(name) = 1 /\ name[1] \in Ranges -> [x EXCEPT !.ranges[name[1]] = ParseRange(text)]
               [] name = <<"ttl">> -> [x EXCEPT !.ttl = ValueOf(text)]
               [] name = <<"mode">> ->
                    [x EXCEPT !.mode_record = IF text \in {<<"record">>, <<"receive">>} THEN 1 ELSE @]
               [] OTHER -> x
           M(x) == [x EXCEPT !.mode_record = IF text \in {<<"record">>, <<"receive">>} THEN 1 ELSE @]
<1>1. ReadField(t, field) = R(t) /\ ReadField(u, field) = R(u)
  BY DEF ReadField
<1>2. \/ R(t) = Multicast(t) /\ R(u) = Multicast(u)
      \/ /\ name[1] \in Ranges
         /\ R(t) = [t EXCEPT !.ranges[name[1]] = ParseRange(text)]
         /\ R(u) = [u EXCEPT !.ranges[name[1]] = ParseRange(text)]
      \/ R(t) = [t EXCEPT !.ttl = ValueOf(text)] /\ R(u) = [u EXCEPT !.ttl = ValueOf(text)]
      \/ R(t) = M(t) /\ R(u) = M(u)
      \/ R(t) = t /\ R(u) = u
  <2> HIDE DEF name, text
  <2>1. QED OBVIOUS
<1> HIDE DEF name, text, R
<1> DEFINE Goal(x, y) == AlikeTransports(x, y, t, u) /\ x.lower = y.lower
<1>3. CASE R(t) = Multicast(t) /\ R(u) = Multicast(u)
  <2>1. Goal(Multicast(t), Multicast(u))
    BY DEF Multicast, AlikeTransports, Kept, Transport
  <2>2. QED BY <1>1, <1>3, <2>1
<1>4. CASE /\ name[1] \in Ranges
           /\ R(t) = [t EXCEPT !.ranges[name[1]] = ParseRange(text)]
           /\ R(u) = [u EXCEPT !.ranges[name[1]] = ParseRange(text)]
  <2> DEFINE x == [t EXCEPT !.ranges[name[1]] = ParseRange(text)]
             y == [u EXCEPT !.ranges[name[1]] = ParseRange(text)]
  <2>1. Goal(x, y)
    BY <1>4 DEF AlikeTransports, Kept, Transport
  <2>2. QED BY <1>1, <1>4, <2>1
<1>5. CASE R(t) = [t EXCEPT !.ttl = ValueOf(text)] /\ R(u) = [u EXCEPT !.ttl = ValueOf(text)]
  <2>1. Goal([t EXCEPT !.ttl = ValueOf(text)], [u EXCEPT !.ttl = ValueOf(text)])
    BY DEF AlikeTransports, Kept, Transport
  <2>2. QED BY <1>1, <1>5, <2>1
<1>6. CASE R(t) = M(t) /\ R(u) = M(u)
  <2>1. Goal(M(t), M(u))
    BY DEF AlikeTransports, Kept, Transport
  <2>2. QED BY <1>1, <1>6, <2>1
<1>7. CASE R(t) = t /\ R(u) = u
  <2>1. Goal(t, u)
    BY DEF AlikeTransports, Kept
  <2>2. QED BY <1>1, <1>7, <2>1
<1>8. QED BY <1>2, <1>3, <1>4, <1>5, <1>6, <1>7

LEMMA FieldsAlike ==
  ASSUME NEW t \in Transport, NEW u \in Transport, t.lower = u.lower,
         NEW T, NEW fields \in Seq(T), \A i \in DOMAIN fields : ReadableField(fields[i])
  PROVE  AlikeTransports(FoldLeft(ReadField, t, fields), FoldLeft(ReadField, u, fields), t, u)
<1> DEFINE n == Len(fields)
<1>1. n \in Nat
  BY LenProperties
<1> PICK p \in [0 .. n -> Transport] :
            /\ p[0] = t
            /\ \A k \in 1 .. n : p[k] = ReadField(p[k - 1], fields[k])
            /\ FoldLeft(ReadField, t, fields) = p[n]
  BY FieldsRead, ZenonT(60)
<1> PICK q \in [0 .. n -> Transport] :
            /\ q[0] = u
            /\ \A k \in 1 .. n : q[k] = ReadField(q[k - 1], fields[k])
            /\ FoldLeft(ReadField, u, fields) = q[n]
  BY FieldsRead, ZenonT(60)
<1> DEFINE Good(k) == AlikeTransports(p[k], q[k], t, u) /\ p[k].lower = q[k].lower
           S == {k \in Nat : k <= n => Good(k)}
<1> HIDE DEF n
<1>2. 0 \in S
  BY <1>1 DEF AlikeTransports, Kept
<1>3. \A k \in Nat : k \in S => k + 1 \in S
  <2> SUFFICES ASSUME NEW k \in Nat, k \in S, k + 1 <= n PROVE Good(k + 1)
    <3> HIDE DEF Good
    <3> QED OBVIOUS
  <2>1. Good(k)
    <3> HIDE DEF Good
    <3>1. k <= n
      BY <1>1
    <3>2. QED BY <3>1
  <2>2. k \in 0 .. n /\ k + 1 \in 1 .. n /\ (k + 1) - 1 = k
    BY <1>1
  <2>3. p[k + 1] = ReadField(p[k], fields[k + 1]) /\ q[k + 1] = ReadField(q[k], fields[k + 1])
    BY <2>2
  <2>4. p[k] \in Transport /\ q[k] \in Transport
    BY <2>2
  <2>5. /\ AlikeTransports(p[k + 1], q[k + 1], p[k], q[k])
        /\ p[k + 1].lower = q[k + 1].lower
    BY <2>1, <2>3, <2>4, FieldAlike
  <2>6. AlikeTransports(p[k + 1], q[k + 1], t, u)
    BY <2>1, <2>5, AlikeFurther
  <2>7. QED BY <2>5, <2>6
<1>4. Nat \subseteq S
  <2> HIDE DEF S
  <2> QED BY <1>2, <1>3, SetInduction
<1>5. Good(n)
  <2> HIDE DEF Good
  <2>1. n \in S /\ n <= n
    BY <1>1, <1>4
  <2>2. QED BY <2>1
<1>6. QED BY <1>5 DEF n

\* Two readings at the same place of a header.
Abreast(m, w) == m.nb = w.nb /\ m.lower = w.lower /\ m.bad = w.bad

AlikeArrays(a1, b1, a, b) ==
    \A p \in 1 .. MaxTransports : AlikeTransports(a1[p], b1[p], a[p], b[p])

\* A transport is read into both in the same way.
LEMMA TransportAlike ==
  ASSUME NEW m \in Reading, NEW w \in Reading, Abreast(m, w), NEW text \in Seq(Chars)
  PROVE  LET m1 == ReadTransport(m, text)
             w1 == ReadTransport(w, text)
         IN /\ Abreast(m1, w1)
            /\ AlikeArrays(m1.transports, w1.transports, m.transports, w.transports)
<1> DEFINE lead   == Leading(text, m.lower)
           fields == Split(lead.rest, ";")
           read(x) == FoldLeft(ReadField, Started(x, lead), fields)
           Result(x) ==
             IF ~Room(x.nb) \/ x.bad THEN x
             ELSE IF lead.bad \/ \E i \in DOMAIN fields : ~ReadableField(fields[i])
               THEN [x EXCEPT !.bad = TRUE]
             ELSE [x EXCEPT !.lower = lead.lower, !.nb = x.nb + 1,
                            !.transports[x.nb + 1] = read(x)]
           Goal(x, y) == /\ Abreast(x, y)
                         /\ AlikeArrays(x.transports, y.transports, m.transports, w.transports)
<1>1. m.lower \in Seq(Chars) /\ m.nb \in Nat
  BY BoundsAssumption DEF Reading
<1>2. /\ lead.rtp \in BOOLEAN /\ lead.bad \in BOOLEAN
      /\ lead.lower \in Seq(Chars) /\ lead.rest \in Seq(Chars)
  BY <1>1, LeadingType
<1>3. ReadTransport(m, text) = Result(m)
  BY DEF ReadTransport, Started
<1>4. ReadTransport(w, text) = Result(w)
  <2>1. lead = Leading(text, w.lower)
    BY DEF Abreast
  <2> HIDE DEF lead
  <2>2. QED BY <2>1 DEF ReadTransport, Started
<1> HIDE DEF lead
<1>5. fields \in Seq(Seq(Chars))
  BY <1>2, SplitType
<1> HIDE DEF fields
<1>6. SUFFICES Goal(Result(m), Result(w))
  BY <1>3, <1>4
<1>7. CASE ~Room(m.nb) \/ m.bad
  <2>1. Result(m) = m /\ Result(w) = w
    BY <1>7 DEF Abreast
  <2>2. Goal(m, w)
    BY DEF AlikeArrays, AlikeTransports, Kept
  <2>3. QED BY <2>1, <2>2
<1>8. CASE ~(~Room(m.nb) \/ m.bad) /\ (lead.bad \/ \E i \in DOMAIN fields : ~ReadableField(fields[i]))
  <2> DEFINE x == [m EXCEPT !.bad = TRUE]
             y == [w EXCEPT !.bad = TRUE]
  <2>1. Result(m) = x /\ Result(w) = y
    BY <1>8 DEF Abreast
  <2>2. Goal(x, y)
    BY DEF AlikeArrays, AlikeTransports, Kept, Abreast, Reading
  <2>3. QED BY <2>1, <2>2
<1>9. CASE ~(~Room(m.nb) \/ m.bad) /\ ~(lead.bad \/ \E i \in DOMAIN fields : ~ReadableField(fields[i]))
  <2> DEFINE k == m.nb + 1
             a == [m.transports EXCEPT ![k] = read(m)]
             b == [w.transports EXCEPT ![k] = read(w)]
             x == [m EXCEPT !.lower = lead.lower, !.nb = k, !.transports = a]
             y == [w EXCEPT !.lower = lead.lower, !.nb = k, !.transports = b]
  <2>1. Result(m) = x /\ Result(w) = y
    BY <1>9 DEF Abreast
  <2>2. k \in 1 .. MaxTransports /\ m.nb < MaxTransports /\ w.nb < MaxTransports
    BY <1>1, <1>9, BoundsAssumption DEF Room, Abreast
  <2>3. m.transports[k] \in Transport /\ w.transports[k] \in Transport
    BY <2>2 DEF Reading
  <2>4. Started(m, lead) \in Transport /\ Started(w, lead) \in Transport
    BY <1>2, <2>2, StartedType
  <2>5. /\ AlikeTransports(Started(m, lead), Started(w, lead), m.transports[k], w.transports[k])
        /\ Started(m, lead).lower = Started(w, lead).lower
    <3>1. w.nb + 1 = k
      BY DEF Abreast
    <3> HIDE DEF k
    <3>2. QED BY <1>2, <2>3, <3>1 DEF Started, Abreast, AlikeTransports, Kept, Transport
  <2>6. AlikeTransports(read(m), read(w), Started(m, lead), Started(w, lead))
    BY <1>5, <1>9, <2>4, <2>5, FieldsAlike
  <2>7. AlikeTransports(read(m), read(w), m.transports[k], w.transports[k])
    BY <2>5, <2>6, AlikeFurther
  <2> HIDE DEF read, k
  <2>8. AlikeArrays(a, b, m.transports, w.transports)
    <3> SUFFICES ASSUME NEW p \in 1 .. MaxTransports
                 PROVE  AlikeTransports(a[p], b[p], m.transports[p], w.transports[p])
      BY DEF AlikeArrays
    <3>1. p = k => a[p] = read(m) /\ b[p] = read(w)
      BY DEF Reading
    <3>2. p # k => a[p] = m.transports[p] /\ b[p] = w.transports[p]
      BY DEF Reading
    <3>3. p # k => AlikeTransports(m.transports[p], w.transports[p], m.transports[p], w.transports[p])
      BY DEF AlikeTransports, Kept
    <3> HIDE DEF a, b
    <3>4. QED BY <2>7, <3>1, <3>2, <3>3
  <2> HIDE DEF a, b
  <2>9. Goal(x, y)
    BY <2>8 DEF Abreast, Reading
  <2>10. QED BY <2>1, <2>9
<1>10. QED BY <1>7, <1>8, <1>9

LEMMA ArraysFurther ==
  ASSUME NEW a2, NEW b2, NEW a1, NEW b1, NEW a, NEW b,
         AlikeArrays(a2, b2, a1, b1), AlikeArrays(a1, b1, a, b)
  PROVE  AlikeArrays(a2, b2, a, b)
<1> SUFFICES ASSUME NEW p \in 1 .. MaxTransports
             PROVE  AlikeTransports(a2[p], b2[p], a[p], b[p])
  BY DEF AlikeArrays
<1>1. AlikeTransports(a2[p], b2[p], a1[p], b1[p]) /\ AlikeTransports(a1[p], b1[p], a[p], b[p])
  BY DEF AlikeArrays
<1>2. QED BY <1>1, AlikeFurther

\* A Transport header leaves as many transports in both, and reads them alike.
LEMMA HeaderAlike ==
  ASSUME NEW x \in Message, NEW y \in Message, NEW text \in Seq(Chars)
  PROVE  LET m == ParseTransport(x, text)
             w == ParseTransport(y, text)
         IN /\ m.nb = w.nb /\ m.bad = w.bad
            /\ AlikeArrays(m.transports, w.transports, x.transports, y.transports)
<1> DEFINE pieces == Split(text, LineEnd)
           n == Len(pieces)
<1>1. pieces \in Seq(Seq(Chars))
  BY SplitType
<1>2. /\ ParseTransport(x, text) = FoldLeft(ReadTransport, Cleared(x), pieces)
      /\ ParseTransport(y, text) = FoldLeft(ReadTransport, Cleared(y), pieces)
  BY DEF ParseTransport, Cleared
<1> HIDE DEF pieces
<1>3. n \in Nat /\ \A i \in 1 .. n : pieces[i] \in Seq(Chars)
  BY <1>1, LenProperties, ElementOfSeq
<1> PICK p \in [0 .. n -> Reading] :
            /\ p[0] = Cleared(x)
            /\ \A k \in 1 .. n : p[k] = ReadTransport(p[k - 1], pieces[k])
            /\ FoldLeft(ReadTransport, Cleared(x), pieces) = p[n]
  BY <1>1, ClearedType, TransportsRead
<1> PICK q \in [0 .. n -> Reading] :
            /\ q[0] = Cleared(y)
            /\ \A k \in 1 .. n : q[k] = ReadTransport(q[k - 1], pieces[k])
            /\ FoldLeft(ReadTransport, Cleared(y), pieces) = q[n]
  BY <1>1, ClearedType, TransportsRead
<1> DEFINE Good(k) == /\ Abreast(p[k], q[k])
                      /\ AlikeArrays(p[k].transports, q[k].transports, x.transports, y.transports)
           S == {k \in Nat : k <= n => Good(k)}
<1> HIDE DEF n
<1>4. 0 \in S
  <2>1. Good(0)
    BY DEF Cleared, Abreast, AlikeArrays, AlikeTransports, Kept
  <2>2. QED BY <2>1
<1>5. \A k \in Nat : k \in S => k + 1 \in S
  <2> SUFFICES ASSUME NEW k \in Nat, k \in S, k + 1 <= n PROVE Good(k + 1)
    <3> HIDE DEF Good
    <3> QED OBVIOUS
  <2>1. Good(k)
    <3> HIDE DEF Good
    <3>1. k <= n
      BY <1>3
    <3>2. QED BY <3>1
  <2>2. k \in 0 .. n /\ k + 1 \in 1 .. n /\ (k + 1) - 1 = k
    BY <1>3
  <2>3. /\ p[k + 1] = ReadTransport(p[k], pieces[k + 1])
        /\ q[k + 1] = ReadTransport(q[k], pieces[k + 1])
    BY <2>2
  <2>4. p[k] \in Reading /\ q[k] \in Reading /\ pieces[k + 1] \in Seq(Chars)
    BY <1>3, <2>2
  <2>5. /\ Abreast(p[k + 1], q[k + 1])
        /\ AlikeArrays(p[k + 1].transports, q[k + 1].transports, p[k].transports, q[k].transports)
    BY <2>1, <2>3, <2>4, TransportAlike
  <2>6. AlikeArrays(p[k + 1].transports, q[k + 1].transports, x.transports, y.transports)
    BY <2>1, <2>5, ArraysFurther
  <2>7. QED BY <2>5, <2>6
<1>6. Nat \subseteq S
  <2> HIDE DEF S
  <2> QED BY <1>4, <1>5, SetInduction
<1>7. Good(n)
  <2> HIDE DEF Good
  <2>1. n \in S /\ n <= n
    BY <1>3, <1>6
  <2>2. QED BY <2>1
<1>8. QED BY <1>2, <1>7 DEF Abreast

\* What a line leaves in two messages, the times apart.
Alike(x1, y1, x, y) ==
    /\ \A k \in Numbers : Kept(x1.numbers[k], y1.numbers[k], x.numbers[k], y.numbers[k])
    /\ \A k \in Texts : Kept(x1.texts[k], y1.texts[k], x.texts[k], y.texts[k])
    /\ Kept(x1.get_parameter, y1.get_parameter, x.get_parameter, y.get_parameter)
    /\ Kept(x1.session, y1.session, x.session, y.session)
    /\ Kept(x1.timeout, y1.timeout, x.timeout, y.timeout)
    /\ Kept(x1.nb, y1.nb, x.nb, y.nb)
    /\ AlikeArrays(x1.transports, y1.transports, x.transports, y.transports)

\* The cases of a line, the same for both messages.
Effects(q1, q2, x, y, line, text, t1, t2, u1, u2) ==
    \/ /\ line.key \in Numbers
       /\ q1 = [x EXCEPT !.numbers[line.key] = ValueOf(text)]
       /\ q2 = [y EXCEPT !.numbers[line.key] = ValueOf(text)]
    \/ /\ line.key \in Texts
       /\ q1 = [x EXCEPT !.texts[line.key] = text] /\ q2 = [y EXCEPT !.texts[line.key] = text]
    \/ LET c == "GET_PARAMETER" \in ToSet(text) /\ method = "OPTIONS"
       IN q1 = [x EXCEPT !.get_parameter = @ \/ c] /\ q2 = [y EXCEPT !.get_parameter = @ \/ c]
    \/ q1 = RangeNpt(x, text, t1, t2) /\ q2 = RangeNpt(y, text, u1, u2)
    \/ LET h    == CutUntilChar(text, {";"}, FALSE).head
           T(r) == IF HasTimeout(text) THEN ValueOf(Timeout(text)) ELSE r.timeout
       IN /\ q1 = [x EXCEPT !.session = h, !.timeout = T(x)]
          /\ q2 = [y EXCEPT !.session = h, !.timeout = T(y)]
    \/ LET m == ParseTransport(x, text)
           w == ParseTransport(y, text)
       IN /\ q1 = [x EXCEPT !.nb = m.nb, !.transports = m.transports]
          /\ q2 = [y EXCEPT !.nb = w.nb, !.transports = w.transports]
    \/ q1 = x /\ q2 = y

LEMMA LineEffects ==
  ASSUME NEW x, NEW y, NEW line, NEW t1, NEW t2, NEW u1, NEW u2
  PROVE  Effects(ParseLine(x, line, t1, t2), ParseLine(y, line, u1, u2), x, y, line,
                 SkipBlanks(line.val), t1, t2, u1, u2)
<1> DEFINE text == SkipBlanks(line.val)
           k == line.key
           c == "GET_PARAMETER" \in ToSet(text) /\ method = "OPTIONS"
           h == CutUntilChar(text, {";"}, FALSE).head
           T(r) == IF HasTimeout(text) THEN ValueOf(Timeout(text)) ELSE r.timeout
           m(r) == ParseTransport(r, text)
           npt == IsNpt(text)
           s == ValueOf(text)
           P(r, a, b) ==
             CASE k \in Numbers -> [r EXCEPT !.numbers[k] = s]
               [] k \in Texts   -> [r EXCEPT !.texts[k] = text]
               [] k = "Public"  -> [r EXCEPT !.get_parameter = @ \/ c]
               [] k = "Range" /\ npt -> RangeNpt(r, text, a, b)
               [] k = "Session" -> [r EXCEPT !.session = h, !.timeout = T(r)]
               [] k = "Transport" -> [r EXCEPT !.nb = m(r).nb, !.transports = m(r).transports]
               [] OTHER -> r
<1>1. ParseLine(x, line, t1, t2) = P(x, t1, t2) /\ ParseLine(y, line, u1, u2) = P(y, u1, u2)
  BY DEF ParseLine, IsClocked
<1> DEFINE q1 == P(x, t1, t2)
           q2 == P(y, u1, u2)
<1>2. \/ /\ k \in Numbers
         /\ q1 = [x EXCEPT !.numbers[k] = s] /\ q2 = [y EXCEPT !.numbers[k] = s]
      \/ /\ k \in Texts
         /\ q1 = [x EXCEPT !.texts[k] = text] /\ q2 = [y EXCEPT !.texts[k] = text]
      \/ /\ q1 = [x EXCEPT !.get_parameter = @ \/ c] /\ q2 = [y EXCEPT !.get_parameter = @ \/ c]
      \/ q1 = RangeNpt(x, text, t1, t2) /\ q2 = RangeNpt(y, text, u1, u2)
      \/ /\ q1 = [x EXCEPT !.session = h, !.timeout = T(x)]
         /\ q2 = [y EXCEPT !.session = h, !.timeout = T(y)]
      \/ /\ q1 = [x EXCEPT !.nb = m(x).nb, !.transports = m(x).transports]
         /\ q2 = [y EXCEPT !.nb = m(y).nb, !.transports = m(y).transports]
      \/ q1 = x /\ q2 = y
  <2> HIDE DEF text, k, c, h, T, m, npt, s
  <2>1. QED OBVIOUS
<1> HIDE DEF P
<1>3. Effects(q1, q2, x, y, line, text, t1, t2, u1, u2)
  BY <1>2 DEF Effects
<1>4. QED BY <1>1, <1>3

\* A line is read into both in the same way, whatever the clock is.
LEMMA LineAlike ==
  ASSUME NEW x \in Message, NEW y \in Message, NEW line \in Lines,
         NEW t1, NEW t2, NEW u1, NEW u2
  PROVE  Alike(ParseLine(x, line, t1, t2), ParseLine(y, line, u1, u2), x, y)
<1> DEFINE text == SkipBlanks(line.val)
           q1 == ParseLine(x, line, t1, t2)
           q2 == ParseLine(y, line, u1, u2)
<1>1. text \in Seq(Chars)
  BY ValueType
<1>2. Effects(q1, q2, x, y, line, text, t1, t2, u1, u2)
  BY LineEffects
<1> SUFFICES Alike(q1, q2, x, y)
  OBVIOUS
<1> HIDE DEF text, q1, q2
<1>3. AlikeArrays(x.transports, y.transports, x.transports, y.transports)
  BY DEF AlikeArrays, AlikeTransports, Kept
<1>4. CASE /\ line.key \in Numbers
           /\ q1 = [x EXCEPT !.numbers[line.key] = ValueOf(text)]
           /\ q2 = [y EXCEPT !.numbers[line.key] = ValueOf(text)]
  BY <1>3, <1>4 DEF Alike, Kept, Message
<1>5. CASE /\ line.key \in Texts
           /\ q1 = [x EXCEPT !.texts[line.key] = text]
           /\ q2 = [y EXCEPT !.texts[line.key] = text]
  BY <1>3, <1>5 DEF Alike, Kept, Message
<1> DEFINE c == "GET_PARAMETER" \in ToSet(text) /\ method = "OPTIONS"
<1>6. CASE q1 = [x EXCEPT !.get_parameter = @ \/ c] /\ q2 = [y EXCEPT !.get_parameter = @ \/ c]
  <2> HIDE DEF c
  <2> DEFINE a == x.get_parameter \/ c
             b == y.get_parameter \/ c
  <2>1. Kept(a, b, x.get_parameter, y.get_parameter)
    <3>1. CASE c
      <4>1. a = TRUE /\ b = TRUE
        BY <3>1
      <4>2. QED BY <4>1 DEF Kept
    <3>2. CASE ~c
      <4>1. a = x.get_parameter /\ b = y.get_parameter
        BY <3>2 DEF Message
      <4>2. QED BY <4>1 DEF Kept
    <3>3. QED BY <3>1, <3>2
  <2>2. q1 = [x EXCEPT !.get_parameter = a] /\ q2 = [y EXCEPT !.get_parameter = b]
    BY <1>6
  <2> HIDE DEF a, b
  <2>3. QED BY <1>3, <2>1, <2>2 DEF Alike, Kept, Message
<1>7. CASE q1 = RangeNpt(x, text, t1, t2) /\ q2 = RangeNpt(y, text, u1, u2)
  <2> DEFINE vec == Split(SkipBlanks(Tail(text)), "-")
             S(a) == IF vec = <<>> THEN NOPTS ELSE Timestr(vec[1], a)
             E(b) == IF Len(vec) < 2 THEN NOPTS ELSE Timestr(vec[2], b)
  <2>1. /\ q1 = [x EXCEPT !.start = S(t1), !.end = E(t2)]
        /\ q2 = [y EXCEPT !.start = S(u1), !.end = E(u2)]
    BY <1>7 DEF RangeNpt
  <2> HIDE DEF S, E
  <2>2. QED BY <1>3, <2>1 DEF Alike, Kept, Message
<1> DEFINE h    == CutUntilChar(text, {";"}, FALSE).head
           T(r) == IF HasTimeout(text) THEN ValueOf(Timeout(text)) ELSE r.timeout
<1>8. CASE /\ q1 = [x EXCEPT !.session = h, !.timeout = T(x)]
           /\ q2 = [y EXCEPT !.session = h, !.timeout = T(y)]
  <2>1. Kept(T(x), T(y), x.timeout, y.timeout)
    BY DEF Kept
  <2> HIDE DEF h, T
  <2>2. QED BY <1>3, <1>8, <2>1 DEF Alike, Kept, Message
<1> DEFINE m == ParseTransport(x, text)
           w == ParseTransport(y, text)
<1>9. CASE /\ q1 = [x EXCEPT !.nb = m.nb, !.transports = m.transports]
           /\ q2 = [y EXCEPT !.nb = w.nb, !.transports = w.transports]
  <2>1. m.nb = w.nb /\ AlikeArrays(m.transports, w.transports, x.transports, y.transports)
    BY <1>1, HeaderAlike
  <2> HIDE DEF m, w
  <2>2. QED BY <1>9, <2>1 DEF Alike, Kept, Message
<1>10. CASE q1 = x /\ q2 = y
  BY <1>3, <1>10 DEF Alike, Kept
<1>11. QED BY <1>2, <1>4, <1>5, <1>6, <1>7, <1>8, <1>9, <1>10 DEF Effects

-------------------------------------------------------------------------------
(* Reading lines twice *)

Either(a, b, c) == a = b \/ a = c

\* Every place of t holds what it holds in u, or what it holds in v.
MixedTransports(t, u, v) ==
    /\ Either(t.lower, u.lower, v.lower)
    /\ \A r \in Ranges : Either(t.ranges[r], u.ranges[r], v.ranges[r])
    /\ Either(t.ttl, u.ttl, v.ttl)
    /\ Either(t.mode_record, u.mode_record, v.mode_record)
    /\ Either(t.rtp, u.rtp, v.rtp)

Mixed(x, y, z) ==
    /\ \A k \in Numbers : Either(x.numbers[k], y.numbers[k], z.numbers[k])
    /\ \A k \in Texts : Either(x.texts[k], y.texts[k], z.texts[k])
    /\ Either(x.get_parameter, y.get_parameter, z.get_parameter)
    /\ Either(x.session, y.session, z.session)
    /\ Either(x.timeout, y.timeout, z.timeout)
    /\ Either(x.nb, y.nb, z.nb)
    /\ \A p \in 1 .. MaxTransports :
         MixedTransports(x.transports[p], y.transports[p], z.transports[p])

\* A line read into both leaves the message mixed of the other, as that line
\* leaves it, and of what it was mixed of before.
LEMMA StaysMixed ==
  ASSUME NEW x1, NEW y1, NEW x, NEW y, NEW z, Alike(x1, y1, x, y), Mixed(x, y, z)
  PROVE  Mixed(x1, y1, z)
<1>1. \A a1, b1, a, b, c : Kept(a1, b1, a, b) /\ Either(a, b, c) => Either(a1, b1, c)
  BY DEF Kept, Either
<1>2. \A p \in 1 .. MaxTransports :
        MixedTransports(x1.transports[p], y1.transports[p], z.transports[p])
  <2> SUFFICES ASSUME NEW p \in 1 .. MaxTransports
               PROVE  MixedTransports(x1.transports[p], y1.transports[p], z.transports[p])
    OBVIOUS
  <2>1. /\ AlikeTransports(x1.transports[p], y1.transports[p], x.transports[p], y.transports[p])
        /\ MixedTransports(x.transports[p], y.transports[p], z.transports[p])
    BY DEF Alike, AlikeArrays, Mixed
  <2>2. QED BY <1>1, <2>1, Zenon DEF AlikeTransports, MixedTransports
<1>3. /\ \A k \in Numbers : Either(x1.numbers[k], y1.numbers[k], z.numbers[k])
      /\ \A k \in Texts : Either(x1.texts[k], y1.texts[k], z.texts[k])
      /\ Either(x1.get_parameter, y1.get_parameter, z.get_parameter)
      /\ Either(x1.session, y1.session, z.session)
      /\ Either(x1.timeout, y1.timeout, z.timeout)
      /\ Either(x1.nb, y1.nb, z.nb)
  BY <1>1, Zenon DEF Alike, Mixed
<1>4. QED BY <1>2, <1>3 DEF Mixed

\* A message that is mixed of one message only stays so.
LEMMA StaysPure ==
  ASSUME NEW x1, NEW y1, NEW x, NEW y, Alike(x1, y1, x, y), Mixed(x, y, y)
  PROVE  Mixed(x1, y1, y1)
<1>1. \A p \in 1 .. MaxTransports :
        MixedTransports(x1.transports[p], y1.transports[p], y1.transports[p])
  <2> SUFFICES ASSUME NEW p \in 1 .. MaxTransports
               PROVE  MixedTransports(x1.transports[p], y1.transports[p], y1.transports[p])
    OBVIOUS
  <2>1. /\ AlikeTransports(x1.transports[p], y1.transports[p], x.transports[p], y.transports[p])
        /\ MixedTransports(x.transports[p], y.transports[p], y.transports[p])
    BY DEF Alike, AlikeArrays, Mixed
  <2>2. QED BY <2>1 DEF AlikeTransports, MixedTransports, Kept, Either
<1>2. /\ \A k \in Numbers : Either(x1.numbers[k], y1.numbers[k], y1.numbers[k])
      /\ \A k \in Texts : Either(x1.texts[k], y1.texts[k], y1.texts[k])
      /\ Either(x1.get_parameter, y1.get_parameter, y1.get_parameter)
      /\ Either(x1.session, y1.session, y1.session)
      /\ Either(x1.timeout, y1.timeout, y1.timeout)
      /\ Either(x1.nb, y1.nb, y1.nb)
  BY DEF Alike, Mixed, Kept, Either
<1>3. QED BY <1>1, <1>2 DEF Mixed

\* Every message is mixed of itself.
LEMMA MixedOfItself == ASSUME NEW x, NEW z PROVE Mixed(x, x, z)
  BY DEF Mixed, MixedTransports, Either

\* Then they are the same, but for the times.
LEMMA PureSame ==
  ASSUME NEW x \in Message, NEW y \in Message, Mixed(x, y, y)
  PROVE  Untimed(x) = Untimed(y)
<1>1. x.transports = y.transports
  <2>1. \A p \in 1 .. MaxTransports : x.transports[p] = y.transports[p]
    <3> SUFFICES ASSUME NEW p \in 1 .. MaxTransports PROVE x.transports[p] = y.transports[p]
      OBVIOUS
    <3> DEFINE t == x.transports[p]
               u == y.transports[p]
    <3>1. t \in Transport /\ u \in Transport /\ MixedTransports(t, u, u)
      BY DEF Message, Mixed
    <3> HIDE DEF t, u
    <3>2. t.ranges = u.ranges
      BY <3>1 DEF Transport, MixedTransports, Either
    <3>3. /\ t.lower = u.lower /\ t.ttl = u.ttl
          /\ t.mode_record = u.mode_record /\ t.rtp = u.rtp
      BY <3>1 DEF MixedTransports, Either
    <3>4. t = u
      <4> DEFINE Copy(v) == [lower |-> v.lower, ranges |-> v.ranges, ttl |-> v.ttl,
                             mode_record |-> v.mode_record, rtp |-> v.rtp]
      <4>1. \A v \in Transport : v = Copy(v)
        BY DEF Transport
      <4>2. Copy(t) = Copy(u)
        BY <3>2, <3>3
      <4> HIDE DEF Copy
      <4>3. t = Copy(t) /\ u = Copy(u)
        BY <3>1, <4>1
      <4>4. QED BY <4>2, <4>3
    <3>5. QED BY <3>4 DEF t, u
  <2>2. /\ x.transports \in [1 .. MaxTransports -> Transport]
        /\ y.transports \in [1 .. MaxTransports -> Transport]
    BY DEF Message
  <2> DEFINE a == x.transports
             b == y.transports
  <2> HIDE DEF a, b
  <2>3. a \in [1 .. MaxTransports -> Transport] /\ b \in [1 .. MaxTransports -> Transport]
    BY <2>2 DEF a, b
  <2>4. \A p \in 1 .. MaxTransports : a[p] = b[p]
    BY <2>1 DEF a, b
  <2>5. a = b
    <3> DEFINE D == 1 .. MaxTransports
    <3>1. a \in [D -> Transport] /\ b \in [D -> Transport] /\ \A p \in D : a[p] = b[p]
      BY <2>3, <2>4
    <3> HIDE DEF D
    <3>2. a = [p \in D |-> a[p]] /\ b = [p \in D |-> b[p]]
      BY <3>1
    <3>3. [p \in D |-> a[p]] = [p \in D |-> b[p]]
      BY <3>1
    <3>4. QED BY <3>2, <3>3
  <2>6. QED BY <2>5 DEF a, b
<1>2. x.numbers = y.numbers /\ x.texts = y.texts
  BY DEF Message, Mixed, Either
<1>3. /\ x.get_parameter = y.get_parameter /\ x.session = y.session
      /\ x.timeout = y.timeout /\ x.nb = y.nb
  BY DEF Mixed, Either
<1>4. QED BY <1>1, <1>2, <1>3 DEF Message, Untimed

LEMMA OnceType ==
  ASSUME NEW r \in Message, NEW line \in Lines, Readable(line)
  PROVE  Once(r, line) \in Message
  BY LineType DEF Once

\* The messages on the way from a new one, through the lines of s up to the n-th.
Reads(p, s, n) ==
    /\ p[0] = NewMessage
    /\ \A k \in 1 .. n : Readable(s[k]) /\ p[k] = Once(p[k - 1], s[k])

\* What the recursion of FoldLeft says of Once.
ReadsLines(f, s) ==
    f = [d \in SUBSET DOMAIN s |->
           IF d = {} THEN NewMessage ELSE Once(f[d \ {Max(d)}], s[Max(d)])]

\* The last of these messages is what FoldLeft makes of the lines.
LEMMA LinesRead ==
  ASSUME NEW s \in Seq(Lines), NEW p \in [0 .. Len(s) -> Message], Reads(p, s, Len(s))
  PROVE  FoldLeft(Once, NewMessage, s) = p[Len(s)]
<1> DEFINE n == Len(s)
           step == [i \in 1 .. n |-> [x \in Message |-> Once(x, s[i])]]
<1>1. n \in Nat /\ DOMAIN s = 1 .. n /\ \A i \in 1 .. n : s[i] \in Lines /\ Readable(s[i])
  BY LenProperties, ElementOfSeq DEF Reads
<1>2. step \in [1 .. n -> [Message -> Message]]
  BY <1>1, OnceType
<1>3. \A i \in 1 .. n : \A x \in Message : step[i][x] = Once(x, s[i])
  OBVIOUS
<1>4. p \in [0 .. n -> Message] /\ Reads(p, s, n) /\ NewMessage \in Message
  BY NewMessageType
<1> HIDE DEF step
<1>5. \E f : ReadsLines(f, s)
  <2>1. PICK f \in [SUBSET (1 .. n) -> Message] : FoldsTo(f, NewMessage, step, n)
    BY <1>1, <1>2, <1>4, FoldExists
  <2>2. \A d \in SUBSET (1 .. n) :
           f[d] = IF d = {} THEN NewMessage ELSE Once(f[d \ {Max(d)}], s[Max(d)])
    <3> SUFFICES ASSUME NEW d \in SUBSET (1 .. n), d # {}
                 PROVE  f[d] = Once(f[d \ {Max(d)}], s[Max(d)])
      BY <2>1 DEF FoldsTo
    <3>1. f[d] = step[Max(d)][f[d \ {Max(d)}]]
      BY <2>1 DEF FoldsTo
    <3>2. Max(d) \in 1 .. n /\ f[d \ {Max(d)}] \in Message
      BY <1>1, <2>1, GreatestOne
    <3>3. QED BY <1>3, <3>1, <3>2
  <2>3. QED BY <1>1, <2>1, <2>2 DEF ReadsLines
<1> DEFINE g == CHOOSE f : ReadsLines(f, s)
<1>6. ReadsLines(g, s)
  BY <1>5, Zenon
<1>7. FoldLeft(Once, NewMessage, s) = g[DOMAIN s]
  BY DEF FoldLeft, MapThenFoldSet, ReadsLines
<1> HIDE DEF g
<1>8. /\ g[{}] = NewMessage
      /\ \A d \in SUBSET (1 .. n) :
           d # {} => g[d] = Once(g[d \ {Max(d)}], s[Max(d)])
  <2> DEFINE h == [d \in SUBSET DOMAIN s |->
                     IF d = {} THEN NewMessage ELSE Once(g[d \ {Max(d)}], s[Max(d)])]
  <2>1. g = h
    BY <1>6 DEF ReadsLines
  <2>2. /\ h[{}] = NewMessage
        /\ \A d \in SUBSET DOMAIN s :
             d # {} => h[d] = Once(g[d \ {Max(d)}], s[Max(d)])
    OBVIOUS
  <2> HIDE DEF h
  <2>3. QED BY <1>1, <2>1, <2>2
<1> DEFINE S == {k \in Nat : k <= n => g[1 .. k] = p[k]}
<1> HIDE DEF n
<1>9. 0 \in S
  <2>1. 1 .. 0 = {}
    OBVIOUS
  <2>2. QED BY <1>4, <1>8, <2>1 DEF Reads
<1>10. \A k \in Nat : k \in S => k + 1 \in S
  <2> SUFFICES ASSUME NEW k \in Nat, k <= n => g[1 .. k] = p[k], k + 1 <= n
               PROVE  g[1 .. k + 1] = p[k + 1]
    OBVIOUS
  <2> DEFINE d == 1 .. k + 1
  <2>1. d \in SUBSET (1 .. n) /\ d # {} /\ Max(d) = k + 1 /\ d \ {k + 1} = 1 .. k
    BY <1>1, LastPlace
  <2>2. g[1 .. k] = p[k]
    BY <1>1
  <2>3. k + 1 \in 1 .. n /\ (k + 1) - 1 = k
    BY <1>1
  <2> HIDE DEF d
  <2>4. g[d] = Once(p[k], s[k + 1])
    BY <1>8, <2>1, <2>2
  <2>5. p[k + 1] = Once(p[k], s[k + 1])
    BY <1>4, <2>3 DEF Reads
  <2>6. QED BY <2>4, <2>5 DEF d
<1>11. Nat \subseteq S
  <2> HIDE DEF S
  <2> QED BY <1>9, <1>10, SetInduction
<1>12. g[1 .. n] = p[n]
  BY <1>1, <1>11
<1>13. QED BY <1>1, <1>7, <1>12 DEF n

StatusLine == [key |-> "unknown", val |-> <<>>]

\* The first m lines have been read; what the message holds is what they leave
\* in it, or what the lines before idx leave, which are being read again.
Overlaid ==
    /\ lines # <<>> => lines[1] = StatusLine
    /\ status = "idle" => idx = Len(lines) + 1
    /\ \E m \in Nat :
         /\ idx - 1 <= m /\ m <= Len(lines)
         /\ \E p \in [0 .. m -> Message] :
              Reads(p, lines, m) /\ Mixed(reply, p[idx - 1], p[m])

LEMMA InitOverlaid == Init => Overlaid
<1> SUFFICES ASSUME Init PROVE Overlaid
  OBVIOUS
<1> DEFINE p == [k \in 0 .. 0 |-> NewMessage]
<1>1. p \in [0 .. 0 -> Message] /\ p[0] = NewMessage
  BY NewMessageType
<1>2. lines = <<>> /\ Len(lines) = 0 /\ idx = 1 /\ reply = NewMessage
  BY DEF Init
<1> HIDE DEF p
<1>3. Reads(p, lines, 0)
  BY <1>1 DEF Reads
<1>4. Mixed(reply, p[0], p[0])
  BY <1>1, <1>2, MixedOfItself
<1>5. QED BY <1>1, <1>2, <1>3, <1>4 DEF Overlaid

\* The status line leaves every message as it is.
LEMMA StatusLineRead ==
  /\ StatusLine \in Lines /\ Readable(StatusLine)
  /\ \A r : Once(r, StatusLine) = r
<1>1. StatusLine.key = "unknown" /\ StatusLine.val = <<>>
  BY DEF StatusLine
<1>2. StatusLine \in Lines
  <2>1. <<>> \in Seq(STRING)
    OBVIOUS
  <2>2. QED BY <2>1 DEF StatusLine, Lines, Keys
<1>3. "unknown" \notin Numbers /\ "unknown" \notin Texts
  BY DEF Numbers, Texts
<1>4. Readable(StatusLine)
  BY <1>1, <1>3 DEF Readable, IsClocked
<1>5. \A r : Once(r, StatusLine) = r
  BY <1>1, <1>3 DEF Once, ParseLine, IsClocked
<1>6. QED BY <1>2, <1>4, <1>5

\* Once looks at the method, which nothing changes.
LEMMA SameReading ==
  ASSUME method' = method
  PROVE  /\ \A r, line : Once(r, line)' = Once(r, line)
         /\ \A p, s, n : Reads(p, s, n)' = Reads(p, s, n)
<1>1. \A r, line : Once(r, line)' = Once(r, line)
  BY DEF Once, ParseLine
<1>2. QED BY <1>1 DEF Reads

\* What Receive leaves of the lines that were there.
LEMMA LinesReceived ==
  ASSUME TypeOK, Receive
  PROVE  /\ Len(lines) \in Nat /\ Len(lines') \in Nat /\ Len(lines) + 1 <= Len(lines')
         /\ \A k \in 1 .. Len(lines) : lines'[k] = lines[k]
         /\ lines'[Len(lines) + 1] = StatusLine
<1>1. PICK msg \in Messages : lines' = lines \o <<[key |-> "unknown", val |-> <<>>]>> \o msg
  BY DEF Receive
<1> DEFINE st == <<StatusLine>>
<1>2. msg \in Seq(Lines) /\ Len(msg) \in Nat
  BY MessagesAssumption, LenProperties
<1>3. st \in Seq(Lines) /\ Len(st) = 1 /\ st[1] = StatusLine
  BY StatusLineRead
<1>4. lines' = (lines \o st) \o msg
  BY <1>1 DEF StatusLine
<1> PICK q \in Seq(Lines) : q = lines
  BY DEF TypeOK
<1> HIDE DEF st
<1>5. /\ q \o st \in Seq(Lines) /\ Len(q) \in Nat /\ Len(q \o st) = Len(q) + 1
      /\ \A k \in 1 .. Len(q) : (q \o st)[k] = q[k]
      /\ (q \o st)[Len(q) + 1] = StatusLine
  <2>1. Len(q) \in Nat
    BY LenProperties
  <2>2. /\ q \o st \in Seq(Lines) /\ Len(q \o st) = Len(q) + Len(st)
        /\ \A i \in 1 .. Len(q) + Len(st) :
             (q \o st)[i] = IF i <= Len(q) THEN q[i] ELSE st[i - Len(q)]
    BY <1>3, ConcatProperties
  <2>3. (q \o st)[Len(q) + 1] = st[(Len(q) + 1) - Len(q)]
    BY <1>3, <2>1, <2>2
  <2>4. (Len(q) + 1) - Len(q) = 1
    BY <2>1
  <2>5. QED BY <1>3, <2>1, <2>2, <2>3, <2>4
<1> DEFINE u == q \o st
<1> HIDE DEF u
<1>6. u \in Seq(Lines) /\ Len(u) \in Nat
  BY <1>5, LenProperties DEF u
<1>7. Len(u \o msg) = Len(u) + Len(msg) /\ \A k \in 1 .. Len(u) : (u \o msg)[k] = u[k]
  BY <1>2, <1>6, ConcatProperties
<1>8. lines' = u \o msg
  BY <1>4 DEF u
<1>9. /\ Len(u) = Len(q) + 1 /\ \A k \in 1 .. Len(q) : u[k] = q[k]
      /\ u[Len(q) + 1] = StatusLine
  BY <1>5 DEF u
<1>10. QED BY <1>2, <1>5, <1>6, <1>7, <1>8, <1>9

LEMMA MixedFurther ==
  ASSUME NEW x, NEW y, NEW z, Mixed(x, z, z)
  PROVE  Mixed(x, y, z)
  BY DEF Mixed, MixedTransports, Either

LEMMA ReceiveOverlaid == TypeOK /\ Overlaid /\ Receive => Overlaid'
<1> SUFFICES ASSUME TypeOK, Overlaid, Receive PROVE Overlaid'
  OBVIOUS
<1> DEFINE n == Len(lines)
<1>1. /\ n \in Nat /\ Len(lines') \in Nat /\ n + 1 <= Len(lines')
      /\ \A k \in 1 .. n : lines'[k] = lines[k]
      /\ lines'[n + 1] = StatusLine
  BY LinesReceived
<1>2. idx' = 2 /\ reply' = reply /\ method' = method /\ status' = "parsing" /\ idx = n + 1
  BY DEF Receive, Overlaid
<1> PICK m \in Nat :
       /\ idx - 1 <= m /\ m <= Len(lines)
       /\ \E p \in [0 .. m -> Message] : Reads(p, lines, m) /\ Mixed(reply, p[idx - 1], p[m])
  BY DEF Overlaid
<1> PICK p \in [0 .. m -> Message] : Reads(p, lines, m) /\ Mixed(reply, p[idx - 1], p[m])
  OBVIOUS
<1>3. m = n /\ idx - 1 = n
  BY <1>1, <1>2
<1>4. p \in [0 .. n -> Message] /\ Reads(p, lines, n) /\ Mixed(reply, p[n], p[n])
  BY <1>3
<1>5. lines' # <<>> /\ lines'[1] = StatusLine
  <2>1. lines' # <<>>
    BY <1>1
  <2>2. n # 0 => lines # <<>> /\ 1 \in 1 .. n
    BY <1>1
  <2>3. n # 0 => lines'[1] = StatusLine
    BY <1>1, <2>2 DEF Overlaid
  <2>4. n = 0 => lines'[1] = StatusLine
    BY <1>1
  <2>5. QED BY <2>1, <2>3, <2>4
<1>6. \E k \in Nat :
        /\ 1 <= k /\ k <= Len(lines')
        /\ \E q \in [0 .. k -> Message] : Reads(q, lines', k) /\ Mixed(reply, q[1], q[k])
  <2>1. CASE n = 0
    <3> DEFINE q == [k \in 0 .. 1 |-> NewMessage]
    <3>1. q \in [0 .. 1 -> Message] /\ q[0] = NewMessage /\ q[1] = NewMessage
      BY NewMessageType
    <3> HIDE DEF q
    <3>2. Mixed(reply, q[1], q[1])
      BY <1>4, <2>1, <3>1 DEF Reads
    <3>3. Reads(q, lines', 1)
      BY <1>5, <3>1, StatusLineRead DEF Reads
    <3>4. 1 \in Nat /\ 1 <= 1 /\ 1 <= Len(lines')
      BY <1>1
    <3>5. QED BY <3>1, <3>2, <3>3, <3>4
  <2>2. CASE n # 0
    <3>1. Reads(p, lines', n)
      BY <1>1, <1>4 DEF Reads
    <3>2. Mixed(reply, p[1], p[n])
      BY <1>4, MixedFurther
    <3>3. n \in Nat /\ 1 <= n /\ n <= Len(lines')
      BY <1>1, <2>2
    <3>4. QED BY <1>4, <3>1, <3>2, <3>3
  <2>3. QED BY <2>1, <2>2
<1>7. \E k \in Nat :
        /\ idx' - 1 <= k /\ k <= Len(lines')
        /\ \E q \in [0 .. k -> Message] : Reads(q, lines, k)' /\ Mixed(reply', q[idx' - 1], q[k])
  <2>1. idx' - 1 = 1
    BY <1>2
  <2>2. PICK k \in Nat :
          /\ 1 <= k /\ k <= Len(lines')
          /\ \E q \in [0 .. k -> Message] : Reads(q, lines', k) /\ Mixed(reply, q[1], q[k])
    BY <1>6
  <2>3. PICK q \in [0 .. k -> Message] : Reads(q, lines', k) /\ Mixed(reply, q[1], q[k])
    BY <2>2
  <2>4. Reads(q, lines, k)'
    BY <1>2, <2>3, SameReading DEF Reads
  <2>5. QED BY <1>2, <2>1, <2>2, <2>3, <2>4
<1>8. QED BY <1>2, <1>5, <1>7 DEF Overlaid

LEMMA ParseOverlaid == TypeOK /\ TypeOK' /\ Overlaid /\ Parse => Overlaid'
<1> SUFFICES ASSUME TypeOK, TypeOK', Overlaid, Parse PROVE Overlaid'
  OBVIOUS
<1> DEFINE line == lines[idx]
<1>1. /\ Len(lines) \in Nat /\ idx \in 1 .. Len(lines) /\ line \in Lines /\ Readable(line)
      /\ idx' = idx + 1 /\ lines' = lines /\ method' = method /\ status' = status
      /\ status = "parsing"
  BY LenProperties, ElementOfSeq DEF Parse, TypeOK
<1> PICK t1 \in 0 .. MaxClock, t2 \in 0 .. MaxClock : reply' = ParseLine(reply, line, t1, t2)
  BY Zenon DEF Parse
<1> HIDE DEF line
<1> PICK m \in Nat :
       /\ idx - 1 <= m /\ m <= Len(lines)
       /\ \E p \in [0 .. m -> Message] : Reads(p, lines, m) /\ Mixed(reply, p[idx - 1], p[m])
  BY DEF Overlaid
<1> PICK p \in [0 .. m -> Message] : Reads(p, lines, m) /\ Mixed(reply, p[idx - 1], p[m])
  OBVIOUS
<1> DEFINE y == p[idx - 1]
<1>2. y \in Message /\ reply \in Message
  BY <1>1 DEF TypeOK
<1> HIDE DEF y
<1>3. Alike(reply', Once(y, line), reply, y)
  <2>1. reply' = ParseLine(reply, line, t1, t2)
    OBVIOUS
  <2>2. Once(y, line) = ParseLine(y, line, 0, 0)
    BY DEF Once
  <2>3. Alike(ParseLine(reply, line, t1, t2), ParseLine(y, line, 0, 0), reply, y)
    BY <1>1, <1>2, LineAlike
  <2>4. QED BY <2>1, <2>2, <2>3
<1>4. Mixed(reply, y, p[m])
  BY DEF y
<1>5. \E k \in Nat :
        /\ idx <= k /\ k <= Len(lines)
        /\ \E q \in [0 .. k -> Message] : Reads(q, lines, k) /\ Mixed(reply', q[idx], q[k])
  <2>1. CASE idx <= m
    <3>1. p[idx] = Once(y, line)
      BY <1>1, <2>1 DEF Reads, y, line
    <3>2. Mixed(reply', p[idx], p[m])
      BY <1>3, <1>4, <3>1, StaysMixed
    <3>3. QED BY <2>1, <3>2
  <2>2. CASE ~(idx <= m)
    <3>1. idx = m + 1 /\ idx - 1 = m
      BY <1>1, <2>2
    <3> DEFINE q == [k \in 0 .. m + 1 |-> IF k <= m THEN p[k] ELSE Once(y, line)]
    <3>2. Once(y, line) \in Message
      BY <1>1, <1>2, OnceType
    <3>3. q \in [0 .. m + 1 -> Message]
      BY <3>2
    <3>4. q[m + 1] = Once(y, line) /\ \A k \in 0 .. m : q[k] = p[k]
      OBVIOUS
    <3> HIDE DEF q
    <3>5. Reads(q, lines, m + 1)
      <4>1. q[0] = NewMessage
        BY <3>4 DEF Reads
      <4>2. \A k \in 1 .. m : Readable(lines[k]) /\ q[k] = Once(q[k - 1], lines[k])
        <5> SUFFICES ASSUME NEW k \in 1 .. m
                     PROVE  Readable(lines[k]) /\ q[k] = Once(q[k - 1], lines[k])
          OBVIOUS
        <5>1. q[k] = p[k] /\ q[k - 1] = p[k - 1]
          BY <3>4
        <5>2. QED BY <5>1 DEF Reads
      <4>3. Readable(lines[m + 1]) /\ q[m + 1] = Once(q[m], lines[m + 1])
        <5>1. q[m] = y
          BY <3>1, <3>4 DEF y
        <5>2. QED BY <1>1, <3>1, <3>4, <5>1 DEF line
      <4>4. \A k \in 1 .. m + 1 : k \in 1 .. m \/ k = m + 1
        OBVIOUS
      <4>5. (m + 1) - 1 = m
        OBVIOUS
      <4>6. QED BY <4>1, <4>2, <4>3, <4>4, <4>5 DEF Reads
    <3>6. Mixed(reply, y, y)
      BY <1>4, <3>1 DEF y
    <3>7. Mixed(reply', q[m + 1], q[m + 1])
      BY <1>3, <3>4, <3>6, StaysPure
    <3>8. m + 1 \in Nat /\ idx <= m + 1 /\ m + 1 <= Len(lines)
      BY <1>1, <3>1
    <3>9. QED BY <3>1, <3>3, <3>5, <3>7, <3>8
  <2>3. QED BY <2>1, <2>2
<1>6. \E k \in Nat :
        /\ idx' - 1 <= k /\ k <= Len(lines')
        /\ \E q \in [0 .. k -> Message] : Reads(q, lines, k)' /\ Mixed(reply', q[idx' - 1], q[k])
  <2>1. idx' - 1 = idx
    BY <1>1
  <2>2. PICK k \in Nat :
          /\ idx <= k /\ k <= Len(lines)
          /\ \E q \in [0 .. k -> Message] : Reads(q, lines, k) /\ Mixed(reply', q[idx], q[k])
    BY <1>5
  <2>3. PICK q \in [0 .. k -> Message] : Reads(q, lines, k) /\ Mixed(reply', q[idx], q[k])
    BY <2>2
  <2>4. Reads(q, lines, k)'
    BY <1>1, <2>3, SameReading DEF Reads
  <2>5. QED BY <1>1, <2>1, <2>2, <2>3, <2>4
<1>7. QED BY <1>1, <1>6 DEF Overlaid

LEMMA NextOverlaid == TypeOK /\ TypeOK' /\ Overlaid /\ [Next]_vars => Overlaid'
<1> SUFFICES ASSUME TypeOK, TypeOK', Overlaid, [Next]_vars PROVE Overlaid'
  OBVIOUS
<1>1. CASE Receive
  BY <1>1, ReceiveOverlaid
<1>2. CASE Parse
  BY <1>2, ParseOverlaid
<1> DEFINE Same == /\ lines' = lines /\ method' = method /\ idx' = idx /\ reply' = reply
                   /\ status' = "idle" => status = "idle" \/ idx = Len(lines) + 1
<1>3. CASE Same
  <2>1. \E m \in Nat :
          /\ idx - 1 <= m /\ m <= Len(lines)
          /\ \E p \in [0 .. m -> Message] : Reads(p, lines, m) /\ Mixed(reply, p[idx - 1], p[m])
    BY DEF Overlaid
  <2>2. \A p, s, n : Reads(p, s, n)' = Reads(p, s, n)
    BY <1>3, SameReading
  <2>3. \A p, m : Reads(p, lines, m)' = Reads(p, lines, m)
    BY <1>3, <2>2, ZenonT(60) DEF Reads
  <2>4. QED BY <1>3, <2>1, <2>3 DEF Overlaid
<1>4. CASE Throw
  <2>1. Same
    BY <1>4 DEF Throw
  <2>2. QED BY <1>3, <2>1
<1>5. CASE Parsed
  <2>1. Len(lines) \in Nat
    <3>1. lines \in Seq(Lines)
      BY DEF TypeOK
    <3>2. QED BY <3>1, LenProperties
  <2>2. Same
    BY <1>5, <2>1 DEF Parsed, TypeOK
  <2>3. QED BY <1>3, <2>2
<1>6. CASE UNCHANGED vars
  <2>1. Same
    BY <1>6 DEF vars
  <2>2. QED BY <1>3, <2>1
<1>7. QED BY <1>1, <1>2, <1>4, <1>5, <1>6 DEF Next

LEMMA OverlaidHarmless == TypeOK /\ Overlaid => ReparseHarmless
<1> SUFFICES ASSUME TypeOK, Overlaid, status = "idle"
             PROVE  Untimed(reply) = Untimed(FoldLeft(Once, NewMessage, lines))
  BY DEF ReparseHarmless
<1>1. lines \in Seq(Lines) /\ Len(lines) \in Nat
  BY LenProperties DEF TypeOK
<1> PICK m \in Nat :
       /\ idx - 1 <= m /\ m <= Len(lines)
       /\ \E p \in [0 .. m -> Message] : Reads(p, lines, m) /\ Mixed(reply, p[idx - 1], p[m])
  BY DEF Overlaid
<1> PICK p \in [0 .. m -> Message] : Reads(p, lines, m) /\ Mixed(reply, p[idx - 1], p[m])
  OBVIOUS
<1>2. m = Len(lines) /\ idx - 1 = m
  BY <1>1 DEF Overlaid
<1>3. FoldLeft(Once, NewMessage, lines) = p[m]
  <2>1. p \in [0 .. Len(lines) -> Message] /\ Reads(p, lines, Len(lines))
    BY <1>2
  <2>2. QED BY <1>1, <1>2, <2>1, LinesRead
<1>4. p[m] \in Message /\ reply \in Message /\ Mixed(reply, p[m], p[m])
  BY <1>2 DEF TypeOK
<1>5. QED BY <1>3, <1>4, PureSame

\* ReparseHarmless of every behaviour, for any replies whatever: the loop over
\* the SETUPs may read the lines of the first reply again.
THEOREM ReparseIsHarmless == Spec => []ReparseHarmless
<1>1. TypeOK /\ Overlaid /\ [Next]_vars => (TypeOK /\ Overlaid)'
  BY NextTypes, NextOverlaid
<1>2. QED BY InitTypes, InitOverlaid, OverlaidHarmless, <1>1, PTL DEF Spec

-------------------------------------------------------------------------------
(* What is sound can be read *)

LEMMA SpaceMarks ==
  /\ Space # "now" /\ Space # "-"
  /\ LineEnd # "=" /\ LineEnd # "-" /\ LineEnd \notin Ranges \cup {"ttl"}
<1>1. Space # "now" /\ Space # "-"
  BY Zenon DEF Space
<1>2. /\ LineEnd # "=" /\ LineEnd # "-" /\ LineEnd # "ttl"
      /\ LineEnd # "port" /\ LineEnd # "client_port" /\ LineEnd # "server_port"
      /\ LineEnd # "interleaved"
  BY Zenon DEF LineEnd
<1>3. QED BY <1>1, <1>2 DEF Ranges

\* Where str_cut_until_char cuts, and where it goes on.
GoesOn(n, keepSep) == IF keepSep THEN n ELSE n + 1

LEMMA CutAt ==
  ASSUME NEW T, NEW s \in Seq(T), NEW seps, NEW keepSep \in BOOLEAN
  PROVE  LET cut == CutUntilChar(s, seps, keepSep)
         IN \/ (\A i \in 1 .. Len(s) : s[i] \notin seps) /\ cut.head = s /\ cut.rest = <<>>
            \/ \E n \in 1 .. Len(s) :
                 /\ s[n] \in seps /\ \A i \in 1 .. n - 1 : s[i] \notin seps
                 /\ cut.head = SubSeq(s, 1, n - 1)
                 /\ cut.rest = SubSeq(s, GoesOn(n, keepSep), Len(s))
<1> DEFINE I == {i \in 1 .. Len(s) : s[i] \in seps}
           n == SelectInSeq(s, LAMBDA c : c \in seps)
           cut == CutUntilChar(s, seps, keepSep)
<1>1. Len(s) \in Nat
  BY LenProperties
<1>2. cut = IF n = 0 THEN [head |-> s, rest |-> <<>>]
            ELSE [head |-> SubSeq(s, 1, n - 1),
                  rest |-> SubSeq(s, GoesOn(n, keepSep), Len(s))]
  BY Zenon DEF CutUntilChar, GoesOn
<1>3. CASE I = {}
  <2>1. n = 0
    BY <1>3 DEF SelectInSeq
  <2>2. \A i \in 1 .. Len(s) : s[i] \notin seps
    BY <1>3
  <2> HIDE DEF n, cut
  <2>3. cut.head = s /\ cut.rest = <<>>
    BY <1>2, <2>1
  <2>4. QED BY <2>2, <2>3 DEF cut
<1>4. CASE I # {}
  <2>1. n = Min(I)
    BY <1>4 DEF SelectInSeq
  <2>2. I \in SUBSET Nat
    OBVIOUS
  <2>3. Min(I) \in I /\ \A i \in I : Min(I) <= i
    <3> HIDE DEF I
    <3> QED BY <1>4, <2>2, LeastOne
  <2>4. n \in 1 .. Len(s) /\ s[n] \in seps /\ \A i \in 1 .. Len(s) : s[i] \in seps => n <= i
    <3> HIDE DEF n
    <3> QED BY <2>1, <2>3
  <2> HIDE DEF n, I, cut
  <2>5. \A i \in 1 .. n - 1 : s[i] \notin seps
    BY <1>1, <2>4
  <2>6. n # 0
    BY <2>4
  <2>7. /\ cut.head = SubSeq(s, 1, n - 1)
        /\ cut.rest = SubSeq(s, GoesOn(n, keepSep), Len(s))
    BY <1>2, <2>6
  <2>8. QED BY <2>4, <2>5, <2>7 DEF cut
<1>5. QED BY <1>3, <1>4

\* CutAt without and with the separator.
LEMMA CutOff ==
  ASSUME NEW T, NEW s \in Seq(T), NEW seps
  PROVE  LET cut == CutUntilChar(s, seps, FALSE)
         IN \/ (\A i \in 1 .. Len(s) : s[i] \notin seps) /\ cut.head = s /\ cut.rest = <<>>
            \/ \E n \in 1 .. Len(s) :
                 /\ s[n] \in seps /\ \A i \in 1 .. n - 1 : s[i] \notin seps
                 /\ cut.head = SubSeq(s, 1, n - 1) /\ cut.rest = SubSeq(s, n + 1, Len(s))
<1> DEFINE K == FALSE
           cut == CutUntilChar(s, seps, K)
<1>1. s \in Seq(T) /\ K \in BOOLEAN
  OBVIOUS
<1>2. \A n : GoesOn(n, K) = n + 1
  BY DEF GoesOn
<1> HIDE DEF K
<1>3. \/ (\A e \in 1 .. Len(s) : s[e] \notin seps) /\ cut.head = s /\ cut.rest = <<>>
      \/ \E n \in 1 .. Len(s) :
           /\ s[n] \in seps /\ \A e \in 1 .. n - 1 : s[e] \notin seps
           /\ cut.head = SubSeq(s, 1, n - 1) /\ cut.rest = SubSeq(s, GoesOn(n, K), Len(s))
  BY ONLY <1>1, CutAt
<1> HIDE DEF cut
<1>4. \/ (\A e \in 1 .. Len(s) : s[e] \notin seps) /\ cut.head = s /\ cut.rest = <<>>
      \/ \E n \in 1 .. Len(s) :
           /\ s[n] \in seps /\ \A e \in 1 .. n - 1 : s[e] \notin seps
           /\ cut.head = SubSeq(s, 1, n - 1) /\ cut.rest = SubSeq(s, n + 1, Len(s))
  BY <1>2, <1>3
<1>5. QED BY <1>4 DEF cut, K

LEMMA CutKeeping ==
  ASSUME NEW T, NEW s \in Seq(T), NEW seps
  PROVE  LET cut == CutUntilChar(s, seps, TRUE)
         IN \/ (\A i \in 1 .. Len(s) : s[i] \notin seps) /\ cut.head = s /\ cut.rest = <<>>
            \/ \E n \in 1 .. Len(s) :
                 /\ s[n] \in seps /\ \A i \in 1 .. n - 1 : s[i] \notin seps
                 /\ cut.head = SubSeq(s, 1, n - 1) /\ cut.rest = SubSeq(s, n, Len(s))
<1> DEFINE K == TRUE
           cut == CutUntilChar(s, seps, K)
<1>1. s \in Seq(T) /\ K \in BOOLEAN
  OBVIOUS
<1>2. \A n : GoesOn(n, K) = n
  BY DEF GoesOn
<1> HIDE DEF K
<1>3. \/ (\A e \in 1 .. Len(s) : s[e] \notin seps) /\ cut.head = s /\ cut.rest = <<>>
      \/ \E n \in 1 .. Len(s) :
           /\ s[n] \in seps /\ \A e \in 1 .. n - 1 : s[e] \notin seps
           /\ cut.head = SubSeq(s, 1, n - 1) /\ cut.rest = SubSeq(s, GoesOn(n, K), Len(s))
  BY ONLY <1>1, CutAt
<1> HIDE DEF cut
<1>4. \/ (\A e \in 1 .. Len(s) : s[e] \notin seps) /\ cut.head = s /\ cut.rest = <<>>
      \/ \E n \in 1 .. Len(s) :
           /\ s[n] \in seps /\ \A e \in 1 .. n - 1 : s[e] \notin seps
           /\ cut.head = SubSeq(s, 1, n - 1) /\ cut.rest = SubSeq(s, n, Len(s))
  BY <1>2, <1>3
<1>5. QED BY <1>4 DEF cut, K

\* t is the end of s from place i on.
Behind(t, s, i) ==
    /\ i \in 1 .. Len(s) + 1 /\ Len(t) = Len(s) - i + 1
    /\ \A j \in 1 .. Len(t) : t[j] = s[j + i - 1]

LEMMA RestBehind ==
  ASSUME NEW T, NEW s \in Seq(T), NEW i \in 1 .. Len(s) + 1
  PROVE  SubSeq(s, i, Len(s)) \in Seq(T) /\ Behind(SubSeq(s, i, Len(s)), s, i)
<1>1. Len(s) \in Nat
  BY LenProperties
<1> DEFINE t == SubSeq(s, i, Len(s))
<1>2. t \in Seq(T)
  BY <1>1, PieceType
<1>3. CASE i <= Len(s)
  <2>1. Len(t) = Len(s) - i + 1 /\ \A j \in 1 .. Len(s) - i + 1 : t[j] = s[i + j - 1]
    BY <1>1, <1>3, SubSeqProperties
  <2> HIDE DEF t
  <2>2. \A j \in 1 .. Len(t) : t[j] = s[j + i - 1]
    <3> SUFFICES ASSUME NEW j \in 1 .. Len(t) PROVE t[j] = s[j + i - 1]
      OBVIOUS
    <3>1. t[j] = s[i + j - 1]
      BY <2>1
    <3>2. i + j - 1 = j + i - 1
      BY <1>1, <2>1
    <3>3. QED BY <3>1, <3>2
  <2>3. Behind(t, s, i)
    BY <2>1, <2>2 DEF Behind
  <2>4. QED BY <1>2, <2>3 DEF t
<1>4. CASE ~(i <= Len(s))
  <2>1. t = <<>> /\ Len(t) = 0 /\ i = Len(s) + 1
    BY <1>1, <1>4
  <2> HIDE DEF t
  <2>2. Len(t) = Len(s) - i + 1
    BY <1>1, <2>1
  <2>3. Behind(t, s, i)
    BY <1>1, <2>1, <2>2 DEF Behind
  <2>4. QED BY <1>2, <2>3 DEF t
<1>5. QED BY <1>3, <1>4

\* A number is found behind nothing but blanks, and it is the one that is read.
LEMMA NumberFound ==
  ASSUME NEW T, NEW s \in Seq(T), NEW n \in 1 .. Len(s), s[n] \in Digits,
         \A i \in 1 .. n - 1 : s[i] = Space
  PROVE  IsNumber(s) /\ ValueOf(s) = Decimal[s[n]]
<1>1. Len(s) \in Nat /\ DOMAIN s = 1 .. Len(s)
  BY LenProperties
<1>2. Space \notin Digits
  BY MessagesAssumption DEF Marks
<1>3. ~OnlyBlanks(s)
  BY <1>1, <1>2 DEF OnlyBlanks
<1> DEFINE i == SelectInSeq(s, LAMBDA c : c # Space)
<1>4. /\ i \in 1 .. Len(s) /\ s[i] # Space /\ \A j \in 1 .. i - 1 : s[j] = Space
  BY <1>3, FirstCharacter
<1>5. SkipBlanks(s) = SubSeq(s, i, Len(s))
  BY <1>3 DEF SkipBlanks
<1> HIDE DEF i
<1>6. i = n
  <2>1. ~(n < i)
    BY <1>1, <1>2, <1>4
  <2>2. ~(i < n)
    BY <1>1, <1>4
  <2>3. QED BY <1>1, <1>4, <2>1, <2>2
<1>7. SkipBlanks(s)[1] = s[n]
  <2>1. n \in 1 .. Len(s) + 1
    BY <1>1
  <2>2. Behind(SubSeq(s, n, Len(s)), s, n)
    BY <2>1, RestBehind
  <2> DEFINE t == SubSeq(s, n, Len(s))
  <2> HIDE DEF t
  <2>3. Behind(t, s, n)
    BY <2>2 DEF t
  <2>4. 1 \in 1 .. Len(t) /\ 1 + n - 1 = n
    BY <1>1, <2>3 DEF Behind
  <2>5. t[1] = s[n]
    BY <2>3, <2>4 DEF Behind
  <2>6. QED BY <1>5, <1>6, <2>5 DEF t
<1>8. QED BY <1>3, <1>7 DEF IsNumber, ValueOf

LEMMA NumberInFront ==
  ASSUME NEW T, NEW s \in Seq(T), IsDigit(s, 1)
  PROVE  IsNumber(s) /\ (IsIntAt(s, 1) => IsInt(s))
<1>1. 1 \in 1 .. Len(s) /\ s[1] \in Digits
  BY LenProperties DEF IsDigit
<1>2. \A i \in 1 .. 1 - 1 : s[i] = Space
  OBVIOUS
<1>3. IsNumber(s) /\ ValueOf(s) = Decimal[s[1]]
  BY <1>1, <1>2, NumberFound
<1>4. QED BY <1>3 DEF IsIntAt, IsInt

\* An int in front is a number that can be read.
LEMMA IntInFront ==
  ASSUME NEW T, NEW s \in Seq(T), IsIntAt(s, 1)
  PROVE  IsInt(s)
  BY NumberInFront DEF IsIntAt

\* Where a piece begins, and the piece.
Begins(s, sep, i) == s[i] # sep /\ (i = 1 \/ s[i - 1] = sep)

PieceAt(s, sep, i) == SubSeq(s, i, CutBehind(s, sep, i) - 1)

\* A split has the pieces that begin somewhere, all of them, in their order.
LEMMA SplitOrder ==
  ASSUME NEW T, NEW s \in Seq(T), NEW sep
  PROVE  \E g \in [1 .. Len(Split(s, sep)) -> 1 .. Len(s)] :
            /\ \A k \in 1 .. Len(Split(s, sep)) :
                  Begins(s, sep, g[k]) /\ Split(s, sep)[k] = PieceAt(s, sep, g[k])
            /\ \A k, l \in 1 .. Len(Split(s, sep)) : k < l => g[k] < g[l]
            /\ \A i \in 1 .. Len(s) :
                  Begins(s, sep, i) => \E k \in 1 .. Len(Split(s, sep)) : g[k] = i
<1>1. Len(s) \in Nat /\ DOMAIN s = 1 .. Len(s)
  BY LenProperties
<1> DEFINE st == Starting(s, sep)
           vec == Split(s, sep)
<1>2. st \in Seq(Seq(Seq(T))) /\ vec = FlattenSeq(st)
  BY SplitType
<1>3. DOMAIN st = 1 .. Len(s)
  BY <1>1 DEF Starting
<1>4. \A i \in 1 .. Len(s) : st[i] = IF Begins(s, sep, i) THEN <<PieceAt(s, sep, i)>> ELSE <<>>
  BY <1>1 DEF Starting, Begins, PieceAt
<1> HIDE DEF st
<1>5. Len(st) = Len(s)
  BY <1>1, <1>2, <1>3, LenProperties
<1>6. \A i \in 1 .. Len(s) : Begins(s, sep, i) => PieceAt(s, sep, i) \in Seq(T)
  <2> SUFFICES ASSUME NEW i \in 1 .. Len(s), Begins(s, sep, i) PROVE PieceAt(s, sep, i) \in Seq(T)
    OBVIOUS
  <2> DEFINE u == PieceAt(s, sep, i)
  <2> HIDE DEF u
  <2>1. st[i] = <<u>>
    BY <1>4 DEF u
  <2>2. st[i] \in Seq(Seq(T))
    BY <1>2, <1>3, <1>5, ElementOfSeq
  <2>3. u \in Seq(T)
    BY <2>1, <2>2
  <2>4. QED BY <2>3 DEF u
<1>7. \A i \in DOMAIN st : st[i] = <<>> \/ \E x \in Seq(T) : st[i] = <<x>>
  BY <1>3, <1>4, <1>6
<1>8. PICK g : ComesFrom(g, FlattenSeq(st), st, Len(st))
  BY <1>2, <1>7, FlattenComesFrom
<1> HIDE DEF vec
<1>9. /\ g \in [1 .. Len(vec) -> 1 .. Len(s)]
      /\ \A k \in 1 .. Len(vec) : st[g[k]] = <<vec[k]>>
      /\ \A k, l \in 1 .. Len(vec) : k < l => g[k] < g[l]
      /\ \A i \in 1 .. Len(s) : st[i] # <<>> => \E k \in 1 .. Len(vec) : g[k] = i
  BY <1>2, <1>5, <1>8 DEF ComesFrom
<1>10. \A k \in 1 .. Len(vec) : Begins(s, sep, g[k]) /\ vec[k] = PieceAt(s, sep, g[k])
  <2> SUFFICES ASSUME NEW k \in 1 .. Len(vec)
               PROVE  Begins(s, sep, g[k]) /\ vec[k] = PieceAt(s, sep, g[k])
    OBVIOUS
  <2>1. g[k] \in 1 .. Len(s) /\ st[g[k]] = <<vec[k]>>
    BY <1>9
  <2> DEFINE u == PieceAt(s, sep, g[k])
             v == vec[k]
  <2> HIDE DEF u, v
  <2>2. st[g[k]] = IF Begins(s, sep, g[k]) THEN <<u>> ELSE <<>>
    BY <1>4, <2>1 DEF u
  <2>3. st[g[k]] = <<v>>
    BY <2>1 DEF v
  <2>4. Begins(s, sep, g[k])
    <3>1. <<>> # <<v>>
      BY ONLY SMT
    <3>2. QED BY ONLY <2>2, <2>3, <3>1, Zenon
  <2>5. u = v
    BY ONLY <2>2, <2>3, <2>4, SMTT(60)
  <2>6. QED BY <2>4, <2>5 DEF u, v
<1>11. \A i \in 1 .. Len(s) : Begins(s, sep, i) => st[i] # <<>>
  <2> SUFFICES ASSUME NEW i \in 1 .. Len(s), Begins(s, sep, i) PROVE st[i] # <<>>
    OBVIOUS
  <2> DEFINE u == PieceAt(s, sep, i)
  <2> HIDE DEF u
  <2>1. st[i] = <<u>>
    BY <1>4 DEF u
  <2> DEFINE v == st[i]
  <2>2. Len(v) = 1
    BY ONLY <2>1
  <2> HIDE DEF v
  <2>3. v # <<>>
    BY ONLY <2>2
  <2>4. QED BY <2>3 DEF v
<1>12. QED BY <1>9, <1>10, <1>11 DEF vec

\* A piece goes on to the next separator.
LEMMA PieceAtIs ==
  ASSUME NEW T, NEW s \in Seq(T), NEW sep, NEW i \in 1 .. Len(s), Begins(s, sep, i)
  PROVE  LET t == PieceAt(s, sep, i)
             c == CutBehind(s, sep, i)
         IN /\ t \in Seq(T) /\ Len(t) = c - i /\ DOMAIN t = 1 .. c - i
            /\ i < c /\ c \in 1 .. Len(s) + 1
            /\ \A j \in 1 .. c - i : t[j] = s[i + j - 1]
            /\ c <= Len(s) => s[c] = sep
            /\ \A j \in i .. c - 1 : s[j] # sep
<1> DEFINE c == CutBehind(s, sep, i)
<1>1. Len(s) \in Nat /\ DOMAIN s = 1 .. Len(s)
  BY LenProperties
<1>2. /\ c \in i .. Len(s) + 1
      /\ c <= Len(s) => s[c] = sep
      /\ \A e \in i .. c - 1 : s[e] # sep
  BY CutBehindAt
<1>3. s[i] # sep /\ PieceAt(s, sep, i) = SubSeq(s, i, c - 1)
  BY DEF Begins, PieceAt
<1> HIDE DEF c
<1>4. i < c
  BY <1>1, <1>2, <1>3
<1> DEFINE e == c - 1
           t == SubSeq(s, i, e)
<1>5. e \in 1 .. Len(s) /\ i <= e /\ e - i + 1 = c - i /\ c \in 1 .. Len(s) + 1
  BY <1>1, <1>2, <1>4
<1> HIDE DEF e
<1>6. t \in Seq(T) /\ Len(t) = e - i + 1 /\ \A j \in 1 .. e - i + 1 : t[j] = s[i + j - 1]
  BY <1>1, <1>5, SubSeqProperties
<1> HIDE DEF t
<1>7. DOMAIN t = 1 .. c - i
  BY <1>5, <1>6, LenProperties
<1>8. QED BY <1>2, <1>3, <1>4, <1>5, <1>6, <1>7 DEF t, e, c

\* Every piece of a split starts behind a separator or in front, and goes on to
\* the next one.
LEMMA SplitPieces ==
  ASSUME NEW T, NEW s \in Seq(T), NEW sep, NEW k \in DOMAIN Split(s, sep)
  PROVE  \E i, c \in 1 .. Len(s) + 1 :
            /\ i < c /\ s[i] # sep /\ (i = 1 \/ s[i - 1] = sep)
            /\ c <= Len(s) => s[c] = sep
            /\ \A j \in i .. c - 1 : s[j] # sep
            /\ Split(s, sep)[k] = SubSeq(s, i, c - 1)
<1> DEFINE vec == Split(s, sep)
<1>1. vec \in Seq(Seq(T))
  BY SplitType
<1>2. \E i \in 1 .. Len(s) : Begins(s, sep, i) /\ vec[k] = PieceAt(s, sep, i)
  <2>1. PICK g \in [1 .. Len(vec) -> 1 .. Len(s)] :
          \A l \in 1 .. Len(vec) : Begins(s, sep, g[l]) /\ vec[l] = PieceAt(s, sep, g[l])
    BY SplitOrder
  <2> HIDE DEF vec
  <2>2. k \in 1 .. Len(vec)
    BY <1>1, LenProperties DEF vec
  <2>3. QED BY <2>1, <2>2
<1> HIDE DEF vec
<1>3. PICK i \in 1 .. Len(s) : Begins(s, sep, i) /\ vec[k] = PieceAt(s, sep, i)
  BY <1>2
<1> DEFINE c == CutBehind(s, sep, i)
<1>4. /\ i < c /\ c \in 1 .. Len(s) + 1
      /\ c <= Len(s) => s[c] = sep
      /\ \A j \in i .. c - 1 : s[j] # sep
  BY <1>3, PieceAtIs
<1>5. s[i] # sep /\ (i = 1 \/ s[i - 1] = sep) /\ vec[k] = SubSeq(s, i, c - 1)
  BY <1>3 DEF Begins, PieceAt
<1> HIDE DEF c
<1>6. i \in 1 .. Len(s) + 1
  BY LenProperties
<1>7. QED BY <1>4, <1>5, <1>6 DEF vec

\* A text that does not start with the separator has a piece.
LEMMA SplitNonempty ==
  ASSUME NEW T, NEW s \in Seq(T), NEW sep, 1 \in DOMAIN s, s[1] # sep
  PROVE  Split(s, sep) # <<>>
<1> DEFINE vec == Split(s, sep)
<1>1. 1 \in 1 .. Len(s) /\ Begins(s, sep, 1)
  BY LenProperties DEF Begins
<1>2. PICK g \in [1 .. Len(vec) -> 1 .. Len(s)] :
        \A i \in 1 .. Len(s) : Begins(s, sep, i) => \E k \in 1 .. Len(vec) : g[k] = i
  BY SplitOrder
<1> HIDE DEF vec
<1>3. Len(vec) # 0
  <2>1. PICK k \in 1 .. Len(vec) : g[k] = 1
    BY <1>1, <1>2
  <2>2. vec \in Seq(Seq(T))
    BY SplitType DEF vec
  <2>3. Len(vec) \in Nat
    BY <2>2, LenProperties
  <2>4. QED BY <2>1, <2>3
<1>4. vec # <<>>
  BY <1>3
<1>5. QED BY <1>4 DEF vec

\* What is no separator is in a piece.
LEMMA SplitCovers ==
  ASSUME NEW T, NEW s \in Seq(T), NEW sep, NEW j \in 1 .. Len(s), s[j] # sep
  PROVE  \E i \in 1 .. j : Begins(s, sep, i) /\ j < CutBehind(s, sep, i)
<1> DEFINE I == {i \in 1 .. j : \A h \in i .. j : s[h] # sep}
           i == Min(I)
<1>1. Len(s) \in Nat
  BY LenProperties
<1>2. j \in I /\ I \in SUBSET Nat
  OBVIOUS
<1>3. i \in I /\ \A h \in I : i <= h
  <2> HIDE DEF I
  <2> QED BY <1>2, LeastOne
<1>4. i \in 1 .. j /\ \A h \in i .. j : s[h] # sep
  <2> HIDE DEF i
  <2> QED BY <1>3
<1>5. i # 1 => s[i - 1] = sep
  <2> SUFFICES ASSUME i # 1, s[i - 1] # sep PROVE FALSE
    OBVIOUS
  <2> HIDE DEF i
  <2>1. i - 1 \in 1 .. j /\ \A h \in i - 1 .. j : h = i - 1 \/ h \in i .. j
    BY <1>4
  <2>2. i - 1 \in I
    BY <1>4, <2>1
  <2> HIDE DEF I
  <2>3. i <= i - 1
    BY <1>3, <2>2
  <2>4. QED BY <1>4, <2>3
<1> HIDE DEF i
<1>6. Begins(s, sep, i)
  <2>1. s[i] # sep
    BY <1>4
  <2>2. QED BY <1>5, <2>1 DEF Begins
<1> DEFINE c == CutBehind(s, sep, i)
<1>7. i \in 1 .. Len(s)
  BY <1>1, <1>4
<1>8. c \in i .. Len(s) + 1 /\ (c <= Len(s) => s[c] = sep)
  BY <1>7, CutBehindAt
<1> HIDE DEF c
<1>9. j < c
  <2> SUFFICES ASSUME ~(j < c) PROVE FALSE
    OBVIOUS
  <2>1. c \in i .. j /\ c <= Len(s)
    BY <1>1, <1>8
  <2>2. QED BY <1>4, <1>8, <2>1
<1>10. QED BY <1>4, <1>6, <1>9 DEF c

\* The numbers that fit an int.
Ints == {d \in Digits : Decimal[d] <= MaxInt}

\* What is sound in a transport stays so in its pieces.
Proper(s) ==
    \A j \in DOMAIN s :
      /\ s[j] \in Ranges \cup {"ttl"} => IsIntAt(s, j + 2) /\ s[j + 1] = "="
      /\ s[j] = "-" => IsIntAt(s, j + 1)

LEMMA ProperBehind ==
  ASSUME NEW T, NEW s \in Seq(T), Proper(s), NEW t \in Seq(T), NEW i, Behind(t, s, i)
  PROVE  Proper(t)
<1> SUFFICES ASSUME NEW j \in DOMAIN t
             PROVE  /\ t[j] \in Ranges \cup {"ttl"} => IsIntAt(t, j + 2) /\ t[j + 1] = "="
                    /\ t[j] = "-" => IsIntAt(t, j + 1)
  BY DEF Proper
<1>1. /\ Len(s) \in Nat /\ DOMAIN s = 1 .. Len(s)
      /\ Len(t) \in Nat /\ DOMAIN t = 1 .. Len(t)
  BY LenProperties
<1>2. i \in 1 .. Len(s) + 1 /\ Len(t) = Len(s) - i + 1 /\ \A k \in 1 .. Len(t) : t[k] = s[k + i - 1]
  BY DEF Behind
<1> DEFINE h == j + i - 1
<1>3. h \in DOMAIN s /\ t[j] = s[h]
  <2>1. j \in 1 .. Len(t)
    BY <1>1
  <2>2. h \in 1 .. Len(s)
    BY <1>1, <1>2, <2>1
  <2>3. QED BY <1>1, <1>2, <2>1, <2>2
<1>4. \A d \in {1, 2} : h + d \in DOMAIN s => j + d \in DOMAIN t /\ t[j + d] = s[h + d]
  <2> SUFFICES ASSUME NEW d \in {1, 2}, h + d \in DOMAIN s
               PROVE  j + d \in DOMAIN t /\ t[j + d] = s[h + d]
    OBVIOUS
  <2>1. j + d \in 1 .. Len(t) /\ (j + d) + i - 1 = h + d
    BY <1>1, <1>2
  <2>2. t[j + d] = s[(j + d) + i - 1]
    BY <1>2, <2>1
  <2>3. QED BY <1>1, <2>1, <2>2
<1>5. h \in Nat
  BY <1>1, <1>3
<1> HIDE DEF h
<1>6. /\ s[h] \in Ranges \cup {"ttl"} => IsIntAt(s, h + 2) /\ s[h + 1] = "="
      /\ s[h] = "-" => IsIntAt(s, h + 1)
  BY <1>3 DEF Proper
<1>7. h + 2 \in DOMAIN s => h + 1 \in DOMAIN s
  BY <1>1, <1>5
<1>8. QED BY <1>3, <1>4, <1>6, <1>7 DEF IsIntAt, IsDigit, Ints

\* A piece goes on to a separator, and neither "=" nor a number is one.
LEMMA ProperPieces ==
  ASSUME NEW T, NEW s \in Seq(T), Proper(s), NEW sep, sep # "=", sep \notin Digits
  PROVE  \A k \in DOMAIN Split(s, sep) : Proper(Split(s, sep)[k])
<1> SUFFICES ASSUME NEW k \in DOMAIN Split(s, sep) PROVE Proper(Split(s, sep)[k])
  OBVIOUS
<1>1. Len(s) \in Nat /\ DOMAIN s = 1 .. Len(s)
  BY LenProperties
<1> PICK i \in 1 .. Len(s) + 1 :
       \E c \in 1 .. Len(s) + 1 :
         /\ i < c /\ s[i] # sep /\ (i = 1 \/ s[i - 1] = sep)
         /\ c <= Len(s) => s[c] = sep
         /\ \A j \in i .. c - 1 : s[j] # sep
         /\ Split(s, sep)[k] = SubSeq(s, i, c - 1)
  BY SplitPieces
<1> PICK c \in 1 .. Len(s) + 1 :
         /\ i < c /\ s[i] # sep /\ (i = 1 \/ s[i - 1] = sep)
         /\ c <= Len(s) => s[c] = sep
         /\ \A j \in i .. c - 1 : s[j] # sep
         /\ Split(s, sep)[k] = SubSeq(s, i, c - 1)
  OBVIOUS
<1> DEFINE t == SubSeq(s, i, c - 1)
<1>2. c <= Len(s) => s[c] = sep
  OBVIOUS
<1>3. /\ t \in Seq(T) /\ Len(t) = c - i /\ DOMAIN t = 1 .. c - i
      /\ \A j \in 1 .. c - i : t[j] = s[i + j - 1]
  <2> DEFINE e == c - 1
  <2>1. e \in 1 .. Len(s) /\ i <= e /\ i \in 1 .. Len(s) /\ e - i + 1 = c - i
    BY <1>1
  <2> HIDE DEF e
  <2>2. /\ SubSeq(s, i, e) \in Seq(T) /\ Len(SubSeq(s, i, e)) = e - i + 1
        /\ \A j \in 1 .. e - i + 1 : SubSeq(s, i, e)[j] = s[i + j - 1]
    <3>1. s \in Seq(T)
      OBVIOUS
    <3>2. QED BY ONLY <1>1, <2>1, <3>1, SubSeqProperties, SMTT(60)
  <2>3. DOMAIN SubSeq(s, i, e) = 1 .. e - i + 1
    BY <2>2, LenProperties
  <2>4. QED BY <2>1, <2>2, <2>3 DEF e
<1> SUFFICES Proper(t)
  OBVIOUS
<1> HIDE DEF t
<1>4. sep # "=" /\ sep \notin Digits
  OBVIOUS
<1>5. i \in Nat /\ c \in Nat /\ 1 <= i /\ i < c /\ c <= Len(s) + 1
  BY <1>1
<1>6. \A h \in i .. c - 1 : h + 1 \in DOMAIN s /\ s[h + 1] # sep => h + 1 \in i .. c - 1
  <2> SUFFICES ASSUME NEW h \in i .. c - 1, h + 1 \in DOMAIN s, s[h + 1] # sep
               PROVE  h + 1 \in i .. c - 1
    OBVIOUS
  <2>1. h + 1 <= Len(s)
    BY <1>1
  <2>2. h + 1 # c
    BY <1>2, <2>1
  <2>3. QED BY ONLY <1>5, <2>2, h \in i .. c - 1
<1>7. \A h \in i .. c - 1 : h - i + 1 \in DOMAIN t /\ t[h - i + 1] = s[h]
  <2> SUFFICES ASSUME NEW h \in i .. c - 1
               PROVE  h - i + 1 \in DOMAIN t /\ t[h - i + 1] = s[h]
    OBVIOUS
  <2>1. h - i + 1 \in 1 .. c - i /\ i + (h - i + 1) - 1 = h
    BY ONLY <1>5, h \in i .. c - 1
  <2>2. QED BY <1>3, <2>1
<1> SUFFICES ASSUME NEW j \in DOMAIN t
             PROVE  /\ t[j] \in Ranges \cup {"ttl"} => IsIntAt(t, j + 2) /\ t[j + 1] = "="
                    /\ t[j] = "-" => IsIntAt(t, j + 1)
  BY DEF Proper
<1> DEFINE h == i + j - 1
<1>8. h \in i .. c - 1 /\ h - i + 1 = j /\ h + 1 - i + 1 = j + 1 /\ h + 2 - i + 1 = j + 2
  <2>1. j \in 1 .. c - i
    BY <1>3
  <2>2. QED BY ONLY <1>5, <2>1
<1>9. t[j] = s[h] /\ h \in DOMAIN s /\ h \in Nat
  <2>1. h \in 1 .. Len(s)
    BY ONLY <1>1, <1>5, <1>8
  <2>2. t[j] = s[h]
    BY <1>7, <1>8
  <2>3. QED BY <1>1, <2>1, <2>2
<1> HIDE DEF h
<1>10. /\ s[h] \in Ranges \cup {"ttl"} => IsIntAt(s, h + 2) /\ s[h + 1] = "="
       /\ s[h] = "-" => IsIntAt(s, h + 1)
  BY <1>9 DEF Proper
<1>11. h + 1 \in DOMAIN s /\ s[h + 1] # sep =>
         h + 1 \in i .. c - 1 /\ j + 1 \in DOMAIN t /\ t[j + 1] = s[h + 1]
  <2> SUFFICES ASSUME h + 1 \in DOMAIN s, s[h + 1] # sep
               PROVE  h + 1 \in i .. c - 1 /\ j + 1 \in DOMAIN t /\ t[j + 1] = s[h + 1]
    OBVIOUS
  <2>1. h + 1 \in i .. c - 1
    BY <1>6, <1>8
  <2>2. QED BY <1>7, <1>8, <2>1
<1>12. s[h] = "-" => IsIntAt(t, j + 1)
  <2> SUFFICES ASSUME s[h] = "-" PROVE IsIntAt(t, j + 1)
    OBVIOUS
  <2>1. h + 1 \in DOMAIN s /\ s[h + 1] \in Ints
    BY <1>10 DEF IsIntAt, IsDigit, Ints
  <2>2. QED BY <1>4, <1>11, <2>1 DEF IsIntAt, IsDigit, Ints
<1>13. s[h] \in Ranges \cup {"ttl"} => IsIntAt(t, j + 2) /\ t[j + 1] = "="
  <2> SUFFICES ASSUME s[h] \in Ranges \cup {"ttl"} PROVE IsIntAt(t, j + 2) /\ t[j + 1] = "="
    OBVIOUS
  <2>1. h + 2 \in DOMAIN s /\ s[h + 2] \in Ints /\ s[h + 1] = "="
    BY <1>10 DEF IsIntAt, IsDigit, Ints
  <2>2. h + 1 \in DOMAIN s
    <3>1. h + 2 \in 1 .. Len(s)
      BY <1>1, <2>1
    <3>2. h + 1 \in 1 .. Len(s)
      BY ONLY <1>1, <1>9, <3>1
    <3>3. QED BY <1>1, <3>2
  <2>3. h + 1 \in i .. c - 1 /\ j + 1 \in DOMAIN t /\ t[j + 1] = "="
    BY <1>4, <1>11, <2>1, <2>2
  <2>4. (h + 1) + 1 = h + 2
    BY <1>9
  <2>5. h + 2 \in i .. c - 1
    <3>1. (h + 1) + 1 \in DOMAIN s /\ s[(h + 1) + 1] # sep
      <4>1. h + 2 \in DOMAIN s /\ s[h + 2] # sep
        BY <1>4, <2>1 DEF Ints
      <4>2. QED BY ONLY <2>4, <4>1
    <3>2. (h + 1) + 1 \in i .. c - 1
      BY <1>6, <2>3, <3>1
    <3>3. QED BY <2>4, <3>2
  <2>6. j + 2 \in DOMAIN t /\ t[j + 2] = s[h + 2]
    <3>1. (h + 2) - i + 1 \in DOMAIN t /\ t[(h + 2) - i + 1] = s[h + 2]
      BY <1>7, <2>5
    <3>2. QED BY <1>8, <3>1
  <2>7. QED BY <2>1, <2>3, <2>6 DEF IsIntAt, IsDigit, Ints
<1>14. QED BY <1>9, <1>12, <1>13

\* What is left behind a cut is an end of the text, if an empty one.
LEMMA CutEnd ==
  ASSUME NEW T, NEW s \in Seq(T), NEW seps, NEW keepSep \in BOOLEAN
  PROVE  LET rest == CutUntilChar(s, seps, keepSep).rest
         IN rest \in Seq(T) /\ \E i \in 1 .. Len(s) + 1 : Behind(rest, s, i)
<1> DEFINE rest == CutUntilChar(s, seps, keepSep).rest
<1>1. Len(s) \in Nat
  BY LenProperties
<1>2. \/ rest = <<>>
      \/ \E n \in 1 .. Len(s) : rest = SubSeq(s, GoesOn(n, keepSep), Len(s))
  BY CutAt
<1>3. rest \in Seq(T)
  BY CutType
<1> HIDE DEF rest
<1>4. CASE rest = <<>>
  <2>1. Len(s) + 1 \in 1 .. Len(s) + 1 /\ Behind(rest, s, Len(s) + 1)
    BY <1>1, <1>4 DEF Behind
  <2>2. QED BY <1>3, <2>1 DEF rest
<1>5. CASE \E n \in 1 .. Len(s) : rest = SubSeq(s, GoesOn(n, keepSep), Len(s))
  <2>1. PICK n \in 1 .. Len(s) : rest = SubSeq(s, GoesOn(n, keepSep), Len(s))
    BY <1>5
  <2> DEFINE i == GoesOn(n, keepSep)
  <2>2. i \in 1 .. Len(s) + 1 /\ rest = SubSeq(s, i, Len(s))
    BY <1>1, <2>1 DEF GoesOn
  <2> HIDE DEF i
  <2>3. Behind(rest, s, i)
    BY <2>2, RestBehind
  <2>4. QED BY <1>3, <2>2, <2>3 DEF rest
<1>6. QED BY <1>2, <1>4, <1>5

LEMMA ProperCut ==
  ASSUME NEW T, NEW s \in Seq(T), Proper(s), NEW seps, NEW keepSep \in BOOLEAN
  PROVE  Proper(CutUntilChar(s, seps, keepSep).rest)
<1> DEFINE rest == CutUntilChar(s, seps, keepSep).rest
<1>1. rest \in Seq(T) /\ \E i \in 1 .. Len(s) + 1 : Behind(rest, s, i)
  BY CutEnd
<1> HIDE DEF rest
<1>2. Proper(rest)
  BY <1>1, ProperBehind
<1>3. QED BY <1>2 DEF rest

LEMMA TailBehind ==
  ASSUME NEW T, NEW s \in Seq(T), s # <<>>
  PROVE  Tail(s) \in Seq(T) /\ Behind(Tail(s), s, 2)
<1>1. Len(s) \in Nat /\ Len(s) > 0
  BY LenProperties, EmptySeq
<1>2. Tail(s) \in Seq(T) /\ Len(Tail(s)) = Len(s) - 1 /\ \A j \in 1 .. Len(s) - 1 : Tail(s)[j] = s[j + 1]
  BY <1>1, HeadTailProperties
<1> DEFINE t == Tail(s)
<1> HIDE DEF t
<1>3. t \in Seq(T) /\ Len(t) = Len(s) - 1 /\ \A j \in 1 .. Len(s) - 1 : t[j] = s[j + 1]
  BY <1>2 DEF t
<1>4. Behind(t, s, 2)
  <2>1. 2 \in 1 .. Len(s) + 1 /\ Len(t) = Len(s) - 2 + 1
    BY <1>1, <1>3
  <2>2. \A j \in 1 .. Len(t) : t[j] = s[j + 2 - 1]
    <3> SUFFICES ASSUME NEW j \in 1 .. Len(t) PROVE t[j] = s[j + 2 - 1]
      OBVIOUS
    <3>1. j + 2 - 1 = j + 1 /\ j \in 1 .. Len(s) - 1
      BY <1>1, <1>3
    <3>2. QED BY <1>3, <3>1
  <2>3. QED BY <2>1, <2>2 DEF Behind
<1>5. QED BY <1>3, <1>4 DEF t

\* When the text in front of a cut is one token, the rest starts at the third.
LEMMA OneInFront ==
  ASSUME NEW T, NEW s \in Seq(T), NEW seps, NEW x,
         CutUntilChar(s, seps, FALSE).head = <<x>>
  PROVE  /\ 1 \in DOMAIN s /\ s[1] = x
         /\ 2 \in DOMAIN s => Behind(CutUntilChar(s, seps, FALSE).rest, s, 3)
<1> DEFINE cut == CutUntilChar(s, seps, FALSE)
           h == cut.head
           r == cut.rest
<1>1. Len(s) \in Nat /\ DOMAIN s = 1 .. Len(s)
  BY LenProperties
<1>2. \/ h = s
      \/ \E n \in 1 .. Len(s) : h = SubSeq(s, 1, n - 1) /\ r = SubSeq(s, n + 1, Len(s))
  <2>1. s \in Seq(T)
    OBVIOUS
  <2>2. \/ (\A i \in 1 .. Len(s) : s[i] \notin seps) /\ cut.head = s /\ cut.rest = <<>>
        \/ \E n \in 1 .. Len(s) :
             /\ s[n] \in seps /\ \A i \in 1 .. n - 1 : s[i] \notin seps
             /\ cut.head = SubSeq(s, 1, n - 1) /\ cut.rest = SubSeq(s, n + 1, Len(s))
    BY ONLY <2>1, CutOff
  <2> HIDE DEF cut
  <2>3. QED BY ONLY <2>2
<1>3. h = <<x>>
  OBVIOUS
<1> HIDE DEF cut, h, r
<1>4. Len(h) = 1 /\ h[1] = x
  BY ONLY <1>3
<1>5. CASE h = s
  <2>1. Len(s) = 1 /\ s[1] = x
    BY <1>4, <1>5
  <2>2. 2 \notin DOMAIN s /\ 1 \in DOMAIN s
    BY <1>1, <2>1
  <2>3. QED BY <2>1, <2>2
<1>6. CASE \E n \in 1 .. Len(s) : h = SubSeq(s, 1, n - 1) /\ r = SubSeq(s, n + 1, Len(s))
  <2>1. PICK n \in 1 .. Len(s) : h = SubSeq(s, 1, n - 1) /\ r = SubSeq(s, n + 1, Len(s))
    BY <1>6
  <2>2. n - 1 >= 1
    <3> SUFFICES ASSUME ~(n - 1 >= 1) PROVE FALSE
      OBVIOUS
    <3>1. SubSeq(s, 1, n - 1) = <<>>
      BY <1>1
    <3>2. Len(h) = 0
      BY <2>1, <3>1
    <3>3. QED BY <1>4, <3>2
  <2> DEFINE e == n - 1
  <2>3. e \in 1 .. Len(s) /\ h = SubSeq(s, 1, e)
    BY <1>1, <2>1, <2>2
  <2> HIDE DEF e
  <2>4. 1 \in 1 .. Len(s) /\ 1 <= e
    BY <1>1, <2>3
  <2>5. /\ Len(SubSeq(s, 1, e)) = e - 1 + 1
        /\ \A i \in 1 .. e - 1 + 1 : SubSeq(s, 1, e)[i] = s[1 + i - 1]
    BY <1>1, <2>3, <2>4, SubSeqProperties
  <2>6. e = 1
    BY <1>1, <1>4, <2>3, <2>5
  <2>7. h[1] = s[1]
    BY <2>3, <2>5, <2>6
  <2>8. 3 \in 1 .. Len(s) + 1 /\ r = SubSeq(s, 3, Len(s))
    BY <1>1, <2>1, <2>6 DEF e
  <2>9. Behind(r, s, 3)
    BY <2>8, RestBehind
  <2>10. 1 \in DOMAIN s
    BY <1>1, <2>4
  <2>11. QED BY <1>4, <2>7, <2>9, <2>10 DEF r, cut
<1>7. QED BY <1>2, <1>5, <1>6

\* What ends a profile.
ProfileEnds == {"/", ";", ","}

\* A piece that does not end with its profile starts well, and what is left for
\* the fields is as sound as the piece.
LEMMA LeadingReads ==
  ASSUME NEW text \in Seq(Chars), Proper(text), NEW lower,
         text[1] = "RTP" => \E j \in 3 .. Len(text) : text[j] \in ProfileEnds
  PROVE  ~Leading(text, lower).bad /\ Proper(Leading(text, lower).rest)
<1> DEFINE S1 == {"/"}
           S3 == {";", ","}
           protocol == CutUntilChar(text, S1, FALSE)
           profile  == CutUntilChar(protocol.rest, ProfileEnds, TRUE)
           named    == CutUntilChar(Tail(profile.rest), S3, FALSE)
<1>1. Leading(text, lower) =
        IF protocol.head # <<"RTP">>
          THEN [rtp |-> FALSE, bad |-> FALSE, lower |-> lower, rest |-> protocol.rest]
        ELSE IF profile.rest = <<>>
          THEN [rtp |-> TRUE, bad |-> TRUE, lower |-> lower, rest |-> <<>>]
        ELSE IF profile.rest[1] = "/"
          THEN [rtp |-> TRUE, bad |-> FALSE, lower |-> named.head, rest |-> named.rest]
        ELSE [rtp |-> TRUE, bad |-> FALSE, lower |-> lower, rest |-> Tail(profile.rest)]
  BY DEF Leading, ProfileEnds
<1> HIDE DEF S1, S3
<1>2. protocol.rest \in Seq(Chars) /\ Proper(protocol.rest)
  BY CutType, ProperCut
<1>3. protocol.head = <<"RTP">> =>
        \E i \in 1 .. Len(protocol.rest) : protocol.rest[i] \in ProfileEnds
  <2> SUFFICES ASSUME protocol.head = <<"RTP">>
               PROVE  \E i \in 1 .. Len(protocol.rest) : protocol.rest[i] \in ProfileEnds
    OBVIOUS
  <2>1. Len(text) \in Nat /\ DOMAIN text = 1 .. Len(text)
    BY LenProperties
  <2>2. text[1] = "RTP" /\ (2 \in DOMAIN text => Behind(protocol.rest, text, 3))
    BY OneInFront
  <2> DEFINE r == protocol.rest
  <2> HIDE DEF r, protocol
  <2>3. PICK j \in 3 .. Len(text) : text[j] \in ProfileEnds
    BY <2>2
  <2>4. Behind(r, text, 3)
    BY <2>1, <2>2, <2>3 DEF r
  <2>5. j - 2 \in 1 .. Len(r) /\ (j - 2) + 3 - 1 = j
    BY <2>1, <2>4 DEF Behind
  <2>6. r[j - 2] = text[j]
    BY <2>4, <2>5 DEF Behind
  <2>7. QED BY <2>3, <2>5, <2>6 DEF r
<1> HIDE DEF protocol
<1>4. profile.rest \in Seq(Chars) /\ Proper(profile.rest)
  BY <1>2, CutType, ProperCut
<1>5. protocol.head = <<"RTP">> => profile.rest # <<>>
  <2> SUFFICES ASSUME protocol.head = <<"RTP">> PROVE profile.rest # <<>>
    OBVIOUS
  <2>1. PICK z \in 1 .. Len(protocol.rest) : protocol.rest[z] \in ProfileEnds
    BY <1>3
  <2> DEFINE r == protocol.rest
  <2>2. \/ \A e \in 1 .. Len(r) : r[e] \notin ProfileEnds
        \/ \E n \in 1 .. Len(r) : profile.rest = SubSeq(r, n, Len(r))
    <3>1. r \in Seq(Chars)
      BY <1>2
    <3> HIDE DEF r
    <3> DEFINE cut == CutUntilChar(r, ProfileEnds, TRUE)
    <3>2. \/ (\A i \in 1 .. Len(r) : r[i] \notin ProfileEnds) /\ cut.head = r /\ cut.rest = <<>>
          \/ \E n \in 1 .. Len(r) :
               /\ r[n] \in ProfileEnds /\ \A i \in 1 .. n - 1 : r[i] \notin ProfileEnds
               /\ cut.head = SubSeq(r, 1, n - 1) /\ cut.rest = SubSeq(r, n, Len(r))
      BY ONLY <3>1, CutKeeping
    <3> HIDE DEF cut
    <3>3. \/ \A e \in 1 .. Len(r) : r[e] \notin ProfileEnds
          \/ \E n \in 1 .. Len(r) : cut.rest = SubSeq(r, n, Len(r))
      BY ONLY <3>2
    <3>4. QED BY <3>3 DEF cut, r
  <2> HIDE DEF r, profile
  <2>3. r \in Seq(Chars) /\ z \in 1 .. Len(r) /\ r[z] \in ProfileEnds
    BY <1>2, <2>1 DEF r
  <2>4. PICK n \in 1 .. Len(r) : profile.rest = SubSeq(r, n, Len(r))
    BY <2>2, <2>3
  <2>5. Len(r) \in Nat /\ n \in 1 .. Len(r) + 1
    BY <2>3, LenProperties
  <2>6. Behind(profile.rest, r, n)
    BY <2>3, <2>4, <2>5, RestBehind
  <2>7. Len(profile.rest) > 0
    BY <2>5, <2>6 DEF Behind
  <2>8. QED BY <2>7
<1> HIDE DEF profile
<1>6. profile.rest # <<>> => Proper(Tail(profile.rest)) /\ Proper(named.rest)
  <2> SUFFICES ASSUME profile.rest # <<>> PROVE Proper(Tail(profile.rest)) /\ Proper(named.rest)
    OBVIOUS
  <2>1. Tail(profile.rest) \in Seq(Chars) /\ Behind(Tail(profile.rest), profile.rest, 2)
    BY <1>4, TailBehind
  <2> DEFINE u == Tail(profile.rest)
  <2>2. u \in Seq(Chars) /\ Proper(u)
    BY <1>4, <2>1, ProperBehind
  <2> HIDE DEF u
  <2>3. Proper(CutUntilChar(u, S3, FALSE).rest)
    BY <2>2, ProperCut
  <2>4. QED BY <2>2, <2>3 DEF u
<1> HIDE DEF named
<1>7. QED BY <1>1, <1>2, <1>5, <1>6

\* A range with a number in front and one behind every "-" can be read.
LEMMA RangeReadable ==
  ASSUME NEW T, NEW s \in Seq(T), IsIntAt(s, 1),
         \A j \in DOMAIN s : s[j] = "-" => IsIntAt(s, j + 1)
  PROVE  ReadableRange(s)
<1> DEFINE sep == "-"
           vec == Split(s, sep)
<1>1. Len(s) \in Nat /\ DOMAIN s = 1 .. Len(s)
  BY LenProperties
<1>2. 1 \in DOMAIN s /\ s[1] \in Ints
  BY DEF IsIntAt, IsDigit, Ints
<1>3. sep \notin Digits /\ \A j \in DOMAIN s : s[j] = sep => IsIntAt(s, j + 1)
  BY MessagesAssumption DEF Marks
<1> HIDE DEF sep
<1>4. vec # <<>>
  <2>1. s[1] # sep
    BY <1>2, <1>3 DEF Ints
  <2>2. QED BY <1>2, <2>1, SplitNonempty
<1>5. \A k \in DOMAIN vec : IsInt(vec[k])
  <2> SUFFICES ASSUME NEW k \in DOMAIN vec PROVE IsInt(vec[k])
    OBVIOUS
  <2>1. PICK i \in 1 .. Len(s) + 1 :
          \E c \in 1 .. Len(s) + 1 :
            /\ i < c /\ s[i] # sep /\ (i = 1 \/ s[i - 1] = sep)
            /\ c <= Len(s) => s[c] = sep
            /\ \A j \in i .. c - 1 : s[j] # sep
            /\ vec[k] = SubSeq(s, i, c - 1)
    BY SplitPieces
  <2>2. PICK c \in 1 .. Len(s) + 1 :
            /\ i < c /\ s[i] # sep /\ (i = 1 \/ s[i - 1] = sep)
            /\ vec[k] = SubSeq(s, i, c - 1)
    BY <2>1
  <2> HIDE DEF vec
  <2> DEFINE e == c - 1
             t == SubSeq(s, i, e)
  <2>3. s[i] \in Ints
    <3>1. CASE i = 1
      BY <1>2, <3>1
    <3>2. CASE i # 1
      <4>1. i - 1 \in DOMAIN s /\ s[i - 1] = sep /\ (i - 1) + 1 = i
        BY <1>1, <2>2, <3>2
      <4>2. QED BY <1>3, <4>1 DEF IsIntAt, IsDigit, Ints
    <3>3. QED BY <3>1, <3>2
  <2>4. e \in 1 .. Len(s) /\ i <= e /\ i \in 1 .. Len(s)
    BY <1>1, <2>2
  <2> HIDE DEF e
  <2>5. t \in Seq(T) /\ Len(t) = e - i + 1 /\ \A j \in 1 .. e - i + 1 : t[j] = s[i + j - 1]
    BY <1>1, <2>4, SubSeqProperties
  <2> HIDE DEF t
  <2>6. 1 \in 1 .. e - i + 1 /\ i + 1 - 1 = i
    BY <2>4
  <2>7. t[1] = s[i] /\ DOMAIN t = 1 .. e - i + 1
    <3>1. t[1] = s[i + 1 - 1]
      BY <2>5, <2>6
    <3>2. DOMAIN t = 1 .. Len(t)
      BY <2>5, LenProperties
    <3>3. QED BY <2>5, <2>6, <3>1, <3>2
  <2>8. IsInt(t)
    BY <2>3, <2>5, <2>6, <2>7, IntInFront DEF IsIntAt, IsDigit, Ints
  <2>9. QED BY <2>2, <2>8 DEF e, t
<1> HIDE DEF vec
<1>6. Len(vec) \in Nat /\ DOMAIN vec = 1 .. Len(vec)
  <2>1. vec \in Seq(Seq(T))
    BY SplitType DEF vec
  <2>2. QED BY <2>1, LenProperties
<1>7. 1 \in DOMAIN vec
  <2>1. Len(vec) # 0
    <3>1. vec \in Seq(Seq(T))
      BY SplitType DEF vec
    <3>2. QED BY <1>4, <3>1, EmptySeq
  <2>2. QED BY <1>6, <2>1
<1>8. Len(vec) = 2 => 2 \in DOMAIN vec
  BY <1>6
<1>9. QED BY <1>4, <1>5, <1>7, <1>8 DEF ReadableRange, vec, sep

\* Every field of a sound transport can be read.
LEMMA FieldReadable ==
  ASSUME NEW field \in Seq(Chars), Proper(field)
  PROVE  ReadableField(field)
<1> DEFINE seps == {"="}
           cut == CutUntilChar(field, seps, FALSE)
           named(x) == cut.head = <<x>>
<1> HIDE DEF seps
<1>1. cut.rest \in Seq(Chars) /\ Proper(cut.rest)
  BY CutType, ProperCut
<1>2. \A x \in Ranges \cup {"ttl"} : named(x) => IsIntAt(cut.rest, 1)
  <2> SUFFICES ASSUME NEW x \in Ranges \cup {"ttl"}, named(x) PROVE IsIntAt(cut.rest, 1)
    OBVIOUS
  <2>1. /\ 1 \in DOMAIN field /\ field[1] = x
        /\ 2 \in DOMAIN field => Behind(cut.rest, field, 3)
    BY OneInFront
  <2>2. IsIntAt(field, 3)
    <3>1. IsIntAt(field, 1 + 2)
      BY <2>1 DEF Proper
    <3>2. QED BY <3>1
  <2>3. Len(field) \in Nat /\ DOMAIN field = 1 .. Len(field)
    BY LenProperties
  <2>4. 3 \in DOMAIN field /\ field[3] \in Ints /\ 2 \in DOMAIN field
    BY <2>2, <2>3 DEF IsIntAt, IsDigit, Ints
  <2> DEFINE r == cut.rest
  <2>5. r \in Seq(Chars) /\ Behind(r, field, 3)
    BY <1>1, <2>1, <2>4
  <2> HIDE DEF r
  <2>6. Len(r) \in Nat /\ DOMAIN r = 1 .. Len(r)
    BY <2>5, LenProperties
  <2>7. 1 \in 1 .. Len(r) /\ 1 + 3 - 1 = 3
    BY <2>3, <2>4, <2>5 DEF Behind
  <2>8. r[1] = field[3]
    <3>1. r[1] = field[1 + 3 - 1]
      BY <2>5, <2>7 DEF Behind
    <3>2. QED BY <2>7, <3>1
  <2>9. IsIntAt(r, 1)
    BY <2>4, <2>6, <2>7, <2>8 DEF IsIntAt, IsDigit, Ints
  <2>10. QED BY <2>9 DEF r
<1>3. Len(cut.head) = 1 /\ cut.head[1] \in Ranges => ReadableRange(cut.rest)
  <2> SUFFICES ASSUME Len(cut.head) = 1, cut.head[1] \in Ranges PROVE ReadableRange(cut.rest)
    OBVIOUS
  <2>1. cut.head \in Seq(Chars)
    BY CutType
  <2> HIDE DEF cut
  <2>2. cut.head = <<cut.head[1]>>
    BY <2>1
  <2>3. IsIntAt(cut.rest, 1)
    BY <1>2, <2>2
  <2>4. QED BY <1>1, <2>3, RangeReadable DEF Proper
<1>4. cut.head = <<"ttl">> => IsInt(cut.rest)
  <2> HIDE DEF cut
  <2> QED BY <1>1, <1>2, IntInFront
<1>5. QED BY <1>3, <1>4 DEF ReadableField, seps

\* A sound piece ends no transport.
LEMMA PieceReads ==
  ASSUME NEW m \in Reading, ~m.bad, NEW text \in Seq(Chars), Proper(text),
         text[1] = "RTP" => \E j \in 3 .. Len(text) : text[j] \in ProfileEnds
  PROVE  ~ReadTransport(m, text).bad
<1> DEFINE sep    == ";"
           lead   == Leading(text, m.lower)
           fields == Split(lead.rest, sep)
           read   == FoldLeft(ReadField, Started(m, lead), fields)
<1>1. m.lower \in Seq(Chars)
  BY DEF Reading
<1>2. lead.rest \in Seq(Chars) /\ ~lead.bad /\ Proper(lead.rest)
  BY <1>1, LeadingType, LeadingReads
<1>3. ReadTransport(m, text) =
        IF ~Room(m.nb) \/ m.bad THEN m
        ELSE IF lead.bad \/ \E i \in DOMAIN fields : ~ReadableField(fields[i])
          THEN [m EXCEPT !.bad = TRUE]
        ELSE [m EXCEPT !.lower = lead.lower, !.nb = m.nb + 1,
                       !.transports[m.nb + 1] = read]
  BY DEF ReadTransport, Started
<1>4. sep # "=" /\ sep \notin Digits
  <2>1. sep \in Marks
    BY Zenon DEF Marks
  <2>2. sep # "="
    BY Zenon
  <2> HIDE DEF sep
  <2>3. QED BY <2>1, <2>2, MessagesAssumption
<1> HIDE DEF sep, lead
<1>5. \A k \in DOMAIN fields : Proper(fields[k])
  BY <1>2, <1>4, ProperPieces
<1>6. fields \in Seq(Seq(Chars))
  BY <1>2, SplitType
<1> HIDE DEF fields, read
<1>7. \A k \in DOMAIN fields : ReadableField(fields[k])
  <2> SUFFICES ASSUME NEW k \in DOMAIN fields PROVE ReadableField(fields[k])
    OBVIOUS
  <2>1. fields[k] \in Seq(Chars)
    BY <1>6, ElementOfSeq, LenProperties
  <2>2. QED BY <1>5, <2>1, FieldReadable
<1>8. \/ ReadTransport(m, text) = m
      \/ ReadTransport(m, text) = [m EXCEPT !.lower = lead.lower, !.nb = m.nb + 1,
                                            !.transports[m.nb + 1] = read]
  BY <1>2, <1>3, <1>7
<1>9. m.bad = FALSE
  BY DEF Reading
<1>10. QED BY <1>8, <1>9 DEF Reading

\* No transport of a sound header ends the others.
LEMMA TransportReads ==
  ASSUME NEW r \in Message, NEW text \in Seq(Chars), SoundTransport(text)
  PROVE  ~ParseTransport(r, text).bad
<1> DEFINE sep    == LineEnd
           pieces == Split(text, sep)
<1>1. pieces \in Seq(Seq(Chars))
  BY SplitType
<1>2. ParseTransport(r, text) = FoldLeft(ReadTransport, Cleared(r), pieces)
  BY DEF ParseTransport, Cleared
<1>3. \A k \in DOMAIN pieces :
         pieces[k][1] = "RTP" => \E j \in 3 .. Len(pieces[k]) : pieces[k][j] \in ProfileEnds
  BY DEF SoundTransport, ProfileEnds
<1>4. sep # "=" /\ sep \notin Digits
  BY SpaceMarks, MessagesAssumption DEF Marks
<1>5. Proper(text)
  BY DEF SoundTransport, Proper
<1> HIDE DEF sep
<1>6. \A k \in DOMAIN pieces : Proper(pieces[k])
  BY <1>4, <1>5, ProperPieces
<1> HIDE DEF pieces
<1> DEFINE n == Len(pieces)
<1>7. n \in Nat /\ DOMAIN pieces = 1 .. n /\ \A k \in 1 .. n : pieces[k] \in Seq(Chars)
  BY <1>1, LenProperties, ElementOfSeq
<1>8. PICK p \in [0 .. n -> Reading] :
        /\ p[0] = Cleared(r)
        /\ \A k \in 1 .. n : p[k] = ReadTransport(p[k - 1], pieces[k])
        /\ FoldLeft(ReadTransport, Cleared(r), pieces) = p[n]
  BY <1>1, ClearedType, TransportsRead
<1> HIDE DEF n
<1> DEFINE S == {k \in Nat : k <= n => ~p[k].bad}
<1>9. 0 \in S
  BY <1>8 DEF Cleared
<1>10. \A k \in Nat : k \in S => k + 1 \in S
  <2> SUFFICES ASSUME NEW k \in Nat, k \in S, k + 1 <= n PROVE ~p[k + 1].bad
    OBVIOUS
  <2>1. k \in 0 .. n /\ k + 1 \in 1 .. n /\ (k + 1) - 1 = k
    BY <1>7
  <2>2. p[k] \in Reading /\ ~p[k].bad
    BY <1>7, <2>1
  <2>3. p[k + 1] = ReadTransport(p[k], pieces[k + 1])
    BY <1>8, <2>1
  <2> DEFINE m == p[k]
             t == pieces[k + 1]
  <2>4. /\ t \in Seq(Chars) /\ Proper(t)
        /\ t[1] = "RTP" => \E j \in 3 .. Len(t) : t[j] \in ProfileEnds
    BY <1>3, <1>6, <1>7, <2>1
  <2> HIDE DEF m, t
  <2>5. m \in Reading /\ ~m.bad
    BY <2>2 DEF m
  <2>6. ~ReadTransport(m, t).bad
    BY ONLY <2>4, <2>5, PieceReads
  <2>7. QED BY <2>3, <2>6 DEF m, t
<1> HIDE DEF S
<1>11. n \in S
  BY <1>7, <1>9, <1>10, SetInduction
<1>12. ~p[n].bad
  BY <1>7, <1>11 DEF S
<1>13. QED BY <1>2, <1>8, <1>12

\* What a sound range has behind its "npt=".
NptTokens(s) ==
    \A j \in DOMAIN s :
      /\ s[j] \in Digits \cup {"now", "-", Space}
      /\ s[j] = "now" => j = Len(s) \/ s[j + 1] = "-"
      /\ s[j] = Space => IsDigit(s, j + 1)

LEMMA NptBehind ==
  ASSUME NEW T, NEW s \in Seq(T), NptTokens(s), NEW t \in Seq(T), NEW i, Behind(t, s, i)
  PROVE  NptTokens(t)
<1> SUFFICES ASSUME NEW j \in DOMAIN t
             PROVE  /\ t[j] \in Digits \cup {"now", "-", Space}
                    /\ t[j] = "now" => j = Len(t) \/ t[j + 1] = "-"
                    /\ t[j] = Space => IsDigit(t, j + 1)
  BY DEF NptTokens
<1>1. /\ Len(s) \in Nat /\ DOMAIN s = 1 .. Len(s)
      /\ Len(t) \in Nat /\ DOMAIN t = 1 .. Len(t)
  BY LenProperties
<1>2. i \in 1 .. Len(s) + 1 /\ Len(t) = Len(s) - i + 1 /\ \A k \in 1 .. Len(t) : t[k] = s[k + i - 1]
  BY DEF Behind
<1> DEFINE h == j + i - 1
<1>3. h \in DOMAIN s /\ t[j] = s[h]
  <2>1. j \in 1 .. Len(t)
    BY <1>1
  <2>2. h \in 1 .. Len(s)
    BY <1>1, <1>2, <2>1
  <2>3. QED BY <1>1, <1>2, <2>1, <2>2
<1>4. h + 1 \in DOMAIN s => j + 1 \in DOMAIN t /\ t[j + 1] = s[h + 1]
  <2> SUFFICES ASSUME h + 1 \in DOMAIN s PROVE j + 1 \in DOMAIN t /\ t[j + 1] = s[h + 1]
    OBVIOUS
  <2>1. j + 1 \in 1 .. Len(t) /\ (j + 1) + i - 1 = h + 1
    <3>1. /\ Len(s) \in Nat /\ Len(t) \in Nat /\ i \in Nat /\ j \in Nat /\ 1 <= j
          /\ Len(t) = Len(s) - i + 1 /\ j + i - 1 + 1 <= Len(s)
      BY <1>1, <1>2
    <3>2. j + 1 \in 1 .. Len(t) /\ (j + 1) + i - 1 = j + i - 1 + 1
      BY ONLY <3>1
    <3>3. QED BY <3>2
  <2>2. t[j + 1] = s[(j + 1) + i - 1]
    BY <1>2, <2>1
  <2>3. QED BY <1>1, <2>1, <2>2
<1>5. h = Len(s) <=> j = Len(t)
  BY <1>1, <1>2
<1>6. h # Len(s) => h + 1 \in DOMAIN s
  BY <1>1, <1>3
<1> HIDE DEF h
<1>7. /\ s[h] \in Digits \cup {"now", "-", Space}
      /\ s[h] = "now" => h = Len(s) \/ s[h + 1] = "-"
      /\ s[h] = Space => IsDigit(s, h + 1)
  BY <1>3 DEF NptTokens
<1>8. s[h] = Space => IsDigit(t, j + 1)
  BY <1>4, <1>7 DEF IsDigit
<1>9. s[h] = "now" => j = Len(t) \/ t[j + 1] = "-"
  BY <1>4, <1>5, <1>6, <1>7
<1>10. QED BY <1>3, <1>7, <1>8, <1>9

\* What is left when the blanks are skipped is an end of the text.
LEMMA SkippedBehind ==
  ASSUME NEW T, NEW s \in Seq(T), ~OnlyBlanks(s)
  PROVE  /\ SkipBlanks(s) \in Seq(T)
         /\ \E i \in 1 .. Len(s) :
              /\ Behind(SkipBlanks(s), s, i) /\ s[i] # Space /\ \A j \in 1 .. i - 1 : s[j] = Space
<1> DEFINE i == SelectInSeq(s, LAMBDA c : c # Space)
<1>1. i \in 1 .. Len(s) /\ s[i] # Space /\ \A j \in 1 .. i - 1 : s[j] = Space
  BY FirstCharacter
<1>2. SkipBlanks(s) = SubSeq(s, i, Len(s))
  BY DEF SkipBlanks
<1> HIDE DEF i
<1>3. i \in 1 .. Len(s) + 1
  BY <1>1, LenProperties
<1>4. SkipBlanks(s) \in Seq(T) /\ Behind(SkipBlanks(s), s, i)
  BY <1>2, <1>3, RestBehind
<1>5. QED BY <1>1, <1>4

\* The pieces of a sound range are times.
LEMMA NptPieces ==
  ASSUME NEW T, NEW s \in Seq(T), NptTokens(s)
  PROVE  \A k \in DOMAIN Split(s, "-") :
            Split(s, "-")[k] = <<"now">> \/ IsNumber(Split(s, "-")[k])
<1> DEFINE sep == "-"
           vec == Split(s, sep)
<1>1. Len(s) \in Nat /\ DOMAIN s = 1 .. Len(s)
  BY LenProperties
<1>2. /\ sep \notin Digits /\ sep # "now" /\ sep # Space
      /\ \A j \in DOMAIN s : s[j] \in Digits \cup {"now", sep, Space}
      /\ \A j \in DOMAIN s : s[j] = "now" => j = Len(s) \/ s[j + 1] = sep
      /\ \A j \in DOMAIN s : s[j] = Space => IsDigit(s, j + 1)
  BY MessagesAssumption, SpaceMarks DEF Marks, NptTokens
<1> SUFFICES ASSUME NEW k \in DOMAIN vec PROVE vec[k] = <<"now">> \/ IsNumber(vec[k])
  OBVIOUS
<1> HIDE DEF sep
<1>3. PICK i \in 1 .. Len(s) + 1 :
        \E c \in 1 .. Len(s) + 1 :
          /\ i < c /\ s[i] # sep /\ (i = 1 \/ s[i - 1] = sep)
          /\ c <= Len(s) => s[c] = sep
          /\ \A j \in i .. c - 1 : s[j] # sep
          /\ vec[k] = SubSeq(s, i, c - 1)
  BY SplitPieces
<1>4. PICK c \in 1 .. Len(s) + 1 :
        /\ i < c /\ s[i] # sep
        /\ c <= Len(s) => s[c] = sep
        /\ \A j \in i .. c - 1 : s[j] # sep
        /\ vec[k] = SubSeq(s, i, c - 1)
  BY <1>3
<1> HIDE DEF vec
<1> DEFINE e == c - 1
           t == SubSeq(s, i, e)
<1>5. e \in 1 .. Len(s) /\ i <= e /\ i \in 1 .. Len(s) /\ c = e + 1
  BY <1>1, <1>4
<1> HIDE DEF e
<1>6. t \in Seq(T) /\ Len(t) = e - i + 1 /\ \A j \in 1 .. e - i + 1 : t[j] = s[i + j - 1]
  BY <1>1, <1>5, SubSeqProperties
<1> HIDE DEF t
<1>7. t[1] = s[i] /\ 1 \in 1 .. Len(t)
  <2>1. 1 \in 1 .. e - i + 1 /\ i + 1 - 1 = i
    BY <1>5
  <2>2. t[1] = s[i + 1 - 1]
    BY <1>6, <2>1
  <2>3. QED BY <1>6, <2>1, <2>2
<1>8. s[i] \in Digits \cup {"now", Space}
  BY <1>1, <1>2, <1>4, <1>5
<1>9. CASE s[i] \in Digits
  <2>1. \A j \in 1 .. 1 - 1 : t[j] = Space
    OBVIOUS
  <2>2. IsNumber(t)
    BY <1>6, <1>7, <1>9, <2>1, NumberFound
  <2>3. QED BY <1>4, <2>2 DEF e, t
<1>10. CASE s[i] = "now"
  <2>1. e = i
    <3> SUFFICES ASSUME e # i PROVE FALSE
      OBVIOUS
    <3>1. i # Len(s) /\ i + 1 \in i .. c - 1
      <4>1. /\ e \in Nat /\ i \in Nat /\ e # i /\ i <= e /\ e <= Len(s) /\ c = e + 1
            /\ Len(s) \in Nat
        BY <1>1, <1>5, SMTT(60)
      <4>2. QED BY ONLY <4>1
    <3>2. s[i + 1] = sep
      BY <1>1, <1>2, <1>5, <1>10, <3>1
    <3>3. QED BY <1>4, <3>1, <3>2
  <2>2. Len(t) = 1 /\ t[1] = "now"
    BY <1>5, <1>6, <1>7, <1>10, <2>1
  <2>3. t = <<t[1]>>
    <3>1. t \in Seq(T) /\ Len(t) = 1
      BY <1>6, <2>2
    <3>2. QED BY ONLY <3>1
  <2>4. t = <<"now">>
    BY <2>2, <2>3
  <2>5. QED BY <1>4, <2>4 DEF e, t
<1>11. CASE s[i] = Space
  <2>1. i + 1 \in DOMAIN s /\ s[i + 1] \in Digits
    BY <1>1, <1>2, <1>5, <1>11 DEF IsDigit
  <2>2. i + 1 <= e
    <3> SUFFICES ASSUME ~(i + 1 <= e) PROVE FALSE
      OBVIOUS
    <3>1. c = i + 1 /\ c <= Len(s)
      BY <1>1, <1>5, <2>1
    <3>2. s[i + 1] = sep
      BY <1>4, <3>1
    <3>3. QED BY <1>2, <2>1, <3>2
  <2>3. 2 \in 1 .. e - i + 1 /\ i + 2 - 1 = i + 1
    BY <1>5, <2>2
  <2>4. t[2] = s[i + 1] /\ 2 \in 1 .. Len(t)
    <3>1. t[2] = s[i + 2 - 1]
      BY <1>6, <2>3
    <3>2. QED BY <1>6, <2>3, <3>1
  <2>5. \A j \in 1 .. 2 - 1 : t[j] = Space
    BY <1>7, <1>11
  <2>6. IsNumber(t)
    BY <1>6, <2>1, <2>4, <2>5, NumberFound
  <2>7. QED BY <1>4, <2>6 DEF e, t
<1>12. QED BY <1>8, <1>9, <1>10, <1>11

\* A sound range can be read.
LEMMA NptReads ==
  ASSUME NEW T, NEW text \in Seq(T), SoundRange(text)
  PROVE  ReadableNpt(text)
<1> DEFINE t == Tail(text)
           u == SkipBlanks(t)
<1>1. Len(text) \in Nat /\ DOMAIN text = 1 .. Len(text) /\ Len(text) > 1
  BY LenProperties DEF SoundRange
<1>2. t \in Seq(T) /\ Behind(t, text, 2)
  <2>1. text # <<>>
    BY <1>1
  <2>2. QED BY <2>1, TailBehind
<1> HIDE DEF t
<1>3. Len(t) \in Nat /\ DOMAIN t = 1 .. Len(t) /\ Len(t) = Len(text) - 1
  BY <1>1, <1>2, LenProperties DEF Behind
<1>4. NptTokens(t)
  <2> SUFFICES ASSUME NEW j \in DOMAIN t
               PROVE  /\ t[j] \in Digits \cup {"now", "-", Space}
                      /\ t[j] = "now" => j = Len(t) \/ t[j + 1] = "-"
                      /\ t[j] = Space => IsDigit(t, j + 1)
    BY DEF NptTokens
  <2> DEFINE h == j + 1
  <2>1. h \in 2 .. Len(text) /\ (j = Len(t) <=> h = Len(text))
    BY <1>1, <1>3
  <2>2. \A i \in 1 .. Len(t) : t[i] = text[i + 1]
    <3> SUFFICES ASSUME NEW i \in 1 .. Len(t) PROVE t[i] = text[i + 1]
      OBVIOUS
    <3>1. t[i] = text[i + 2 - 1] /\ i + 2 - 1 = i + 1
      BY <1>2, <1>3 DEF Behind
    <3>2. QED BY <3>1
  <2>3. h + 1 \in DOMAIN text => h \in DOMAIN t /\ t[h] = text[h + 1]
    BY <1>1, <1>3, <2>1, <2>2
  <2>4. h # Len(text) => h + 1 \in DOMAIN text
    BY <1>1, <2>1
  <2>5. t[j] = text[h]
    BY <1>3, <2>2
  <2> HIDE DEF h
  <2>6. /\ text[h] \in Digits \cup {"now", "-", Space}
        /\ text[h] = "now" => h = Len(text) \/ text[h + 1] = "-"
        /\ text[h] = Space => IsDigit(text, h + 1)
    BY <2>1 DEF SoundRange
  <2>7. /\ text[h] = "now" => j = Len(t) \/ t[h] = "-"
        /\ text[h] = Space => IsDigit(t, h)
    BY <2>1, <2>3, <2>4, <2>6 DEF IsDigit
  <2>8. QED BY <2>5, <2>6, <2>7 DEF h
<1>5. ~OnlyBlanks(t)
  <2> SUFFICES ASSUME OnlyBlanks(t) PROVE FALSE
    OBVIOUS
  <2>1. Len(t) \in DOMAIN t
    BY <1>1, <1>3
  <2>2. t[Len(t)] = Space
    BY <2>1 DEF OnlyBlanks
  <2>3. IsDigit(t, Len(t) + 1)
    BY <1>4, <2>1, <2>2 DEF NptTokens
  <2>4. QED BY <1>3, <2>3 DEF IsDigit
<1>6. u \in Seq(T) /\ \E i \in 1 .. Len(t) : Behind(u, t, i)
  BY <1>2, <1>5, SkippedBehind
<1> HIDE DEF u
<1>7. NptTokens(u)
  BY <1>2, <1>4, <1>6, NptBehind
<1> DEFINE vec == Split(u, "-")
<1>8. \A k \in DOMAIN vec : vec[k] = <<"now">> \/ IsNumber(vec[k])
  BY <1>6, <1>7, NptPieces
<1> HIDE DEF vec
<1>9. QED BY <1>5, <1>8 DEF ReadableNpt, vec, u, t

\* A number in front is not skipped.
LEMMA SkipNothing ==
  ASSUME NEW T, NEW s \in Seq(T), IsDigit(s, 1)
  PROVE  /\ IsDigit(SkipBlanks(s), 1) /\ SkipBlanks(s) \in Seq(T)
         /\ SkipBlanks(s)[1] = s[1]
<1>1. Len(s) \in Nat /\ DOMAIN s = 1 .. Len(s)
  BY LenProperties
<1>2. 1 \in 1 .. Len(s) /\ s[1] \in Digits /\ s[1] # Space
  BY <1>1, MessagesAssumption DEF IsDigit, Marks
<1>3. ~OnlyBlanks(s)
  BY <1>1, <1>2 DEF OnlyBlanks
<1> DEFINE t == SkipBlanks(s)
<1>4. t \in Seq(T)
  BY <1>3, SkippedBehind
<1>5. PICK i \in 1 .. Len(s) : Behind(t, s, i) /\ \A j \in 1 .. i - 1 : s[j] = Space
  BY <1>3, SkippedBehind
<1> HIDE DEF t
<1>6. i = 1
  <2> SUFFICES ASSUME i # 1 PROVE FALSE
    OBVIOUS
  <2>1. 1 \in 1 .. i - 1
    BY <1>1
  <2>2. QED BY <1>2, <1>5, <2>1
<1>7. 1 \in 1 .. Len(t) /\ 1 + i - 1 = 1
  BY <1>1, <1>2, <1>5, <1>6 DEF Behind
<1>8. t[1] = s[1]
  <2>1. t[1] = s[1 + i - 1]
    BY <1>5, <1>7 DEF Behind
  <2>2. QED BY <1>7, <2>1
<1>9. DOMAIN t = 1 .. Len(t)
  BY <1>4, LenProperties
<1>10. IsDigit(t, 1)
  BY <1>2, <1>7, <1>8, <1>9 DEF IsDigit
<1>11. QED BY <1>4, <1>8, <1>10 DEF t

\* A sound timeout can be read.
LEMMA TimeoutReads ==
  ASSUME NEW T, NEW text \in Seq(T), HasTimeout(text),
         \A j \in DOMAIN text : text[j] = "timeout=" => IsIntAt(text, j + 1)
  PROVE  IsInt(Timeout(text))
<1> DEFINE seps == {";"}
           rest == CutUntilChar(text, seps, FALSE).rest
           t    == Tail(rest)
<1>1. rest # <<>> /\ rest[1] = "timeout=" /\ Timeout(text) = SkipBlanks(t)
  BY DEF HasTimeout, Timeout, TimeoutText
<1> HIDE DEF seps
<1>2. rest \in Seq(T)
  BY CutType
<1>3. PICK i \in 1 .. Len(text) + 1 : Behind(rest, text, i)
  BY CutEnd
<1> HIDE DEF rest
<1>4. t \in Seq(T) /\ Behind(t, rest, 2)
  BY <1>1, <1>2, TailBehind
<1> HIDE DEF t
<1>5. /\ Len(text) \in Nat /\ DOMAIN text = 1 .. Len(text)
      /\ Len(rest) \in Nat /\ Len(rest) # 0
      /\ Len(t) \in Nat /\ DOMAIN t = 1 .. Len(t) /\ Len(t) = Len(rest) - 1
  BY <1>1, <1>2, <1>4, LenProperties, EmptySeq DEF Behind
<1>6. \A j \in 1 .. Len(rest) : rest[j] = text[j + i - 1] /\ j + i - 1 \in 1 .. Len(text)
  BY <1>3, <1>5 DEF Behind
<1>7. i \in DOMAIN text /\ text[i] = "timeout="
  <2>1. 1 \in 1 .. Len(rest) /\ 1 + i - 1 = i
    BY <1>5
  <2>2. rest[1] = text[1 + i - 1] /\ 1 + i - 1 \in 1 .. Len(text)
    BY <1>6, <2>1
  <2>3. QED BY <1>1, <1>5, <2>1, <2>2
<1>8. i + 1 \in DOMAIN text /\ text[i + 1] \in Ints
  BY <1>7 DEF IsIntAt, IsDigit, Ints
<1>9. 2 \in 1 .. Len(rest) /\ 2 + i - 1 = i + 1
  <2>1. Len(rest) = Len(text) - i + 1
    BY <1>3 DEF Behind
  <2>2. QED BY <1>5, <1>8, <2>1
<1>10. rest[2] = text[i + 1]
  <2>1. rest[2] = text[2 + i - 1]
    BY <1>6, <1>9
  <2>2. QED BY <1>9, <2>1
<1>11. t[1] = rest[2] /\ 1 \in DOMAIN t
  <2>1. 1 \in 1 .. Len(t) /\ 1 + 2 - 1 = 2
    BY <1>5, <1>9
  <2>2. t[1] = rest[1 + 2 - 1]
    BY <1>4, <2>1 DEF Behind
  <2>3. QED BY <1>5, <2>1, <2>2
<1>12. IsDigit(t, 1) /\ t[1] \in Ints
  BY <1>8, <1>10, <1>11 DEF IsDigit, Ints
<1>13. /\ IsDigit(SkipBlanks(t), 1) /\ SkipBlanks(t) \in Seq(T)
       /\ SkipBlanks(t)[1] = t[1]
  BY <1>4, <1>12, SkipNothing
<1>14. IsIntAt(SkipBlanks(t), 1)
  BY <1>12, <1>13 DEF IsIntAt, Ints
<1>15. QED BY <1>1, <1>13, <1>14, IntInFront

\* A sound line can be read.
LEMMA SoundReads ==
  ASSUME NEW line \in Lines, Sound(line)
  PROVE  Readable(line)
<1> DEFINE text == SkipBlanks(line.val)
           key  == line.key
<1>1. text \in Seq(Chars)
  BY ValueType
<1>2. CASE key = "unknown"
  <2>1. /\ "unknown" # "Content-Length" /\ "unknown" # "CSeq" /\ "unknown" # "Notice"
        /\ "unknown" # "x-Accept-Dynamic-Rate"
    BY Zenon
  <2>2. "unknown" # "Session" /\ "unknown" # "Range" /\ "unknown" # "Transport"
    BY Zenon
  <2>3. key \notin Numbers /\ key # "Session" /\ key # "Range" /\ key # "Transport"
    BY <1>2, <2>1, <2>2 DEF Numbers
  <2>4. QED BY <1>2, <2>3, Zenon DEF Readable, IsClocked
<1>3. CASE key # "unknown"
  <2>1. /\ ~OnlyBlanks(line.val)
        /\ key \in Numbers => IsIntAt(text, 1)
        /\ key = "Session" =>
             \A j \in DOMAIN text : text[j] = "timeout=" => IsIntAt(text, j + 1)
        /\ key = "Range" /\ IsNpt(text) => SoundRange(text)
        /\ key = "Transport" => SoundTransport(text)
    BY <1>3, Zenon DEF Sound, IsClocked
  <2> HIDE DEF text, key
  <2>2. key \in Numbers => IsInt(text)
    BY <1>1, <2>1, IntInFront
  <2>3. key = "Session" /\ HasTimeout(text) => IsInt(Timeout(text))
    BY <1>1, <2>1, TimeoutReads
  <2>4. key = "Range" /\ IsNpt(text) => ReadableNpt(text)
    BY <1>1, <2>1, NptReads
  <2>5. key = "Transport" => ~ParseTransport(NewMessage, text).bad
    BY <1>1, <2>1, NewMessageType, TransportReads
  <2>6. QED BY <2>1, <2>2, <2>3, <2>4, <2>5, Zenon DEF Readable, IsClocked, text, key
<1>4. QED BY <1>2, <1>3

\* What ended the process is the line that could not be read.
DeadByLine == status = "dead" => idx \in DOMAIN lines /\ ~Readable(lines[idx])

LEMMA NextDead == TypeOK /\ DeadByLine /\ [Next]_vars => DeadByLine'
<1> SUFFICES ASSUME TypeOK, DeadByLine, [Next]_vars PROVE DeadByLine'
  OBVIOUS
<1>1. CASE Receive
  BY <1>1 DEF Receive, DeadByLine
<1>2. CASE Parse
  BY <1>2 DEF Parse, DeadByLine
<1>3. CASE Throw
  <2>1. idx \in DOMAIN lines
    <3>1. lines \in Seq(Lines) /\ idx \in 1 .. Len(lines) + 1 /\ idx <= Len(lines)
      BY <1>3 DEF TypeOK, Throw
    <3>2. Len(lines) \in Nat /\ DOMAIN lines = 1 .. Len(lines)
      BY <3>1, LenProperties
    <3>3. QED BY <3>1, <3>2
  <2>2. ~Readable(lines[idx]) /\ lines' = lines /\ idx' = idx
    BY <1>3 DEF Throw
  <2>3. QED BY <2>1, <2>2 DEF DeadByLine
<1>4. CASE Parsed
  BY <1>4 DEF Parsed, DeadByLine
<1>5. CASE UNCHANGED vars
  BY <1>5 DEF vars, DeadByLine
<1>6. QED BY <1>1, <1>2, <1>3, <1>4, <1>5 DEF Next

\* SoundSurvives of every behaviour, for any largest int: std::stoi, std::stod
\* and at() throw at no line that is sound (rtsp_parse_line).
THEOREM SoundIsSurvived == Spec => []SoundSurvives
<1>1. Init => DeadByLine
  <2>1. "idle" # "dead"
    BY Zenon
  <2>2. QED BY <2>1 DEF Init, DeadByLine
<1>2. TypeOK /\ DeadByLine /\ [Next]_vars => (TypeOK /\ DeadByLine)'
  BY NextTypes, NextDead
<1>3. TypeOK /\ DeadByLine => SoundSurvives
  <2> SUFFICES ASSUME TypeOK, DeadByLine, status = "dead" PROVE ~Sound(lines[idx])
    BY DEF SoundSurvives
  <2>1. lines[idx] \in Lines
    <3>1. lines \in Seq(Lines) /\ idx \in DOMAIN lines
      BY DEF TypeOK, DeadByLine
    <3>2. QED BY <3>1, LenProperties, ElementOfSeq
  <2>2. ~Readable(lines[idx])
    BY DEF DeadByLine
  <2>3. QED BY <2>1, <2>2, SoundReads
<1>4. QED BY InitTypes, <1>1, <1>2, <1>3, PTL DEF Spec

-------------------------------------------------------------------------------
(* The times of a range *)

\* Where a text has a time, and the time.
Times(s) == {j \in 1 .. Len(s) : s[j] \in Digits \cup {"now"}}

Secs(c) == IF c = "now" THEN 0 ELSE Decimal[c]

\* What parse_timestr puts on the clock is a time of its text.
LEMMA TimeRead ==
  ASSUME NEW T, NEW s \in Seq(T), s = <<"now">> \/ IsNumber(s)
  PROVE  \E j \in Times(s) : \A t \in Nat : Timestr(s, t) = t + Secs(s[j])
<1>1. Len(s) \in Nat /\ DOMAIN s = 1 .. Len(s)
  BY LenProperties
<1>2. CASE s = <<"now">>
  <2>1. 1 \in Times(s) /\ Secs(s[1]) = 0
    BY <1>2 DEF Times, Secs
  <2>2. \A t \in Nat : Timestr(s, t) = t + Secs(s[1])
    BY <1>2, <2>1 DEF Timestr
  <2>3. QED BY <2>1, <2>2
<1>3. CASE s # <<"now">>
  <2>1. ~OnlyBlanks(s) /\ SkipBlanks(s)[1] \in Digits
    BY <1>3 DEF IsNumber
  <2>2. PICK i \in 1 .. Len(s) : Behind(SkipBlanks(s), s, i)
    BY <2>1, SkippedBehind
  <2>3. SkipBlanks(s)[1] = s[i]
    <3>1. 1 \in 1 .. Len(SkipBlanks(s)) /\ 1 + i - 1 = i
      BY <1>1, <2>2 DEF Behind
    <3>2. SkipBlanks(s)[1] = s[1 + i - 1]
      BY <2>2, <3>1 DEF Behind
    <3>3. QED BY <3>1, <3>2
  <2>4. s[i] \in Digits /\ s[i] # "now" /\ i \in Times(s)
    BY <2>1, <2>3, MessagesAssumption DEF Marks, Times
  <2>5. \A t \in Nat : Timestr(s, t) = t + ValueOf(s)
    BY <1>3 DEF Timestr
  <2>6. ValueOf(s) = Secs(s[i])
    BY <2>3, <2>4 DEF ValueOf, Secs
  <2>7. QED BY <2>4, <2>5, <2>6
<1>4. QED BY <1>2, <1>3

\* The first piece of a range has the first time, the second one a later time.
LEMMA TimesOfPieces ==
  ASSUME NEW T, NEW s \in Seq(T), NEW sep, sep \notin Digits \cup {"now"},
         \A k \in DOMAIN Split(s, sep) :
            k <= 2 => Split(s, sep)[k] = <<"now">> \/ IsNumber(Split(s, sep)[k])
  PROVE  LET vec     == Split(s, sep)
             At(h, k) == \A t \in Nat : Timestr(vec[k], t) = t + Secs(s[h])
         IN /\ Len(vec) \in Nat
            /\ Len(vec) >= 1 => \E h \in Times(s) : At(h, 1)
            /\ Len(vec) >= 2 => \E h1, h2 \in Times(s) : h1 < h2 /\ At(h1, 1) /\ At(h2, 2)
            /\ Times(s) # {} => Len(vec) >= 1
            /\ \A h1, h2 \in Times(s), d \in 1 .. Len(s) :
                  h1 < d /\ d < h2 /\ s[d] = sep => Len(vec) >= 2
<1> DEFINE vec == Split(s, sep)
           n   == Len(vec)
           At(h, k) == \A t \in Nat : Timestr(vec[k], t) = t + Secs(s[h])
           cut(i) == CutBehind(s, sep, i)
<1>1. Len(s) \in Nat /\ DOMAIN s = 1 .. Len(s)
  BY LenProperties
<1>2. n \in Nat /\ DOMAIN vec = 1 .. n
  <2>1. vec \in Seq(Seq(T))
    BY SplitType
  <2> HIDE DEF vec
  <2>2. QED BY <2>1, LenProperties
<1>3. PICK g \in [1 .. n -> 1 .. Len(s)] :
        /\ \A k \in 1 .. n : Begins(s, sep, g[k]) /\ vec[k] = PieceAt(s, sep, g[k])
        /\ \A k, l \in 1 .. n : k < l => g[k] < g[l]
        /\ \A i \in 1 .. Len(s) : Begins(s, sep, i) => \E k \in 1 .. n : g[k] = i
  BY SplitOrder
<1>4. \A k \in 1 .. n : k <= 2 => vec[k] = <<"now">> \/ IsNumber(vec[k])
  BY <1>2
<1> HIDE DEF vec, n
<1>5. \A k \in 1 .. n : k <= 2 => \E h \in Times(s) : g[k] <= h /\ h < cut(g[k]) /\ At(h, k)
  <2> SUFFICES ASSUME NEW k \in 1 .. n, k <= 2
               PROVE  \E h \in Times(s) : g[k] <= h /\ h < cut(g[k]) /\ At(h, k)
    OBVIOUS
  <2> DEFINE i == g[k]
             p == vec[k]
             c == cut(i)
  <2>1. i \in 1 .. Len(s) /\ Begins(s, sep, i) /\ p = PieceAt(s, sep, i)
    BY <1>3
  <2> HIDE DEF i
  <2>2. /\ PieceAt(s, sep, i) \in Seq(T) /\ Len(PieceAt(s, sep, i)) = c - i
        /\ c \in 1 .. Len(s) + 1
        /\ \A j \in 1 .. c - i : PieceAt(s, sep, i)[j] = s[i + j - 1]
    BY <2>1, PieceAtIs
  <2> HIDE DEF c
  <2>3. p \in Seq(T) /\ Len(p) = c - i /\ \A j \in 1 .. c - i : p[j] = s[i + j - 1]
    BY <2>1, <2>2
  <2>4. p = <<"now">> \/ IsNumber(p)
    BY <1>4
  <2>5. \A t : Timestr(vec[k], t) = Timestr(p, t)
    OBVIOUS
  <2> HIDE DEF p
  <2>6. PICK j \in Times(p) : \A t \in Nat : Timestr(p, t) = t + Secs(p[j])
    BY <2>3, <2>4, TimeRead
  <2>7. j \in 1 .. c - i /\ p[j] \in Digits \cup {"now"} /\ p[j] = s[i + j - 1]
    BY <2>3, <2>6 DEF Times
  <2> DEFINE h == i + j - 1
  <2>8. h \in 1 .. Len(s) /\ i <= h /\ h < c
    <3>1. i \in Nat /\ c \in Nat /\ j \in Nat /\ 1 <= i /\ 1 <= j /\ j <= c - i /\ c <= Len(s) + 1 /\ Len(s) \in Nat
      BY <1>1, <2>1, <2>2, <2>7
    <3>2. QED BY ONLY <3>1
  <2>9. s[h] = p[j]
    BY <2>7
  <2> HIDE DEF h
  <2>10. h \in Times(s)
    BY <2>7, <2>8, <2>9 DEF Times
  <2>11. At(h, k)
    BY <2>5, <2>6, <2>9
  <2>12. QED BY <2>8, <2>10, <2>11 DEF c, i
<1>6. n >= 1 => \E h \in Times(s) : At(h, 1)
  BY <1>2, <1>5
<1>7. n >= 2 => \E h1, h2 \in Times(s) : h1 < h2 /\ At(h1, 1) /\ At(h2, 2)
  <2> SUFFICES ASSUME n >= 2 PROVE \E h1, h2 \in Times(s) : h1 < h2 /\ At(h1, 1) /\ At(h2, 2)
    OBVIOUS
  <2>1. 1 \in 1 .. n /\ 2 \in 1 .. n
    BY <1>2
  <2>2. PICK h1 \in Times(s) : g[1] <= h1 /\ h1 < cut(g[1]) /\ At(h1, 1)
    BY <1>5, <2>1
  <2>3. PICK h2 \in Times(s) : g[2] <= h2 /\ At(h2, 2)
    BY <1>5, <2>1
  <2>4. g[1] < g[2] /\ g[1] \in 1 .. Len(s) /\ g[2] \in 1 .. Len(s)
    BY <1>3, <2>1
  <2>5. s[g[2] - 1] = sep
    <3>1. Begins(s, sep, g[2]) /\ g[2] # 1
      BY <1>3, <2>1, <2>4
    <3>2. QED BY <3>1 DEF Begins
  <2>6. cut(g[1]) \in 1 .. Len(s) + 1 /\ \A j \in g[1] .. cut(g[1]) - 1 : s[j] # sep
    <3> DEFINE i == g[1]
    <3>1. i \in 1 .. Len(s) /\ Begins(s, sep, i)
      BY <1>3, <2>1
    <3> HIDE DEF i
    <3>2. CutBehind(s, sep, i) \in 1 .. Len(s) + 1 /\ \A j \in i .. CutBehind(s, sep, i) - 1 : s[j] # sep
      BY <3>1, PieceAtIs
    <3>3. QED BY <3>2 DEF i
  <2> HIDE DEF cut
  <2>7. cut(g[1]) <= g[2]
    <3> SUFFICES ASSUME ~(cut(g[1]) <= g[2]) PROVE FALSE
      OBVIOUS
    <3>1. g[2] - 1 \in g[1] .. cut(g[1]) - 1
      BY <1>1, <2>4, <2>6
    <3>2. QED BY <2>5, <2>6, <3>1
  <2>8. h1 \in Nat /\ h2 \in Nat
    BY <2>2, <2>3 DEF Times
  <2>9. h1 < h2
    <3>1. cut(g[1]) \in Nat /\ g[2] \in Nat /\ h1 < cut(g[1]) /\ cut(g[1]) <= g[2] /\ g[2] <= h2
      BY <2>2, <2>3, <2>4, <2>6, <2>7
    <3>2. QED BY ONLY <2>8, <3>1
  <2>10. QED BY <2>2, <2>3, <2>9
<1>8. \A h \in Times(s) : \E k \in 1 .. n : g[k] <= h /\ h < cut(g[k])
  <2> SUFFICES ASSUME NEW h \in Times(s) PROVE \E k \in 1 .. n : g[k] <= h /\ h < cut(g[k])
    OBVIOUS
  <2>1. h \in 1 .. Len(s) /\ s[h] # sep
    BY DEF Times
  <2>2. PICK i \in 1 .. h : Begins(s, sep, i) /\ h < CutBehind(s, sep, i)
    BY <2>1, SplitCovers
  <2>3. i \in 1 .. Len(s)
    BY <1>1, <2>1
  <2>4. PICK k \in 1 .. n : g[k] = i
    BY <1>3, <2>2, <2>3
  <2>5. g[k] <= h
    BY <2>1, <2>4
  <2>6. h < cut(g[k])
    BY <2>2, <2>4
  <2>7. QED BY <2>5, <2>6
<1>9. Times(s) # {} => n >= 1
  <2> HIDE DEF cut
  <2>1. \A k \in 1 .. n : n >= 1
    BY <1>2
  <2>2. QED BY <1>8, <2>1
<1>10. \A h1, h2 \in Times(s), d \in 1 .. Len(s) : h1 < d /\ d < h2 /\ s[d] = sep => n >= 2
  <2> SUFFICES ASSUME NEW h1 \in Times(s), NEW h2 \in Times(s), NEW d \in 1 .. Len(s),
                      h1 < d, d < h2, s[d] = sep, ~(n >= 2)
               PROVE  FALSE
    OBVIOUS
  <2>1. PICK k1 \in 1 .. n : g[k1] <= h1 /\ h1 < cut(g[k1])
    BY <1>8
  <2>2. PICK k2 \in 1 .. n : g[k2] <= h2 /\ h2 < cut(g[k2])
    BY <1>8
  <2>3. k1 = k2
    BY <1>2, <2>1, <2>2
  <2> DEFINE i == g[k1]
  <2>4. i \in 1 .. Len(s) /\ Begins(s, sep, i)
    BY <1>3
  <2>5. i <= h1 /\ h2 < cut(i)
    BY <2>1, <2>2, <2>3
  <2> HIDE DEF i
  <2>6. cut(i) \in 1 .. Len(s) + 1 /\ \A j \in i .. cut(i) - 1 : s[j] # sep
    BY <2>4, PieceAtIs
  <2> HIDE DEF cut
  <2>7. h1 \in Nat /\ h2 \in Nat
    BY DEF Times
  <2>8. d \in i .. cut(i) - 1
    <3>1. i \in Nat /\ cut(i) \in Nat /\ d \in Nat /\ i <= h1 /\ h1 < d /\ d < h2 /\ h2 < cut(i)
      BY <1>1, <2>4, <2>5, <2>6
    <3>2. QED BY ONLY <2>7, <3>1
  <2>9. QED BY <2>6, <2>8
<1>11. QED BY <1>2, <1>6, <1>7, <1>9, <1>10 DEF vec, n

\* What a range leaves of the times of its text, the clock being set back or
\* not between them.
Timed(r, text, back) ==
    LET times == {j \in 2 .. Len(text) : text[j] \in Digits \cup {"now"}}
    IN /\ times = {} => r.start = NOPTS /\ r.end = NOPTS
       /\ \A a \in times : times = {a} => r.start >= Secs(text[a]) /\ r.end = NOPTS
       /\ \A a, b \in times :
            times = {a, b} /\ (\E d \in a .. b : text[d] = "-") =>
              /\ r.start >= Secs(text[a])
              /\ ~back => r.end - r.start >= Secs(text[b]) - Secs(text[a])

LEMMA NptTimed ==
  ASSUME NEW r \in Message, NEW T, NEW text \in Seq(T), text # <<>>, ReadableNpt(text),
         NEW t1 \in Nat, NEW t2 \in Nat
  PROVE  Timed(RangeNpt(r, text, t1, t2), text, t2 < t1)
<1> DEFINE sep   == "-"
           times == {j \in 2 .. Len(text) : text[j] \in Digits \cup {"now"}}
           u     == SkipBlanks(Tail(text))
           vec   == Split(u, sep)
           q     == RangeNpt(r, text, t1, t2)
           At(h, k) == \A t \in Nat : Timestr(vec[k], t) = t + Secs(u[h])
<1>1. Tail(text) \in Seq(T) /\ Behind(Tail(text), text, 2) /\ Len(text) \in Nat
  BY TailBehind, LenProperties
<1>2. /\ ~OnlyBlanks(Tail(text))
      /\ \A k \in DOMAIN vec : k <= 2 => vec[k] = <<"now">> \/ IsNumber(vec[k])
  BY DEF ReadableNpt
<1>3. /\ q.start = IF vec = <<>> THEN NOPTS ELSE Timestr(vec[1], t1)
      /\ q.end = IF Len(vec) < 2 THEN NOPTS ELSE Timestr(vec[2], t2)
  BY DEF RangeNpt, Message
<1>4. sep \notin Digits \cup {"now"} /\ Space \notin Digits \cup {"now"}
  BY MessagesAssumption, SpaceMarks DEF Marks
<1>5. u \in Seq(T) /\ vec \in Seq(Seq(T))
  BY <1>1, <1>2, SkippedBehind, SplitType
<1> HIDE DEF sep
<1>6. PICK i \in 1 .. Len(Tail(text)) :
        Behind(u, Tail(text), i) /\ \A j \in 1 .. i - 1 : Tail(text)[j] = Space
  BY <1>1, <1>2, SkippedBehind
<1> HIDE DEF u
<1>7. /\ Len(u) = Len(text) - i /\ i \in Nat /\ 1 <= i /\ i <= Len(text) - 1
      /\ \A h \in 1 .. Len(u) : u[h] = text[h + i]
      /\ \A j \in 2 .. i : text[j] = Space
  <2> DEFINE t == Tail(text)
  <2>1. Len(t) = Len(text) - 1 /\ \A j \in 1 .. Len(t) : t[j] = text[j + 2 - 1]
    BY <1>1 DEF Behind
  <2>2. i \in 1 .. Len(t) /\ \A j \in 1 .. i - 1 : t[j] = Space
    BY <1>6
  <2>3. Len(u) = Len(t) - i + 1 /\ \A h \in 1 .. Len(u) : u[h] = t[h + i - 1]
    BY <1>6 DEF Behind
  <2> HIDE DEF t
  <2>4. Len(u) = Len(text) - i /\ i \in Nat /\ 1 <= i /\ i <= Len(text) - 1
    BY <1>1, <2>1, <2>2, <2>3
  <2>5. \A h \in 1 .. Len(u) : u[h] = text[h + i]
    <3> SUFFICES ASSUME NEW h \in 1 .. Len(u) PROVE u[h] = text[h + i]
      OBVIOUS
    <3>1. h + i - 1 \in 1 .. Len(t) /\ (h + i - 1) + 2 - 1 = h + i
      BY <1>1, <2>1, <2>4
    <3>2. u[h] = t[h + i - 1] /\ t[h + i - 1] = text[(h + i - 1) + 2 - 1]
      BY <2>1, <2>3, <3>1
    <3>3. QED BY <3>1, <3>2
  <2>6. \A j \in 2 .. i : text[j] = Space
    <3> SUFFICES ASSUME NEW j \in 2 .. i PROVE text[j] = Space
      OBVIOUS
    <3>1. j - 1 \in 1 .. Len(t) /\ j - 1 \in 1 .. i - 1 /\ (j - 1) + 2 - 1 = j
      BY <1>1, <2>1, <2>4
    <3>2. t[j - 1] = Space /\ t[j - 1] = text[(j - 1) + 2 - 1]
      BY <2>1, <2>2, <3>1
    <3>3. QED BY <3>1, <3>2
  <2>7. QED BY <2>4, <2>5, <2>6
<1>8. \A h \in Times(u) : h + i \in times /\ text[h + i] = u[h] /\ h \in Nat
  <2> SUFFICES ASSUME NEW h \in Times(u) PROVE h + i \in times /\ text[h + i] = u[h] /\ h \in Nat
    OBVIOUS
  <2>1. h \in 1 .. Len(u) /\ u[h] \in Digits \cup {"now"}
    BY DEF Times
  <2>2. h + i \in 2 .. Len(text) /\ h \in Nat
    BY <1>1, <1>7, <2>1
  <2>3. QED BY <1>7, <2>1, <2>2
<1>9. \A j \in times : j \in Nat /\ j - i \in Times(u) /\ u[j - i] = text[j]
  <2> SUFFICES ASSUME NEW j \in times PROVE j \in Nat /\ j - i \in Times(u) /\ u[j - i] = text[j]
    OBVIOUS
  <2>1. j \in 2 .. Len(text) /\ text[j] \in Digits \cup {"now"} /\ text[j] # Space
    BY <1>4
  <2>2. ~(j <= i)
    BY <1>7, <2>1
  <2>3. j - i \in 1 .. Len(u) /\ (j - i) + i = j /\ j \in Nat
    BY <1>1, <1>7, <2>1, <2>2
  <2>4. u[j - i] = text[(j - i) + i]
    BY <1>7, <2>3
  <2>5. QED BY <2>1, <2>3, <2>4 DEF Times
<1>10. \A k \in DOMAIN vec : k <= 2 => vec[k] = <<"now">> \/ IsNumber(vec[k])
  BY <1>2 DEF u
<1>11. /\ Len(vec) \in Nat
       /\ Len(vec) >= 1 => \E h \in Times(u) : At(h, 1)
       /\ Len(vec) >= 2 => \E h1, h2 \in Times(u) : h1 < h2 /\ At(h1, 1) /\ At(h2, 2)
       /\ Times(u) # {} => Len(vec) >= 1
       /\ \A h1, h2 \in Times(u), d \in 1 .. Len(u) :
             h1 < d /\ d < h2 /\ u[d] = sep => Len(vec) >= 2
  BY <1>4, <1>5, <1>10, TimesOfPieces
<1>12. vec = <<>> <=> ~(Len(vec) >= 1)
  <2> HIDE DEF vec
  <2>1. QED BY <1>5, LenProperties
<1>13. \A c : c \in Digits \cup {"now"} => Secs(c) \in Nat
  BY MessagesAssumption DEF Secs
<1>14. \A h \in Times(u) : Secs(u[h]) \in Nat
  BY <1>13 DEF Times
<1> HIDE DEF vec, times
<1>15. times = {} => q.start = NOPTS /\ q.end = NOPTS
  <2> SUFFICES ASSUME times = {} PROVE q.start = NOPTS /\ q.end = NOPTS
    OBVIOUS
  <2>1. Times(u) = {}
    BY <1>8
  <2>2. ~(Len(vec) >= 1)
    BY <1>11, <2>1
  <2>3. QED BY <1>3, <1>11, <1>12, <2>2
<1>16. \A a \in times : times = {a} => q.start >= Secs(text[a]) /\ q.end = NOPTS
  <2> SUFFICES ASSUME NEW a \in times, times = {a} PROVE q.start >= Secs(text[a]) /\ q.end = NOPTS
    OBVIOUS
  <2>1. a - i \in Times(u) /\ \A h \in Times(u) : h = a - i
    <3>1. \A h \in Times(u) : h \in Nat /\ h + i = a
      BY <1>8
    <3>2. \A h \in Times(u) : h = a - i
      BY <1>7, <3>1
    <3>3. QED BY <1>9, <3>2
  <2>2. Len(vec) >= 1 /\ ~(Len(vec) >= 2)
    <3>1. ~\E h1, h2 \in Times(u) : h1 < h2
      BY <1>8, <2>1
    <3>2. Times(u) # {}
      BY <2>1
    <3>3. QED BY <1>11, <3>1, <3>2
  <2>3. PICK h \in Times(u) : At(h, 1)
    BY <1>11, <2>2
  <2>4. u[h] = text[a]
    BY <1>9, <2>1, <2>3
  <2>5. q.start = t1 + Secs(u[h]) /\ q.end = NOPTS
    BY <1>3, <1>11, <1>12, <2>2, <2>3
  <2>6. QED BY <1>14, <2>3, <2>4, <2>5
<1>17. \A a, b \in times :
         times = {a, b} /\ (\E d \in a .. b : text[d] = sep) =>
           /\ q.start >= Secs(text[a])
           /\ ~(t2 < t1) => q.end - q.start >= Secs(text[b]) - Secs(text[a])
  <2> SUFFICES ASSUME NEW a \in times, NEW b \in times, times = {a, b},
                      NEW d \in a .. b, text[d] = sep
               PROVE  /\ q.start >= Secs(text[a])
                      /\ ~(t2 < t1) => q.end - q.start >= Secs(text[b]) - Secs(text[a])
    OBVIOUS
  <2>1. a \in Nat /\ b \in Nat /\ a - i \in Times(u) /\ b - i \in Times(u)
        /\ u[a - i] = text[a] /\ u[b - i] = text[b]
    BY <1>9
  <2>2. text[a] # sep /\ text[b] # sep
    BY <1>4 DEF times
  <2>3. a < d /\ d < b
    BY <2>1, <2>2
  <2>4. d - i \in 1 .. Len(u) /\ (d - i) + i = d
    <3>1. /\ a - i \in Nat /\ b - i \in Nat /\ 1 <= a - i /\ b - i <= Len(u) /\ d \in Int
      BY <2>1 DEF Times
    <3>2. QED BY <1>1, <1>7, <2>1, <2>3, <3>1
  <2>5. u[d - i] = sep
    <3>1. u[d - i] = text[(d - i) + i]
      BY <1>7, <2>4
    <3>2. QED BY <2>4, <3>1
  <2>6. a - i < d - i /\ d - i < b - i
    BY <1>7, <2>1, <2>3
  <2>7. Len(vec) >= 2
    BY <1>11, <2>1, <2>4, <2>5, <2>6
  <2>8. PICK h1 \in Times(u) : \E h2 \in Times(u) : h1 < h2 /\ At(h1, 1) /\ At(h2, 2)
    BY <1>11, <2>7
  <2>9. PICK h2 \in Times(u) : h1 < h2 /\ At(h1, 1) /\ At(h2, 2)
    BY <2>8
  <2>10. h1 + i \in {a, b} /\ h2 + i \in {a, b} /\ h1 \in Nat /\ h2 \in Nat
    BY <1>8
  <2>11. h1 + i = a /\ h2 + i = b
    BY <1>7, <2>1, <2>3, <2>9, <2>10
  <2>12. u[h1] = text[a] /\ u[h2] = text[b]
    BY <1>8, <2>11
  <2>13. q.start = t1 + Secs(text[a]) /\ q.end = t2 + Secs(text[b])
    BY <1>3, <1>11, <1>12, <2>7, <2>9, <2>12
  <2>14. Secs(text[a]) \in Nat /\ Secs(text[b]) \in Nat
    BY <1>14, <2>12
  <2> HIDE DEF q
  <2>15. QED BY <2>13, <2>14
<1>18. QED BY <1>15, <1>16, <1>17 DEF Timed, times, sep

-------------------------------------------------------------------------------
(* The last line of a kind *)

\* The last line of the kind K among those read since idx was reset, if there
\* is one, is related by R to what the message holds.
LastFits(K, R) ==
    \A j \in 1 .. idx - 1 :
      lines[j] \in K /\ (\A i \in j + 1 .. idx - 1 : lines[i] \notin K) =>
        <<lines[j], reply, setBack>> \in R

\* Whether the clock was set back, after a line.
Back(back, line, t1, t2) == IF IsClocked(line) THEN t2 < t1 ELSE back

\* A line of the kind brings the message into the relation, and no other line
\* takes it out.
Fitting(K, R) ==
    /\ StatusLine \notin K
    /\ \A r \in Message, back \in BOOLEAN, line \in Lines, t1, t2 \in Nat :
         Readable(line) =>
           LET read(l) == <<l, ParseLine(r, line, t1, t2), Back(back, line, t1, t2)>>
           IN /\ line \in K => read(line) \in R
              /\ line \notin K => \A l \in K : <<l, r, back>> \in R => read(l) \in R

LEMMA ParseFits ==
  ASSUME NEW K, NEW R, Fitting(K, R), TypeOK, LastFits(K, R), Parse
  PROVE  LastFits(K, R)'
<1> DEFINE line == lines[idx]
<1>1. /\ Len(lines) \in Nat /\ idx \in 1 .. Len(lines) /\ line \in Lines /\ Readable(line)
      /\ idx' = idx + 1 /\ lines' = lines /\ reply \in Message
      /\ setBack \in BOOLEAN
  BY LenProperties, ElementOfSeq DEF Parse, TypeOK
<1> PICK t1 \in 0 .. MaxClock, t2 \in 0 .. MaxClock :
       /\ reply' = ParseLine(reply, line, t1, t2)
       /\ setBack' = IF IsClocked(line) THEN t2 < t1 ELSE setBack
  BY Zenon DEF Parse
<1>2. t1 \in Nat /\ t2 \in Nat /\ setBack' = Back(setBack, line, t1, t2)
  <2> HIDE DEF line
  <2>1. QED BY BoundsAssumption DEF Back
<1>3. /\ line \in K => <<line, reply', setBack'>> \in R
      /\ line \notin K =>
           \A l \in K : <<l, reply, setBack>> \in R => <<l, reply', setBack'>> \in R
  <2> HIDE DEF line
  <2>1. /\ line \in K =>
             <<line, ParseLine(reply, line, t1, t2), Back(setBack, line, t1, t2)>> \in R
        /\ line \notin K =>
             \A l \in K : <<l, reply, setBack>> \in R =>
               <<l, ParseLine(reply, line, t1, t2), Back(setBack, line, t1, t2)>> \in R
    BY <1>1, <1>2 DEF Fitting
  <2>2. QED BY <1>2, <2>1
<1> SUFFICES ASSUME NEW j \in 1 .. idx, lines[j] \in K,
                    \A i \in j + 1 .. idx : lines[i] \notin K
             PROVE  <<lines[j], reply', setBack'>> \in R
  <2>1. idx' - 1 = idx
    BY <1>1
  <2>2. QED BY <1>1, <2>1 DEF LastFits
<1>4. CASE j = idx
  BY <1>3, <1>4
<1>5. CASE j # idx
  <2>1. j \in 1 .. idx - 1 /\ idx \in j + 1 .. idx /\ \A i \in j + 1 .. idx - 1 : i \in j + 1 .. idx
    BY <1>1, <1>5
  <2>2. line \notin K
    BY <2>1
  <2>3. <<lines[j], reply, setBack>> \in R
    BY <2>1 DEF LastFits
  <2> HIDE DEF line
  <2>4. QED BY <1>3, <2>2, <2>3
<1>6. QED BY <1>4, <1>5

LEMMA NextFits ==
  ASSUME NEW K, NEW R, Fitting(K, R), TypeOK, Overlaid, LastFits(K, R), [Next]_vars
  PROVE  LastFits(K, R)'
<1>1. CASE Receive
  <2>1. /\ Len(lines) \in Nat /\ Len(lines') \in Nat /\ Len(lines) + 1 <= Len(lines')
        /\ \A k \in 1 .. Len(lines) : lines'[k] = lines[k]
        /\ lines'[Len(lines) + 1] = StatusLine
    BY <1>1, LinesReceived
  <2>2. idx' = 2
    BY <1>1 DEF Receive
  <2>3. lines'[1] = StatusLine
    <3>1. CASE Len(lines) = 0
      BY <2>1, <3>1
    <3>2. CASE Len(lines) # 0
      <4>1. lines # <<>> /\ 1 \in 1 .. Len(lines)
        BY <2>1, <3>2
      <4>2. QED BY <2>1, <4>1 DEF Overlaid
    <3>3. QED BY <3>1, <3>2
  <2>4. \A j \in 1 .. idx' - 1 : j = 1
    BY <2>2
  <2>5. StatusLine \notin K
    BY DEF Fitting
  <2>6. QED BY <2>3, <2>4, <2>5 DEF LastFits
<1>2. CASE Parse
  BY <1>2, ParseFits
<1>3. CASE Throw
  BY <1>3 DEF Throw, LastFits
<1>4. CASE Parsed
  BY <1>4 DEF Parsed, LastFits
<1>5. CASE UNCHANGED vars
  BY <1>5 DEF vars, LastFits
<1>6. QED BY <1>1, <1>2, <1>3, <1>4, <1>5 DEF Next

LEMMA InitFits == ASSUME NEW K, NEW R, Init PROVE LastFits(K, R)
  BY DEF Init, LastFits

\* When all lines have been read, the last one of the kind fits.
LEMMA LastOneFits ==
  ASSUME NEW K, NEW R, TypeOK, Overlaid, LastFits(K, R), status = "idle",
         NEW I, I = {i \in DOMAIN lines : lines[i] \in K}, I # {}
  PROVE  lines[Max(I)] \in K /\ <<lines[Max(I)], reply, setBack>> \in R
<1>1. Len(lines) \in Nat /\ DOMAIN lines = 1 .. Len(lines) /\ idx = Len(lines) + 1
  BY LenProperties DEF TypeOK, Overlaid
<1> DEFINE n == Len(lines)
           m == Max(I)
<1>2. I \in SUBSET (1 .. n) /\ n \in Nat
  BY <1>1
<1>3. m \in I /\ \A i \in I : i <= m
  <2> HIDE DEF n
  <2>1. QED BY <1>2, GreatestOne
<1> HIDE DEF m
<1>4. m \in 1 .. idx - 1 /\ lines[m] \in K
  BY <1>1, <1>3
<1>5. \A i \in m + 1 .. idx - 1 : lines[i] \notin K
  BY <1>1, <1>3, <1>4
<1>6. <<lines[m], reply, setBack>> \in R
  BY <1>4, <1>5 DEF LastFits
<1>7. QED BY <1>4, <1>6 DEF m

-------------------------------------------------------------------------------
(* Ranges *)

RangeLines == {l \in Lines : IsClocked(l)}

Ranged == {q \in Lines \X Message \X BOOLEAN : Timed(q[2], SkipBlanks(q[1].val), q[3])}

LEMMA RangeLineRead ==
  ASSUME NEW r, NEW line, NEW t1, NEW t2, IsClocked(line)
  PROVE  ParseLine(r, line, t1, t2) = RangeNpt(r, SkipBlanks(line.val), t1, t2)
  BY Zenon DEF ParseLine, IsClocked, Numbers, Texts

LEMMA BackType ==
  ASSUME NEW back \in BOOLEAN, NEW line, NEW t1 \in Nat, NEW t2 \in Nat
  PROVE  Back(back, line, t1, t2) \in BOOLEAN
<1>1. (t2 < t1) \in BOOLEAN
  OBVIOUS
<1>2. QED BY <1>1 DEF Back

\* A range goes into the two times of the message, and nothing else does.
LEMMA RangeFitting == Fitting(RangeLines, Ranged)
<1>1. StatusLine \notin RangeLines
  <2>1. "unknown" # "Range"
    BY Zenon
  <2>2. QED BY <2>1 DEF StatusLine, RangeLines, IsClocked
<1> SUFFICES ASSUME NEW r \in Message, NEW back \in BOOLEAN, NEW line \in Lines,
                    NEW t1 \in Nat, NEW t2 \in Nat, Readable(line)
             PROVE  LET read(l) == <<l, ParseLine(r, line, t1, t2), Back(back, line, t1, t2)>>
                    IN /\ line \in RangeLines => read(line) \in Ranged
                       /\ line \notin RangeLines =>
                            \A l \in RangeLines : <<l, r, back>> \in Ranged => read(l) \in Ranged
  BY <1>1 DEF Fitting
<1> DEFINE text == SkipBlanks(line.val)
           q == ParseLine(r, line, t1, t2)
           c == Back(back, line, t1, t2)
<1>2. q \in Message /\ c \in BOOLEAN
  BY LineType, BackType
<1>3. text \in Seq(STRING)
  BY ValueType
<1>4. ASSUME line \in RangeLines PROVE <<line, q, c>> \in Ranged
  <2>1. IsClocked(line) /\ IsNpt(text)
    BY <1>4 DEF RangeLines, IsClocked
  <2>2. q = RangeNpt(r, text, t1, t2)
    BY <2>1, RangeLineRead
  <2>3. ReadableNpt(text)
    BY <2>1 DEF Readable
  <2>4. text # <<>>
    BY <2>1 DEF IsNpt
  <2>5. Timed(q, text, c)
    <3>1. c = (t2 < t1)
      BY <2>1 DEF Back
    <3> HIDE DEF text, c
    <3>2. Timed(RangeNpt(r, text, t1, t2), text, t2 < t1)
      BY <1>3, <2>3, <2>4, NptTimed
    <3>3. QED BY <2>2, <3>1, <3>2
  <2> HIDE DEF q, c
  <2>6. QED BY <1>2, <2>5 DEF Ranged
<1>5. ASSUME line \notin RangeLines, NEW l \in RangeLines, <<l, r, back>> \in Ranged
      PROVE  <<l, q, c>> \in Ranged
  <2>1. q.start = r.start /\ q.end = r.end
    <3>1. ~(line.key = "Range" /\ IsNpt(text))
      BY <1>5 DEF RangeLines, IsClocked
    <3>2. Effect(q, r, line, text, t1, t2)
      BY LineEffect
    <3> HIDE DEF q, text
    <3>3. QED BY <3>1, <3>2 DEF Effect, Message
  <2>2. Timed(r, SkipBlanks(l.val), back) /\ l \in Lines
    BY <1>5 DEF Ranged, RangeLines
  <2>3. Timed(q, SkipBlanks(l.val), c)
    <3>1. c = back
      BY <1>5 DEF Back, RangeLines
    <3> HIDE DEF q, c
    <3>2. QED BY <2>1, <2>2, <3>1 DEF Timed
  <2> HIDE DEF q, c
  <2>4. QED BY <1>2, <2>2, <2>3 DEF Ranged
<1>6. QED BY <1>4, <1>5

LEMMA RangesHold ==
  TypeOK /\ Overlaid /\ LastFits(RangeLines, Ranged) => RangeHolds
<1> DEFINE I == {i \in DOMAIN lines : IsClocked(lines[i])}
<1> SUFFICES ASSUME TypeOK, Overlaid, LastFits(RangeLines, Ranged), status = "idle", I # {}
             PROVE  Timed(reply, LastVal(I), setBack)
  BY DEF RangeHolds, Timed, Secs
<1>1. I = {i \in DOMAIN lines : lines[i] \in RangeLines}
  <2>1. \A i \in DOMAIN lines : lines[i] \in Lines
    BY LenProperties, ElementOfSeq DEF TypeOK
  <2>2. QED BY <2>1 DEF RangeLines
<1> HIDE DEF I
<1>2. <<lines[Max(I)], reply, setBack>> \in Ranged
  BY <1>1, LastOneFits
<1>3. QED BY <1>2 DEF Ranged, LastVal

\* RangeHolds of every behaviour: the times of the message are those of the last
\* range, however often the lines before it are read again.
THEOREM RangesAreHeld == Spec => []RangeHolds
<1>1. Init => LastFits(RangeLines, Ranged)
  BY InitFits
<1>2. TypeOK /\ Overlaid /\ LastFits(RangeLines, Ranged) /\ [Next]_vars
        => LastFits(RangeLines, Ranged)'
  BY RangeFitting, NextFits
<1> QED
  BY InitTypes, InitOverlaid, NextTypes, NextOverlaid, <1>1, <1>2, RangesHold, PTL DEF Spec

-------------------------------------------------------------------------------
(* Transports *)

LEMMA BehindFurther ==
  ASSUME NEW s, NEW t, NEW u, NEW i, NEW j, Len(s) \in Nat, Behind(t, s, i), Behind(u, t, j)
  PROVE  Behind(u, s, i + j - 1)
<1>1. /\ i \in 1 .. Len(s) + 1 /\ Len(t) = Len(s) - i + 1
      /\ \A k \in 1 .. Len(t) : t[k] = s[k + i - 1]
      /\ j \in 1 .. Len(t) + 1 /\ Len(u) = Len(t) - j + 1
      /\ \A k \in 1 .. Len(u) : u[k] = t[k + j - 1]
  BY DEF Behind
<1>2. i + j - 1 \in 1 .. Len(s) + 1 /\ Len(u) = Len(s) - (i + j - 1) + 1
  BY <1>1
<1>3. \A k \in 1 .. Len(u) : u[k] = s[k + (i + j - 1) - 1]
  <2> SUFFICES ASSUME NEW k \in 1 .. Len(u) PROVE u[k] = s[k + (i + j - 1) - 1]
    OBVIOUS
  <2>1. k + j - 1 \in 1 .. Len(t) /\ (k + j - 1) + i - 1 = k + (i + j - 1) - 1
    BY <1>1
  <2>2. u[k] = t[k + j - 1] /\ t[k + j - 1] = s[(k + j - 1) + i - 1]
    BY <1>1, <2>1
  <2>3. QED BY <2>1, <2>2
<1>4. QED BY <1>2, <1>3 DEF Behind

LEMMA OneInSubSeq ==
  ASSUME NEW T, NEW s \in Seq(T), NEW i \in 1 .. Len(s)
  PROVE  SubSeq(s, i, i) = <<s[i]>>
<1> DEFINE t == SubSeq(s, i, i)
<1>1. Len(s) \in Nat
  BY LenProperties
<1>2. t \in Seq(T) /\ Len(t) = 1 /\ t[1] = s[i]
  BY <1>1, SubSeqProperties
<1> HIDE DEF t
<1>3. t = <<t[1]>>
  BY ONLY <1>2
<1>4. QED BY <1>2, <1>3 DEF t

\* What the fields of a transport are read from begins in front of every field.
FieldsFrom(text, b) ==
    \A j \in 2 .. Len(text) :
      text[j - 1] = ";" /\ (\E s \in 1 .. j - 1 : text[s] = "/") => b <= j

Naming(text) == \E e \in DOMAIN text : Names(text, e)

LEMMA NoProtocol ==
  ASSUME NEW text \in Seq(Chars), CutUntilChar(text, {"/"}, FALSE).head # <<"RTP">>
  PROVE  /\ \E b \in 1 .. Len(text) + 1 :
              Behind(CutUntilChar(text, {"/"}, FALSE).rest, text, b) /\ FieldsFrom(text, b)
         /\ ~Naming(text)
<1> DEFINE sl == "/"
           sc == ";"
           cut == CutUntilChar(text, {sl}, FALSE)
           h == cut.head
           r == cut.rest
<1>0. sl # sc /\ "RTP" # sl
  BY Zenon
<1>1. Len(text) \in Nat /\ DOMAIN text = 1 .. Len(text)
  BY LenProperties
<1>2. h # <<"RTP">>
  OBVIOUS
<1> HIDE DEF sl, sc
<1>3. \/ (\A i \in 1 .. Len(text) : text[i] \notin {sl}) /\ h = text /\ r = <<>>
      \/ \E n \in 1 .. Len(text) :
           /\ text[n] \in {sl} /\ \A i \in 1 .. n - 1 : text[i] \notin {sl}
           /\ h = SubSeq(text, 1, n - 1) /\ r = SubSeq(text, n + 1, Len(text))
  BY CutOff
<1> HIDE DEF cut, h, r
<1>4. CASE (\A i \in 1 .. Len(text) : text[i] \notin {sl}) /\ r = <<>>
  <2>1. Behind(r, text, Len(text) + 1)
    BY <1>1, <1>4 DEF Behind
  <2>2. ~\E s \in 1 .. Len(text) : text[s] = sl
    BY <1>4
  <2>3. FieldsFrom(text, Len(text) + 1)
    <3>1. \A j \in 2 .. Len(text) : \A s \in 1 .. j - 1 : s \in 1 .. Len(text)
      BY <1>1
    <3>2. QED BY <2>2, <3>1 DEF FieldsFrom, sl
  <2>4. ~Naming(text)
    <3> SUFFICES ASSUME NEW e \in DOMAIN text, Names(text, e) PROVE FALSE
      BY DEF Naming
    <3>1. text[e] = sl /\ e \in 1 .. Len(text)
      BY <1>1 DEF Names, sl
    <3>2. QED BY <2>2, <3>1
  <2>5. Len(text) + 1 \in 1 .. Len(text) + 1
    BY <1>1
  <2>6. QED BY <2>1, <2>3, <2>4, <2>5 DEF r, cut, sl
<1>5. CASE \E n \in 1 .. Len(text) :
           /\ text[n] \in {sl} /\ \A i \in 1 .. n - 1 : text[i] \notin {sl}
           /\ h = SubSeq(text, 1, n - 1) /\ r = SubSeq(text, n + 1, Len(text))
  <2> PICK n \in 1 .. Len(text) :
           /\ text[n] = sl /\ \A i \in 1 .. n - 1 : text[i] # sl
           /\ h = SubSeq(text, 1, n - 1) /\ r = SubSeq(text, n + 1, Len(text))
    BY <1>5
  <2>1. Behind(r, text, n + 1) /\ n + 1 \in 1 .. Len(text) + 1
    BY <1>1, RestBehind
  <2>2. FieldsFrom(text, n + 1)
    <3> SUFFICES ASSUME NEW j \in 2 .. Len(text), NEW s \in 1 .. j - 1, text[s] = sl
                 PROVE  n + 1 <= j
      BY DEF FieldsFrom, sl
    <3>1. ~(s \in 1 .. n - 1)
      OBVIOUS
    <3>2. QED BY <1>1, <3>1
  <2>3. ~Naming(text)
    <3> SUFFICES ASSUME NEW e \in DOMAIN text, Names(text, e) PROVE FALSE
      BY DEF Naming
    <3>1. text[1] = "RTP" /\ text[2] = sl /\ 3 <= Len(text)
      <4>1. e \in 3 .. Len(text) /\ text[1] = "RTP" /\ text[2] = sl
        BY DEF Names, sl
      <4>2. QED BY <1>1, <4>1
    <3>2. n = 2
      <4>1. n # 1
        BY <1>0, <3>1
      <4>2. ~(2 \in 1 .. n - 1)
        BY <3>1
      <4>3. QED BY <1>1, <4>1, <4>2
    <3>3. h = <<text[1]>>
      <4>1. h = SubSeq(text, 1, 1)
        BY <3>2
      <4>2. 1 \in 1 .. Len(text)
        BY <1>1, <3>1
      <4>3. QED BY <4>1, <4>2, OneInSubSeq
    <3>4. QED BY <1>2, <3>1, <3>3
  <2>4. QED BY <2>1, <2>2, <2>3 DEF r, cut, sl
<1>6. QED BY <1>3, <1>4, <1>5

\* What ends the profile of RTP, and where.
ProfileEnd(text, e) ==
    /\ e \in 3 .. Len(text) /\ text[1] = "RTP" /\ text[2] = "/"
    /\ text[e] \in ProfileEnds /\ \A h \in 3 .. e - 1 : text[h] \notin ProfileEnds

LEMMA ProfileAt ==
  ASSUME NEW text \in Seq(Chars)
  PROVE  LET protocol == CutUntilChar(text, {"/"}, FALSE)
             profile  == CutUntilChar(protocol.rest, {"/", ";", ","}, TRUE)
         IN protocol.head = <<"RTP">> /\ profile.rest # <<>> =>
              \E e \in 1 .. Len(text) :
                 /\ ProfileEnd(text, e)
                 /\ profile.rest \in Seq(Chars) /\ Behind(profile.rest, text, e)
<1> DEFINE sl == "/"
           protocol == CutUntilChar(text, {sl}, FALSE)
           h == protocol.head
           r == protocol.rest
           cut == CutUntilChar(r, ProfileEnds, TRUE)
           x == cut.rest
<1>0. "RTP" # sl
  BY Zenon
<1>1. Len(text) \in Nat /\ DOMAIN text = 1 .. Len(text)
  BY LenProperties
<1> SUFFICES ASSUME h = <<"RTP">>, x # <<>>
             PROVE  \E e \in 1 .. Len(text) :
                      ProfileEnd(text, e) /\ x \in Seq(Chars) /\ Behind(x, text, e)
  BY DEF ProfileEnds
<1> HIDE DEF sl
<1>2. \/ (\A i \in 1 .. Len(text) : text[i] \notin {sl}) /\ h = text /\ r = <<>>
      \/ \E n \in 1 .. Len(text) :
           /\ text[n] \in {sl} /\ \A i \in 1 .. n - 1 : text[i] \notin {sl}
           /\ h = SubSeq(text, 1, n - 1) /\ r = SubSeq(text, n + 1, Len(text))
  BY CutOff
<1>3. r \in Seq(Chars)
  BY CutType
<1> HIDE DEF protocol, h, r
<1>4. Len(r) \in Nat
  BY <1>3, LenProperties
<1>5. \/ (\A i \in 1 .. Len(r) : r[i] \notin ProfileEnds) /\ x = <<>>
      \/ \E n \in 1 .. Len(r) :
           /\ r[n] \in ProfileEnds /\ \A i \in 1 .. n - 1 : r[i] \notin ProfileEnds
           /\ x = SubSeq(r, n, Len(r))
  <2>1. \/ (\A i \in 1 .. Len(r) : r[i] \notin ProfileEnds) /\ cut.head = r /\ cut.rest = <<>>
        \/ \E n \in 1 .. Len(r) :
             /\ r[n] \in ProfileEnds /\ \A i \in 1 .. n - 1 : r[i] \notin ProfileEnds
             /\ cut.head = SubSeq(r, 1, n - 1) /\ cut.rest = SubSeq(r, n, Len(r))
    BY ONLY <1>3, CutKeeping
  <2> HIDE DEF cut
  <2>2. QED BY <2>1
<1>6. x # <<>>
  OBVIOUS
<1> HIDE DEF cut, x
<1>7. PICK n \in 1 .. Len(r) :
           /\ r[n] \in ProfileEnds /\ \A i \in 1 .. n - 1 : r[i] \notin ProfileEnds
           /\ x = SubSeq(r, n, Len(r))
  BY <1>5, <1>6
<1>8. x \in Seq(Chars) /\ Behind(x, r, n)
  BY <1>3, <1>4, <1>7, RestBehind
<1>9. text[1] = "RTP" /\ text[2] = sl /\ Behind(r, text, 3) /\ Len(text) >= 2
  <2>1. r # <<>>
    BY <1>4, <1>7
  <2>2. PICK k \in 1 .. Len(text) :
           /\ text[k] \in {sl} /\ \A i \in 1 .. k - 1 : text[i] \notin {sl}
           /\ h = SubSeq(text, 1, k - 1) /\ r = SubSeq(text, k + 1, Len(text))
    BY <1>2, <2>1
  <2>3. Len(h) = 1 /\ h[1] = "RTP"
    OBVIOUS
  <2>4. k # 1
    <3> SUFFICES ASSUME k = 1 PROVE FALSE
      OBVIOUS
    <3>1. h = SubSeq(text, 1, 0)
      BY <2>2
    <3>2. Len(h) = 0
      BY <1>1, <3>1
    <3>3. QED BY <2>3, <3>2
  <2> DEFINE m == k - 1
  <2>5. m \in 1 .. Len(text) /\ h = SubSeq(text, 1, m) /\ k = m + 1
    <3>1. m \in 1 .. Len(text) /\ k = m + 1
      BY <1>1, <2>4
    <3>2. QED BY <2>2, <3>1
  <2> HIDE DEF m
  <2>6. Len(h) = m - 1 + 1 /\ \A i \in 1 .. m - 1 + 1 : h[i] = text[1 + i - 1]
    <3>1. text \in Seq(Chars) /\ 1 \in 1 .. Len(text) /\ 1 <= m
      BY <1>1, <2>5
    <3>2. QED BY ONLY <1>1, <2>5, <3>1, SubSeqProperties
  <2>7. m = 1 /\ h[1] = text[1 + 1 - 1]
    BY <2>3, <2>5, <2>6
  <2>8. k = 2 /\ text[1] = "RTP"
    BY <2>3, <2>5, <2>7
  <2>9. Behind(r, text, 3)
    <3>1. r = SubSeq(text, 3, Len(text)) /\ 3 \in 1 .. Len(text) + 1
      BY <1>1, <2>2, <2>8
    <3>2. QED BY <3>1, RestBehind
  <2>10. QED BY <1>1, <2>2, <2>8, <2>9
<1> DEFINE e == 3 + n - 1
<1>10. Behind(x, text, e)
  BY <1>1, <1>8, <1>9, BehindFurther
<1>11. e \in 3 .. Len(text) /\ text[e] = r[n]
  <2>1. Len(r) = Len(text) - 3 + 1 /\ \A j \in 1 .. Len(r) : r[j] = text[j + 3 - 1]
    BY <1>9 DEF Behind
  <2>2. n + 3 - 1 = e
    BY <1>4
  <2>3. e \in 3 .. Len(text)
    BY <1>1, <1>4, <2>1
  <2> HIDE DEF e
  <2>4. QED BY <2>1, <2>2, <2>3
<1>12. \A k \in 3 .. e - 1 : text[k] \notin ProfileEnds
  <2> SUFFICES ASSUME NEW k \in 3 .. e - 1 PROVE text[k] \notin ProfileEnds
    OBVIOUS
  <2>1. k - 2 \in 1 .. n - 1 /\ k - 2 \in 1 .. Len(r) /\ (k - 2) + 3 - 1 = k
    BY <1>4
  <2>2. r[k - 2] = text[(k - 2) + 3 - 1]
    BY <1>9, <2>1 DEF Behind
  <2>3. r[k - 2] \notin ProfileEnds
    BY <1>7, <2>1
  <2>4. QED BY <2>1, <2>2, <2>3
<1>13. e \in 1 .. Len(text)
  BY <1>11
<1> HIDE DEF e
<1>14. ProfileEnd(text, e)
  BY <1>7, <1>9, <1>11, <1>12 DEF ProfileEnd, sl
<1>15. QED BY <1>8, <1>10, <1>13, <1>14

\* Every field is behind the end of the profile, and a lower transport is named
\* only there.
LEMMA BehindProfile ==
  ASSUME NEW text \in Seq(Chars), NEW e, ProfileEnd(text, e)
  PROVE  /\ \A d \in DOMAIN text : Names(text, d) => text[d] = "/" /\ d = e
         /\ FieldsFrom(text, e + 1)
<1> DEFINE sc == ";"
<1>0. sc # "/" /\ "RTP" # "/" /\ "/" \in ProfileEnds /\ sc \in ProfileEnds
  BY Zenon DEF ProfileEnds
<1>1. Len(text) \in Nat /\ DOMAIN text = 1 .. Len(text)
  BY LenProperties
<1>2. /\ e \in 3 .. Len(text) /\ text[1] = "RTP" /\ text[2] = "/"
      /\ \A k \in 3 .. e - 1 : text[k] \notin ProfileEnds
  BY DEF ProfileEnd
<1>3. \A d \in DOMAIN text : Names(text, d) => text[d] = "/" /\ d = e
  <2> SUFFICES ASSUME NEW d \in DOMAIN text, Names(text, d) PROVE text[d] = "/" /\ d = e
    OBVIOUS
  <2>1. d \in 3 .. Len(text) /\ text[d] = "/" /\ \A k \in 3 .. d - 1 : text[k] \notin ProfileEnds
    BY DEF Names, ProfileEnds
  <2>2. ~(d \in 3 .. e - 1)
    BY <1>0, <1>2, <2>1
  <2>3. ~(e \in 3 .. d - 1)
    BY <2>1 DEF ProfileEnd
  <2>4. d = e
    BY <1>1, <1>2, <2>1, <2>2, <2>3
  <2>5. QED BY <2>1, <2>4
<1> HIDE DEF sc
<1>4. ASSUME NEW j \in 2 .. Len(text), text[j - 1] = sc,
             NEW s \in 1 .. j - 1, text[s] = "/"
      PROVE  e + 1 <= j
  <2> SUFFICES ASSUME ~(e + 1 <= j) PROVE FALSE
    OBVIOUS
  <2>1. j - 1 # 2 /\ j - 1 # 1
    <3>1. j - 1 # 2
      BY <1>0, <1>2, <1>4
    <3>2. j - 1 # 1
      <4> SUFFICES ASSUME j - 1 = 1 PROVE FALSE
        OBVIOUS
      <4>1. s = 1
        <5>1. s \in 1 .. 1
          OBVIOUS
        <5>2. QED BY ONLY <5>1
      <4>2. QED BY <1>0, <1>2, <1>4, <4>1
    <3>3. QED BY <3>1, <3>2
  <2>2. j - 1 \in 3 .. e - 1
    <3>1. j \in Nat /\ 2 <= j /\ e \in Nat /\ ~(e + 1 <= j)
      BY <1>1, <1>2
    <3>2. QED BY ONLY <2>1, <3>1
  <2>3. QED BY <1>0, <1>2, <1>4, <2>2
<1>5. FieldsFrom(text, e + 1)
  BY <1>4 DEF FieldsFrom, sc
<1>6. QED BY <1>3, <1>5

\* Behind a profile that "/" ends, the lower transport goes on to a ";" or a ",".
LEMMA NamedAt ==
  ASSUME NEW text \in Seq(Chars), NEW e, ProfileEnd(text, e), text[e] = "/",
         NEW u \in Seq(Chars), Behind(u, text, e + 1)
  PROVE  LET named == CutUntilChar(u, {";", ","}, FALSE)
         IN /\ \E b \in 1 .. Len(text) + 1 : Behind(named.rest, text, b) /\ FieldsFrom(text, b)
            /\ Naming(text) /\ (named.head = <<"TCP">> <=> NamesTcp(text))
<1> DEFINE sc == ";"
           S3 == {sc, ","}
           cut == CutUntilChar(u, S3, FALSE)
           h == cut.head
           r == cut.rest
<1>0. "/" \notin S3 /\ "TCP" \notin S3 /\ sc \in S3 /\ "/" \in ProfileEnds /\ sc \in ProfileEnds
  BY Zenon DEF ProfileEnds
<1> SUFFICES /\ \E b \in 1 .. Len(text) + 1 : Behind(r, text, b) /\ FieldsFrom(text, b)
             /\ Naming(text) /\ (h = <<"TCP">> <=> NamesTcp(text))
  OBVIOUS
<1> HIDE DEF sc
<1>1. Len(text) \in Nat /\ DOMAIN text = 1 .. Len(text) /\ Len(u) \in Nat
  BY LenProperties
<1>2. /\ e \in 3 .. Len(text) /\ text[1] = "RTP" /\ text[2] = "/"
      /\ \A k \in 3 .. e - 1 : text[k] \notin ProfileEnds
  BY DEF ProfileEnd
<1>3. Names(text, e) /\ e \in DOMAIN text
  <2>1. e \in DOMAIN text
    BY <1>1, <1>2
  <2>2. Names(text, e)
    BY <1>2, Zenon DEF Names, ProfileEnds
  <2>3. QED BY <2>1, <2>2
<1>4. \A d \in DOMAIN text : Names(text, d) => d = e
  BY BehindProfile
<1>5. \A j \in 2 .. Len(text) :
         text[j - 1] = sc /\ (\E s \in 1 .. j - 1 : text[s] = "/") => e + 1 <= j - 1
  <2> SUFFICES ASSUME NEW j \in 2 .. Len(text), text[j - 1] = sc,
                      \E s \in 1 .. j - 1 : text[s] = "/"
               PROVE  e + 1 <= j - 1
    OBVIOUS
  <2>1. FieldsFrom(text, e + 1)
    BY BehindProfile
  <2>2. e + 1 <= j
    BY <2>1 DEF FieldsFrom, sc
  <2>3. j - 1 # e
    <3>1. sc # "/"
      BY Zenon DEF sc
    <3>2. QED BY <3>1
  <2>4. j \in Nat /\ e \in Nat
    BY <1>2
  <2>5. QED BY ONLY <2>2, <2>3, <2>4
<1>6. /\ Len(u) = Len(text) - e /\ \A k \in 1 .. Len(u) : u[k] = text[k + e]
  <2>1. Len(u) = Len(text) - (e + 1) + 1 /\ \A k \in 1 .. Len(u) : u[k] = text[k + (e + 1) - 1]
    BY DEF Behind
  <2>2. \A k \in 1 .. Len(u) : k + (e + 1) - 1 = k + e
    BY <1>2
  <2>3. QED BY <1>1, <1>2, <2>1, <2>2
<1>7. /\ e \in Nat /\ 3 <= e /\ e <= Len(text) /\ Len(text) \in Nat /\ Len(u) \in Nat
      /\ Len(u) = Len(text) - e
  BY <1>1, <1>2, <1>6
<1>8. NamesTcp(text) <=>
        /\ 1 <= Len(u) /\ u[1] = "TCP"
        /\ Len(u) = 1 \/ u[2] \in S3
  <2>1. NamesTcp(text) <=>
          /\ e < Len(text) /\ text[e + 1] = "TCP"
          /\ e + 1 = Len(text) \/ text[e + 2] \in S3
    BY <1>3, <1>4, Zenon DEF NamesTcp, S3, sc
  <2> HIDE DEF S3
  <2>2. e < Len(text) <=> 1 <= Len(u)
    BY ONLY <1>7
  <2>3. e + 1 = Len(text) <=> Len(u) = 1
    BY ONLY <1>7
  <2>4. 1 <= Len(u) => u[1] = text[e + 1]
    <3>1. 1 <= Len(u) => 1 \in 1 .. Len(u) /\ 1 + e = e + 1
      BY ONLY <1>7
    <3>2. QED BY <1>6, <3>1
  <2>5. 1 <= Len(u) /\ Len(u) # 1 => u[2] = text[e + 2]
    <3>1. 1 <= Len(u) /\ Len(u) # 1 => 2 \in 1 .. Len(u) /\ 2 + e = e + 2
      BY ONLY <1>7
    <3>2. QED BY <1>6, <3>1
  <2>6. QED BY <2>1, <2>2, <2>3, <2>4, <2>5
<1> HIDE DEF S3
<1>9. \/ (\A i \in 1 .. Len(u) : u[i] \notin S3) /\ h = u /\ r = <<>>
      \/ \E n \in 1 .. Len(u) :
           /\ u[n] \in S3 /\ \A i \in 1 .. n - 1 : u[i] \notin S3
           /\ h = SubSeq(u, 1, n - 1) /\ r = SubSeq(u, n + 1, Len(u))
  BY CutOff
<1> HIDE DEF cut, h, r
<1>10. CASE (\A i \in 1 .. Len(u) : u[i] \notin S3) /\ h = u /\ r = <<>>
  <2>1. Behind(r, text, Len(text) + 1) /\ Len(text) + 1 \in 1 .. Len(text) + 1
    BY <1>1, <1>10 DEF Behind
  <2>2. FieldsFrom(text, Len(text) + 1)
    <3> SUFFICES ASSUME NEW j \in 2 .. Len(text), text[j - 1] = sc,
                        \E s \in 1 .. j - 1 : text[s] = "/"
                 PROVE  FALSE
      BY DEF FieldsFrom, sc
    <3>1. e + 1 <= j - 1
      BY <1>5
    <3> DEFINE k == j - 1 - e
    <3>2. k \in 1 .. Len(u) /\ k + e = j - 1
      BY <1>1, <1>2, <1>6, <3>1
    <3> HIDE DEF k
    <3>3. u[k] = text[j - 1]
      BY <1>6, <3>2
    <3>4. QED BY <1>0, <1>10, <3>2, <3>3
  <2>3. h = <<"TCP">> <=> NamesTcp(text)
    <3>1. 2 \in 1 .. Len(u) => u[2] \notin S3
      BY <1>10
    <3>2. NamesTcp(text) <=> Len(u) = 1 /\ u[1] = "TCP"
      <4>1. 1 <= Len(u) /\ Len(u) # 1 => 2 \in 1 .. Len(u)
        BY ONLY <1>7
      <4>2. Len(u) = 1 => 1 <= Len(u)
        OBVIOUS
      <4>3. QED BY <1>8, <3>1, <4>1, <4>2
    <3>3. Len(u) = 1 => u = <<u[1]>>
      BY ONLY u \in Seq(Chars)
    <3>4. u = <<"TCP">> => Len(u) = 1 /\ u[1] = "TCP"
      OBVIOUS
    <3>5. QED BY <1>10, <3>2, <3>3, <3>4
  <2>4. QED BY <1>3, <2>1, <2>2, <2>3 DEF Naming
<1>11. CASE \E n \in 1 .. Len(u) :
           /\ u[n] \in S3 /\ \A i \in 1 .. n - 1 : u[i] \notin S3
           /\ h = SubSeq(u, 1, n - 1) /\ r = SubSeq(u, n + 1, Len(u))
  <2> PICK n \in 1 .. Len(u) :
           /\ u[n] \in S3 /\ \A i \in 1 .. n - 1 : u[i] \notin S3
           /\ h = SubSeq(u, 1, n - 1) /\ r = SubSeq(u, n + 1, Len(u))
    BY <1>11
  <2> DEFINE b == (e + 1) + (n + 1) - 1
  <2>1. n + 1 \in 1 .. Len(u) + 1 /\ b \in 1 .. Len(text) + 1 /\ b = e + n + 1
    BY <1>1, <1>2, <1>6
  <2>2. Behind(r, u, n + 1)
    BY <2>1, RestBehind
  <2>3. Behind(r, text, b)
    BY <1>1, <2>2, BehindFurther
  <2> HIDE DEF b
  <2>4. FieldsFrom(text, b)
    <3> SUFFICES ASSUME NEW j \in 2 .. Len(text), text[j - 1] = sc,
                        \E s \in 1 .. j - 1 : text[s] = "/", ~(b <= j)
                 PROVE  FALSE
      BY DEF FieldsFrom, sc
    <3>1. e + 1 <= j - 1
      BY <1>5
    <3> DEFINE k == j - 1 - e
    <3>2. k \in 1 .. n - 1 /\ k \in 1 .. Len(u) /\ k + e = j - 1
      BY <1>1, <1>2, <1>6, <2>1, <3>1
    <3> HIDE DEF k
    <3>3. u[k] = text[j - 1]
      BY <1>6, <3>2
    <3>4. QED BY <1>0, <3>2, <3>3
  <2>5. h = <<"TCP">> <=> NamesTcp(text)
    <3>1. CASE n = 1
      <4>1. u[1] # "TCP"
        BY <1>0, <3>1
      <4>2. h = SubSeq(u, 1, 0)
        BY <3>1
      <4>3. Len(h) = 0
        <5>1. SubSeq(u, 1, 0) = <<>>
          BY ONLY <1>7
        <5>2. QED BY ONLY <4>2, <5>1
      <4>4. h # <<"TCP">>
        BY ONLY <4>3
      <4>5. QED BY <1>8, <4>1, <4>4
    <3>2. CASE n = 2
      <4>1. h = <<u[1]>>
        <5>1. h = SubSeq(u, 1, 1) /\ 1 \in 1 .. Len(u)
          BY <1>1, <3>2
        <5>2. QED BY <5>1, OneInSubSeq
      <4>2. 1 <= Len(u) /\ u[2] \in S3
        <5>1. u[2] \in S3
          BY <3>2
        <5>2. 1 <= Len(u)
          <6>1. 2 \in 1 .. Len(u)
            BY <3>2
          <6>2. QED BY ONLY <1>7, <6>1
        <5>3. QED BY <5>1, <5>2
      <4>3. NamesTcp(text) <=> u[1] = "TCP"
        BY <1>8, <4>2
      <4>4. h = <<"TCP">> <=> u[1] = "TCP"
        BY ONLY <4>1
      <4>5. QED BY <4>3, <4>4
    <3>3. CASE n # 1 /\ n # 2
      <4>1. 2 \in 1 .. n - 1 /\ Len(u) # 1
        BY <1>1, <3>3
      <4>2. ~NamesTcp(text)
        BY <1>8, <4>1
      <4> DEFINE m == n - 1
      <4>3. m \in 2 .. Len(u)
        BY <1>1, <3>3
      <4>4. h = SubSeq(u, 1, m)
        OBVIOUS
      <4> HIDE DEF m
      <4>5. Len(h) = m
        <5>1. Len(SubSeq(u, 1, m)) = m - 1 + 1
          BY <1>1, <4>3, SubSeqProperties
        <5>2. m - 1 + 1 = m
          BY ONLY <4>3
        <5>3. QED BY <4>4, <5>1, <5>2
      <4>6. h # <<"TCP">>
        <5>1. Len(h) # 1
          BY <4>3, <4>5
        <5>2. QED BY ONLY <5>1
      <4>7. QED BY <4>2, <4>6
    <3>4. QED BY <3>1, <3>2, <3>3
  <2>6. QED BY <1>3, <2>1, <2>3, <2>4, <2>5 DEF Naming
<1>12. QED BY <1>9, <1>10, <1>11

\* What is in front of a transport's fields, and the lower transport it names.
LEMMA LeadingAt ==
  ASSUME NEW text \in Seq(Chars), NEW lower, ~Leading(text, lower).bad
  PROVE  LET lead == Leading(text, lower)
         IN /\ \E b \in 1 .. Len(text) + 1 : Behind(lead.rest, text, b) /\ FieldsFrom(text, b)
            /\ Naming(text) => (lead.lower = <<"TCP">> <=> NamesTcp(text))
            /\ ~Naming(text) => lead.lower = lower
<1> DEFINE S1 == {"/"}
           S3 == {";", ","}
           protocol == CutUntilChar(text, S1, FALSE)
           profile  == CutUntilChar(protocol.rest, ProfileEnds, TRUE)
           x        == profile.rest
           named    == CutUntilChar(Tail(x), S3, FALSE)
           lead     == Leading(text, lower)
           At(r)    == \E b \in 1 .. Len(text) + 1 : Behind(r, text, b) /\ FieldsFrom(text, b)
<1>1. lead =
        IF protocol.head # <<"RTP">>
          THEN [rtp |-> FALSE, bad |-> FALSE, lower |-> lower, rest |-> protocol.rest]
        ELSE IF x = <<>>
          THEN [rtp |-> TRUE, bad |-> TRUE, lower |-> lower, rest |-> <<>>]
        ELSE IF x[1] = "/"
          THEN [rtp |-> TRUE, bad |-> FALSE, lower |-> named.head, rest |-> named.rest]
        ELSE [rtp |-> TRUE, bad |-> FALSE, lower |-> lower, rest |-> Tail(x)]
  BY DEF Leading, ProfileEnds
<1>2. protocol.head # <<"RTP">> => At(protocol.rest) /\ ~Naming(text)
  BY NoProtocol
<1>3. protocol.head = <<"RTP">> /\ x # <<>> =>
        \E e \in 1 .. Len(text) : ProfileEnd(text, e) /\ x \in Seq(Chars) /\ Behind(x, text, e)
  BY ProfileAt DEF ProfileEnds
<1>4. Tail(x) \in Seq(Chars) =>
        \A e : ProfileEnd(text, e) /\ text[e] = "/" /\ Behind(Tail(x), text, e + 1) =>
          At(named.rest) /\ Naming(text) /\ (named.head = <<"TCP">> <=> NamesTcp(text))
  <2> HIDE DEF x
  <2>1. QED BY NamedAt
<1>5. ~lead.bad
  OBVIOUS
<1> SUFFICES /\ At(lead.rest)
             /\ Naming(text) => (lead.lower = <<"TCP">> <=> NamesTcp(text))
             /\ ~Naming(text) => lead.lower = lower
  OBVIOUS
<1> HIDE DEF S1, S3, protocol, profile, x, named, lead
<1>6. CASE protocol.head # <<"RTP">>
  <2>1. lead.lower = lower /\ lead.rest = protocol.rest
    BY <1>1, <1>6
  <2>2. At(protocol.rest) /\ ~Naming(text)
    BY <1>2, <1>6
  <2> HIDE DEF At
  <2>3. QED BY <2>1, <2>2
<1>7. CASE protocol.head = <<"RTP">>
  <2>1. x # <<>>
    BY <1>1, <1>5, <1>7
  <2> PICK e \in 1 .. Len(text) : ProfileEnd(text, e) /\ x \in Seq(Chars) /\ Behind(x, text, e)
    BY <1>3, <1>7, <2>1
  <2>2. Len(text) \in Nat /\ e \in Nat /\ e + 2 - 1 = e + 1
    BY LenProperties
  <2>3. Tail(x) \in Seq(Chars) /\ Behind(Tail(x), text, e + 1)
    <3>1. Tail(x) \in Seq(Chars) /\ Behind(Tail(x), x, 2)
      BY <2>1, TailBehind
    <3>2. Behind(Tail(x), text, e + 2 - 1)
      BY <2>2, <3>1, BehindFurther
    <3>3. QED BY <2>2, <3>1, <3>2
  <2>4. x[1] = text[e]
    <3>1. 1 \in 1 .. Len(x) /\ 1 + e - 1 = e
      BY <2>1, <2>2, LenProperties
    <3>2. x[1] = text[1 + e - 1]
      BY <3>1 DEF Behind
    <3>3. QED BY <3>1, <3>2
  <2>5. CASE x[1] = "/"
    <3>1. lead.lower = named.head /\ lead.rest = named.rest
      BY <1>1, <1>7, <2>1, <2>5
    <3>2. At(named.rest) /\ Naming(text) /\ (named.head = <<"TCP">> <=> NamesTcp(text))
      BY <1>4, <2>3, <2>4, <2>5
    <3> HIDE DEF At
    <3>3. QED BY <3>1, <3>2
  <2>6. CASE x[1] # "/"
    <3>1. lead.lower = lower /\ lead.rest = Tail(x)
      BY <1>1, <1>7, <2>1, <2>6
    <3>2. ~Naming(text)
      BY <2>4, <2>6, BehindProfile DEF Naming
    <3>3. FieldsFrom(text, e + 1)
      BY BehindProfile
    <3>4. e + 1 \in 1 .. Len(text) + 1
      BY <2>2
    <3>5. At(lead.rest)
      BY <2>3, <3>1, <3>3, <3>4
    <3> HIDE DEF At
    <3>6. QED BY <3>1, <3>2, <3>5
  <2>7. QED BY <2>5, <2>6
<1>8. QED BY <1>6, <1>7

-------------------------------------------------------------------------------
(* Fields *)

\* A number in front is the one std::stoi reads.
LEMMA NumberRead ==
  ASSUME NEW T, NEW s \in Seq(T), Len(s) >= 1, s[1] \in Digits
  PROVE  ValueOf(s) = Decimal[s[1]]
<1>1. Len(s) \in Nat /\ DOMAIN s = 1 .. Len(s) /\ 1 \in DOMAIN s
  BY LenProperties
<1>2. s[1] # Space
  BY MessagesAssumption DEF Marks
<1>3. ~OnlyBlanks(s)
  BY <1>1, <1>2 DEF OnlyBlanks
<1>4. PICK i \in 1 .. Len(s) :
        Behind(SkipBlanks(s), s, i) /\ s[i] # Space /\ \A j \in 1 .. i - 1 : s[j] = Space
  BY <1>3, SkippedBehind
<1>5. i = 1
  <2>1. ~(1 \in 1 .. i - 1)
    BY <1>2, <1>4
  <2>2. QED BY <1>1, <2>1
<1>6. SkipBlanks(s)[1] = s[1]
  <2>1. 1 \in 1 .. Len(SkipBlanks(s)) /\ 1 + 1 - 1 = 1
    BY <1>1, <1>4, <1>5 DEF Behind
  <2>2. SkipBlanks(s)[1] = s[1 + 1 - 1]
    BY <1>4, <1>5, <2>1 DEF Behind
  <2>3. QED BY <2>1, <2>2
<1>7. QED BY <1>6 DEF ValueOf

\* One number, or two with a "-" between.
LEMMA EndsRead ==
  ASSUME NEW T, NEW s \in Seq(T), s[1] \in Digits,
         Len(s) = 1 \/ (Len(s) = 3 /\ s[2] = "-" /\ s[3] \in Digits)
  PROVE  ParseRange(s) = <<Decimal[s[1]], Decimal[s[Len(s)]]>>
<1> DEFINE sep == "-"
           vec == Split(s, sep)
           n   == Len(vec)
<1>1. sep \notin Digits /\ (Len(s) = 1 \/ (Len(s) = 3 /\ s[2] = sep /\ s[3] \in Digits))
  BY MessagesAssumption DEF Marks
<1>2. ParseRange(s) = <<ValueOf(vec[1]), ValueOf(vec[IF n = 2 THEN 2 ELSE 1])>>
  BY DEF ParseRange
<1> HIDE DEF sep
<1>3. n \in Nat
  <2>1. vec \in Seq(Seq(T))
    BY SplitType
  <2> HIDE DEF vec
  <2>2. QED BY <2>1, LenProperties
<1>4. PICK g \in [1 .. n -> 1 .. Len(s)] :
        /\ \A k \in 1 .. n : Begins(s, sep, g[k]) /\ vec[k] = PieceAt(s, sep, g[k])
        /\ \A k, l \in 1 .. n : k < l => g[k] < g[l]
        /\ \A i \in 1 .. Len(s) : Begins(s, sep, i) => \E k \in 1 .. n : g[k] = i
  BY SplitOrder
<1> HIDE DEF vec, n
<1>5. \A k \in 1 .. n : s[g[k]] \in Digits => ValueOf(vec[k]) = Decimal[s[g[k]]]
  <2> SUFFICES ASSUME NEW k \in 1 .. n, s[g[k]] \in Digits PROVE ValueOf(vec[k]) = Decimal[s[g[k]]]
    OBVIOUS
  <2> DEFINE i == g[k]
             p == PieceAt(s, sep, i)
             c == CutBehind(s, sep, i)
  <2>1. i \in 1 .. Len(s) /\ Begins(s, sep, i) /\ vec[k] = p
    BY <1>4
  <2> HIDE DEF i
  <2>2. p \in Seq(T) /\ Len(p) = c - i /\ i < c /\ c \in 1 .. Len(s) + 1
        /\ \A j \in 1 .. c - i : p[j] = s[i + j - 1]
    BY <2>1, PieceAtIs
  <2> HIDE DEF p, c
  <2>3. 1 \in 1 .. c - i /\ i + 1 - 1 = i /\ Len(p) >= 1
    BY <1>1, <2>1, <2>2
  <2>4. p[1] = s[i + 1 - 1]
    BY <2>2, <2>3
  <2>5. p[1] = s[i] /\ s[i] \in Digits
    BY <2>3, <2>4 DEF i
  <2>6. ValueOf(p) = Decimal[p[1]]
    BY <2>2, <2>3, <2>5, NumberRead
  <2>7. QED BY <2>1, <2>5, <2>6 DEF i
<1>6. Begins(s, sep, 1)
  BY <1>1 DEF Begins
<1>7. CASE Len(s) = 1
  <2>1. PICK k \in 1 .. n : g[k] = 1
    BY <1>4, <1>6, <1>7
  <2>2. n = 1 /\ g[1] = 1
    <3>1. \A l \in 1 .. n : g[l] = 1
      BY <1>4, <1>7
    <3>2. ~(2 \in 1 .. n)
      <4> SUFFICES ASSUME 2 \in 1 .. n PROVE FALSE
        OBVIOUS
      <4>1. 1 \in 1 .. n
        BY <1>3
      <4>2. g[1] < g[2]
        BY <1>4, <4>1
      <4>3. QED BY <3>1, <4>1, <4>2
    <3>3. QED BY <1>3, <2>1, <3>1, <3>2
  <2>3. ValueOf(vec[1]) = Decimal[s[1]]
    BY <1>5, <2>2
  <2>4. QED BY <1>2, <1>7, <2>2, <2>3
<1>8. CASE Len(s) = 3
  <2>1. s[2] = sep /\ s[3] \in Digits
    BY <1>1, <1>8
  <2>2. Begins(s, sep, 3) /\ ~Begins(s, sep, 2)
    BY <1>1, <2>1 DEF Begins
  <2>3. PICK k \in 1 .. n : g[k] = 1
    BY <1>4, <1>6, <1>8
  <2>4. PICK l \in 1 .. n : g[l] = 3
    BY <1>4, <1>8, <2>2
  <2>5. \A i \in 1 .. n : g[i] = 1 \/ g[i] = 3
    BY <1>4, <1>8, <2>2
  <2>6. n = 2 /\ g[1] = 1 /\ g[2] = 3
    <3>1. 1 \in 1 .. n /\ 2 \in 1 .. n
      BY <1>3, <2>3, <2>4
    <3>2. g[1] = 1 /\ g[2] = 3
      <4>1. g[1] < g[2]
        BY <1>4, <3>1
      <4>2. QED BY <2>5, <3>1, <4>1
    <3>3. ~(3 \in 1 .. n)
      <4> SUFFICES ASSUME 3 \in 1 .. n PROVE FALSE
        OBVIOUS
      <4>1. g[2] < g[3]
        BY <1>4, <3>1
      <4>2. QED BY <2>5, <3>2, <4>1
    <3>4. QED BY <1>3, <3>1, <3>2, <3>3
  <2>7. ValueOf(vec[1]) = Decimal[s[1]] /\ ValueOf(vec[2]) = Decimal[s[3]]
    BY <1>5, <2>1, <2>6
  <2>8. QED BY <1>2, <1>8, <2>6, <2>7
<1>9. QED BY <1>1, <1>7, <1>8

FieldName(field) == CutUntilChar(field, {"="}, FALSE).head

\* What a field may do to a transport, by its name.
LEMMA FieldCases ==
  ASSUME NEW t, NEW field
  PROVE  LET name == FieldName(field)
             text == CutUntilChar(field, {"="}, FALSE).rest
         IN \/ name = <<"multicast">> /\ ReadField(t, field) = Multicast(t)
            \/ /\ name # <<"multicast">> /\ Len(name) = 1 /\ name[1] \in Ranges
               /\ ReadField(t, field) = [t EXCEPT !.ranges[name[1]] = ParseRange(text)]
            \/ /\ name # <<"multicast">> /\ ~(Len(name) = 1 /\ name[1] \in Ranges)
               /\ \/ ReadField(t, field) = [t EXCEPT !.ttl = ValueOf(text)]
                  \/ \E c \in BOOLEAN :
                       ReadField(t, field) = [t EXCEPT !.mode_record = IF c THEN 1 ELSE @]
                  \/ ReadField(t, field) = t
<1> DEFINE name == FieldName(field)
           text == CutUntilChar(field, {"="}, FALSE).rest
           c    == text \in {<<"record">>, <<"receive">>}
           q    == ReadField(t, field)
<1>1. q = CASE name = <<"multicast">> -> Multicast(t)
            [] Len(name) = 1 /\ name[1] \in Ranges -> [t EXCEPT !.ranges[name[1]] = ParseRange(text)]
            [] name = <<"ttl">> -> [t EXCEPT !.ttl = ValueOf(text)]
            [] name = <<"mode">> -> [t EXCEPT !.mode_record = IF c THEN 1 ELSE @]
            [] OTHER -> t
  BY DEF ReadField, FieldName
<1>2. c \in BOOLEAN
  OBVIOUS
<1>3. name = <<"multicast">> =>
        ~(Len(name) = 1 /\ name[1] \in Ranges) /\ name # <<"ttl">> /\ name # <<"mode">>
  <2>1. "multicast" \notin Ranges /\ "multicast" # "ttl" /\ "multicast" # "mode"
    BY DEF Ranges
  <2> HIDE DEF name
  <2>2. QED BY <2>1
<1>4. Len(name) = 1 /\ name[1] \in Ranges => name # <<"ttl">> /\ name # <<"mode">>
  <2>1. "ttl" \notin Ranges /\ "mode" \notin Ranges
    BY DEF Ranges
  <2> HIDE DEF name
  <2>2. QED BY <2>1
<1> HIDE DEF name, text, c, q
<1>5. \/ name = <<"multicast">> /\ q = Multicast(t)
      \/ /\ name # <<"multicast">> /\ Len(name) = 1 /\ name[1] \in Ranges
         /\ q = [t EXCEPT !.ranges[name[1]] = ParseRange(text)]
      \/ /\ name # <<"multicast">> /\ ~(Len(name) = 1 /\ name[1] \in Ranges)
         /\ \/ q = [t EXCEPT !.ttl = ValueOf(text)]
            \/ q = [t EXCEPT !.mode_record = IF c THEN 1 ELSE @]
            \/ q = t
  BY <1>1, <1>3, <1>4
<1>6. QED BY <1>2, <1>5 DEF q, name, text, c

\* Only a field of that name writes a range, and only multicast the lower transport.
LEMMA FieldWrites ==
  ASSUME NEW t \in Transport, NEW field \in Seq(Chars)
  PROVE  /\ \A r \in Ranges :
              FieldName(field) # <<r>> => ReadField(t, field).ranges[r] = t.ranges[r]
         /\ ReadField(t, field).lower =
              IF FieldName(field) = <<"multicast">> /\ t.lower = UDP THEN UDP_MULTICAST ELSE t.lower
<1> DEFINE name == FieldName(field)
           text == CutUntilChar(field, {"="}, FALSE).rest
           q    == ReadField(t, field)
<1>1. name \in Seq(Chars)
  BY CutType DEF FieldName
<1>2. \/ name = <<"multicast">> /\ q = Multicast(t)
      \/ /\ name # <<"multicast">> /\ Len(name) = 1 /\ name[1] \in Ranges
         /\ q = [t EXCEPT !.ranges[name[1]] = ParseRange(text)]
      \/ /\ name # <<"multicast">>
         /\ \/ q = [t EXCEPT !.ttl = ValueOf(text)]
            \/ \E c \in BOOLEAN : q = [t EXCEPT !.mode_record = IF c THEN 1 ELSE @]
            \/ q = t
  BY FieldCases
<1> HIDE DEF name, text, q
<1>3. CASE name = <<"multicast">> /\ q = Multicast(t)
  BY <1>3 DEF Multicast, Transport, name, q, UDP, UDP_MULTICAST
<1>4. CASE /\ name # <<"multicast">> /\ Len(name) = 1 /\ name[1] \in Ranges
           /\ q = [t EXCEPT !.ranges[name[1]] = ParseRange(text)]
  <2>1. name = <<name[1]>>
    BY ONLY <1>1, <1>4
  <2>2. q.lower = t.lower /\ \A r \in Ranges : r # name[1] => q.ranges[r] = t.ranges[r]
    BY <1>4 DEF Transport
  <2>3. \A r \in Ranges : name # <<r>> => q.ranges[r] = t.ranges[r]
    BY <2>1, <2>2
  <2>4. QED BY <1>4, <2>2, <2>3 DEF name, q
<1>5. CASE /\ name # <<"multicast">>
           /\ \/ q = [t EXCEPT !.ttl = ValueOf(text)]
              \/ \E c \in BOOLEAN : q = [t EXCEPT !.mode_record = IF c THEN 1 ELSE @]
              \/ q = t
  BY <1>5 DEF Transport, name, q
<1>6. QED BY <1>2, <1>3, <1>4, <1>5

\* A number or two behind a name.
IsRangeField(field) ==
    /\ field[2] = "=" /\ field[3] \in Digits
    /\ Len(field) = 3 \/ (Len(field) = 5 /\ field[4] = "-" /\ field[5] \in Digits)

\* A field that is a range is read as it stands.
LEMMA RangeFieldRead ==
  ASSUME NEW t \in Transport, NEW field \in Seq(Chars), NEW r \in Ranges,
         field[1] = r, IsRangeField(field)
  PROVE  ReadField(t, field).ranges[r] = <<Decimal[field[3]], Decimal[field[Len(field)]]>>
<1> DEFINE cut  == CutUntilChar(field, {"="}, FALSE)
           name == FieldName(field)
           text == cut.rest
           q    == ReadField(t, field)
<1> SUFFICES ASSUME field[2] = "=", field[3] \in Digits,
                    Len(field) = 3 \/ (Len(field) = 5 /\ field[4] = "-" /\ field[5] \in Digits)
             PROVE  q.ranges[r] = <<Decimal[field[3]], Decimal[field[Len(field)]]>>
  BY DEF IsRangeField
<1>1. name = <<r>> /\ text = SubSeq(field, 3, Len(field))
  <2>1. r # "=" /\ Len(field) \in Nat
    BY LenProperties DEF Ranges
  <2>2. \/ \A i \in 1 .. Len(field) : field[i] \notin {"="}
        \/ \E n \in 1 .. Len(field) :
             /\ field[n] \in {"="} /\ \A i \in 1 .. n - 1 : field[i] \notin {"="}
             /\ cut.head = SubSeq(field, 1, n - 1) /\ cut.rest = SubSeq(field, n + 1, Len(field))
    BY CutOff
  <2>3. cut.head = name /\ cut.rest = text
    BY DEF FieldName
  <2> HIDE DEF cut, name, text
  <2>4. 2 \in 1 .. Len(field)
    OBVIOUS
  <2>5. PICK n \in 1 .. Len(field) :
             /\ field[n] = "=" /\ \A i \in 1 .. n - 1 : field[i] # "="
             /\ name = SubSeq(field, 1, n - 1) /\ text = SubSeq(field, n + 1, Len(field))
    BY <2>2, <2>3, <2>4
  <2>6. n = 2
    <3>1. n # 1 /\ ~(2 \in 1 .. n - 1)
      BY <2>1, <2>5
    <3>2. QED BY <2>1, <3>1
  <2>7. name = SubSeq(field, 1, 1) /\ text = SubSeq(field, 3, Len(field)) /\ 1 \in 1 .. Len(field)
    BY <2>5, <2>6
  <2>8. SubSeq(field, 1, 1) = <<field[1]>>
    BY <2>7, OneInSubSeq
  <2>9. QED BY <2>7, <2>8
<1> HIDE DEF cut, text
<1>2. ParseRange(text) = <<Decimal[field[3]], Decimal[field[Len(field)]]>>
  <2>1. Len(field) \in Nat /\ 3 \in 1 .. Len(field) + 1
    BY LenProperties
  <2>2. text \in Seq(Chars) /\ Behind(text, field, 3)
    BY <1>1, <2>1, RestBehind
  <2>3. Len(text) = Len(field) - 2 /\ \A j \in 1 .. Len(text) : text[j] = field[j + 3 - 1]
    BY <2>1, <2>2 DEF Behind
  <2>4. CASE Len(field) = 3
    <3>1. Len(text) = 1 /\ text[1] = field[3]
      BY <2>3, <2>4
    <3>2. QED BY <2>2, <2>4, <3>1, EndsRead
  <2>5. CASE Len(field) = 5 /\ field[4] = "-" /\ field[5] \in Digits
    <3>1. Len(text) = 3 /\ text[1] = field[3] /\ text[2] = field[4] /\ text[3] = field[5]
      BY <2>3, <2>5
    <3>2. ParseRange(text) = <<Decimal[text[1]], Decimal[text[Len(text)]]>>
      BY <2>2, <2>5, <3>1, EndsRead
    <3>3. QED BY <2>5, <3>1, <3>2
  <2>6. QED BY <2>4, <2>5
<1>3. q = [t EXCEPT !.ranges[r] = ParseRange(text)]
  <2>1. \/ name = <<"multicast">>
        \/ Len(name) = 1 /\ name[1] \in Ranges /\ q = [t EXCEPT !.ranges[name[1]] = ParseRange(text)]
        \/ ~(Len(name) = 1 /\ name[1] \in Ranges)
    BY FieldCases DEF text, cut
  <2>2. r # "multicast"
    BY DEF Ranges
  <2> HIDE DEF name, q
  <2>3. Len(name) = 1 /\ name[1] = r
    BY <1>1
  <2>4. name # <<"multicast">>
    BY <2>2, <2>3
  <2>5. QED BY <2>1, <2>3, <2>4
<1> HIDE DEF q
<1>4. QED BY <1>2, <1>3 DEF Transport, q

\* The last field that is named like a range leaves it, whatever stands before.
LEMMA RangeOfFields ==
  ASSUME NEW t \in Transport, NEW fields \in Seq(Seq(Chars)),
         \A i \in DOMAIN fields : ReadableField(fields[i]),
         NEW r \in Ranges, NEW k \in DOMAIN fields,
         \A x \in Transport :
           ReadField(x, fields[k]).ranges[r] = ReadField(t, fields[k]).ranges[r],
         \A l \in DOMAIN fields : k < l => FieldName(fields[l]) # <<r>>
  PROVE  FoldLeft(ReadField, t, fields).ranges[r] = ReadField(t, fields[k]).ranges[r]
<1> DEFINE n == Len(fields)
           v == ReadField(t, fields[k]).ranges[r]
<1>0. \A x \in Transport : ReadField(x, fields[k]).ranges[r] = v
  OBVIOUS
<1> SUFFICES FoldLeft(ReadField, t, fields).ranges[r] = v
  OBVIOUS
<1> HIDE DEF v
<1>1. n \in Nat /\ DOMAIN fields = 1 .. n /\ \A i \in 1 .. n : fields[i] \in Seq(Chars)
  BY LenProperties, ElementOfSeq
<1> PICK p \in [0 .. n -> Transport] :
            /\ \A i \in 1 .. n : p[i] = ReadField(p[i - 1], fields[i])
            /\ FoldLeft(ReadField, t, fields) = p[n]
  BY FieldsRead, ZenonT(60)
<1> HIDE DEF n
<1>2. \A i \in 1 .. n : i - 1 \in 0 .. n /\ p[i - 1] \in Transport
  BY <1>1
<1> DEFINE S == {i \in Nat : k + i <= n => p[k + i].ranges[r] = v}
<1>3. k \in 1 .. n
  BY <1>1
<1>4. 0 \in S
  <2>1. p[k].ranges[r] = v
    BY <1>0, <1>2, <1>3
  <2>2. k + 0 = k
    BY <1>3
  <2>3. QED BY <2>1, <2>2
<1>5. \A i \in Nat : i \in S => i + 1 \in S
  <2> SUFFICES ASSUME NEW i \in Nat, i \in S, k + (i + 1) <= n
               PROVE  p[k + (i + 1)].ranges[r] = v
    OBVIOUS
  <2> DEFINE l == k + (i + 1)
  <2>1. l \in 1 .. n /\ l - 1 = k + i /\ k < l /\ k + i <= n
    BY <1>1, <1>3
  <2>2. p[k + i].ranges[r] = v
    BY <2>1
  <2> HIDE DEF l
  <2>3. p[l] = ReadField(p[l - 1], fields[l]) /\ p[l - 1] \in Transport
    BY <1>2, <2>1
  <2>4. FieldName(fields[l]) # <<r>> /\ fields[l] \in Seq(Chars)
    BY <1>1, <2>1
  <2>5. ReadField(p[l - 1], fields[l]).ranges[r] = p[l - 1].ranges[r]
    BY <2>3, <2>4, FieldWrites
  <2>6. p[l].ranges[r] = v
    BY <2>1, <2>2, <2>3, <2>5
  <2>7. QED BY <2>6 DEF l
<1>6. Nat \subseteq S
  <2> HIDE DEF S
  <2> QED BY <1>4, <1>5, SetInduction
<1>7. p[n].ranges[r] = v
  <2>1. n - k \in Nat /\ k + (n - k) = n /\ k + (n - k) <= n
    BY <1>1, <1>3
  <2>2. n - k \in S
    BY <1>6, <2>1
  <2>3. p[k + (n - k)].ranges[r] = v
    BY <2>1, <2>2
  <2>4. QED BY <2>1, <2>3
<1>8. QED BY <1>7

\* A multicast anywhere makes UDP multicast; nothing else changes the lower transport.
LEMMA LowerOfFields ==
  ASSUME NEW t \in Transport, NEW fields \in Seq(Seq(Chars)),
         \A i \in DOMAIN fields : ReadableField(fields[i])
  PROVE  FoldLeft(ReadField, t, fields).lower =
           IF t.lower = UDP /\ \E i \in DOMAIN fields : FieldName(fields[i]) = <<"multicast">>
             THEN UDP_MULTICAST ELSE t.lower
<1> DEFINE n == Len(fields)
           Cast(i) == FieldName(fields[i]) = <<"multicast">>
<1>1. n \in Nat /\ DOMAIN fields = 1 .. n /\ \A i \in 1 .. n : fields[i] \in Seq(Chars)
  BY LenProperties, ElementOfSeq
<1> PICK p \in [0 .. n -> Transport] :
            /\ p[0] = t
            /\ \A i \in 1 .. n : p[i] = ReadField(p[i - 1], fields[i])
            /\ FoldLeft(ReadField, t, fields) = p[n]
  BY FieldsRead
<1> HIDE DEF n
<1>2. \A i \in 1 .. n : i - 1 \in 0 .. n /\ p[i - 1] \in Transport
  BY <1>1
<1> DEFINE Good(k) == p[k].lower = IF t.lower = UDP /\ \E i \in 1 .. k : Cast(i)
                                     THEN UDP_MULTICAST ELSE t.lower
           S == {k \in Nat : k <= n => Good(k)}
<1>3. 0 \in S
  <2>1. ~\E i \in 1 .. 0 : Cast(i)
    OBVIOUS
  <2> HIDE DEF Cast
  <2>2. QED BY <2>1
<1>4. UDP # UDP_MULTICAST
  BY DEF UDP, UDP_MULTICAST
<1>5. \A k \in Nat : k \in S => k + 1 \in S
  <2> SUFFICES ASSUME NEW k \in Nat, k \in S, k + 1 <= n PROVE Good(k + 1)
    <3> HIDE DEF Good
    <3> QED OBVIOUS
  <2> DEFINE l == k + 1
  <2>1. l \in 1 .. n /\ l - 1 = k /\ k <= n
    BY <1>1
  <2>2. Good(k)
    <3> HIDE DEF Good
    <3> QED BY <2>1
  <2>3. \A i : i \in 1 .. l <=> i \in 1 .. k \/ i = l
    OBVIOUS
  <2> HIDE DEF l
  <2>4. p[l] = ReadField(p[k], fields[l]) /\ p[k] \in Transport /\ fields[l] \in Seq(Chars)
    BY <1>1, <1>2, <2>1
  <2>5. p[l].lower = IF Cast(l) /\ p[k].lower = UDP THEN UDP_MULTICAST ELSE p[k].lower
    BY <2>4, FieldWrites
  <2> HIDE DEF Cast
  <2>6. (\E i \in 1 .. l : Cast(i)) <=> (\E i \in 1 .. k : Cast(i)) \/ Cast(l)
    BY <2>3
  <2>7. Good(l)
    BY <1>4, <2>2, <2>5, <2>6
  <2>8. QED BY <2>7 DEF l
<1>6. Nat \subseteq S
  <2> HIDE DEF S
  <2> QED BY <1>3, <1>5, SetInduction
<1>7. Good(n)
  <2> HIDE DEF Good
  <2>1. n \in S /\ n <= n
    BY <1>1, <1>6
  <2>2. QED BY <2>1
<1>8. QED BY <1>1, <1>7

\* A field stands in the text from j on, up to where it ends.
Stands(field, text, j) ==
    /\ Len(field) >= 1 /\ j + Len(field) - 1 \in 1 .. Len(text)
    /\ \A m \in 1 .. Len(field) : field[m] = text[j + m - 1] /\ field[m] # ";"
    /\ FieldEnds(text, j + Len(field) - 1)

\* Where a text has a field.
FieldBegins(text, j) ==
    j \in 2 .. Len(text) /\ text[j] # ";" /\ text[j - 1] = ";" /\ \E s \in 1 .. j - 1 : text[s] = "/"

\* The fields of a transport, by the places where they stand.
LEMMA FieldPlaces ==
  ASSUME NEW text \in Seq(Chars), NEW u \in Seq(Chars), NEW b, Behind(u, text, b),
         FieldsFrom(text, b)
  PROVE  LET fields == Split(u, ";")
         IN \E g \in [1 .. Len(fields) -> 1 .. Len(text)] :
              /\ \A k \in 1 .. Len(fields) : Stands(fields[k], text, g[k])
              /\ \A k, l \in 1 .. Len(fields) : k < l => g[k] < g[l] /\ text[g[l] - 1] = ";"
              /\ \A j : FieldBegins(text, j) => \E k \in 1 .. Len(fields) : g[k] = j
<1> DEFINE sep == ";"
           fields == Split(u, sep)
           n == Len(fields)
<1> SUFFICES \E g \in [1 .. n -> 1 .. Len(text)] :
              /\ \A k \in 1 .. n : Stands(fields[k], text, g[k])
              /\ \A k, l \in 1 .. n : k < l => g[k] < g[l] /\ text[g[l] - 1] = sep
              /\ \A j : FieldBegins(text, j) => \E k \in 1 .. n : g[k] = j
  OBVIOUS
<1>1. \A j : FieldBegins(text, j) =>
         j \in 2 .. Len(text) /\ text[j] # sep /\ text[j - 1] = sep /\ b <= j
  BY DEF FieldBegins, FieldsFrom
<1>2. \A field, j :
        /\ Len(field) >= 1 /\ j + Len(field) - 1 \in 1 .. Len(text)
        /\ \A m \in 1 .. Len(field) : field[m] = text[j + m - 1] /\ field[m] # sep
        /\ j + Len(field) - 1 = Len(text) \/ text[j + Len(field) - 1 + 1] = sep
        => Stands(field, text, j)
  BY DEF Stands, FieldEnds
<1> HIDE DEF sep
<1>3. /\ Len(text) \in Nat /\ Len(u) \in Nat /\ n \in Nat
      /\ b \in 1 .. Len(text) + 1 /\ Len(u) = Len(text) - b + 1
      /\ \A j \in 1 .. Len(u) : u[j] = text[j + b - 1]
  <2>1. fields \in Seq(Seq(Chars))
    BY SplitType
  <2> HIDE DEF fields
  <2>2. QED BY <2>1, LenProperties DEF Behind
<1>4. PICK f \in [1 .. n -> 1 .. Len(u)] :
        /\ \A k \in 1 .. n : Begins(u, sep, f[k]) /\ fields[k] = PieceAt(u, sep, f[k])
        /\ \A k, l \in 1 .. n : k < l => f[k] < f[l]
        /\ \A i \in 1 .. Len(u) : Begins(u, sep, i) => \E k \in 1 .. n : f[k] = i
  BY SplitOrder
<1> HIDE DEF fields, n
<1> DEFINE g == [k \in 1 .. n |-> f[k] + b - 1]
<1>5. \A i \in 1 .. Len(u) : i + b - 1 \in 1 .. Len(text)
  BY <1>3
<1>6. g \in [1 .. n -> 1 .. Len(text)]
  BY <1>4, <1>5
<1>7. \A k \in 1 .. n : Stands(fields[k], text, g[k])
  <2> SUFFICES ASSUME NEW k \in 1 .. n PROVE Stands(fields[k], text, g[k])
    OBVIOUS
  <2> DEFINE i == f[k]
             p == PieceAt(u, sep, i)
             c == CutBehind(u, sep, i)
             j == g[k]
  <2>1. i \in 1 .. Len(u) /\ Begins(u, sep, i) /\ fields[k] = p /\ j = i + b - 1
    BY <1>4
  <2> HIDE DEF i, j
  <2>2. /\ Len(p) = c - i /\ i < c /\ c \in 1 .. Len(u) + 1
        /\ \A m \in 1 .. c - i : p[m] = u[i + m - 1]
        /\ c <= Len(u) => u[c] = sep
        /\ \A m \in i .. c - 1 : u[m] # sep
    BY <2>1, PieceAtIs
  <2> HIDE DEF p, c
  <2>3. Len(p) >= 1 /\ j + Len(p) - 1 = c + b - 2 /\ c + b - 2 \in 1 .. Len(text)
    <3>1. /\ c \in Nat /\ i \in Nat /\ b \in Nat /\ Len(text) \in Nat /\ Len(p) = c - i /\ i < c
          /\ c <= Len(u) + 1 /\ Len(u) = Len(text) - b + 1 /\ j = i + b - 1 /\ 1 <= i /\ 1 <= b
      BY <1>3, <2>1, <2>2
    <3>2. QED BY ONLY <3>1
  <2>4. \A m \in 1 .. Len(p) : p[m] = text[j + m - 1] /\ p[m] # sep
    <3> SUFFICES ASSUME NEW m \in 1 .. Len(p) PROVE p[m] = text[j + m - 1] /\ p[m] # sep
      OBVIOUS
    <3> DEFINE h == i + m - 1
    <3>1. m \in 1 .. c - i /\ h \in i .. c - 1 /\ h \in 1 .. Len(u) /\ h + b - 1 = j + m - 1
      <4>1. /\ c \in Nat /\ i \in Nat /\ b \in Nat /\ Len(p) = c - i /\ i < c /\ Len(u) \in Nat
            /\ c <= Len(u) + 1 /\ j = i + b - 1 /\ 1 <= i
        BY <1>3, <2>1, <2>2
      <4>2. QED BY ONLY <4>1, m \in 1 .. Len(p)
    <3>2. p[m] = u[h] /\ u[h] # sep
      BY <2>2, <3>1
    <3>3. u[h] = text[h + b - 1]
      BY <1>3, <3>1
    <3>4. QED BY <3>1, <3>2, <3>3
  <2>5. c + b - 2 = Len(text) \/ text[c + b - 2 + 1] = sep
    <3>1. CASE c <= Len(u)
      <4>1. c \in 1 .. Len(u) /\ c + b - 1 = c + b - 2 + 1
        BY <1>3, <2>2, <3>1
      <4>2. u[c] = text[c + b - 1] /\ u[c] = sep
        BY <1>3, <2>2, <4>1
      <4>3. QED BY <4>1, <4>2
    <3>2. CASE ~(c <= Len(u))
      BY <1>3, <2>2, <3>2
    <3>3. QED BY <3>1, <3>2
  <2>6. Stands(p, text, j)
    BY <1>2, <2>3, <2>4, <2>5
  <2>7. QED BY <2>1, <2>6 DEF j
<1>8. \A k, l \in 1 .. n : k < l => g[k] < g[l] /\ text[g[l] - 1] = sep
  <2> SUFFICES ASSUME NEW k \in 1 .. n, NEW l \in 1 .. n, k < l
               PROVE  g[k] < g[l] /\ text[g[l] - 1] = sep
    OBVIOUS
  <2> DEFINE i == f[l]
             h == f[k]
  <2>1. /\ h < i /\ h \in 1 .. Len(u) /\ i \in 1 .. Len(u) /\ Begins(u, sep, i)
        /\ g[k] = h + b - 1 /\ g[l] = i + b - 1
    BY <1>4
  <2> HIDE DEF i, h
  <2>2. i - 1 \in 1 .. Len(u) /\ i # 1 /\ (i - 1) + b - 1 = g[l] - 1
    <3>1. /\ Len(u) \in Nat /\ b \in Nat /\ h \in 1 .. Len(u) /\ i \in 1 .. Len(u)
          /\ h < i /\ g[l] = i + b - 1
      BY <1>3, <2>1
    <3>2. QED BY ONLY <3>1
  <2>3. u[i - 1] = sep
    BY <2>1, <2>2 DEF Begins
  <2>4. u[i - 1] = text[(i - 1) + b - 1]
    BY <1>3, <2>2
  <2>5. g[k] < g[l]
    BY <1>3, <2>1
  <2>6. QED BY <2>2, <2>3, <2>4, <2>5
<1>9. \A j : FieldBegins(text, j) => \E k \in 1 .. n : g[k] = j
  <2> SUFFICES ASSUME NEW j, FieldBegins(text, j) PROVE \E k \in 1 .. n : g[k] = j
    OBVIOUS
  <2>1. j \in 2 .. Len(text) /\ text[j] # sep /\ text[j - 1] = sep /\ b <= j
    BY <1>1
  <2> DEFINE i == j - b + 1
  <2>2. i \in 1 .. Len(u) /\ i + b - 1 = j
    BY <1>3, <2>1
  <2>3. i # 1 => i - 1 \in 1 .. Len(u) /\ (i - 1) + b - 1 = j - 1
    BY <1>3, <2>1
  <2> HIDE DEF i
  <2>4. u[i] # sep
    BY <1>3, <2>1, <2>2
  <2>5. i # 1 => u[i - 1] = sep
    <3>1. i # 1 => u[i - 1] = text[(i - 1) + b - 1]
      BY <1>3, <2>3
    <3>2. QED BY <2>1, <2>3, <3>1
  <2>6. PICK k \in 1 .. n : f[k] = i
    BY <1>4, <2>2, <2>4, <2>5 DEF Begins
  <2>7. g[k] = j
    BY <2>2, <2>6
  <2>8. QED BY <2>7
<1> HIDE DEF g
<1>10. QED BY <1>6, <1>7, <1>8, <1>9

\* A field that stands where the text has a range is read as that range.
LEMMA RangeStands ==
  ASSUME NEW text \in Seq(Chars), NEW field \in Seq(Chars), NEW j \in 1 .. Len(text),
         Stands(field, text, j), IsRange(text, j + 2)
  PROVE  /\ field[1] = text[j] /\ IsRangeField(field)
         /\ EndsAt(text, j + 2) = <<Decimal[field[3]], Decimal[field[Len(field)]]>>
<1> DEFINE sc == ";"
           eq == "="
           da == "-"
           n  == Len(field)
           N  == Len(text)
<1>1. sc # eq /\ sc # da
  BY Zenon
<1>2. sc \notin Digits /\ da \notin Digits
  BY MessagesAssumption DEF Marks
<1>3. N \in Nat /\ n \in Nat /\ DOMAIN text = 1 .. N
  BY LenProperties
<1>4. /\ n >= 1 /\ j + n - 1 \in 1 .. N
      /\ \A m \in 1 .. n : field[m] = text[j + m - 1] /\ field[m] # sc
      /\ j + n - 1 = N \/ text[j + n - 1 + 1] = sc
  BY DEF Stands, FieldEnds
<1>5. EndsAt(text, j + 2) =
        <<Decimal[text[j + 2]],
          Decimal[text[IF (j + 2 + 2 \in 1 .. N /\ text[j + 2 + 2] \in Digits) /\ text[j + 2 + 1] = da
                         THEN j + 2 + 2 ELSE j + 2]]>>
  BY <1>3 DEF EndsAt, IsDigit
<1> HIDE DEF sc, eq, da, n, N
<1>6. /\ j + 2 \in 1 .. N /\ text[j + 2] \in Digits /\ text[j + 2 - 1] = eq
      /\ \/ j + 2 = N \/ text[j + 2 + 1] = sc
         \/ /\ text[j + 2 + 1] = da /\ j + 2 + 2 \in 1 .. N /\ text[j + 2 + 2] \in Digits
            /\ j + 2 + 2 = N \/ text[j + 2 + 2 + 1] = sc
  <2> DEFINE k == j + 2
  <2>1. IsRange(text, k)
    OBVIOUS
  <2> HIDE DEF k
  <2>2. /\ k \in 1 .. N /\ text[k] \in Digits /\ text[k - 1] = eq
        /\ \/ k = N \/ text[k + 1] = sc
           \/ /\ text[k + 1] = da /\ k + 2 \in 1 .. N /\ text[k + 2] \in Digits
              /\ k + 2 = N \/ text[k + 2 + 1] = sc
    BY <1>3, <2>1, Zenon DEF IsRange, IsDigit, FieldEnds, sc, eq, da, N
  <2>3. QED BY <2>2 DEF k
<1>7. /\ j \in Nat /\ j >= 1 /\ j + 2 - 1 = j + 1 /\ j + 2 + 1 = j + 3 /\ j + 2 + 2 = j + 4
      /\ j + 2 + 2 + 1 = j + 5 /\ j + 4 \in Nat
  BY <1>3 DEF N
<1>8. /\ text[j + 1] = eq /\ text[j + 2] \in Digits /\ j + 2 <= N
      /\ \/ j + 2 = N \/ text[j + 3] = sc
         \/ /\ text[j + 3] = da /\ j + 4 <= N /\ text[j + 4] \in Digits
            /\ j + 4 = N \/ text[j + 5] = sc
  BY <1>3, <1>6, <1>7
<1>9. j + n - 1 + 1 = j + n /\ (j + n - 1 = N \/ text[j + n] = sc) /\ j + n - 1 <= N
  BY <1>3, <1>4, <1>7, SMTT(60)
<1>10. \A m \in 1 .. n : text[j + m - 1] # sc
  BY <1>4
<1>11. n # 1 /\ n # 2
  BY <1>1, <1>2, <1>3, <1>7, <1>8, <1>9
<1>12. n >= 3
  BY <1>3, <1>4, <1>11
<1>13. field[1] = text[j] /\ field[2] = text[j + 1] /\ field[3] = text[j + 2]
  <2>1. 1 \in 1 .. n /\ 2 \in 1 .. n /\ 3 \in 1 .. n
    BY <1>3, <1>12
  <2>2. j + 1 - 1 = j /\ j + 2 - 1 = j + 1 /\ j + 3 - 1 = j + 2
    BY <1>7
  <2>3. QED BY <1>4, <2>1, <2>2
<1>14. n >= 4 => field[4] = text[j + 3] /\ text[j + 3] # sc /\ j + 3 <= N
  <2>1. n >= 4 => 4 \in 1 .. n /\ j + 4 - 1 = j + 3 /\ j + 3 <= N
    BY <1>3, <1>7, <1>9
  <2>2. QED BY <1>4, <2>1
<1>15. n >= 5 => field[5] = text[j + 4]
  <2>1. n >= 5 => 5 \in 1 .. n /\ j + 5 - 1 = j + 4
    BY <1>3, <1>7
  <2>2. QED BY <1>4, <2>1
<1>16. n >= 6 => text[j + 5] # sc /\ j + 5 <= N
  <2>1. n >= 6 => 6 \in 1 .. n /\ j + 6 - 1 = j + 5 /\ j + 5 <= N
    BY <1>3, <1>7, <1>9
  <2>2. QED BY <1>4, <2>1
<1>17. CASE j + 2 = N \/ text[j + 3] = sc
  <2>1. n = 3
    BY <1>3, <1>7, <1>12, <1>14, <1>17
  <2>2. ~(j + 4 \in 1 .. N /\ text[j + 3] = da)
    BY <1>1, <1>3, <1>7, <1>17
  <2>3. EndsAt(text, j + 2) = <<Decimal[text[j + 2]], Decimal[text[j + 2]]>>
    BY <1>5, <1>7, <2>2
  <2>4. field[n] = text[j + 2]
    BY <1>13, <2>1
  <2>5. field[2] = eq /\ field[3] \in Digits
    BY <1>8, <1>13
  <2>6. IsRangeField(field)
    BY <2>1, <2>5 DEF IsRangeField, n, eq
  <2>7. QED BY <1>13, <2>3, <2>4, <2>6 DEF n
<1>18. CASE /\ text[j + 3] = da /\ j + 4 <= N /\ text[j + 4] \in Digits
            /\ j + 4 = N \/ text[j + 5] = sc
  <2>1. n # 3
    <3> SUFFICES ASSUME n = 3 PROVE FALSE
      OBVIOUS
    <3>1. j + 2 = N \/ text[j + 3] = sc
      BY <1>3, <1>7, <1>9
    <3>2. QED BY <1>1, <1>3, <1>7, <1>18, <3>1
  <2>2. n # 4
    <3> SUFFICES ASSUME n = 4 PROVE FALSE
      OBVIOUS
    <3>1. j + 3 = N \/ text[j + 4] = sc
      BY <1>3, <1>7, <1>9
    <3>2. QED BY <1>2, <1>3, <1>7, <1>18, <3>1
  <2>3. ~(n >= 6)
    BY <1>3, <1>7, <1>16, <1>18
  <2>4. n = 5
    BY <1>3, <1>12, <2>1, <2>2, <2>3
  <2>5. field[4] = da /\ field[5] \in Digits /\ field[n] = text[j + 4]
    BY <1>14, <1>15, <1>18, <2>4
  <2>6. j + 4 \in 1 .. N
    BY <1>3, <1>7, <1>18
  <2>7. EndsAt(text, j + 2) = <<Decimal[text[j + 2]], Decimal[text[j + 4]]>>
    BY <1>5, <1>7, <1>18, <2>6
  <2>8. field[2] = eq /\ field[3] \in Digits
    BY <1>8, <1>13
  <2>9. IsRangeField(field)
    BY <2>4, <2>5, <2>8 DEF IsRangeField, n, eq, da
  <2>10. QED BY <1>13, <2>5, <2>7, <2>9 DEF n
<1>19. QED BY <1>8, <1>17, <1>18

\* The ranges of a transport, by the places where the text has them.
LEMMA RangesRead ==
  ASSUME NEW text \in Seq(Chars), NEW u \in Seq(Chars), NEW b, Behind(u, text, b),
         FieldsFrom(text, b), NEW t \in Transport, NEW r \in Ranges,
         \A i \in DOMAIN Split(u, ";") : ReadableField(Split(u, ";")[i]),
         FieldsAt(text, r) # {}, IsRange(text, Max(FieldsAt(text, r)) + 2)
  PROVE  FoldLeft(ReadField, t, Split(u, ";")).ranges[r] =
           EndsAt(text, Max(FieldsAt(text, r)) + 2)
<1> DEFINE fields == Split(u, ";")
           at == FieldsAt(text, r)
           M  == Max(at)
           n  == Len(fields)
           N  == Len(text)
<1>1. \A i \in DOMAIN fields : ReadableField(fields[i])
  OBVIOUS
<1>2. fields \in Seq(Seq(Chars))
  BY SplitType
<1>3. n \in Nat /\ DOMAIN fields = 1 .. n /\ \A i \in 1 .. n : fields[i] \in Seq(Chars)
  <2> HIDE DEF fields
  <2>1. QED BY <1>2, LenProperties, ElementOfSeq
<1>4. N \in Nat /\ DOMAIN text = 1 .. N
  BY LenProperties
<1>5. /\ \A j \in at :
           j \in 2 .. N /\ text[j] = r /\ text[j - 1] = ";" /\ \E s \in 1 .. j - 1 : text[s] = "/"
      /\ \A j \in 2 .. N :
           text[j] = r /\ text[j - 1] = ";" /\ (\E s \in 1 .. j - 1 : text[s] = "/") => j \in at
  <2> DEFINE sl == "/"
             sc == ";"
  <2>1. at = {j \in DOMAIN text : j > 1 /\ text[j] = r /\ text[j - 1] = sc
                                  /\ \E s \in 1 .. j - 1 : text[s] = sl}
    BY DEF FieldsAt
  <2> HIDE DEF sl, sc, at, N
  <2>2. (\A j \in 1 .. N : j > 1 => j \in 2 .. N) /\ \A j \in 2 .. N : j \in 1 .. N /\ j > 1
    <3>1. N \in Nat
      BY <1>4
    <3>2. QED BY ONLY <3>1
  <2>3. /\ \A j \in at :
             j \in 2 .. N /\ text[j] = r /\ text[j - 1] = sc /\ \E s \in 1 .. j - 1 : text[s] = sl
        /\ \A j \in 2 .. N :
             text[j] = r /\ text[j - 1] = sc /\ (\E s \in 1 .. j - 1 : text[s] = sl) => j \in at
    BY ONLY <1>4, <2>1, <2>2
  <2>4. QED BY <2>3 DEF sl, sc
<1>6. \E g \in [1 .. n -> 1 .. N] :
        /\ \A k \in 1 .. n : Stands(fields[k], text, g[k])
        /\ \A k, l \in 1 .. n : k < l => g[k] < g[l] /\ text[g[l] - 1] = ";"
        /\ \A j : FieldBegins(text, j) => \E k \in 1 .. n : g[k] = j
  BY FieldPlaces
<1>7. M \in at /\ \A j \in at : j <= M
  <2>1. \A j \in at : j \in 1 .. N
    BY <1>4 DEF FieldsAt
  <2>2. at \in SUBSET (1 .. N) /\ at # {}
    BY <2>1
  <2> HIDE DEF at, N
  <2>3. QED BY <1>4, <2>2, GreatestOne
<1>8. IsRange(text, M + 2)
  OBVIOUS
<1> SUFFICES FoldLeft(ReadField, t, fields).ranges[r] = EndsAt(text, M + 2)
  OBVIOUS
<1> HIDE DEF fields, at, n, N, M
<1> PICK g \in [1 .. n -> 1 .. N] :
        /\ \A k \in 1 .. n : Stands(fields[k], text, g[k])
        /\ \A k, l \in 1 .. n : k < l => g[k] < g[l] /\ text[g[l] - 1] = ";"
        /\ \A j : FieldBegins(text, j) => \E k \in 1 .. n : g[k] = j
  BY <1>6
<1>9. FieldBegins(text, M)
  <2>1. r # ";"
    BY Zenon DEF Ranges
  <2>2. /\ M \in 2 .. N /\ text[M] = r /\ text[M - 1] = ";"
        /\ \E s \in 1 .. M - 1 : text[s] = "/"
    BY <1>5, <1>7
  <2>3. QED BY <2>1, <2>2, Zenon DEF FieldBegins, N
<1>10. PICK k \in 1 .. n : g[k] = M
  BY <1>6, <1>9
<1> DEFINE f == fields[k]
           v == EndsAt(text, M + 2)
<1>11. f \in Seq(Chars) /\ Stands(f, text, M) /\ M \in 1 .. N /\ text[M] = r
  BY <1>3, <1>6, <1>5, <1>7, <1>10
<1> HIDE DEF f
<1>12. /\ f[1] = r /\ IsRangeField(f)
       /\ v = <<Decimal[f[3]], Decimal[f[Len(f)]]>>
  <2>1. M \in 1 .. Len(text)
    BY <1>11 DEF N
  <2>2. /\ f[1] = text[M] /\ IsRangeField(f)
        /\ v = <<Decimal[f[3]], Decimal[f[Len(f)]]>>
    BY <1>8, <1>11, <2>1, RangeStands, ZenonT(60)
  <2>3. QED BY <1>11, <2>2
<1>13. \A x \in Transport : ReadField(x, f).ranges[r] = v
  <2> SUFFICES ASSUME NEW x \in Transport PROVE ReadField(x, f).ranges[r] = v
    OBVIOUS
  <2>1. ReadField(x, f).ranges[r] = <<Decimal[f[3]], Decimal[f[Len(f)]]>>
    BY <1>11, <1>12, RangeFieldRead
  <2>2. QED BY <1>12, <2>1
<1> HIDE DEF v
<1>14. \A l \in 1 .. n : k < l => FieldName(fields[l]) # <<r>>
  <2> SUFFICES ASSUME NEW l \in 1 .. n, k < l, FieldName(fields[l]) = <<r>> PROVE FALSE
    OBVIOUS
  <2> DEFINE h == fields[l]
             j == g[l]
  <2>1. h \in Seq(Chars) /\ Stands(h, text, j) /\ j \in 1 .. N /\ M < j /\ text[j - 1] = ";"
    BY <1>3, <1>10
  <2>2. \E seps : CutUntilChar(h, seps, FALSE).head = <<r>>
    BY DEF FieldName
  <2> HIDE DEF h, j
  <2> PICK seps : CutUntilChar(h, seps, FALSE).head = <<r>>
    BY <2>2
  <2>3. h[1] = r
    <3>1. h \in Seq(Chars)
      BY <2>1
    <3>2. CutUntilChar(h, seps, FALSE).head = <<r>>
      OBVIOUS
    <3>3. QED BY ONLY <3>1, <3>2, OneInFront
  <2>4. Len(h) \in Nat /\ 1 \in 1 .. Len(h) /\ h[1] = text[j + 1 - 1]
    <3>1. Len(h) >= 1 /\ (\A m \in 1 .. Len(h) : h[m] = text[j + m - 1]) /\ h \in Seq(Chars)
      BY <2>1, Zenon DEF Stands
    <3>2. QED BY ONLY <3>1, LenProperties
  <2>5. M \in 2 .. N
    BY <1>5, <1>7
  <2>6. j + 1 - 1 = j /\ j \in 2 .. N /\ ~(j <= M) /\ \A s \in 1 .. M - 1 : s \in 1 .. j - 1
    <3>1. N \in Nat /\ j \in 1 .. N /\ M \in 2 .. N /\ M < j
      BY <1>4, <2>1, <2>5
    <3>2. QED BY ONLY <3>1
  <2>7. \E s \in 1 .. M - 1 : text[s] = "/"
    BY <1>5, <1>7
  <2>8. \E s \in 1 .. j - 1 : text[s] = "/"
    BY <2>6, <2>7, Zenon
  <2>9. text[j] = r
    BY <2>3, <2>4, <2>6
  <2>10. j \in at
    BY <1>5, <2>1, <2>6, <2>8, <2>9
  <2>11. j <= M
    BY <1>7, <2>10
  <2>12. QED BY <2>6, <2>11
<1>15. k \in DOMAIN fields /\ \A l \in DOMAIN fields : k < l => FieldName(fields[l]) # <<r>>
  BY <1>3, <1>14
<1>16. \A x \in Transport :
          ReadField(x, fields[k]).ranges[r] = ReadField(t, fields[k]).ranges[r]
  BY <1>13 DEF f
<1>17. FoldLeft(ReadField, t, fields).ranges[r] = v
  <2>1. \A i \in DOMAIN fields : ReadableField(fields[i])
    BY <1>1
  <2>2. t \in Transport /\ r \in Ranges
    OBVIOUS
  <2>3. FoldLeft(ReadField, t, fields).ranges[r] = ReadField(t, fields[k]).ranges[r]
    BY ONLY <1>2, <1>15, <1>16, <2>1, <2>2, RangeOfFields
  <2>4. QED BY <1>13, <2>3 DEF f
<1>18. QED BY <1>17 DEF v

\* A field without a "=" is its own name.
LEMMA FlagRead ==
  ASSUME NEW text \in Seq(Chars), NEW field \in Seq(Chars), NEW j \in 1 .. Len(text),
         Stands(field, text, j), FieldEnds(text, j), text[j] # "="
  PROVE  FieldName(field) = <<text[j]>>
<1> DEFINE sc == ";"
           eq == "="
           n  == Len(field)
           N  == Len(text)
           cut == CutUntilChar(field, {eq}, FALSE)
<1>1. N \in Nat /\ n \in Nat
  BY LenProperties
<1>2. /\ n >= 1 /\ j + n - 1 \in 1 .. N
      /\ \A m \in 1 .. n : field[m] = text[j + m - 1] /\ field[m] # sc
  BY Zenon DEF Stands
<1>3. j = N \/ text[j + 1] = sc
  BY Zenon DEF FieldEnds
<1>4. \/ cut.head = field
      \/ \E i \in 1 .. n : field[i] = eq
  <2> HIDE DEF eq
  <2>1. \/ cut.head = field
        \/ \E i \in 1 .. n : field[i] \in {eq}
    BY CutOff
  <2> HIDE DEF cut
  <2>2. QED BY <2>1
<1>5. FieldName(field) = cut.head /\ text[j] # eq
  BY DEF FieldName
<1> HIDE DEF sc, eq, n, N, cut
<1>6. j \in Nat /\ j >= 1 /\ j <= N
  BY <1>1 DEF N
<1>7. n = 1
  <2> SUFFICES ASSUME n # 1 PROVE FALSE
    OBVIOUS
  <2>1. 2 \in 1 .. n /\ j + 2 - 1 = j + 1 /\ j + 1 <= N
    BY <1>1, <1>2, <1>6
  <2>2. text[j + 1] # sc
    BY <1>2, <2>1
  <2>3. QED BY <1>1, <1>3, <1>6, <2>1, <2>2
<1>8. field[1] = text[j]
  <2>1. 1 \in 1 .. n /\ j + 1 - 1 = j
    BY <1>1, <1>2, <1>6
  <2>2. QED BY <1>2, <2>1
<1>9. cut.head = field
  <2>1. \A i \in 1 .. n : field[i] = text[j]
    BY <1>7, <1>8
  <2>2. QED BY <1>4, <1>5, <2>1
<1>10. field = <<field[1]>>
  <2>1. field \in Seq(Chars) /\ Len(field) = 1
    BY <1>7 DEF n
  <2>2. QED BY ONLY <2>1
<1>11. QED BY <1>5, <1>8, <1>9, <1>10

\* The lower transport of a transport, by what stands in the text.
LEMMA LowerRead ==
  ASSUME NEW text \in Seq(Chars), NEW u \in Seq(Chars), NEW b, Behind(u, text, b),
         FieldsFrom(text, b), NEW t \in Transport,
         \A i \in DOMAIN Split(u, ";") : ReadableField(Split(u, ";")[i])
  PROVE  LET lower == FoldLeft(ReadField, t, Split(u, ";")).lower
         IN /\ t.lower # UDP => lower = t.lower
            /\ t.lower = UDP =>
                 /\ lower \in {UDP, UDP_MULTICAST}
                 /\ lower = UDP_MULTICAST => \E j \in DOMAIN text : text[j] = "multicast"
                 /\ (\E j \in FieldsAt(text, "multicast") : FieldEnds(text, j)) =>
                      lower = UDP_MULTICAST
<1> DEFINE fields == Split(u, ";")
           n == Len(fields)
           N == Len(text)
           mc == "multicast"
           Cast(i) == FieldName(fields[i]) = <<mc>>
           lower == FoldLeft(ReadField, t, fields).lower
<1>1. fields \in Seq(Seq(Chars))
  BY SplitType
<1>2. n \in Nat /\ DOMAIN fields = 1 .. n /\ \A i \in 1 .. n : fields[i] \in Seq(Chars)
  <2> HIDE DEF fields
  <2>1. QED BY <1>1, LenProperties, ElementOfSeq
<1>3. N \in Nat /\ DOMAIN text = 1 .. N
  BY LenProperties
<1>4. \E g \in [1 .. n -> 1 .. N] :
        /\ \A k \in 1 .. n : Stands(fields[k], text, g[k])
        /\ \A j : FieldBegins(text, j) => \E k \in 1 .. n : g[k] = j
  BY FieldPlaces, ZenonT(60)
<1>5. mc # "=" /\ mc # ";"
  BY Zenon
<1>6. \A j : j \in FieldsAt(text, mc) => FieldBegins(text, j) /\ j \in 1 .. N /\ text[j] = mc
  <2> SUFFICES ASSUME NEW j \in FieldsAt(text, mc)
               PROVE  FieldBegins(text, j) /\ j \in 1 .. N /\ text[j] = mc
    OBVIOUS
  <2>1. /\ j \in 1 .. N /\ j > 1 /\ text[j] = mc /\ text[j - 1] = ";"
        /\ \E s \in 1 .. j - 1 : text[s] = "/"
    BY <1>3, Zenon DEF FieldsAt
  <2>2. j \in 2 .. N
    <3>1. j \in 1 .. N /\ j > 1 /\ N \in Nat
      BY <1>3, <2>1
    <3>2. QED BY ONLY <3>1
  <2>3. FieldBegins(text, j)
    BY <1>5, <2>1, <2>2, Zenon DEF FieldBegins
  <2>4. QED BY <2>1, <2>3
<1>7. lower = IF t.lower = UDP /\ \E i \in DOMAIN fields : Cast(i) THEN UDP_MULTICAST ELSE t.lower
  <2>1. \A i \in DOMAIN fields : ReadableField(fields[i])
    OBVIOUS
  <2> HIDE DEF fields
  <2>2. QED BY <1>1, <2>1, LowerOfFields
<1> SUFFICES /\ t.lower # UDP => lower = t.lower
             /\ t.lower = UDP =>
                  /\ lower \in {UDP, UDP_MULTICAST}
                  /\ lower = UDP_MULTICAST => \E j \in 1 .. N : text[j] = mc
                  /\ (\E j \in FieldsAt(text, mc) : FieldEnds(text, j)) => lower = UDP_MULTICAST
  BY <1>3
<1> HIDE DEF fields, n, N, mc, lower
<1> PICK g \in [1 .. n -> 1 .. N] :
        /\ \A k \in 1 .. n : Stands(fields[k], text, g[k])
        /\ \A j : FieldBegins(text, j) => \E k \in 1 .. n : g[k] = j
  BY <1>4
<1>8. UDP # UDP_MULTICAST
  BY ONLY <1>3 DEF UDP, UDP_MULTICAST
<1>9. ASSUME NEW i \in 1 .. n, Cast(i) PROVE \E j \in 1 .. N : text[j] = mc
  <2> DEFINE h == fields[i]
             j == g[i]
  <2>1. h \in Seq(Chars) /\ Stands(h, text, j) /\ j \in 1 .. N
    BY <1>2
  <2>2. \E seps : CutUntilChar(h, seps, FALSE).head = <<mc>>
    BY <1>9 DEF FieldName
  <2> HIDE DEF h, j
  <2> PICK seps : CutUntilChar(h, seps, FALSE).head = <<mc>>
    BY <2>2
  <2>3. h[1] = mc
    <3>1. h \in Seq(Chars)
      BY <2>1
    <3>2. CutUntilChar(h, seps, FALSE).head = <<mc>>
      OBVIOUS
    <3>3. QED BY ONLY <3>1, <3>2, OneInFront
  <2>4. Len(h) \in Nat /\ 1 \in 1 .. Len(h) /\ h[1] = text[j + 1 - 1]
    <3>1. Len(h) >= 1 /\ (\A m \in 1 .. Len(h) : h[m] = text[j + m - 1]) /\ h \in Seq(Chars)
      BY <2>1, Zenon DEF Stands
    <3>2. QED BY ONLY <3>1, LenProperties
  <2>5. j + 1 - 1 = j
    <3>1. j \in 1 .. N /\ N \in Nat
      BY <1>3, <2>1
    <3>2. QED BY ONLY <3>1
  <2>6. QED BY <2>1, <2>3, <2>4, <2>5
<1>10. ASSUME NEW j \in FieldsAt(text, mc), FieldEnds(text, j) PROVE \E i \in 1 .. n : Cast(i)
  <2>1. FieldBegins(text, j) /\ j \in 1 .. Len(text) /\ text[j] = mc
    BY <1>6 DEF N
  <2>2. PICK k \in 1 .. n : g[k] = j
    BY <2>1
  <2>3. fields[k] \in Seq(Chars) /\ Stands(fields[k], text, j)
    BY <1>2, <2>2
  <2>4. text[j] # "="
    BY <1>5, <2>1
  <2> DEFINE h == fields[k]
  <2>5. h \in Seq(Chars) /\ Stands(h, text, j)
    BY <2>3
  <2> HIDE DEF h
  <2>6. FieldName(h) = <<text[j]>>
    BY <1>10, <2>1, <2>4, <2>5, FlagRead
  <2>7. Cast(k)
    BY <2>1, <2>6 DEF h
  <2>8. QED BY <2>7
<1> HIDE DEF Cast
<1>11. (\E i \in DOMAIN fields : Cast(i)) <=> (\E i \in 1 .. n : Cast(i))
  BY <1>2
<1> DEFINE cast == \E i \in 1 .. n : Cast(i)
           named == \E j \in 1 .. N : text[j] = mc
           stands == \E j \in FieldsAt(text, mc) : FieldEnds(text, j)
<1>12. (cast => named) /\ (stands => cast)
  BY <1>9, <1>10
<1>13. lower = IF t.lower = UDP /\ cast THEN UDP_MULTICAST ELSE t.lower
  BY <1>7, <1>11
<1> HIDE DEF cast, named, stands
<1>14. /\ t.lower # UDP => lower = t.lower
       /\ t.lower = UDP =>
            /\ lower \in {UDP, UDP_MULTICAST}
            /\ lower = UDP_MULTICAST => named
            /\ stands => lower = UDP_MULTICAST
  BY ONLY <1>8, <1>12, <1>13
<1>15. QED BY <1>14 DEF named, stands

-------------------------------------------------------------------------------
(* The transports of a header *)

\* What a place holds of a transport, TCP being the lower transport or not.
Held(t, text, tcp) ==
    /\ \A r \in Ranges :
         LET at == FieldsAt(text, r)
         IN at # {} /\ IsRange(text, Max(at) + 2) => t.ranges[r] = EndsAt(text, Max(at) + 2)
    /\ IF tcp THEN t.lower = TCP
       ELSE /\ t.lower \in {UDP, UDP_MULTICAST}
            /\ t.lower = UDP_MULTICAST => \E j \in DOMAIN text : text[j] = "multicast"
            /\ (\E j \in FieldsAt(text, "multicast") : FieldEnds(text, j)) =>
                 t.lower = UDP_MULTICAST

\* The fields are read into a transport that has its lower transport.
LEMMA FieldsHold ==
  ASSUME NEW text \in Seq(Chars), NEW u \in Seq(Chars), NEW b, Behind(u, text, b),
         FieldsFrom(text, b), NEW t \in Transport, NEW tcp \in BOOLEAN,
         t.lower = IF tcp THEN TCP ELSE UDP,
         \A i \in DOMAIN Split(u, ";") : ReadableField(Split(u, ";")[i])
  PROVE  Held(FoldLeft(ReadField, t, Split(u, ";")), text, tcp)
<1> DEFINE q == FoldLeft(ReadField, t, Split(u, ";"))
           mc == "multicast"
           named == \E j \in DOMAIN text : text[j] = mc
           stands == \E j \in FieldsAt(text, mc) : FieldEnds(text, j)
           ranged == \A r \in Ranges :
                       LET at == FieldsAt(text, r)
                       IN at # {} /\ IsRange(text, Max(at) + 2) =>
                            q.ranges[r] = EndsAt(text, Max(at) + 2)
<1>1. ranged
  <2> SUFFICES ASSUME NEW r \in Ranges, FieldsAt(text, r) # {},
                      IsRange(text, Max(FieldsAt(text, r)) + 2)
               PROVE  q.ranges[r] = EndsAt(text, Max(FieldsAt(text, r)) + 2)
    OBVIOUS
  <2>1. QED BY RangesRead
<1>2. /\ t.lower # UDP => q.lower = t.lower
      /\ t.lower = UDP =>
           /\ q.lower \in {UDP, UDP_MULTICAST}
           /\ q.lower = UDP_MULTICAST => named
           /\ stands => q.lower = UDP_MULTICAST
  BY LowerRead
<1>3. t.lower = IF tcp THEN TCP ELSE UDP
  OBVIOUS
<1>4. TCP # UDP
  BY ONLY <1>3 DEF TCP, UDP
<1>5. ranged /\ (IF tcp THEN q.lower = TCP
                 ELSE /\ q.lower \in {UDP, UDP_MULTICAST}
                      /\ q.lower = UDP_MULTICAST => named
                      /\ stands => q.lower = UDP_MULTICAST)
      => Held(q, text, tcp)
  BY Zenon DEF Held
<1> HIDE DEF q, named, stands, ranged
<1>6. IF tcp THEN q.lower = TCP
      ELSE /\ q.lower \in {UDP, UDP_MULTICAST}
           /\ q.lower = UDP_MULTICAST => named
           /\ stands => q.lower = UDP_MULTICAST
  BY ONLY <1>2, <1>3, <1>4
<1>7. Held(q, text, tcp)
  BY <1>1, <1>5, <1>6, Zenon
<1>8. QED BY <1>7 DEF q

\* A transport is read into the next place there is, and only there.
LEMMA PlaceRead ==
  ASSUME NEW m \in Reading, NEW text \in Seq(Chars), ~ReadTransport(m, text).bad
  PROVE  LET m1 == ReadTransport(m, text)
             k  == m.nb + 1
         IN /\ ~m.bad
            /\ ~(m.nb < MaxTransports) => m1 = m
            /\ m.nb < MaxTransports =>
                 /\ m1.nb = k
                 /\ \A p \in 1 .. m.nb : m1.transports[p] = m.transports[p]
                 /\ Held(m1.transports[k], text, m1.lower = <<"TCP">>)
                 /\ Naming(text) => (m1.lower = <<"TCP">> <=> NamesTcp(text))
                 /\ ~Naming(text) => m1.lower = m.lower
<1> DEFINE lead   == Leading(text, m.lower)
           fields == Split(lead.rest, ";")
           k      == m.nb + 1
           read   == FoldLeft(ReadField, Started(m, lead), fields)
           m1     == ReadTransport(m, text)
           tcp    == lead.lower = <<"TCP">>
<1>1. m.lower \in Seq(Chars) /\ m.nb \in Nat
  BY BoundsAssumption DEF Reading
<1>2. /\ lead.rtp \in BOOLEAN /\ lead.bad \in BOOLEAN
      /\ lead.lower \in Seq(Chars) /\ lead.rest \in Seq(Chars)
  BY <1>1, LeadingType
<1>3. m1 = IF ~(m.nb < MaxTransports) \/ m.bad THEN m
           ELSE IF lead.bad \/ \E i \in DOMAIN fields : ~ReadableField(fields[i])
             THEN [m EXCEPT !.bad = TRUE]
           ELSE [m EXCEPT !.lower = lead.lower, !.nb = k, !.transports[k] = read]
  BY DEF ReadTransport, Started, Room
<1>4. ~lead.bad =>
        /\ \E b \in 1 .. Len(text) + 1 : Behind(lead.rest, text, b) /\ FieldsFrom(text, b)
        /\ Naming(text) => (tcp <=> NamesTcp(text))
        /\ ~Naming(text) => lead.lower = m.lower
  BY LeadingAt, SMTT(60)
<1>5. m.nb < MaxTransports =>
        /\ Started(m, lead) \in Transport
        /\ Started(m, lead).lower = IF tcp THEN TCP ELSE UDP
  <2> SUFFICES ASSUME m.nb < MaxTransports
               PROVE  /\ Started(m, lead) \in Transport
                      /\ Started(m, lead).lower = IF tcp THEN TCP ELSE UDP
    OBVIOUS
  <2> HIDE DEF lead
  <2>1. Started(m, lead) \in Transport
    BY <1>2, StartedType
  <2>2. m.transports[k] \in Transport
    BY <1>1, BoundsAssumption DEF Reading
  <2>3. QED BY <2>1, <2>2 DEF Started, Transport
<1>6. (\A i \in DOMAIN fields : ReadableField(fields[i])) /\ ~lead.bad /\ m.nb < MaxTransports =>
        Held(read, text, tcp)
  <2> SUFFICES ASSUME \A i \in DOMAIN fields : ReadableField(fields[i]), ~lead.bad,
                      m.nb < MaxTransports
               PROVE  Held(read, text, tcp)
    OBVIOUS
  <2>1. PICK b \in 1 .. Len(text) + 1 : Behind(lead.rest, text, b) /\ FieldsFrom(text, b)
    BY <1>4
  <2>2. tcp \in BOOLEAN
    OBVIOUS
  <2> HIDE DEF lead, tcp
  <2>3. QED BY <1>2, <1>5, <2>1, <2>2, FieldsHold
<1>7. ~m1.bad
  OBVIOUS
<1> HIDE DEF lead, fields, k, read, m1, tcp
<1>8. ~m.bad
  BY <1>3, <1>7
<1>9. ASSUME m.nb < MaxTransports
      PROVE  /\ m1.nb = k /\ m1.lower = lead.lower /\ ~lead.bad
             /\ \A p \in 1 .. m.nb : m1.transports[p] = m.transports[p]
             /\ m1.transports[k] = read /\ Held(read, text, tcp)
  <2>1. ~lead.bad /\ \A i \in DOMAIN fields : ReadableField(fields[i])
    <3> SUFFICES ASSUME lead.bad \/ \E i \in DOMAIN fields : ~ReadableField(fields[i])
                 PROVE  FALSE
      OBVIOUS
    <3>1. m1 = [m EXCEPT !.bad = TRUE]
      BY <1>3, <1>8, <1>9
    <3>2. QED BY <1>7, <3>1 DEF Reading
  <2>2. m1 = [m EXCEPT !.lower = lead.lower, !.nb = k, !.transports[k] = read]
    BY <1>3, <1>8, <1>9, <2>1
  <2>3. k \in 1 .. MaxTransports /\ \A p \in 1 .. m.nb : p \in 1 .. MaxTransports /\ p # k
    BY <1>1, <1>9, BoundsAssumption DEF k
  <2> DEFINE ts == [m.transports EXCEPT ![k] = read]
  <2>4. m1 = [m EXCEPT !.lower = lead.lower, !.nb = k, !.transports = ts]
    BY <2>2
  <2>5. ts[k] = read /\ \A p \in 1 .. m.nb : ts[p] = m.transports[p]
    BY <2>3 DEF Reading
  <2> HIDE DEF ts
  <2>6. m1.nb = k /\ m1.lower = lead.lower /\ m1.transports = ts
    BY <2>4 DEF Reading
  <2>7. QED BY <1>6, <1>9, <2>1, <2>5, <2>6
<1>10. tcp <=> lead.lower = <<"TCP">>
  BY DEF tcp
<1>11. m.nb < MaxTransports =>
         /\ m1.nb = k
         /\ \A p \in 1 .. m.nb : m1.transports[p] = m.transports[p]
         /\ Held(m1.transports[k], text, m1.lower = <<"TCP">>)
         /\ Naming(text) => (m1.lower = <<"TCP">> <=> NamesTcp(text))
         /\ ~Naming(text) => m1.lower = m.lower
  <2> SUFFICES ASSUME m.nb < MaxTransports
               PROVE  /\ m1.nb = k
                      /\ \A p \in 1 .. m.nb : m1.transports[p] = m.transports[p]
                      /\ Held(m1.transports[k], text, m1.lower = <<"TCP">>)
                      /\ Naming(text) => (m1.lower = <<"TCP">> <=> NamesTcp(text))
                      /\ ~Naming(text) => m1.lower = m.lower
    OBVIOUS
  <2>1. Held(m1.transports[k], text, tcp)
    BY <1>9
  <2>2. tcp = (m1.lower = <<"TCP">>)
    BY <1>9 DEF tcp
  <2>3. Held(m1.transports[k], text, m1.lower = <<"TCP">>)
    BY <2>1, <2>2, Zenon
  <2>4. QED BY <1>4, <1>9, <1>10, <2>3
<1>12. ~(m.nb < MaxTransports) => m1 = m
  BY <1>3
<1>13. QED BY <1>8, <1>11, <1>12 DEF m1, k

\* The transports up to place p that name their lower transport.
NamingUpTo(pieces, p) == {q \in 1 .. p : Naming(pieces[q])}

\* The last of them names TCP.
TcpAt(pieces, p) ==
    NamingUpTo(pieces, p) # {} /\ NamesTcp(pieces[Max(NamingUpTo(pieces, p))])

LEMMA TcpFurther ==
  ASSUME NEW pieces, NEW k \in Nat
  PROVE  /\ Naming(pieces[k + 1]) => (TcpAt(pieces, k + 1) <=> NamesTcp(pieces[k + 1]))
         /\ ~Naming(pieces[k + 1]) => (TcpAt(pieces, k + 1) <=> TcpAt(pieces, k))
<1> DEFINE l == k + 1
           I == NamingUpTo(pieces, k)
           J == NamingUpTo(pieces, l)
<1>1. (\A i : i \in 1 .. l <=> i \in 1 .. k \/ i = l) /\ l \in Nat /\ l >= 1
  OBVIOUS
<1>2. \A i \in 1 .. l : i \in Nat /\ i <= l
  OBVIOUS
<1> HIDE DEF l
<1>3. CASE Naming(pieces[l])
  <2>1. l \in J /\ J \in SUBSET Nat /\ \A i \in J : i <= l
    BY <1>1, <1>2, <1>3 DEF NamingUpTo
  <2> HIDE DEF J
  <2>2. Max(J) = l
    BY <2>1, LastOne
  <2>3. TcpAt(pieces, l) <=> NamesTcp(pieces[l])
    BY <2>1, <2>2 DEF TcpAt, J
  <2>4. QED BY <1>3, <2>3 DEF l
<1>4. CASE ~Naming(pieces[l])
  <2>1. I = J
    BY <1>1, <1>4 DEF NamingUpTo
  <2>2. TcpAt(pieces, l) <=> TcpAt(pieces, k)
    BY <2>1 DEF TcpAt
  <2>3. QED BY <1>4, <2>2 DEF l
<1>5. QED BY <1>3, <1>4

\* The first so many transports of a header are held, each in its place.
HeldUpTo(m, pieces, k) ==
    /\ m.nb = Least(MaxTransports, k)
    /\ \A q \in 1 .. m.nb : Held(m.transports[q], pieces[q], TcpAt(pieces, q))
    /\ k <= MaxTransports => (m.lower = <<"TCP">> <=> TcpAt(pieces, k))

LEMMA HeldFurther ==
  ASSUME NEW m \in Reading, NEW pieces, NEW k \in Nat, pieces[k + 1] \in Seq(Chars),
         HeldUpTo(m, pieces, k), ~ReadTransport(m, pieces[k + 1]).bad
  PROVE  HeldUpTo(ReadTransport(m, pieces[k + 1]), pieces, k + 1)
<1> DEFINE l == k + 1
           text == pieces[l]
           m1 == ReadTransport(m, text)
           tcp == m1.lower = <<"TCP">>
<1>1. /\ m.nb = Least(MaxTransports, k)
      /\ \A q \in 1 .. m.nb : Held(m.transports[q], pieces[q], TcpAt(pieces, q))
      /\ k <= MaxTransports => (m.lower = <<"TCP">> <=> TcpAt(pieces, k))
  BY DEF HeldUpTo
<1>2. /\ ~(m.nb < MaxTransports) => m1 = m
      /\ m.nb < MaxTransports =>
           /\ m1.nb = m.nb + 1
           /\ \A p \in 1 .. m.nb : m1.transports[p] = m.transports[p]
           /\ Held(m1.transports[m.nb + 1], text, tcp)
           /\ Naming(text) => (tcp <=> NamesTcp(text))
           /\ ~Naming(text) => m1.lower = m.lower
  BY PlaceRead
<1>3. /\ Naming(text) => (TcpAt(pieces, l) <=> NamesTcp(text))
      /\ ~Naming(text) => (TcpAt(pieces, l) <=> TcpAt(pieces, k))
  BY TcpFurther
<1>4. tcp \in BOOLEAN /\ TcpAt(pieces, l) \in BOOLEAN /\ (tcp <=> m1.lower = <<"TCP">>)
  BY DEF TcpAt
<1>5. MaxTransports \in Nat
  BY BoundsAssumption
<1> HIDE DEF text, m1, tcp
<1>6. CASE m.nb < MaxTransports
  <2>1. m.nb = k /\ k < MaxTransports /\ m.nb + 1 = l /\ l <= MaxTransports /\ k <= MaxTransports
    BY <1>1, <1>5, <1>6 DEF Least
  <2>2. tcp <=> TcpAt(pieces, l)
    <3>1. m1.lower = m.lower => (tcp <=> m.lower = <<"TCP">>)
      BY <1>4
    <3>2. QED BY <1>1, <1>2, <1>3, <1>6, <2>1, <3>1
  <2>3. tcp = TcpAt(pieces, l)
    BY <1>4, <2>2
  <2>4. Held(m1.transports[l], text, TcpAt(pieces, l))
    <3>1. Held(m1.transports[l], text, tcp)
      BY <1>2, <1>6, <2>1
    <3>2. QED BY <2>3, <3>1, Zenon
  <2>5. m1.nb = l /\ Least(MaxTransports, l) = l
    <3>1. m1.nb = l
      BY <1>2, <1>6, <2>1
    <3>2. QED BY <1>5, <2>1, <3>1 DEF Least
  <2>6. \A q \in 1 .. l : Held(m1.transports[q], pieces[q], TcpAt(pieces, q))
    <3> SUFFICES ASSUME NEW q \in 1 .. l
                 PROVE  Held(m1.transports[q], pieces[q], TcpAt(pieces, q))
      OBVIOUS
    <3>1. CASE q = l
      BY <2>4, <3>1, Zenon DEF text
    <3>2. CASE q # l
      <4>1. q \in 1 .. m.nb
        BY <2>1, <3>2
      <4>2. QED BY <1>1, <1>2, <1>6, <4>1
    <3>3. QED BY <3>1, <3>2
  <2> HIDE DEF l
  <2>7. HeldUpTo(m1, pieces, l)
    BY <1>4, <2>2, <2>5, <2>6 DEF HeldUpTo
  <2>8. QED BY <2>7 DEF m1, text, l
<1>7. CASE ~(m.nb < MaxTransports)
  <2>1. m1 = m
    BY <1>2, <1>7
  <2>2. Least(MaxTransports, l) = m.nb /\ ~(l <= MaxTransports)
    BY <1>1, <1>5, <1>7 DEF Least
  <2> HIDE DEF l
  <2>3. HeldUpTo(m, pieces, l)
    BY <1>1, <2>2 DEF HeldUpTo
  <2>4. QED BY <2>1, <2>3 DEF m1, text, l
<1>8. QED BY <1>6, <1>7

\* rtsp_parse_transport leaves what its header has, as far as the array goes.
LEMMA HeaderHolds ==
  ASSUME NEW r \in Message, NEW text \in Seq(Chars), ~ParseTransport(r, text).bad
  PROVE  HeldUpTo(ParseTransport(r, text), Split(text, LineEnd), Len(Split(text, LineEnd)))
<1> DEFINE pieces == Split(text, LineEnd)
           n == Len(pieces)
<1>1. pieces \in Seq(Seq(Chars))
  BY SplitType
<1>2. ParseTransport(r, text) = FoldLeft(ReadTransport, Cleared(r), pieces)
  BY DEF ParseTransport, Cleared
<1> HIDE DEF pieces
<1>3. n \in Nat /\ \A i \in 1 .. n : pieces[i] \in Seq(Chars)
  BY <1>1, LenProperties, ElementOfSeq
<1> PICK p \in [0 .. n -> Reading] :
            /\ p[0] = Cleared(r)
            /\ \A k \in 1 .. n : p[k] = ReadTransport(p[k - 1], pieces[k])
            /\ FoldLeft(ReadTransport, Cleared(r), pieces) = p[n]
  <2>1. Cleared(r) \in Reading
    BY ClearedType
  <2>2. QED BY ONLY <1>1, <2>1, TransportsRead
<1> HIDE DEF n
<1>4. \A k \in Nat : k + 1 <= n =>
        /\ p[k] \in Reading /\ pieces[k + 1] \in Seq(Chars)
        /\ p[k + 1] = ReadTransport(p[k], pieces[k + 1])
  <2> SUFFICES ASSUME NEW k \in Nat, k + 1 <= n
               PROVE  /\ p[k] \in Reading /\ pieces[k + 1] \in Seq(Chars)
                      /\ p[k + 1] = ReadTransport(p[k], pieces[k + 1])
    OBVIOUS
  <2>1. k \in 0 .. n /\ k + 1 \in 1 .. n /\ (k + 1) - 1 = k
    BY <1>3
  <2>2. p[k + 1] = ReadTransport(p[k], pieces[k + 1])
    BY <2>1
  <2>3. QED BY <1>3, <2>1, <2>2
<1>5. \A k \in 0 .. n : ~p[k].bad
  <2> DEFINE S == {i \in Nat : i <= n => ~p[n - i].bad}
  <2>1. 0 \in S
    <3>1. n - 0 = n
      BY <1>3
    <3>2. QED BY <1>2, <3>1
  <2>2. \A i \in Nat : i \in S => i + 1 \in S
    <3> SUFFICES ASSUME NEW i \in Nat, i \in S, i + 1 <= n PROVE ~p[n - (i + 1)].bad
      OBVIOUS
    <3> DEFINE k == n - (i + 1)
    <3>1. k \in Nat /\ k + 1 <= n /\ n - i = k + 1 /\ i <= n
      BY <1>3
    <3>2. ~p[k + 1].bad
      BY <3>1
    <3> HIDE DEF k
    <3>3. p[k] \in Reading /\ pieces[k + 1] \in Seq(Chars)
          /\ p[k + 1] = ReadTransport(p[k], pieces[k + 1])
      BY <1>4, <3>1
    <3>4. ~p[k].bad
      BY <3>2, <3>3, PlaceRead
    <3>5. QED BY <3>4 DEF k
  <2>3. Nat \subseteq S
    <3> HIDE DEF S
    <3> QED BY <2>1, <2>2, SetInduction
  <2> SUFFICES ASSUME NEW k \in 0 .. n PROVE ~p[k].bad
    OBVIOUS
  <2>4. n - k \in Nat /\ n - k <= n /\ n - (n - k) = k
    BY <1>3
  <2>5. n - k \in S
    BY <2>3, <2>4
  <2>6. ~p[n - (n - k)].bad
    BY <2>4, <2>5
  <2>7. QED BY <2>4, <2>6
<1> DEFINE S == {k \in Nat : k <= n => HeldUpTo(p[k], pieces, k)}
<1>6. 0 \in S
  <2>1. p[0].nb = 0
    BY DEF Cleared
  <2>2. Least(MaxTransports, 0) = 0 /\ 1 .. 0 = {}
    BY BoundsAssumption DEF Least
  <2>3. p[0].lower # <<"TCP">>
    <3> DEFINE a == "UDP"
               b == "TCP"
    <3>1. a # b
      BY Zenon
    <3>2. p[0].lower = <<a>>
      BY DEF Cleared
    <3> HIDE DEF a, b
    <3>3. p[0].lower # <<b>>
      BY <3>1, <3>2
    <3>4. QED BY <3>3 DEF b
  <2>4. ~TcpAt(pieces, 0)
    BY <2>2 DEF TcpAt, NamingUpTo
  <2>5. \A q \in 1 .. p[0].nb : FALSE
    BY <2>1, <2>2
  <2>6. HeldUpTo(p[0], pieces, 0)
    BY <2>1, <2>2, <2>3, <2>4, <2>5 DEF HeldUpTo
  <2>7. QED BY <2>6
<1>7. \A k \in Nat : k \in S => k + 1 \in S
  <2> SUFFICES ASSUME NEW k \in Nat, k \in S, k + 1 <= n PROVE HeldUpTo(p[k + 1], pieces, k + 1)
    OBVIOUS
  <2>1. HeldUpTo(p[k], pieces, k) /\ k + 1 \in 0 .. n
    BY <1>3
  <2>2. /\ p[k] \in Reading /\ pieces[k + 1] \in Seq(Chars)
        /\ p[k + 1] = ReadTransport(p[k], pieces[k + 1])
    BY <1>4
  <2>3. ~ReadTransport(p[k], pieces[k + 1]).bad
    BY <1>5, <2>1, <2>2
  <2>4. QED BY <2>1, <2>2, <2>3, HeldFurther
<1>8. Nat \subseteq S
  <2> HIDE DEF S
  <2> QED BY <1>6, <1>7, SetInduction
<1>9. HeldUpTo(p[n], pieces, n)
  BY <1>3, <1>8
<1>10. QED BY <1>2, <1>9 DEF n, pieces

-------------------------------------------------------------------------------
(* The transports of the last header *)

TransportLines == {l \in Lines : l.key = "Transport"}

\* What the text of a Transport leaves in the message.
Transported(q, text) ==
    LET pieces == Split(text, LineEnd)
    IN /\ q.nb = Least(MaxTransports, Len(pieces))
       /\ \A p \in 1 .. q.nb : Held(q.transports[p], pieces[p], TcpAt(pieces, p))

Carried == {q \in Lines \X Message \X BOOLEAN : Transported(q[2], SkipBlanks(q[1].val))}

\* A message with the transports of a reading.
Placed(r, m) == [r EXCEPT !.nb = m.nb, !.transports = m.transports]

LEMMA TransportLineRead ==
  ASSUME NEW r, NEW line, NEW t1, NEW t2, line.key = "Transport"
  PROVE  ParseLine(r, line, t1, t2) = Placed(r, ParseTransport(r, SkipBlanks(line.val)))
  BY Zenon DEF ParseLine, IsClocked, Numbers, Texts, Placed

\* A Transport goes into the places of the message, and nothing else does.
LEMMA TransportFitting == Fitting(TransportLines, Carried)
<1>1. StatusLine \notin TransportLines
  <2>1. "unknown" # "Transport"
    BY Zenon
  <2>2. QED BY <2>1 DEF StatusLine, TransportLines
<1> SUFFICES ASSUME NEW r \in Message, NEW back \in BOOLEAN, NEW line \in Lines,
                    NEW t1 \in Nat, NEW t2 \in Nat, Readable(line)
             PROVE  LET read(l) == <<l, ParseLine(r, line, t1, t2), Back(back, line, t1, t2)>>
                    IN /\ line \in TransportLines => read(line) \in Carried
                       /\ line \notin TransportLines =>
                            \A l \in TransportLines : <<l, r, back>> \in Carried => read(l) \in Carried
  BY <1>1 DEF Fitting
<1> DEFINE text == SkipBlanks(line.val)
           q == ParseLine(r, line, t1, t2)
           c == Back(back, line, t1, t2)
<1>2. q \in Message /\ c \in BOOLEAN
  BY LineType, BackType
<1> HIDE DEF c
<1>3. text \in Seq(Chars)
  BY ValueType
<1>4. ASSUME line \in TransportLines PROVE <<line, q, c>> \in Carried
  <2> DEFINE m == ParseTransport(r, text)
  <2>1. line.key = "Transport"
    BY <1>4 DEF TransportLines
  <2>2. q = Placed(r, m)
    BY <2>1, TransportLineRead
  <2>3. ~ParseTransport(NewMessage, text).bad
    BY <2>1 DEF Readable
  <2> HIDE DEF text, q
  <2>4. ~m.bad
    BY <1>3, <2>3, NewMessageType, HeaderAlike
  <2>5. HeldUpTo(m, Split(text, LineEnd), Len(Split(text, LineEnd)))
    BY <1>3, <2>4, HeaderHolds
  <2> HIDE DEF m
  <2>6. q.nb = m.nb /\ q.transports = m.transports
    BY <2>2 DEF Message, Placed
  <2>7. Transported(q, text)
    BY <2>5, <2>6 DEF Transported, HeldUpTo
  <2>8. QED BY <1>2, <2>7 DEF Carried, text
<1>5. ASSUME line \notin TransportLines, NEW l \in TransportLines, <<l, r, back>> \in Carried
      PROVE  <<l, q, c>> \in Carried
  <2>1. q.nb = r.nb /\ q.transports = r.transports
    <3>1. line.key # "Transport"
      BY <1>5 DEF TransportLines
    <3>2. Effect(q, r, line, text, t1, t2)
      BY LineEffect
    <3> HIDE DEF q, text
    <3>3. QED BY <3>1, <3>2 DEF Effect, Message, RangeNpt
  <2>2. Transported(r, SkipBlanks(l.val)) /\ l \in Lines
    BY <1>5 DEF Carried, TransportLines
  <2>3. Transported(q, SkipBlanks(l.val))
    <3> HIDE DEF q
    <3>1. QED BY <2>1, <2>2 DEF Transported
  <2> HIDE DEF q
  <2>4. QED BY <1>2, <2>2, <2>3 DEF Carried
<1>6. QED BY <1>4, <1>5 DEF c

\* The places hold the transports of the last Transport there is.
LEMMA LastCarried ==
  ASSUME TypeOK, Overlaid, LastFits(TransportLines, Carried), status = "idle",
         LinesOf("Transport") # {}
  PROVE  Transported(reply, LastVal(LinesOf("Transport")))
<1> DEFINE I == LinesOf("Transport")
<1>1. I = {i \in DOMAIN lines : lines[i] \in TransportLines}
  <2>1. \A i \in DOMAIN lines : lines[i] \in Lines
    BY LenProperties, ElementOfSeq DEF TypeOK
  <2>2. QED BY <2>1 DEF LinesOf, TransportLines
<1>2. I # {}
  OBVIOUS
<1> HIDE DEF I
<1>3. <<lines[Max(I)], reply, setBack>> \in Carried
  BY <1>1, <1>2, LastOneFits
<1>4. Transported(reply, LastVal(I))
  BY <1>3 DEF Carried, LastVal
<1>5. QED BY <1>4 DEF I

LEMMA TransportsHold ==
  TypeOK /\ Overlaid /\ LastFits(TransportLines, Carried) => LastTransport /\ LowerNamed
<1> SUFFICES ASSUME TypeOK, Overlaid, LastFits(TransportLines, Carried)
             PROVE  LastTransport /\ LowerNamed
  OBVIOUS
<1>1. ASSUME status = "idle", LinesOf("Transport") # {}
      PROVE  /\ reply.nb = Least(MaxTransports, Len(Pieces))
             /\ \A p \in 1 .. reply.nb :
                  Held(reply.transports[p], Pieces[p], TcpAt(Pieces, p))
  BY <1>1, LastCarried DEF Transported, Pieces
<1>2. LastTransport
  <2> SUFFICES ASSUME status = "idle", LinesOf("Transport") # {},
                      NEW p \in 1 .. reply.nb, NEW r \in Ranges,
                      FieldsAt(Pieces[p], r) # {},
                      IsRange(Pieces[p], Max(FieldsAt(Pieces[p], r)) + 2)
               PROVE  reply.transports[p].ranges[r] =
                        EndsAt(Pieces[p], Max(FieldsAt(Pieces[p], r)) + 2)
    BY <1>1, Zenon DEF LastTransport
  <2>1. Held(reply.transports[p], Pieces[p], TcpAt(Pieces, p))
    BY <1>1
  <2>2. QED BY <2>1, Zenon DEF Held
<1>3. LowerNamed
  <2> SUFFICES ASSUME status = "idle", LinesOf("Transport") # {}, NEW p \in 1 .. reply.nb
               PROVE  LET piece  == Pieces[p]
                          lower  == reply.transports[p].lower
                          naming == {q \in 1 .. p : \E e \in DOMAIN Pieces[q] : Names(Pieces[q], e)}
                      IN IF naming # {} /\ NamesTcp(Pieces[Max(naming)]) THEN lower = TCP
                         ELSE /\ lower \in {UDP, UDP_MULTICAST}
                              /\ lower = UDP_MULTICAST => \E j \in DOMAIN piece : piece[j] = "multicast"
                              /\ (\E j \in FieldsAt(piece, "multicast") : FieldEnds(piece, j)) =>
                                   lower = UDP_MULTICAST
    BY Zenon DEF LowerNamed
  <2>1. Held(reply.transports[p], Pieces[p], TcpAt(Pieces, p))
    BY <1>1
  <2>2. QED BY <2>1, Zenon DEF Held, TcpAt, NamingUpTo, Naming
<1>4. QED BY <1>2, <1>3

LEMMA NextCarried ==
  TypeOK /\ Overlaid /\ LastFits(TransportLines, Carried) /\ [Next]_vars
    => LastFits(TransportLines, Carried)'
  BY TransportFitting, NextFits

\* LastTransport of every behaviour: however many Transport headers are parsed,
\* and parsed again, the message has the transports of the last one.
THEOREM LastTransportIsHeld == Spec => []LastTransport
<1>1. Init => LastFits(TransportLines, Carried)
  BY InitFits
<1>2. TypeOK /\ Overlaid /\ LastFits(TransportLines, Carried) => LastTransport
  BY TransportsHold
<1> QED
  BY InitTypes, InitOverlaid, NextTypes, NextOverlaid, NextCarried, <1>1, <1>2, PTL DEF Spec

\* LowerNamed of every behaviour: the lower transport is the one named last in
\* the last Transport header, UDP where none is, and multicast only over UDP.
THEOREM LowerIsNamed == Spec => []LowerNamed
<1>1. Init => LastFits(TransportLines, Carried)
  BY InitFits
<1>2. TypeOK /\ Overlaid /\ LastFits(TransportLines, Carried) => LowerNamed
  BY TransportsHold
<1> QED
  BY InitTypes, InitOverlaid, NextTypes, NextOverlaid, NextCarried, <1>1, <1>2, PTL DEF Spec
===============================================================================
