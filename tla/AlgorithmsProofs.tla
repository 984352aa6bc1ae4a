-------------------------- MODULE AlgorithmsProofs ---------------------------
(* What the pure functions do for inputs of any size: strings appended, URLs *)
(* and credentials written and read, a message in MD5 blocks, bytes escaped  *)
(* and not. Each comes first for any input, then for those MCAlgorithms      *)
(* gives.                                                                    *)
EXTENDS MCAlgorithms, SequenceLemmas, FiniteSetTheorems

\* A code as H.264 9.1.1 gives it to a signed value.
SignedCode(v) == IF v > 0 THEN 2 * v - 1 ELSE -2 * v

\* Se gives back every signed value from its code.
THEOREM SignedReadsBack == \A v \in Int : SignedCode(v) \in Nat /\ Signed(SignedCode(v)) = v
<1> SUFFICES ASSUME NEW v \in Int PROVE SignedCode(v) \in Nat /\ Signed(SignedCode(v)) = v
  OBVIOUS
<1>1. CASE v > 0
  <2>1. SignedCode(v) = 2 * v - 1 /\ SignedCode(v) % 2 = 1
    BY <1>1 DEF SignedCode
  <2>2. (SignedCode(v) + 1) \div 2 = v
    BY <2>1
  <2>3. QED BY <1>1, <2>1, <2>2 DEF Signed
<1>2. CASE v <= 0
  <2>1. SignedCode(v) = -2 * v /\ SignedCode(v) % 2 = 0
    BY <1>2 DEF SignedCode
  <2>2. (SignedCode(v) + 1) \div 2 = -v
    BY <2>1
  <2>3. QED BY <1>2, <2>1, <2>2 DEF Signed
<1>3. QED BY <1>1, <1>2

\* The padding of md5_final and the length behind it end a block, for a message
\* of any length, and there is always a first byte of padding.
THEOREM PaddingEndsBlock ==
  \A n \in Nat : /\ PadLen(n % 64) \in 1 .. 64
                 /\ (n + PadLen(n % 64) + 8) % 64 = 0
<1> SUFFICES ASSUME NEW n \in Nat
             PROVE  PadLen(n % 64) \in 1 .. 64 /\ (n + PadLen(n % 64) + 8) % 64 = 0
  OBVIOUS
<1>1. n % 64 \in 0 .. 63
  OBVIOUS
<1>2. CASE n % 64 < 56
  BY <1>1, <1>2 DEF PadLen
<1>3. CASE n % 64 >= 56
  BY <1>1, <1>3 DEF PadLen
<1>4. QED BY <1>1, <1>2, <1>3

-------------------------------------------------------------------------------
\* What two of the four characters of a group hold, and that they are enough.
LEMMA Cut ==
  ASSUME NEW b \in 0 .. 255
  PROVE  /\ (b \div 4) \in 0 .. 63 /\ (b % 4) \in 0 .. 3
         /\ b = (b \div 4) * 4 + (b % 4)
         /\ (b \div 16) \in 0 .. 15 /\ (b % 16) \in 0 .. 15
         /\ b = (b \div 16) * 16 + (b % 16)
         /\ (b \div 64) \in 0 .. 3 /\ (b % 64) \in 0 .. 63
         /\ b = (b \div 64) * 64 + (b % 64)
  OBVIOUS

\* What a character of the alphabet counts.
LEMMA DescOf == \A c \in 0 .. 63 : Desc(c) = c
  BY DEF Desc

\* The bytes of four characters; the first needs two of them, the next three.
LEMMA UngroupIs ==
  ASSUME NEW c1, NEW c2, NEW c3, NEW c4
  PROVE  Ungroup(<<c1, c2, c3, c4>>) =
           << Desc(c1) * 4 + (Desc(c2) \div 16), (Desc(c2) % 16) * 16 + (Desc(c3) \div 4),
              (Desc(c3) % 4) * 64 + Desc(c4) >>
<1> DEFINE q == <<c1, c2, c3, c4>>
           d == [i \in 1 .. 4 |-> Desc(q[i])]
<1>1. /\ d[1] = Desc(c1) /\ d[2] = Desc(c2) /\ d[3] = Desc(c3) /\ d[4] = Desc(c4)
  OBVIOUS
<1>2. Ungroup(q) = << d[1] * 4 + (d[2] \div 16), (d[2] % 16) * 16 + (d[3] \div 4),
                      (d[3] % 4) * 64 + d[4] >>
  BY DEF Ungroup
<1> HIDE DEF d
<1>3. QED BY <1>1, <1>2

\* A whole group of bytes is read back.
LEMMA FullGroup ==
  ASSUME NEW b1 \in 0 .. 255, NEW b2 \in 0 .. 255, NEW b3 \in 0 .. 255
  PROVE  Ungroup(Group(<<b1, b2, b3>>)) = <<b1, b2, b3>>
<1> DEFINE c1 == b1 \div 4
           c2 == (b1 % 4) * 16 + (b2 \div 16)
           c3 == (b2 % 16) * 4 + (b3 \div 64)
           c4 == b3 % 64
<1>1. c1 \in 0 .. 63 /\ c2 \in 0 .. 63 /\ c3 \in 0 .. 63 /\ c4 \in 0 .. 63
  BY Cut
<1>2. /\ c1 * 4 + (c2 \div 16) = b1
      /\ (c2 % 16) * 16 + (c3 \div 4) = b2
      /\ (c3 % 4) * 64 + c4 = b3
  <2>1. c2 \div 16 = b1 % 4 /\ c2 % 16 = b2 \div 16
    BY Cut
  <2>2. c3 \div 4 = b2 % 16 /\ c3 % 4 = b3 \div 64
    BY Cut
  <2>3. QED BY <2>1, <2>2, Cut
<1>3. Group(<<b1, b2, b3>>) = <<c1, c2, c3, c4>>
  BY DEF Group, At
<1> HIDE DEF c1, c2, c3, c4
<1>4. Desc(c1) = c1 /\ Desc(c2) = c2 /\ Desc(c3) = c3 /\ Desc(c4) = c4
  BY <1>1, DescOf
<1>5. Ungroup(<<c1, c2, c3, c4>>) =
        << c1 * 4 + (c2 \div 16), (c2 % 16) * 16 + (c3 \div 4), (c3 % 4) * 64 + c4 >>
  BY <1>4, UngroupIs
<1>6. QED BY <1>2, <1>3, <1>5

\* A group of two bytes is read back.
LEMMA PairGroup ==
  ASSUME NEW b1 \in 0 .. 255, NEW b2 \in 0 .. 255
  PROVE  Ungroup(Group(<<b1, b2>>))[1] = b1 /\ Ungroup(Group(<<b1, b2>>))[2] = b2
<1> DEFINE c1 == b1 \div 4
           c2 == (b1 % 4) * 16 + (b2 \div 16)
           c3 == (b2 % 16) * 4
<1>1. c1 \in 0 .. 63 /\ c2 \in 0 .. 63 /\ c3 \in 0 .. 63
  BY Cut
<1>2. c1 * 4 + (c2 \div 16) = b1 /\ (c2 % 16) * 16 + (c3 \div 4) = b2
  <2>1. c2 \div 16 = b1 % 4 /\ c2 % 16 = b2 \div 16 /\ c3 \div 4 = b2 % 16
    BY Cut
  <2>2. QED BY <2>1, Cut
<1>3. Group(<<b1, b2>>) = <<c1, c2, c3, Equals>>
  BY DEF Group, At
<1> HIDE DEF c1, c2, c3
<1>4. Desc(c1) = c1 /\ Desc(c2) = c2 /\ Desc(c3) = c3
  BY <1>1, DescOf
<1>5. /\ Ungroup(<<c1, c2, c3, Equals>>)[1] = c1 * 4 + (c2 \div 16)
      /\ Ungroup(<<c1, c2, c3, Equals>>)[2] = (c2 % 16) * 16 + (c3 \div 4)
  BY <1>4, UngroupIs
<1>6. QED BY <1>2, <1>3, <1>5

\* A group of one byte is read back.
LEMMA OneGroup == ASSUME NEW b1 \in 0 .. 255 PROVE Ungroup(Group(<<b1>>))[1] = b1
<1> DEFINE c1 == b1 \div 4
           c2 == (b1 % 4) * 16
<1>1. c1 \in 0 .. 63 /\ c2 \in 0 .. 63 /\ c1 * 4 + (c2 \div 16) = b1
  BY Cut
<1>2. Group(<<b1>>) = <<c1, c2, Equals, Equals>>
  BY DEF Group, At
<1> HIDE DEF c1, c2
<1>3. Desc(c1) = c1 /\ Desc(c2) = c2
  BY <1>1, DescOf
<1>4. Ungroup(<<c1, c2, Equals, Equals>>)[1] = c1 * 4 + (c2 \div 16)
  BY <1>3, UngroupIs
<1>5. QED BY <1>1, <1>2, <1>4

\* base64_decode gives back every group of bytes that base64_encode wrote; what
\* stands for "=" is behind the bytes of a shorter group.
THEOREM GroupReadsBack ==
  \A b1, b2, b3 \in 0 .. 255 :
     /\ Ungroup(Group(<<b1, b2, b3>>)) = <<b1, b2, b3>>
     /\ Ungroup(Group(<<b1, b2>>))[1] = b1 /\ Ungroup(Group(<<b1, b2>>))[2] = b2
     /\ Ungroup(Group(<<b1>>))[1] = b1
<1> SUFFICES ASSUME NEW b1 \in 0 .. 255, NEW b2 \in 0 .. 255, NEW b3 \in 0 .. 255
             PROVE  /\ Ungroup(Group(<<b1, b2, b3>>)) = <<b1, b2, b3>>
                    /\ Ungroup(Group(<<b1, b2>>))[1] = b1 /\ Ungroup(Group(<<b1, b2>>))[2] = b2
                    /\ Ungroup(Group(<<b1>>))[1] = b1
  BY ZenonT(60)
<1>1. Ungroup(Group(<<b1, b2, b3>>)) = <<b1, b2, b3>>
  BY FullGroup, ZenonT(60)
<1>2. Ungroup(Group(<<b1, b2>>))[1] = b1 /\ Ungroup(Group(<<b1, b2>>))[2] = b2
  BY PairGroup, ZenonT(60)
<1>3. Ungroup(Group(<<b1>>))[1] = b1
  BY OneGroup
<1>4. QED BY <1>1, <1>2, <1>3, SMTT(60)

-------------------------------------------------------------------------------
\* str_copy fits its buffer with the end of the string, and leaves out nothing
\* that fits.
LEMMA StrCopyFits ==
  ASSUME NEW S, NEW src \in Seq(S), NEW maxlen \in Nat \ {0}
  PROVE  /\ StrCopy(src, maxlen) \in Seq(S)
         /\ Len(StrCopy(src, maxlen)) = Least(Len(src), maxlen - 1)
         /\ \A i \in 1 .. Least(Len(src), maxlen - 1) : StrCopy(src, maxlen)[i] = src[i]
<1>1. Least(Len(src), maxlen - 1) \in 0 .. Len(src)
  BY DEF Least
<1>2. QED BY <1>1 DEF StrCopy

\* Whatever is appended to a string in whatever buffer, the result fits with its
\* end, begins with what was there, goes on with what is appended and leaves
\* out nothing that fits; formatting it first makes no difference (str_lcat,
\* snprint_lcatf).
THEOREM AppendFits ==
  ASSUME NEW S, NEW dst \in Seq(S), NEW src \in Seq(S), NEW maxlen \in Nat,
         Len(dst) < maxlen
  PROVE  /\ Lcat(dst, src, maxlen) = dst \o StrCopy(src, maxlen - Len(dst))
         /\ Len(Lcat(dst, src, maxlen)) = Least(Len(dst) + Len(src), maxlen - 1)
         /\ PrintLcat(dst, maxlen, src) = Lcat(dst, src, maxlen)
<1> DEFINE room == maxlen - Len(dst)
<1>1. room \in Nat \ {0}
  OBVIOUS
<1>2. /\ StrCopy(src, room) \in Seq(S)
      /\ Len(StrCopy(src, room)) = Least(Len(src), room - 1)
  BY <1>1, StrCopyFits
<1>3. Lcat(dst, src, maxlen) = dst \o StrCopy(src, room)
  <2>1. CASE room = 1
    <3>1. Len(StrCopy(src, room)) = 0
      BY <1>2, <2>1 DEF Least
    <3>2. StrCopy(src, room) = <<>>
      BY <1>2, <3>1
    <3>3. Lcat(dst, src, maxlen) = dst
      BY <2>1 DEF Lcat
    <3>4. QED BY <3>2, <3>3
  <2>2. CASE room # 1
    BY <1>1, <2>2 DEF Lcat
  <2>3. QED BY <2>1, <2>2
<1>4. Len(dst \o StrCopy(src, room)) = Least(Len(dst) + Len(src), maxlen - 1)
  <2>1. Len(dst \o StrCopy(src, room)) = Len(dst) + Len(StrCopy(src, room))
    BY <1>2
  <2>2. Len(dst) \in Nat /\ Len(src) \in Nat
    OBVIOUS
  <2>3. Len(dst) + Least(Len(src), room - 1) = Least(Len(dst) + Len(src), maxlen - 1)
    BY <2>2 DEF Least
  <2>4. QED BY <1>2, <2>1, <2>3
<1>5. PrintLcat(dst, maxlen, src) = dst \o StrCopy(src, room)
  BY <1>1 DEF PrintLcat
<1>6. QED BY <1>3, <1>4, <1>5

-------------------------------------------------------------------------------
(* Appending, one text after another. *)

\* What a buffer holds of a text, with one more text behind it, is what it holds
\* of both.
LEMMA AppendCopies ==
  ASSUME NEW S, NEW a \in Seq(S), NEW b \in Seq(S), NEW n \in Nat \ {0}
  PROVE  /\ Lcat(StrCopy(a, n), b, n) = StrCopy(a \o b, n)
         /\ PrintLcat(StrCopy(a, n), n, b) = StrCopy(a \o b, n)
<1> DEFINE c == StrCopy(a, n)
           d == StrCopy(b, n - Len(c))
           ab == a \o b
           e == StrCopy(ab, n)
<1>1. /\ Len(a) \in Nat /\ Len(b) \in Nat /\ ab \in Seq(S) /\ Len(ab) = Len(a) + Len(b)
      /\ \A i \in 1 .. Len(ab) : ab[i] = IF i <= Len(a) THEN a[i] ELSE b[i - Len(a)]
  BY LenProperties, ConcatProperties
<1>2. /\ c \in Seq(S) /\ Len(c) = Least(Len(a), n - 1)
      /\ \A i \in 1 .. Len(c) : c[i] = a[i]
  BY StrCopyFits
<1>3. Len(c) \in Nat /\ Len(c) < n /\ Len(c) <= Len(a) /\ (Len(c) = Len(a) \/ Len(c) = n - 1)
  BY <1>1, <1>2 DEF Least
<1>4. /\ e \in Seq(S) /\ Len(e) = Least(Len(ab), n - 1)
      /\ \A i \in 1 .. Len(e) : e[i] = ab[i]
  <2> HIDE DEF ab
  <2> QED BY <1>1, StrCopyFits
<1> HIDE DEF c
<1>5. /\ Lcat(c, b, n) = c \o d /\ Len(Lcat(c, b, n)) = Least(Len(c) + Len(b), n - 1)
      /\ PrintLcat(c, n, b) = Lcat(c, b, n)
  BY <1>2, <1>3, AppendFits, ZenonT(60)
<1>6. n - Len(c) \in Nat \ {0}
  BY <1>3
<1>7. d \in Seq(S) /\ \A i \in 1 .. Len(d) : d[i] = b[i]
  BY <1>6, StrCopyFits
<1> HIDE DEF d, e, ab
<1>8. /\ Len(d) \in Nat /\ Len(c \o d) = Len(c) + Len(d) /\ c \o d \in Seq(S)
      /\ \A i \in 1 .. Len(c \o d) : (c \o d)[i] = IF i <= Len(c) THEN c[i] ELSE d[i - Len(c)]
  <2>1. /\ c \o d \in Seq(S) /\ Len(c \o d) = Len(c) + Len(d)
        /\ \A i \in 1 .. Len(c) + Len(d) :
             (c \o d)[i] = IF i <= Len(c) THEN c[i] ELSE d[i - Len(c)]
    BY <1>2, <1>7, ConcatProperties
  <2>2. Len(d) \in Nat
    BY <1>7, LenProperties
  <2>3. QED BY <2>1, <2>2
<1>9. Len(c \o d) = Len(e)
  BY <1>1, <1>3, <1>4, <1>5 DEF Least
<1>10. Len(d) > 0 => Len(c) = Len(a)
  BY <1>1, <1>3, <1>5, <1>8 DEF Least
<1>11. Len(e) <= Len(ab)
  BY <1>1, <1>4 DEF Least
<1>12. \A i \in 1 .. Len(e) : (c \o d)[i] = e[i]
  <2> SUFFICES ASSUME NEW i \in 1 .. Len(e) PROVE (c \o d)[i] = e[i]
    OBVIOUS
  <2>1. e[i] = ab[i] /\ i \in 1 .. Len(ab)
    <3>1. Len(ab) \in Nat /\ Len(e) \in Nat
      BY <1>1, <1>4 DEF Least
    <3>2. e[i] = ab[i]
      BY <1>4
    <3>3. QED BY <1>11, <3>1, <3>2
  <2>0. /\ (c \o d)[i] = IF i <= Len(c) THEN c[i] ELSE d[i - Len(c)]
        /\ ab[i] = IF i <= Len(a) THEN a[i] ELSE b[i - Len(a)]
    <3>1. i \in 1 .. Len(c \o d)
      BY <1>9
    <3>2. QED BY <1>1, <1>8, <2>1, <3>1, Zenon
  <2>2. CASE i <= Len(c)
    <3>1. i \in 1 .. Len(c) /\ i <= Len(a)
      BY <1>1, <1>3, <2>1, <2>2
    <3>2. QED BY <1>2, <2>0, <2>1, <2>2, <3>1
  <2>3. CASE i > Len(c)
    <3>1. i - Len(c) \in 1 .. Len(d) /\ Len(c) = Len(a)
      BY <1>3, <1>8, <1>9, <1>10, <2>3
    <3>2. (c \o d)[i] = d[i - Len(c)] /\ d[i - Len(c)] = b[i - Len(c)]
      <4>1. ~(i <= Len(c))
        BY <1>3, <2>1, <2>3
      <4>2. QED BY <1>7, <2>0, <3>1, <4>1
    <3>3. ab[i] = b[i - Len(a)]
      <4>1. ~(i <= Len(a))
        BY <1>1, <2>1, <2>3, <3>1
      <4>2. QED BY <2>0, <4>1
    <3>4. QED BY <2>1, <3>1, <3>2, <3>3
  <2>4. i <= Len(c) \/ i > Len(c)
    <3>1. Len(c) \in Int /\ Len(ab) \in Int
      BY <1>1, <1>3
    <3>2. QED BY <2>1, <3>1
  <2>5. QED BY <2>2, <2>3, <2>4
<1>13. c \o d = e
  BY <1>4, <1>8, <1>9, <1>12, SeqEqual
<1>14. QED BY <1>5, <1>13 DEF c, e, ab

\* As AppendBounded, whatever the strings and however large the buffer:
\* str_lcat and snprint_lcatf keep of both strings what fits with the end, and
\* return the length of the string unless it was cut.
THEOREM AppendCuts ==
  ASSUME NEW S, NEW dst \in Seq(S), NEW src \in Seq(S), NEW maxlen \in Nat,
         Len(dst) < maxlen
  PROVE  /\ Lcat(dst, src, maxlen) = StrCopy(dst \o src, maxlen)
         /\ PrintLcat(dst, maxlen, src) = StrCopy(dst \o src, maxlen)
         /\ PrintLcatReturns(dst, maxlen, src) = Len(dst \o src)
         /\ Lcat(dst, src, maxlen) = dst \o src => LcatReturns(dst, src, maxlen) = Len(dst \o src)
<1>1. Len(dst) \in Nat /\ Len(src) \in Nat /\ Len(dst \o src) = Len(dst) + Len(src)
  BY LenProperties, ConcatProperties
<1>2. StrCopy(dst, maxlen) = dst
  <2>1. Least(Len(dst), maxlen - 1) = Len(dst)
    BY <1>1 DEF Least
  <2>2. QED BY <2>1 DEF StrCopy
<1>3. maxlen \in Nat \ {0}
  BY <1>1
<1>4. /\ Lcat(dst, src, maxlen) = StrCopy(dst \o src, maxlen)
      /\ PrintLcat(dst, maxlen, src) = StrCopy(dst \o src, maxlen)
  BY <1>2, <1>3, AppendCopies
<1>5. Lcat(dst, src, maxlen) = dst \o src => LcatReturns(dst, src, maxlen) = Len(dst \o src)
  <2> SUFFICES ASSUME Lcat(dst, src, maxlen) = dst \o src
               PROVE  LcatReturns(dst, src, maxlen) = Len(dst \o src)
    OBVIOUS
  <2>1. CASE maxlen <= Len(dst) + 1
    BY <1>1, <2>1 DEF LcatReturns
  <2>2. CASE ~(maxlen <= Len(dst) + 1)
    <3>1. maxlen - Len(dst) \in Nat \ {0}
      BY <1>1
    <3>2. /\ StrCopy(src, maxlen - Len(dst)) \in Seq(S)
          /\ Len(StrCopy(src, maxlen - Len(dst))) = Least(Len(src), maxlen - Len(dst) - 1)
      BY <3>1, StrCopyFits
    <3>3. Len(Lcat(dst, src, maxlen)) = Least(Len(dst) + Len(src), maxlen - 1)
      BY AppendFits
    <3>4. LcatReturns(dst, src, maxlen) = Len(dst) + Least(Len(src), maxlen - Len(dst) - 1)
      BY <2>2, <3>2 DEF LcatReturns
    <3>5. QED BY <1>1, <3>3, <3>4 DEF Least
  <2>3. QED BY <2>1, <2>2
<1>6. QED BY <1>1, <1>4, <1>5 DEF PrintLcatReturns

-------------------------------------------------------------------------------
(* The inputs of the run. *)

\* Each action gives the input of its kind, once.
LEMMA InputsGiven ==
  /\ GiveSps => input'.kind = "sps"
  /\ GiveHeader => input'.kind = "rtp"
  /\ GivePlain => input'.kind = "plain"
  /\ GiveAuth => input'.kind = "auth"
  /\ GiveLength => input'.kind = "md5"
  /\ GiveUrl => input'.kind = "url"
  /\ GiveRequest => input'.kind = "request"
  /\ GiveStrings => input'.kind = "append"
<1>1. ASSUME GiveSps PROVE input'.kind = "sps"
  <2>1. PICK p \in Profiles, q \in Pictures, v \in Vuis, fill \in {0, 1, 255} :
             input' = [kind |-> "sps", chosen |-> p @@ q @@ v, fill |-> fill]
    BY <1>1 DEF GiveSps, Given
  <2>2. QED BY <2>1
<1>2. ASSUME GiveHeader PROVE input'.kind = "rtp"
  <2>1. PICK cc \in {0, 1, 15}, m \in 0 .. 1, fill \in {0, 1, 200, 65535} :
             input' = [kind |-> "rtp", chosen |-> "cc" :> cc @@ "m" :> m, fill |-> fill]
    BY <1>2 DEF GiveHeader, Given
  <2>2. QED BY <2>1
<1>3. ASSUME GivePlain PROVE input'.kind = "plain"
  <2>1. \E b : input' = [kind |-> "plain", bytes |-> b]
    BY <1>3, Zenon DEF GivePlain, Given
  <2>2. QED BY <2>1
<1>4. ASSUME GiveAuth PROVE input'.kind = "auth"
  <2>1. \E t : input' = [kind |-> "auth", text |-> t]
    BY <1>4, Zenon DEF GiveAuth, Given
  <2>2. QED BY <2>1
<1>5. ASSUME GiveLength PROVE input'.kind = "md5"
  <2>1. \E n : input' = [kind |-> "md5", length |-> n]
    BY <1>5, Zenon DEF GiveLength, Given
  <2>2. QED BY <2>1
<1>6. ASSUME GiveUrl PROVE input'.kind = "url"
  <2>1. \E t, e, u : input' = [kind |-> "url", text |-> t, escaped |-> e, upper |-> u]
    BY <1>6, Zenon DEF GiveUrl, Given
  <2>2. QED BY <2>1
<1>7. ASSUME GiveRequest PROVE input'.kind = "request"
  <2>1. \E l, h, f, a, b, p : input' = [kind |-> "request", line |-> l, headers |-> h, fields |-> f, auth |-> a,
                                before |-> b, parts |-> p]
    BY <1>7, ZenonT(60) DEF GiveRequest, Given
  <2>2. QED BY <2>1
<1>8. ASSUME GiveStrings PROVE input'.kind = "append"
  <2>1. \E d, s, m : input' = [kind |-> "append", dst |-> d, src |-> s, maxlen |-> m]
    BY <1>8, Zenon DEF GiveStrings, Given
  <2>2. QED BY <2>1
<1>9. QED BY <1>1, <1>2, <1>3, <1>4, <1>5, <1>6, <1>7, <1>8

\* So the kind says which action it was.
LEMMA KindsGiven ==
  ASSUME [Next]_input
  PROVE  \/ UNCHANGED input
         \/ GiveSps /\ input'.kind = "sps"
         \/ GiveHeader /\ input'.kind = "rtp"
         \/ GivePlain /\ input'.kind = "plain"
         \/ GiveAuth /\ input'.kind = "auth"
         \/ GiveLength /\ input'.kind = "md5"
         \/ GiveUrl /\ input'.kind = "url"
         \/ GiveRequest /\ input'.kind = "request"
         \/ GiveStrings /\ input'.kind = "append"
<1>1. CASE Next
  BY <1>1, InputsGiven, Zenon DEF Next
<1>2. CASE UNCHANGED input
  BY <1>2
<1>3. QED BY <1>1, <1>2

\* What is appended to what in the run is cut as AppendCuts says.
THEOREM AppendsBounded == Spec => []AppendBounded
<1>1. Init => AppendBounded
  BY DEF Init, AppendBounded
<1>2. AppendBounded /\ [Next]_input => AppendBounded'
  <2> SUFFICES ASSUME AppendBounded, [Next]_input, input'.kind = "append"
               PROVE  AppendBounded'
    BY DEF AppendBounded
  <2>1. CASE UNCHANGED input
    BY <2>1 DEF AppendBounded
  <2>2. CASE GiveStrings
    <3> PICK d \in 0 .. 4, s \in 0 .. 4, maxlen \in 1 .. 9 :
             /\ d < maxlen
             /\ input' = [kind |-> "append", dst |-> [i \in 1 .. d |-> "d"],
                          src |-> [i \in 1 .. s |-> i], maxlen |-> maxlen]
      BY <2>2 DEF GiveStrings, Given
    <3> DEFINE dst == [i \in 1 .. d |-> "d"]
               src == [i \in 1 .. s |-> i]
               S == {"d"} \cup Nat
    <3>1. dst \in Seq(S) /\ Len(dst) = d /\ src \in Seq(S) /\ Len(src) = s
      OBVIOUS
    <3>2. input'.dst = dst /\ input'.src = src /\ input'.maxlen = maxlen
      OBVIOUS
    <3> HIDE DEF dst, src, S
    <3>3. maxlen \in Nat /\ Len(dst) < maxlen
      BY <3>1
    <3>4. /\ Lcat(dst, src, maxlen) = StrCopy(dst \o src, maxlen)
          /\ PrintLcat(dst, maxlen, src) = StrCopy(dst \o src, maxlen)
          /\ PrintLcatReturns(dst, maxlen, src) = Len(dst \o src)
          /\ Lcat(dst, src, maxlen) = dst \o src => LcatReturns(dst, src, maxlen) = Len(dst \o src)
      BY <3>1, <3>3, AppendCuts
    <3>5. StrCopy(dst \o src, maxlen) = SubSeq(dst \o src, 1, Least(Len(dst \o src), maxlen - 1))
      BY DEF StrCopy
    <3>6. Lcat(dst, src, maxlen) = dst \o src =>
            {LcatReturns(dst, src, maxlen), PrintLcatReturns(dst, maxlen, src)} = {Len(dst \o src)}
      BY <3>4
    <3> DEFINE wanted == dst \o src
    <3>7. /\ Lcat(dst, src, maxlen) = SubSeq(wanted, 1, Least(Len(wanted), maxlen - 1))
          /\ PrintLcat(dst, maxlen, src) = Lcat(dst, src, maxlen)
          /\ Lcat(dst, src, maxlen) = wanted =>
               {LcatReturns(dst, src, maxlen), PrintLcatReturns(dst, maxlen, src)} = {Len(wanted)}
      BY <3>4, <3>5, <3>6
    <3> HIDE DEF wanted
    <3>8. QED BY <3>2, <3>7 DEF AppendBounded, wanted
  <2>3. UNCHANGED input \/ GiveStrings
    BY KindsGiven
  <2>4. QED BY <2>1, <2>2, <2>3
<1>3. QED BY <1>1, <1>2, PTL DEF Spec

-------------------------------------------------------------------------------
(* A request is put together by appending. *)

\* A text printed behind a string gives a string.
LEMMA PrintType ==
  ASSUME NEW S, NEW buf \in Seq(S), NEW n \in Nat, NEW t \in Seq(S)
  PROVE  PrintLcat(buf, n, t) \in Seq(S)
<1>1. CASE n > Len(buf)
  <2>1. n - Len(buf) \in Nat \ {0} /\ Len(buf) \in Nat
    BY <1>1, LenProperties
  <2>2. StrCopy(t, n - Len(buf)) \in Seq(S)
    BY <2>1, StrCopyFits
  <2>3. QED BY <1>1, <2>1, <2>2, ConcatProperties DEF PrintLcat
<1>2. CASE ~(n > Len(buf))
  BY <1>2 DEF PrintLcat
<1>3. QED BY <1>1, <1>2

\* What the recursion of FoldLeft says of snprint_lcatf.
PrintsAll(f, buf, size, texts) ==
    f = [s \in SUBSET DOMAIN texts |->
           IF s = {} THEN buf ELSE PrintLcat(f[s \ {Max(s)}], size, texts[Max(s)])]

\* What has been printed in the end.
Printed(buf, size, texts) == (CHOOSE f : PrintsAll(f, buf, size, texts))[DOMAIN texts]

\* The texts are printed behind the buffer one by one.
LEMMA PrintsPath ==
  ASSUME NEW S, NEW buf \in Seq(S), NEW size \in Nat, NEW texts \in Seq(Seq(S))
  PROVE  \E p \in [0 .. Len(texts) -> Seq(S)] :
            /\ p[0] = buf /\ p[Len(texts)] = Printed(buf, size, texts)
            /\ \A k \in 1 .. Len(texts) : p[k] = PrintLcat(p[k - 1], size, texts[k])
<1> DEFINE A == Seq(S)
           n == Len(texts)
           step == [i \in 1 .. n |-> [x \in A |-> PrintLcat(x, size, texts[i])]]
<1>1. n \in Nat /\ DOMAIN texts = 1 .. n /\ \A i \in 1 .. n : texts[i] \in Seq(S)
  BY LenProperties, ElementOfSeq
<1>2. step \in [1 .. n -> [A -> A]]
  BY <1>1, PrintType
<1>3. \A i \in 1 .. n : \A x \in A : step[i][x] = PrintLcat(x, size, texts[i])
  OBVIOUS
<1>0. buf \in A
  OBVIOUS
<1> HIDE DEF step, A
<1>4. \E f : PrintsAll(f, buf, size, texts)
  <2>1. PICK f \in [SUBSET (1 .. n) -> A] : FoldsTo(f, buf, step, n)
    BY <1>0, <1>1, <1>2, FoldExists
  <2>2. \A s \in SUBSET (1 .. n) :
           f[s] = IF s = {} THEN buf ELSE PrintLcat(f[s \ {Max(s)}], size, texts[Max(s)])
    <3> SUFFICES ASSUME NEW s \in SUBSET (1 .. n), s # {}
                 PROVE  f[s] = PrintLcat(f[s \ {Max(s)}], size, texts[Max(s)])
      BY <2>1 DEF FoldsTo
    <3>1. f[s] = step[Max(s)][f[s \ {Max(s)}]]
      BY <2>1 DEF FoldsTo
    <3>2. Max(s) \in 1 .. n /\ f[s \ {Max(s)}] \in A
      BY <1>1, <2>1, GreatestOne
    <3>3. QED BY <1>3, <3>1, <3>2
  <2>3. QED BY <1>1, <2>1, <2>2 DEF PrintsAll
<1> DEFINE g == CHOOSE f : PrintsAll(f, buf, size, texts)
<1>5. PrintsAll(g, buf, size, texts)
  BY <1>4, Zenon
<1>6. Printed(buf, size, texts) = g[DOMAIN texts]
  BY DEF Printed
<1> HIDE DEF g
<1>7. /\ g[{}] = buf
      /\ \A s \in SUBSET (1 .. n) :
           s # {} => g[s] = PrintLcat(g[s \ {Max(s)}], size, texts[Max(s)])
  <2> DEFINE h == [s \in SUBSET DOMAIN texts |->
                     IF s = {} THEN buf ELSE PrintLcat(g[s \ {Max(s)}], size, texts[Max(s)])]
  <2>1. g = h
    BY <1>5 DEF PrintsAll
  <2>2. /\ h[{}] = buf
        /\ \A s \in SUBSET DOMAIN texts :
             s # {} => h[s] = PrintLcat(g[s \ {Max(s)}], size, texts[Max(s)])
    OBVIOUS
  <2> HIDE DEF h
  <2>3. QED BY <1>1, <2>1, <2>2
<1>8. \A s \in SUBSET (1 .. n) :
         s # {} /\ g[s \ {Max(s)}] \in A => g[s] = step[Max(s)][g[s \ {Max(s)}]]
  <2> SUFFICES ASSUME NEW s \in SUBSET (1 .. n), s # {}, g[s \ {Max(s)}] \in A
               PROVE  g[s] = step[Max(s)][g[s \ {Max(s)}]]
    OBVIOUS
  <2>1. Max(s) \in 1 .. n
    BY <1>1, GreatestOne
  <2>2. g[s] = PrintLcat(g[s \ {Max(s)}], size, texts[Max(s)])
    BY <1>7
  <2>3. QED BY <1>3, <2>1, <2>2
<1>9. FoldsIn(A, g, buf, step, n)
  BY <1>7, <1>8 DEF FoldsIn
<1>10. Unrolled(A, buf, step, n, g)
  <2> HIDE DEF n
  <2>1. n \in Nat
    BY <1>1
  <2>2. QED BY ONLY <1>0, <1>2, <1>9, <2>1, FoldUnrolled
<1>11. PICK p \in [0 .. n -> A] : Unrolls(p, buf, step, n) /\ p[n] = g[1 .. n]
  BY <1>10, Zenon DEF Unrolled
<1>12. \A k \in 1 .. n : p[k] = PrintLcat(p[k - 1], size, texts[k])
  <2> SUFFICES ASSUME NEW k \in 1 .. n PROVE p[k] = PrintLcat(p[k - 1], size, texts[k])
    OBVIOUS
  <2>1. p[k - 1] \in A
    <3>1. k - 1 \in 0 .. n
      BY <1>1
    <3>2. QED BY <1>11, <3>1
  <2>2. p[k] = step[k][p[k - 1]]
    BY <1>11 DEF Unrolls
  <2>3. QED BY <1>3, <2>1, <2>2
<1>13. p[0] = buf /\ p[n] = Printed(buf, size, texts)
  BY <1>1, <1>6, <1>11 DEF Unrolls
<1>14. QED BY <1>11, <1>12, <1>13 DEF A

\* Printed behind a string that was cut, they are what is left of all of them.
LEMMA PrintsCopy ==
  ASSUME NEW S, NEW a \in Seq(S), NEW size \in Nat \ {0}, NEW texts \in Seq(Seq(S))
  PROVE  Printed(StrCopy(a, size), size, texts) =
           StrCopy(a \o FlattenSeq(texts), size)
<1> DEFINE n == Len(texts)
           c == StrCopy(a, size)
           all == Printed(c, size, texts)
<1>1. n \in Nat /\ c \in Seq(S) /\ \A k \in 1 .. n : texts[k] \in Seq(S)
  BY LenProperties, ElementOfSeq, StrCopyFits
<1> HIDE DEF c
<1>2. PICK p \in [0 .. n -> Seq(S)] :
           /\ p[0] = c /\ p[n] = all
           /\ \A k \in 1 .. n : p[k] = PrintLcat(p[k - 1], size, texts[k])
  BY <1>1, PrintsPath, SMTT(60)
<1>3. PICK q \in [0 .. n -> Seq(S)] :
           /\ q[0] = <<>> /\ q[n] = FlattenSeq(texts)
           /\ \A k \in 1 .. n : q[k] = q[k - 1] \o texts[k]
  BY FlattenPath
<1> HIDE DEF all, n
<1> DEFINE Good(k) == p[k] = StrCopy(a \o q[k], size)
           Done == {k \in Nat : k <= n => Good(k)}
<1>4. 0 \in Done
  <2>1. a \o q[0] = a
    BY <1>3, ConcatEmptySeq
  <2>2. QED BY <1>2, <2>1 DEF c
<1>5. \A k \in Nat : k \in Done => k + 1 \in Done
  <2> SUFFICES ASSUME NEW k \in Nat, k + 1 <= n, Good(k) PROVE Good(k + 1)
    <3> HIDE DEF Good
    <3> QED BY <1>1
  <2>1. k + 1 \in 1 .. n /\ (k + 1) - 1 = k /\ k \in 0 .. n
    BY <1>1
  <2>2. p[k + 1] = PrintLcat(p[k], size, texts[k + 1]) /\ q[k + 1] = q[k] \o texts[k + 1]
    BY <1>2, <1>3, <2>1
  <2>3. q[k] \in Seq(S) /\ texts[k + 1] \in Seq(S) /\ a \o q[k] \in Seq(S)
    BY <1>1, <1>3, <2>1, ConcatProperties
  <2>4. PrintLcat(StrCopy(a \o q[k], size), size, texts[k + 1]) =
          StrCopy((a \o q[k]) \o texts[k + 1], size)
    <3> DEFINE x == a \o q[k]
    <3> HIDE DEF x
    <3>1. x \in Seq(S) /\ texts[k + 1] \in Seq(S) /\ size \in Nat \ {0}
      BY <2>3 DEF x
    <3>2. PrintLcat(StrCopy(x, size), size, texts[k + 1]) = StrCopy(x \o texts[k + 1], size)
      BY <3>1, AppendCopies
    <3>3. QED BY <3>2 DEF x
  <2>5. (a \o q[k]) \o texts[k + 1] = a \o (q[k] \o texts[k + 1])
    <3> DEFINE y == q[k]
               z == texts[k + 1]
    <3>1. y \in Seq(S) /\ z \in Seq(S)
      BY <2>3
    <3> HIDE DEF y, z
    <3>2. (a \o y) \o z = a \o (y \o z)
      BY <3>1, SMTT(60)
    <3>3. QED BY <3>2 DEF y, z
  <2>6. QED BY <2>2, <2>4, <2>5
<1>6. Nat \subseteq Done
  <2> HIDE DEF Done
  <2> QED BY <1>4, <1>5, SetInduction
<1>7. Good(n)
  <2> HIDE DEF Good
  <2> QED BY <1>1, <1>6
<1>8. QED BY <1>2, <1>3, <1>7 DEF all, c

\* A string that fits is not cut.
LEMMA CopyWhole ==
  ASSUME NEW S, NEW a \in Seq(S), NEW n \in Nat, Len(a) < n
  PROVE  StrCopy(a, n) = a
<1>1. Len(a) \in Nat
  BY LenProperties
<1>2. Least(Len(a), n - 1) = Len(a)
  BY <1>1 DEF Least
<1>3. QED BY <1>2, SubSeqFull DEF StrCopy

\* The Authorization line of http_auth_create_response is all its pieces behind
\* what the buffer held, cut where the array ends.
LEMMA ResponseIs ==
  ASSUME NEW S, NEW before \in Seq(S), NEW parts \in Seq(Seq(S)),
         Len(before) < AuthorizationSize
  PROVE  CreateResponse(before, parts) =
           StrCopy(before \o FlattenSeq(parts), AuthorizationSize)
<1>1. AuthorizationSize \in Nat \ {0}
  BY SizesAssumption
<1>2. StrCopy(before, AuthorizationSize) = before
  BY <1>1, CopyWhole
<1>3. CreateResponse(before, parts) =
        Printed(before, AuthorizationSize, parts)
  BY DEF CreateResponse, FoldLeft, MapThenFoldSet, PrintsAll, Printed
<1>4. QED BY <1>1, <1>2, <1>3, PrintsCopy

\* A request of rtsp_method_encode is the line, the headers, the fields, the
\* authorization and the blank line, cut where the array ends.
THEOREM RequestIs ==
  ASSUME NEW S, NEW line \in Seq(S), NEW headers \in Seq(S), NEW fields \in Seq(Seq(S)),
         NEW authorization \in Seq(S), "\r" \in S, "\n" \in S
  PROVE  MethodEncode(line, headers, fields, authorization) =
           StrCopy((((line \o headers) \o FlattenSeq(fields)) \o authorization) \o EndOfLine,
                   MAX_RTSP_SIZE)
<1> DEFINE N == MAX_RTSP_SIZE
<1>1. N \in Nat \ {0} /\ EndOfLine \in Seq(S) /\ FlattenSeq(fields) \in Seq(S)
  BY SizesAssumption, FlattenType DEF EndOfLine
<1> HIDE DEF N
<1>2. Lcat(StrCopy(line, N), headers, N) = StrCopy(line \o headers, N)
  BY <1>1, AppendCopies
<1>3. line \o headers \in Seq(S) /\ (line \o headers) \o FlattenSeq(fields) \in Seq(S)
  BY <1>1, ConcatProperties
<1>4. Opened(line, headers, fields) =
        Printed(StrCopy(line \o headers, N), N, fields)
  <2>1. Opened(line, headers, fields) =
          Printed(Lcat(StrCopy(line, N), headers, N), N, fields)
    BY DEF Opened, FoldLeft, MapThenFoldSet, PrintsAll, Printed, N
  <2>2. QED BY <1>2, <2>1
<1>5. Opened(line, headers, fields) = StrCopy((line \o headers) \o FlattenSeq(fields), N)
  BY <1>1, <1>3, <1>4, PrintsCopy
<1>6. ((line \o headers) \o FlattenSeq(fields)) \o authorization \in Seq(S)
  BY <1>3, ConcatProperties
<1>7. Lcat(Opened(line, headers, fields), authorization, N) =
        StrCopy(((line \o headers) \o FlattenSeq(fields)) \o authorization, N)
  BY <1>1, <1>3, <1>5, AppendCopies, ZenonT(60)
<1>8. QED BY <1>1, <1>6, <1>7, AppendCopies, ZenonT(60) DEF MethodEncode, N

\* Behind no line end another one begins.
Unbroken(t) == \A i \in 1 .. Len(t) - 1 : t[i] = "\n" => t[i + 1] # "\r"

\* What ends in a blank line has its three last characters.
LEMMA BlankEnds ==
  ASSUME NEW S, NEW t \in Seq(S), IsSuffix(EndOfLine \o EndOfLine, t)
  PROVE  Len(t) \in Nat /\ Len(t) >= 4 /\ t[Len(t) - 2] = "\n" /\ t[Len(t) - 1] = "\r"
<1> DEFINE e == EndOfLine \o EndOfLine
           r == Reverse(e)
           q == Reverse(t)
<1>1. /\ EndOfLine \in Seq({"\r", "\n"}) /\ Len(EndOfLine) = 2
      /\ EndOfLine[1] = "\r" /\ EndOfLine[2] = "\n"
  BY DEF EndOfLine
<1>2. Len(e) = 4 /\ e[2] = "\n" /\ e[3] = "\r"
  <2>1. /\ Len(e) = Len(EndOfLine) + Len(EndOfLine)
        /\ \A i \in 1 .. Len(EndOfLine) + Len(EndOfLine) :
             e[i] = IF i <= Len(EndOfLine) THEN EndOfLine[i] ELSE EndOfLine[i - Len(EndOfLine)]
    BY <1>1, ConcatProperties
  <2> HIDE DEF e
  <2>2. Len(e) = 4 /\ \A i \in 1 .. 4 : e[i] = IF i <= 2 THEN EndOfLine[i] ELSE EndOfLine[i - 2]
    BY <1>1, <2>1
  <2>3. e[2] = EndOfLine[2] /\ e[3] = EndOfLine[1]
    BY <2>2
  <2>4. QED BY <1>1, <2>2, <2>3
<1> HIDE DEF e
<1>3. Len(r) = 4 /\ r[3] = "\n" /\ r[2] = "\r"
  BY <1>2 DEF Reverse
<1>4. Len(t) \in Nat
  BY LenProperties
<1>5. Len(q) = Len(t) /\ \A i \in 1 .. Len(t) : q[i] = t[(Len(t) - i) + 1]
  BY <1>4 DEF Reverse
<1>6. Len(r) <= Len(q) /\ SubSeq(r, 1, Len(r)) = SubSeq(q, 1, Len(r))
  BY DEF IsSuffix, IsPrefix, e
<1> HIDE DEF r, q
<1>7. SubSeq(r, 1, 4) = SubSeq(q, 1, 4) /\ Len(t) >= 4
  BY <1>3, <1>5, <1>6
<1>8. SubSeq(r, 1, 4)[2] = r[2] /\ SubSeq(r, 1, 4)[3] = r[3]
  BY <1>3
<1>9. SubSeq(q, 1, 4)[2] = q[2] /\ SubSeq(q, 1, 4)[3] = q[3]
  BY <1>4, <1>5, <1>7
<1>10. q[2] = "\r" /\ q[3] = "\n"
  BY <1>3, <1>7, <1>8, <1>9
<1>11. q[2] = t[(Len(t) - 2) + 1] /\ q[3] = t[(Len(t) - 3) + 1]
  BY <1>4, <1>5, <1>7
<1>12. (Len(t) - 2) + 1 = Len(t) - 1 /\ (Len(t) - 3) + 1 = Len(t) - 2
  BY <1>4
<1>13. QED BY <1>4, <1>7, <1>10, <1>11, <1>12

\* A text with its blank line that was cut, or that does not end in a line end,
\* ends in no blank line.
LEMMA BlankLineLost ==
  ASSUME NEW S, NEW text \in Seq(S), "\r" \in S, "\n" \in S, Unbroken(text),
         NEW n \in Nat \ {0},
         Len(text) + 2 >= n \/ Len(text) = 0 \/ text[Len(text)] # "\n"
  PROVE  ~IsSuffix(EndOfLine \o EndOfLine, StrCopy(text \o EndOfLine, n))
<1> SUFFICES ASSUME IsSuffix(EndOfLine \o EndOfLine, StrCopy(text \o EndOfLine, n))
             PROVE  FALSE
  OBVIOUS
<1> DEFINE m == Len(text)
           u == text \o EndOfLine
           sent == StrCopy(u, n)
           l == Len(sent)
<1>1. m \in Nat /\ EndOfLine \in Seq(S) /\ Len(EndOfLine) = 2
  BY LenProperties DEF EndOfLine
<1>2. u \in Seq(S) /\ Len(u) = m + 2 /\ \A i \in 1 .. m : u[i] = text[i]
  <2>1. /\ u \in Seq(S) /\ Len(u) = m + Len(EndOfLine)
        /\ \A i \in 1 .. m + Len(EndOfLine) :
             u[i] = IF i <= m THEN text[i] ELSE EndOfLine[i - m]
    BY <1>1, ConcatProperties
  <2> HIDE DEF u, m
  <2>2. \A i \in 1 .. m : i \in 1 .. m + 2 /\ i <= m
    BY <1>1
  <2>3. QED BY <1>1, <2>1, <2>2
<1> HIDE DEF u, m
<1>3. /\ sent \in Seq(S) /\ l = Least(m + 2, n - 1)
      /\ \A i \in 1 .. l : sent[i] = u[i]
  BY <1>2, StrCopyFits, ZenonT(60)
<1>4. l \in Nat /\ l >= 4 /\ sent[l - 2] = "\n" /\ sent[l - 1] = "\r"
  <2>1. IsSuffix(EndOfLine \o EndOfLine, sent)
    BY DEF u
  <2> HIDE DEF sent
  <2>2. /\ Len(sent) \in Nat /\ Len(sent) >= 4
        /\ sent[Len(sent) - 2] = "\n" /\ sent[Len(sent) - 1] = "\r"
    BY <1>3, <2>1, BlankEnds
  <2>3. QED BY <2>2
<1> HIDE DEF sent, l
<1>5. sent[l - 2] = u[l - 2] /\ sent[l - 1] = u[l - 1]
  <2>1. l - 2 \in 1 .. l /\ l - 1 \in 1 .. l
    BY <1>4
  <2>2. QED BY <1>3, <2>1, Zenon
<1>6. l <= m + 2 /\ l <= n - 1
  BY <1>1, <1>3 DEF Least
<1>7. CASE l = m + 2
  <2>1. m >= 2 /\ l - 2 = m /\ m + 2 < n
    BY <1>1, <1>4, <1>6, <1>7
  <2>2. text[m] = "\n"
    BY <1>1, <1>2, <1>4, <1>5, <2>1
  <2>3. QED BY <1>1, <2>1, <2>2 DEF m
<1>8. CASE l # m + 2
  <2>1. l - 2 \in 1 .. m - 1 /\ l - 2 \in 1 .. m /\ l - 1 \in 1 .. m /\ (l - 2) + 1 = l - 1
    BY <1>1, <1>4, <1>6, <1>8
  <2>2. text[l - 2] = "\n" /\ text[l - 1] = "\r"
    BY <1>2, <1>4, <1>5, <2>1
  <2>3. QED BY <2>1, <2>2 DEF Unbroken, m
<1>9. QED BY <1>7, <1>8

\* RequestEnds, of any request.
EndsWhole(line, headers, fields, auth, before, parts) ==
    LET whole  == before \o FlattenSeq(parts)
        text   == line \o headers \o FlattenSeq(fields) \o (IF auth THEN whole ELSE <<>>)
        sent   == MethodEncode(line, headers, fields,
                               IF auth THEN CreateResponse(before, parts) ELSE <<>>)
        fits   == /\ auth => Len(whole) < AuthorizationSize
                  /\ Len(text) + 2 < MAX_RTSP_SIZE
    IN /\ Len(sent) < MAX_RTSP_SIZE
       /\ IF fits THEN sent = text \o EndOfLine
          ELSE ~IsSuffix(EndOfLine \o EndOfLine, sent)

\* As RequestEnds, for texts of any length in which no blank line stands before
\* the end and an Authorization line of which only the last character ends a
\* line: if something does not fit, the blank line never comes.
THEOREM EndsOnlyWhole ==
  ASSUME NEW S, "\r" \in S, "\n" \in S,
         NEW line \in Seq(S), NEW headers \in Seq(S), NEW fields \in Seq(Seq(S)),
         NEW before \in Seq(S), NEW parts \in Seq(Seq(S)), NEW auth \in BOOLEAN,
         NEW whole, whole = before \o FlattenSeq(parts), Len(before) < AuthorizationSize,
         \A i \in 1 .. Len(whole) - 1 : whole[i] # "\n",
         Unbroken(((line \o headers) \o FlattenSeq(fields)) \o whole)
  PROVE  EndsWhole(line, headers, fields, auth, before, parts)
<1> DEFINE N == MAX_RTSP_SIZE
           A == AuthorizationSize
           front == (line \o headers) \o FlattenSeq(fields)
           given == IF auth THEN whole ELSE <<>>
           authorization == IF auth THEN CreateResponse(before, parts) ELSE <<>>
           text == front \o given
           got == front \o authorization
           sent == MethodEncode(line, headers, fields, authorization)
<1>1. N \in Nat \ {0} /\ A \in Nat \ {0} /\ A > 1 /\ EndOfLine \in Seq(S) /\ Len(EndOfLine) = 2
  BY SizesAssumption DEF EndOfLine
<1>2. front \in Seq(S) /\ whole \in Seq(S)
  <2>1. FlattenSeq(fields) \in Seq(S) /\ FlattenSeq(parts) \in Seq(S)
    BY FlattenType
  <2>2. line \o headers \in Seq(S)
    BY ConcatProperties
  <2>3. QED BY <2>1, <2>2, ConcatProperties
<1>3. CreateResponse(before, parts) = StrCopy(whole, A)
  BY ResponseIs
<1>4. /\ StrCopy(whole, A) \in Seq(S) /\ Len(StrCopy(whole, A)) = Least(Len(whole), A - 1)
      /\ \A i \in 1 .. Least(Len(whole), A - 1) : StrCopy(whole, A)[i] = whole[i]
  BY <1>1, <1>2, StrCopyFits, ZenonT(60)
<1>5. authorization \in Seq(S) /\ given \in Seq(S)
  BY <1>2, <1>3, <1>4
<1>6. sent = StrCopy(got \o EndOfLine, N)
  <2> HIDE DEF authorization
  <2>1. QED BY <1>5, RequestIs
<1> HIDE DEF authorization, given, front, sent, N, A
<1>7. /\ got \in Seq(S) /\ Len(got) = Len(front) + Len(authorization)
      /\ text \in Seq(S) /\ Len(text) = Len(front) + Len(given)
      /\ front \o whole \in Seq(S) /\ Len(front \o whole) = Len(front) + Len(whole)
      /\ Len(front) \in Nat /\ Len(authorization) \in Nat /\ Len(given) \in Nat
      /\ Len(whole) \in Nat
  BY <1>2, <1>5, ConcatProperties, LenProperties
<1>8. /\ \A i \in 1 .. Len(got) : got[i] = IF i <= Len(front) THEN front[i]
                                           ELSE authorization[i - Len(front)]
      /\ \A i \in 1 .. Len(front \o whole) :
           (front \o whole)[i] = IF i <= Len(front) THEN front[i] ELSE whole[i - Len(front)]
  <2>1. /\ \A i \in 1 .. Len(front) + Len(authorization) :
             got[i] = IF i <= Len(front) THEN front[i] ELSE authorization[i - Len(front)]
        /\ \A i \in 1 .. Len(front) + Len(whole) :
             (front \o whole)[i] = IF i <= Len(front) THEN front[i] ELSE whole[i - Len(front)]
    BY <1>2, <1>5, ConcatProperties, ZenonT(60)
  <2>2. QED BY <1>7, <2>1, Zenon
<1>9. /\ Len(authorization) <= Len(whole)
      /\ \A i \in 1 .. Len(authorization) : authorization[i] = whole[i]
      /\ auth => Len(authorization) = Least(Len(whole), A - 1)
      /\ ~auth => authorization = <<>> /\ given = <<>>
      /\ auth => given = whole
  <2>1. CASE auth
    <3>1. authorization = StrCopy(whole, A) /\ given = whole
      BY <1>3, <2>1 DEF authorization, given
    <3>2. Len(authorization) = Least(Len(whole), A - 1) /\ Len(authorization) <= Len(whole)
      BY <1>1, <1>4, <1>7, <3>1 DEF Least
    <3>3. \A i \in 1 .. Len(authorization) : authorization[i] = whole[i]
      BY <1>4, <3>1, <3>2
    <3>4. QED BY <2>1, <3>1, <3>2, <3>3
  <2>2. CASE ~auth
    <3>1. authorization = <<>> /\ given = <<>> /\ Len(authorization) = 0
      BY <2>2 DEF authorization, given
    <3>2. QED BY <1>7, <2>2, <3>1
  <2>3. QED BY <2>1, <2>2
<1>10. Unbroken(got)
  <2> SUFFICES ASSUME NEW i \in 1 .. Len(got) - 1, got[i] = "\n", got[i + 1] = "\r"
               PROVE  FALSE
    BY DEF Unbroken
  <2> DEFINE w == front \o whole
  <2>1. \A j \in 1 .. Len(got) : got[j] = w[j]
    <3> SUFFICES ASSUME NEW j \in 1 .. Len(got) PROVE got[j] = w[j]
      OBVIOUS
    <3>1. j \in 1 .. Len(w) /\ j \in Int /\ Len(front) \in Int
      BY <1>7, <1>9
    <3>2. CASE j <= Len(front)
      BY <1>8, <3>1, <3>2
    <3>3. CASE ~(j <= Len(front))
      <4>1. j - Len(front) \in 1 .. Len(authorization)
        BY <1>7, <3>3
      <4>2. QED BY <1>8, <1>9, <3>1, <3>3, <4>1
    <3>4. QED BY <3>2, <3>3
  <2>2. i \in 1 .. Len(got) /\ i + 1 \in 1 .. Len(got) /\ i \in 1 .. Len(w) - 1
    BY <1>7, <1>9, SMTT(60)
  <2>3. w[i] = "\n" /\ w[i + 1] = "\r"
    BY <2>1, <2>2
  <2>4. Unbroken(w)
    BY DEF front
  <2> HIDE DEF w
  <2>5. QED BY <2>2, <2>3, <2>4 DEF Unbroken
<1> HIDE DEF got, text
<1>11. Len(sent) < N
  <2> DEFINE u == got \o EndOfLine
  <2>1. u \in Seq(S) /\ Len(u) \in Nat
    BY <1>1, <1>7, ConcatProperties, LenProperties
  <2> HIDE DEF u
  <2>2. Len(StrCopy(u, N)) = Least(Len(u), N - 1)
    BY <1>1, <2>1, StrCopyFits
  <2>3. QED BY <1>1, <1>6, <2>1, <2>2 DEF Least, u
<1> DEFINE fits == /\ auth => Len(whole) < A
                   /\ Len(text) + 2 < N
<1>12. auth => Len(whole) < A \/ (Len(authorization) = A - 1 /\ A - 1 \in 1 .. Len(whole) - 1)
  BY <1>1, <1>7, <1>9, SMTT(60) DEF Least
<1>13. (auth => Len(whole) < A) => got = text
  <2>1. CASE auth /\ Len(whole) < A
    <3>1. authorization = whole
      BY <1>1, <1>2, <1>3, <2>1, CopyWhole DEF authorization
    <3>2. QED BY <1>9, <2>1, <3>1 DEF got, text
  <2>2. CASE ~auth
    BY <1>9, <2>2 DEF got, text
  <2>3. QED BY <2>1, <2>2
<1>14. ASSUME fits PROVE sent = text \o EndOfLine
  <2>1. got = text /\ Len(text \o EndOfLine) < N /\ text \o EndOfLine \in Seq(S)
    <3>1. Len(text \o EndOfLine) = Len(text) + Len(EndOfLine) /\ text \o EndOfLine \in Seq(S)
      BY <1>1, <1>7, ConcatProperties, ZenonT(60)
    <3> DEFINE u == text \o EndOfLine
    <3> HIDE DEF u
    <3>2. Len(u) = Len(text) + 2 /\ u \in Seq(S)
      BY <1>1, <3>1 DEF u
    <3>3. (auth => Len(whole) < A) /\ Len(text) + 2 < N
      BY <1>14
    <3>4. got = text /\ Len(u) < N /\ u \in Seq(S)
      BY <1>13, <3>2, <3>3
    <3>5. QED BY <3>4 DEF u
  <2>2. QED BY <1>1, <1>6, <2>1, CopyWhole
<1>15. ASSUME ~fits PROVE ~IsSuffix(EndOfLine \o EndOfLine, sent)
  <2>1. CASE auth => Len(whole) < A
    <3>1. got = text /\ Len(got) + 2 >= N
      BY <1>1, <1>7, <1>13, <1>15, <2>1
    <3>2. QED BY <1>1, <1>6, <1>7, <1>10, <3>1, BlankLineLost
  <2>2. CASE ~(auth => Len(whole) < A)
    <3>1. Len(authorization) = A - 1 /\ A - 1 \in 1 .. Len(whole) - 1
      BY <1>12, <2>2
    <3>2. got[Len(got)] = authorization[A - 1]
      <4>1. Len(got) \in 1 .. Len(got) /\ ~(Len(got) <= Len(front))
            /\ Len(got) - Len(front) = A - 1
        BY <1>1, <1>7, <3>1
      <4>2. QED BY <1>8, <4>1 DEF got
    <3>3. authorization[A - 1] = whole[A - 1] /\ whole[A - 1] # "\n"
      <4>1. A - 1 \in 1 .. Len(authorization)
        BY <1>1, <3>1
      <4>2. QED BY <1>9, <3>1, <4>1
    <3>4. got[Len(got)] # "\n"
      BY <3>2, <3>3
    <3>5. QED BY <1>1, <1>6, <1>7, <1>10, <3>4, BlankLineLost
  <2>3. QED BY <2>1, <2>2
<1>16. QED
  BY <1>11, <1>14, <1>15 DEF sent, text, authorization, given, front, N, A, EndsWhole

\* A text that may stand behind a line end, and that has none before its last
\* character.
Clean(S, t) ==
    t \in Seq(S) /\ Unbroken(t) /\ (Len(t) > 0 => t[1] # "\r")

\* One line of them, with an end or without.
OneLine(S, t) == Clean(S, t) /\ \A i \in 1 .. Len(t) - 1 : t[i] # "\n"

\* Clean texts that follow one another are a clean text.
LEMMA CleanConcat ==
  ASSUME NEW S, NEW a, NEW b, Clean(S, a), Clean(S, b)
  PROVE  Clean(S, a \o b)
<1> DEFINE c == a \o b
           m == Len(a)
<1>1. /\ c \in Seq(S) /\ m \in Nat /\ Len(b) \in Nat /\ Len(c) = m + Len(b)
      /\ \A i \in 1 .. m : c[i] = a[i]
      /\ \A i \in 1 .. Len(b) : c[m + i] = b[i]
  <2>1. Concats(S, c, a, b)
    BY ConcatAt DEF Clean
  <2> HIDE DEF c
  <2>2. QED BY <2>1 DEF Concats
<1> HIDE DEF c, m
<1>2. /\ \A i \in 1 .. m - 1 : a[i] = "\n" => a[i + 1] # "\r"
      /\ \A i \in 1 .. Len(b) - 1 : b[i] = "\n" => b[i + 1] # "\r"
      /\ m > 0 => a[1] # "\r"
      /\ Len(b) > 0 => b[1] # "\r"
  BY DEF Clean, Unbroken, m
<1>3. ASSUME NEW i \in 1 .. Len(c) - 1, c[i] = "\n" PROVE c[i + 1] # "\r"
  <2>1. CASE i < m
    <3>1. i \in 1 .. m /\ i + 1 \in 1 .. m /\ i \in 1 .. m - 1
      BY <1>1, <2>1
    <3>2. c[i] = a[i] /\ c[i + 1] = a[i + 1]
      BY <1>1, <3>1
    <3>3. QED BY <1>2, <1>3, <3>1, <3>2
  <2>2. CASE i = m
    <3>1. 1 \in 1 .. Len(b) /\ Len(b) > 0
      BY <1>1, <2>2
    <3>2. c[m + 1] = b[1]
      BY <1>1, <3>1
    <3>3. QED BY <1>2, <2>2, <3>1, <3>2
  <2>3. CASE i > m
    <3> DEFINE j == i - m
    <3>1. j \in 1 .. Len(b) /\ j + 1 \in 1 .. Len(b) /\ j \in 1 .. Len(b) - 1
          /\ m + j = i /\ m + (j + 1) = i + 1
      BY <1>1, <2>3
    <3> HIDE DEF j
    <3>2. c[m + j] = b[j] /\ c[m + (j + 1)] = b[j + 1]
      BY <1>1, <3>1
    <3>3. QED BY <1>2, <1>3, <3>1, <3>2
  <2>4. QED BY <1>1, <2>1, <2>2, <2>3
<1>4. ASSUME Len(c) > 0 PROVE c[1] # "\r"
  <2>1. CASE m > 0
    <3>1. 1 \in 1 .. m
      BY <1>1, <2>1
    <3>2. QED BY <1>1, <1>2, <2>1, <3>1
  <2>2. CASE m = 0
    <3>1. 1 \in 1 .. Len(b) /\ m + 1 = 1 /\ Len(b) > 0
      BY <1>1, <1>4, <2>2
    <3>2. QED BY <1>1, <1>2, <3>1
  <2>3. QED BY <1>1, <2>1, <2>2
<1>5. QED BY <1>1, <1>3, <1>4 DEF Clean, Unbroken, c

\* A run of a character that ends no line leaves what follows it one line.
LEMMA RunThenLine ==
  ASSUME NEW S, NEW x \in S, x # "\r", x # "\n", NEW n \in Nat, NEW b, OneLine(S, b)
  PROVE  /\ [i \in 1 .. n |-> x] \in Seq(S) /\ Len([i \in 1 .. n |-> x]) = n
         /\ OneLine(S, [i \in 1 .. n |-> x] \o b)
<1> DEFINE a == [i \in 1 .. n |-> x]
           c == a \o b
<1>1. a \in Seq(S) /\ Len(a) = n /\ \A i \in 1 .. n : a[i] = x
  OBVIOUS
<1> HIDE DEF a
<1>2. Clean(S, a)
  <2>1. \A i \in 1 .. Len(a) - 1 : a[i] # "\n"
    BY <1>1
  <2>2. n > 0 => a[1] = x
    BY <1>1
  <2>3. QED BY <1>1, <2>1, <2>2 DEF Clean, Unbroken
<1>3. Clean(S, c)
  BY <1>2, CleanConcat DEF OneLine
<1>4. /\ Len(b) \in Nat /\ Len(c) = n + Len(b)
      /\ \A i \in 1 .. n : c[i] = a[i]
      /\ \A i \in 1 .. Len(b) : c[n + i] = b[i]
  <2>1. b \in Seq(S)
    BY DEF OneLine, Clean
  <2>2. Concats(S, c, a, b)
    BY <1>1, <2>1, ConcatAt
  <2> HIDE DEF c
  <2>3. QED BY <1>1, <2>2 DEF Concats
<1> HIDE DEF c
<1>5. ASSUME NEW i \in 1 .. Len(c) - 1 PROVE c[i] # "\n"
  <2>1. CASE i <= n
    BY <1>1, <1>4, <2>1
  <2>2. CASE i > n
    <3> DEFINE j == i - n
    <3>1. j \in 1 .. Len(b) /\ j \in 1 .. Len(b) - 1 /\ n + j = i
      BY <1>4, <2>2
    <3> HIDE DEF j
    <3>2. c[n + j] = b[j] /\ b[j] # "\n"
      BY <1>4, <3>1 DEF OneLine
    <3>3. QED BY <3>1, <3>2
  <2>3. QED BY <2>1, <2>2
<1>6. QED BY <1>1, <1>3, <1>5 DEF OneLine, c, a

\* The characters of the run.
Chars == {"x", "?", "\r", "\n"}

\* A line of the run is one line.
LEMMA LineIs == ASSUME NEW n \in Nat \ {0} PROVE OneLine(Chars, Line(n))
<1> DEFINE a == [i \in 1 .. n |-> "x"]
           t == a \o EndOfLine
<1>1. a \in Seq(Chars) /\ Len(a) = n /\ \A i \in 1 .. n : a[i] = "x"
  BY DEF Chars
<1>2. /\ EndOfLine \in Seq(Chars) /\ Len(EndOfLine) = 2
      /\ EndOfLine[1] = "\r" /\ EndOfLine[2] = "\n"
  BY DEF EndOfLine, Chars
<1> HIDE DEF a
<1>3. /\ t \in Seq(Chars) /\ Len(t) = n + 2
      /\ \A i \in 1 .. n : t[i] = a[i]
      /\ \A i \in 1 .. 2 : t[n + i] = EndOfLine[i]
  <2>1. Concats(Chars, t, a, EndOfLine)
    BY <1>1, <1>2, ConcatAt
  <2> HIDE DEF t
  <2>2. QED BY <1>1, <1>2, <2>1 DEF Concats
<1> HIDE DEF t
<1>4. ASSUME NEW i \in 1 .. Len(t) - 1 PROVE t[i] # "\n"
  <2>1. CASE i \in 1 .. n
    BY <1>1, <1>3, <2>1
  <2>2. CASE i = n + 1
    BY <1>2, <1>3, <2>2
  <2>3. QED BY <1>3, <2>1, <2>2
<1>5. t[1] = "x"
  BY <1>1, <1>3
<1>6. OneLine(Chars, t)
  BY <1>3, <1>4, <1>5 DEF OneLine, Clean, Unbroken
<1>7. QED BY <1>6 DEF t, a, Line

\* The requests of the run are texts of EndsOnlyWhole: a run that cuts one of
\* them loses its blank line, and one that does not keeps all of it.
THEOREM RequestEndsHolds == Spec => []RequestEnds
<1>1. Init => RequestEnds
  BY DEF Init, RequestEnds
<1>2. RequestEnds /\ [Next]_input => RequestEnds'
  <2> SUFFICES ASSUME RequestEnds, [Next]_input, input'.kind = "request"
               PROVE  RequestEnds'
    BY DEF RequestEnds
  <2>1. CASE UNCHANGED input
    BY <2>1 DEF RequestEnds
  <2>2. CASE GiveRequest
    <3>0. PICK ln \in 1 .. 4, hd \in 0 .. 6, fd \in 1 .. 2, name, rest \in 1 .. 5,
             left \in 0 .. 1, auth \in BOOLEAN :
               /\ auth \/ name + rest + left = 2
               /\ Given([kind |-> "request", line |-> Line(ln),
                         headers |-> IF hd = 0 THEN <<>> ELSE Line(hd),
                         fields |-> <<Line(fd), Line(1)>>, auth |-> auth,
                         before |-> [i \in 1 .. left |-> "?"],
                         parts |-> <<[i \in 1 .. name |-> "x"], Line(rest)>>])
      BY <2>2, Zenon DEF GiveRequest
    <3> DEFINE line == Line(ln)
               headers == IF hd = 0 THEN <<>> ELSE Line(hd)
               fields == <<Line(fd), Line(1)>>
               before == [i \in 1 .. left |-> "?"]
               xs == [i \in 1 .. name |-> "x"]
               parts == <<xs, Line(rest)>>
               whole == before \o FlattenSeq(parts)
               front == (line \o headers) \o FlattenSeq(fields)
    <3>1. /\ input'.line = line /\ input'.headers = headers /\ input'.fields = fields
          /\ input'.auth = auth /\ input'.before = before /\ input'.parts = parts
      BY <3>0 DEF Given
    <3>2. /\ OneLine(Chars, Line(ln)) /\ OneLine(Chars, Line(fd)) /\ OneLine(Chars, Line(1))
          /\ OneLine(Chars, Line(rest)) /\ (hd # 0 => OneLine(Chars, Line(hd)))
      BY LineIs
    <3>3. Clean(Chars, line) /\ Clean(Chars, headers)
      <4>1. Clean(Chars, <<>>)
        BY DEF Clean, Unbroken
      <4>2. QED BY <3>2, <4>1 DEF OneLine
    <3>4. FlattenSeq(fields) = Line(fd) \o Line(1) /\ fields \in Seq(Seq(Chars))
      BY <3>2, FlattenPair DEF OneLine, Clean
    <3>5. Clean(Chars, front)
      <4>1. Clean(Chars, line \o headers)
        BY <3>3, CleanConcat
      <4>2. Clean(Chars, Line(fd) \o Line(1))
        BY <3>2, CleanConcat DEF OneLine
      <4>3. QED BY <3>4, <4>1, <4>2, CleanConcat
    <3>6. xs \in Seq(Chars) /\ OneLine(Chars, xs \o Line(rest))
      <4>1. "x" \in Chars /\ "x" # "\r" /\ "x" # "\n" /\ name \in Nat
        BY DEF Chars
      <4>2. QED BY <3>2, <4>1, RunThenLine
    <3>7. FlattenSeq(parts) = xs \o Line(rest) /\ parts \in Seq(Seq(Chars))
      <4> HIDE DEF xs
      <4>1. QED BY <3>2, <3>6, FlattenPair DEF OneLine, Clean
    <3>8. /\ before \in Seq(Chars) /\ Len(before) = left
          /\ OneLine(Chars, before \o (xs \o Line(rest)))
      <4> HIDE DEF xs
      <4>1. "?" \in Chars /\ "?" # "\r" /\ "?" # "\n" /\ left \in Nat
        BY DEF Chars
      <4>2. QED BY <3>6, <4>1, RunThenLine
    <3>9. OneLine(Chars, whole) /\ Len(before) < AuthorizationSize
      <4>1. OneLine(Chars, whole)
        BY <3>7, <3>8
      <4>2. Len(before) < AuthorizationSize
        BY <3>8, SizesAssumption
      <4>3. QED BY <4>1, <4>2
    <3>10. Unbroken(front \o whole)
      BY <3>5, <3>9, CleanConcat DEF OneLine, Clean
    <3>11. "\r" \in Chars /\ "\n" \in Chars /\ line \in Seq(Chars) /\ headers \in Seq(Chars)
           /\ \A i \in 1 .. Len(whole) - 1 : whole[i] # "\n"
      BY <3>3, <3>9 DEF Chars, OneLine, Clean
    <3> HIDE DEF line, headers, fields, before, xs, parts, whole, front
    <3>12. EndsWhole(line, headers, fields, auth, before, parts)
      <4>1. /\ whole = before \o FlattenSeq(parts)
            /\ Unbroken(((line \o headers) \o FlattenSeq(fields)) \o whole)
        BY <3>10 DEF whole, front
      <4>2. QED BY <3>4, <3>7, <3>8, <3>9, <3>11, <4>1, EndsOnlyWhole
    <3>13. EndsWhole(input'.line, input'.headers, input'.fields, input'.auth, input'.before,
                     input'.parts)
      BY <3>1, <3>12
    <3>14. QED BY <3>13, Zenon DEF RequestEnds, EndsWhole
  <2>3. QED BY <2>1, <2>2, KindsGiven
<1>3. QED BY <1>1, <1>2, PTL DEF Spec

-------------------------------------------------------------------------------
\* What is collected on a walk of one to three places at a time, from a place on.
Walk(f, L, w, pre) ==
    f = [i \in 1 .. L + 3 |-> IF i > L THEN <<>> ELSE pre[i] \o f[i + w[i]]]

\* There is such a function: it is found from the end.
LEMMA WalkExists ==
  ASSUME NEW L \in Nat, NEW w \in [1 .. L -> 1 .. 3], NEW pre
  PROVE  \E f : Walk(f, L, w, pre)
<1> DEFINE N == L + 3
           Good(g, i) == g[i] = IF i > L THEN <<>> ELSE pre[i] \o g[i + w[i]]
           Found(d) == \E g : \A i \in 1 .. N : N - d < i => Good(g, i)
           Done == {d \in Nat : d <= N => Found(d)}
<1>1. N \in Nat /\ \A i \in 1 .. L : w[i] \in 1 .. 3
  OBVIOUS
<1>2. 0 \in Done
  <2>1. \A i \in 1 .. N : ~(N - 0 < i)
    BY <1>1
  <2>2. QED BY <2>1
<1>3. \A d \in Nat : d \in Done => d + 1 \in Done
  <2> SUFFICES ASSUME NEW d \in Nat, d + 1 <= N, Found(d) PROVE Found(d + 1)
    <3> HIDE DEF Found
    <3> QED BY <1>1
  <2>1. PICK g : \A i \in 1 .. N : N - d < i => Good(g, i)
    OBVIOUS
  <2> DEFINE m == N - d
             v == IF m > L THEN <<>> ELSE pre[m] \o g[m + w[m]]
             h == [i \in 1 .. N |-> IF i = m THEN v ELSE g[i]]
  <2>2. m \in 1 .. N
    BY <1>1
  <2>3. h[m] = v /\ \A i \in 1 .. N : i # m => h[i] = g[i]
    BY <2>2
  <2>5. \A i \in 1 .. N : i <= L => i + w[i] \in 1 .. N /\ i < i + w[i]
    BY <1>1
  <2> HIDE DEF h, v
  <2>4. ASSUME NEW i \in 1 .. N, N - (d + 1) < i PROVE Good(h, i)
    <3>1. i \in Int /\ m \in Int /\ i >= m
      BY <1>1, <2>2, <2>4
    <3>2. CASE i > L
      <4>1. CASE i = m
        BY <2>3, <3>2, <4>1 DEF v
      <4>2. CASE i # m
        <5>1. N - d < i
          BY <3>1, <4>2
        <5>2. QED BY <2>1, <2>3, <3>2, <4>2, <5>1
      <4>3. QED BY <4>1, <4>2
    <3>3. CASE ~(i > L)
      <4> DEFINE j == i + w[i]
      <4>1. j \in 1 .. N /\ i < j
        BY <1>1, <2>5, <3>1, <3>3
      <4>2. j # m
        BY <3>1, <4>1
      <4> HIDE DEF j
      <4>3. h[j] = g[j]
        BY <2>3, <4>1, <4>2
      <4>4. CASE i = m
        BY <2>3, <3>3, <4>3, <4>4 DEF v, j
      <4>5. CASE i # m
        <5>1. N - d < i
          BY <3>1, <4>5
        <5>2. QED BY <2>1, <2>3, <3>3, <4>3, <4>5, <5>1 DEF j
      <4>6. QED BY <4>4, <4>5
    <3>4. QED BY <3>2, <3>3
  <2> HIDE DEF Good
  <2>6. QED BY <2>4
<1>4. Nat \subseteq Done
  <2> HIDE DEF Done
  <2> QED BY <1>2, <1>3, SetInduction
<1>5. PICK g : \A i \in 1 .. N : N - N < i => Good(g, i)
  <2>1. Found(N)
    <3> HIDE DEF Found
    <3> QED BY <1>1, <1>4
  <2>2. QED BY <2>1
<1>6. \A i \in 1 .. N : Good(g, i)
  <2> HIDE DEF Good
  <2> QED BY <1>1, <1>5
<1> DEFINE h == [i \in 1 .. N |-> g[i]]
<1>7. \A i \in 1 .. N : h[i] = g[i]
  OBVIOUS
<1>8. h = [i \in 1 .. N |-> h[i]]
  OBVIOUS
<1> HIDE DEF h
<1>9. \A i \in 1 .. N : h[i] = IF i > L THEN <<>> ELSE pre[i] \o h[i + w[i]]
  <2> SUFFICES ASSUME NEW i \in 1 .. N
               PROVE  h[i] = IF i > L THEN <<>> ELSE pre[i] \o h[i + w[i]]
    OBVIOUS
  <2>1. CASE i > L
    BY <1>6, <1>7, <2>1
  <2>2. CASE ~(i > L)
    <3> DEFINE j == i + w[i]
    <3>1. j \in 1 .. N
      BY <1>1, <2>2
    <3> HIDE DEF j
    <3>2. h[j] = g[j] /\ h[i] = g[i] /\ g[i] = pre[i] \o g[j]
      BY <1>6, <1>7, <2>2, <3>1 DEF j
    <3>3. QED BY <2>2, <3>2 DEF j
  <2>3. QED BY <2>1, <2>2
<1>10. h = [i \in 1 .. N |-> IF i > L THEN <<>> ELSE pre[i] \o h[i + w[i]]]
  BY <1>8, <1>9
<1>11. QED BY <1>10 DEF Walk

\* What url_decode makes of a text from a character on.
UrlFrom(from, url, plusSign) ==
    from = [i \in 1 .. Len(url) + 3 |->
              IF i > Len(url) THEN <<>>
              ELSE IF url[i] = Percent /\ i + 2 <= Len(url)
                THEN (IF IsXDigit(url[i + 1]) /\ IsXDigit(url[i + 2])
                        THEN <<16 * Hex(url[i + 1]) + Hex(url[i + 2])>>
                        ELSE SubSeq(url, i, i + 2)) \o from[i + 3]
              ELSE <<IF url[i] = Plus /\ plusSign THEN Blank ELSE url[i]>> \o from[i + 1]]

\* It makes something of every text.
LEMMA UrlFromExists ==
  ASSUME NEW url, Len(url) \in Nat, NEW plusSign
  PROVE  \E f : UrlFrom(f, url, plusSign)
<1> DEFINE L == Len(url)
           three(i) == url[i] = Percent /\ i + 2 <= L
           w == [i \in 1 .. L |-> IF three(i) THEN 3 ELSE 1]
           pre == [i \in 1 .. L |->
                     IF three(i) THEN (IF IsXDigit(url[i + 1]) /\ IsXDigit(url[i + 2])
                                         THEN <<16 * Hex(url[i + 1]) + Hex(url[i + 2])>>
                                       ELSE SubSeq(url, i, i + 2))
                     ELSE <<IF url[i] = Plus /\ plusSign THEN Blank ELSE url[i]>>]
<1>1. w \in [1 .. L -> 1 .. 3]
  <2> HIDE DEF three
  <2> QED OBVIOUS
<1>2. PICK f : Walk(f, L, w, pre)
  <2> HIDE DEF w, pre
  <2> QED BY <1>1, WalkExists
<1>3. \A i \in 1 .. L : w[i] = (IF three(i) THEN 3 ELSE 1)
  <2> HIDE DEF three
  <2> QED OBVIOUS
<1>4. \A i \in 1 .. L :
        pre[i] = IF three(i) THEN (IF IsXDigit(url[i + 1]) /\ IsXDigit(url[i + 2])
                                     THEN <<16 * Hex(url[i + 1]) + Hex(url[i + 2])>>
                                   ELSE SubSeq(url, i, i + 2))
                 ELSE <<IF url[i] = Plus /\ plusSign THEN Blank ELSE url[i]>>
  OBVIOUS
<1> HIDE DEF w, pre
<1>5. f = [i \in 1 .. L + 3 |-> IF i > L THEN <<>> ELSE pre[i] \o f[i + w[i]]]
  BY <1>2 DEF Walk
<1> DEFINE body(i) == IF i > L THEN <<>>
                      ELSE IF three(i)
                        THEN (IF IsXDigit(url[i + 1]) /\ IsXDigit(url[i + 2])
                                THEN <<16 * Hex(url[i + 1]) + Hex(url[i + 2])>>
                              ELSE SubSeq(url, i, i + 2)) \o f[i + 3]
                      ELSE <<IF url[i] = Plus /\ plusSign THEN Blank ELSE url[i]>> \o f[i + 1]
<1>6. \A i \in 1 .. L + 3 : (IF i > L THEN <<>> ELSE pre[i] \o f[i + w[i]]) = body(i)
  <2> SUFFICES ASSUME NEW i \in 1 .. L + 3
               PROVE  (IF i > L THEN <<>> ELSE pre[i] \o f[i + w[i]]) = body(i)
    OBVIOUS
  <2>1. CASE i > L
    BY <2>1
  <2>2. CASE ~(i > L)
    <3>1. i \in 1 .. L
      BY <2>2
    <3>2. CASE three(i)
      <4>1. w[i] = 3
        BY <1>3, <3>1, <3>2
      <4>2. pre[i] = IF IsXDigit(url[i + 1]) /\ IsXDigit(url[i + 2])
                       THEN <<16 * Hex(url[i + 1]) + Hex(url[i + 2])>>
                     ELSE SubSeq(url, i, i + 2)
        BY <1>4, <3>1, <3>2, Zenon
      <4> HIDE DEF three
      <4>3. QED BY <2>2, <3>2, <4>1, <4>2, Zenon
    <3>3. CASE ~three(i)
      <4>1. w[i] = 1
        BY <1>3, <3>1, <3>3
      <4>2. pre[i] = <<IF url[i] = Plus /\ plusSign THEN Blank ELSE url[i]>>
        BY <1>4, <3>1, <3>3, Zenon
      <4> HIDE DEF three
      <4>3. QED BY <2>2, <3>3, <4>1, <4>2, Zenon
    <3>4. QED BY <3>2, <3>3
  <2>3. QED BY <2>1, <2>2
<1> HIDE DEF body
<1>7. f = [i \in 1 .. L + 3 |-> body(i)]
  BY <1>5, <1>6
<1>8. QED BY <1>7 DEF UrlFrom, body

\* So UrlDecode is what it makes of the text from its first character on.
LEMMA UrlDecodeFrom ==
  ASSUME NEW url, Len(url) \in Nat, NEW plusSign
  PROVE  \E f : UrlFrom(f, url, plusSign) /\ UrlDecode(url, plusSign) = f[1]
<1> DEFINE f == CHOOSE f : UrlFrom(f, url, plusSign)
<1>1. UrlFrom(f, url, plusSign)
  BY UrlFromExists, Zenon
<1>2. UrlDecode(url, plusSign) = f[1]
  BY DEF UrlDecode, UrlFrom
<1>3. QED BY <1>1, <1>2, Zenon

\* The digits of a byte are digits and count what they stand for.
LEMMA DigitsRead ==
  ASSUME NEW c \in 0 .. 255, NEW upper \in BOOLEAN
  PROVE  /\ IsXDigit(HexDigit(c \div 16, upper)) /\ IsXDigit(HexDigit(c % 16, upper))
         /\ 16 * Hex(HexDigit(c \div 16, upper)) + Hex(HexDigit(c % 16, upper)) = c
<1>1. ASSUME NEW v \in 0 .. 15
      PROVE  IsXDigit(HexDigit(v, upper)) /\ Hex(HexDigit(v, upper)) = v
  <2>1. CASE v < 10
    <3>1. HexDigit(v, upper) = 48 + v
      BY <2>1 DEF HexDigit
    <3>2. QED BY <2>1, <3>1 DEF IsXDigit, Hex, ToLower
  <2>2. CASE v >= 10 /\ upper
    <3>1. HexDigit(v, upper) = 55 + v
      BY <2>2 DEF HexDigit
    <3>2. ToLower(55 + v) = 87 + v
      BY <2>2 DEF ToLower
    <3>3. Hex(55 + v) = v
      BY <2>2, <3>2 DEF Hex
    <3>4. IsXDigit(55 + v)
      BY <2>2, <3>2 DEF IsXDigit
    <3>5. QED BY <3>1, <3>3, <3>4
  <2>3. CASE v >= 10 /\ ~upper
    <3>1. HexDigit(v, upper) = 87 + v
      BY <2>3 DEF HexDigit
    <3>2. ToLower(87 + v) = 87 + v
      BY <2>3 DEF ToLower
    <3>3. QED BY <2>3, <3>1, <3>2 DEF IsXDigit, Hex
  <2>4. QED BY <2>1, <2>2, <2>3
<1>2. c \div 16 \in 0 .. 15 /\ c % 16 \in 0 .. 15 /\ c = 16 * (c \div 16) + (c % 16)
  BY Cut
<1>3. QED BY <1>1, <1>2

\* A text of which some characters are escaped, and what url_decode is to make
\* of it.
UrlCodes(text, escaped, upper) ==
    [i \in DOMAIN text |->
        LET c == text[i]
        IN IF i \in escaped
             THEN <<Percent, HexDigit(c \div 16, upper), HexDigit(c % 16, upper)>>
           ELSE <<c>>]

UrlRead(text, escaped, plusSign) ==
    [i \in DOMAIN text |->
        IF text[i] = Plus /\ i \notin escaped /\ plusSign THEN Blank ELSE text[i]]

\* url_decode takes back every escape of a text of any length, whichever of its
\* characters were escaped, if every "%" was.
THEOREM UrlReadsBack ==
  ASSUME NEW text \in Seq(0 .. 255), NEW escaped, NEW upper \in BOOLEAN,
         \A i \in DOMAIN text : text[i] = Percent => i \in escaped,
         NEW plusSign \in BOOLEAN
  PROVE  UrlDecode(FlattenSeq(UrlCodes(text, escaped, upper)), plusSign) =
           UrlRead(text, escaped, plusSign)
<1> DEFINE n == Len(text)
           codes == UrlCodes(text, escaped, upper)
           url == FlattenSeq(codes)
           want == UrlRead(text, escaped, plusSign)
           high == [i \in 1 .. n |-> HexDigit(text[i] \div 16, upper)]
           low == [i \in 1 .. n |-> HexDigit(text[i] % 16, upper)]
<1>1. n \in Nat /\ DOMAIN text = 1 .. n /\ \A i \in 1 .. n : text[i] \in 0 .. 255
  BY LenProperties, ElementOfSeq
<1>20. \A i \in 1 .. n : text[i] \in Int
  <2> HIDE DEF n
  <2>1. \A c \in 0 .. 255 : c \in Int
    OBVIOUS
  <2>2. QED BY <1>1, <2>1
<1>2. \A i \in 1 .. n : codes[i] = IF i \in escaped THEN <<Percent, high[i], low[i]>>
                                   ELSE <<text[i]>>
  BY <1>1 DEF UrlCodes
<1>3. \A i \in 1 .. n : /\ high[i] \in Int /\ low[i] \in Int
                        /\ IsXDigit(high[i]) /\ IsXDigit(low[i])
                        /\ 16 * Hex(high[i]) + Hex(low[i]) = text[i]
  <2> TAKE i \in 1 .. n
  <2>1. text[i] \in 0 .. 255
    BY <1>1
  <2> DEFINE c == text[i]
  <2>2. high[i] = HexDigit(c \div 16, upper) /\ low[i] = HexDigit(c % 16, upper)
    OBVIOUS
  <2> HIDE DEF c, high, low
  <2>3. c \in 0 .. 255
    BY <2>1 DEF c
  <2>4. /\ IsXDigit(HexDigit(c \div 16, upper)) /\ IsXDigit(HexDigit(c % 16, upper))
        /\ 16 * Hex(HexDigit(c \div 16, upper)) + Hex(HexDigit(c % 16, upper)) = c
    BY <2>3, DigitsRead
  <2>5. c \div 16 \in 0 .. 15 /\ c % 16 \in 0 .. 15
    BY <2>3, Cut
  <2>6. \A v \in 0 .. 15 : HexDigit(v, upper) \in Int
    BY DEF HexDigit
  <2>7. high[i] \in Int /\ low[i] \in Int
    BY <2>2, <2>5, <2>6
  <2>8. QED BY <2>2, <2>4, <2>7 DEF c
<1>4. /\ want \in Seq(Int) /\ Len(want) = n
      /\ \A i \in 1 .. n : want[i] = IF text[i] = Plus /\ i \notin escaped /\ plusSign THEN Blank
                                     ELSE text[i]
  <2> DEFINE v(i) == IF text[i] = Plus /\ i \notin escaped /\ plusSign THEN Blank ELSE text[i]
  <2>1. want = [i \in 1 .. n |-> v(i)]
    BY <1>1 DEF UrlRead
  <2>2. Blank \in Int
    BY DEF Blank
  <2> HIDE DEF n, want
  <2>3. \A i \in 1 .. n : v(i) \in Int
    BY <1>20, <2>2
  <2>4. want \in Seq(Int) /\ Len(want) = n /\ \A i \in 1 .. n : want[i] = v(i)
    <3> HIDE DEF v
    <3>1. QED BY <1>1, <2>1, <2>3
  <2>5. QED BY <2>4
<1> HIDE DEF want, high, low
<1>5. codes \in Seq(Seq(Int)) /\ Len(codes) = n
  <2>1. DOMAIN codes = 1 .. n /\ codes = [i \in 1 .. n |-> codes[i]]
    BY <1>1 DEF UrlCodes
  <2> HIDE DEF n, codes
  <2>2. \A i \in 1 .. n : codes[i] \in Seq(Int)
    <3> SUFFICES ASSUME NEW i \in 1 .. n PROVE codes[i] \in Seq(Int)
      OBVIOUS
    <3>1. Percent \in Int /\ high[i] \in Int /\ low[i] \in Int /\ text[i] \in Int
      <4>1. Percent \in Int
        BY DEF Percent
      <4>2. QED BY <1>3, <1>20, <4>1
    <3>2. CASE i \in escaped
      <4>1. codes[i] = <<Percent, high[i], low[i]>>
        BY <1>2, <3>2
      <4>2. QED BY <3>1, <4>1
    <3>3. CASE i \notin escaped
      <4>1. codes[i] = <<text[i]>>
        BY <1>2, <3>3
      <4>2. QED BY <3>1, <4>1
    <3>4. QED BY <3>2, <3>3
  <2>3. QED BY <1>1, <2>1, <2>2
<1> HIDE DEF codes
<1>6. url \in Seq(Int) /\ \E o \in [0 .. n -> Nat] : StartsOf(o, url, codes)
  BY <1>5, FlattenStands
<1>7. PICK o \in [0 .. n -> Nat] : StartsOf(o, url, codes)
  BY <1>6
<1>8. Len(url) \in Nat
  BY <1>6, LenProperties
<1> HIDE DEF url
<1>9. PICK from : UrlFrom(from, url, plusSign) /\ UrlDecode(url, plusSign) = from[1]
  BY <1>8, UrlDecodeFrom
<1>10. \A i \in 1 .. Len(url) + 3 :
         from[i] = IF i > Len(url) THEN <<>>
                   ELSE IF url[i] = Percent /\ i + 2 <= Len(url)
                     THEN (IF IsXDigit(url[i + 1]) /\ IsXDigit(url[i + 2])
                             THEN <<16 * Hex(url[i + 1]) + Hex(url[i + 2])>>
                           ELSE SubSeq(url, i, i + 2)) \o from[i + 3]
                   ELSE <<IF url[i] = Plus /\ plusSign THEN Blank ELSE url[i]>> \o from[i + 1]
  BY <1>9, Zenon DEF UrlFrom
<1> HIDE DEF n
<1>11. /\ o[0] = 0 /\ o[n] = Len(url)
       /\ \A k \in 1 .. n : o[k] = o[k - 1] + Len(codes[k]) /\ o[k] <= Len(url)
       /\ \A k \in 1 .. n : \A j \in 1 .. Len(codes[k]) : url[o[k - 1] + j] = codes[k][j]
  BY <1>5, <1>7 DEF StartsOf
\* One character of the text.
<1>12. ASSUME NEW k \in 1 .. n
       PROVE  from[o[k - 1] + 1] = <<want[k]>> \o from[o[k] + 1]
  <2> DEFINE i == o[k - 1] + 1
  <2>1. o[k - 1] \in Nat /\ o[k] \in Nat
    <3>1. k - 1 \in 0 .. n /\ k \in 0 .. n
      BY <1>1
    <3>2. QED BY <3>1
  <2>2. CASE k \in escaped
    <3>0. codes[k] = <<Percent, high[k], low[k]>>
      BY <1>2, <2>2, Zenon
    <3>1. codes[k] = <<Percent, high[k], low[k]>> /\ Len(codes[k]) = 3
      BY <3>0
    <3>2. o[k] = o[k - 1] + 3 /\ o[k] <= Len(url)
      BY <1>11, <3>1
    <3>3. /\ url[o[k - 1] + 1] = codes[k][1] /\ url[o[k - 1] + 2] = codes[k][2]
          /\ url[o[k - 1] + 3] = codes[k][3]
      <4>1. 1 \in 1 .. Len(codes[k]) /\ 2 \in 1 .. Len(codes[k]) /\ 3 \in 1 .. Len(codes[k])
        BY <3>1
      <4>2. QED BY <1>11, <4>1
    <3>4. /\ i \in 1 .. Len(url) + 3 /\ ~(i > Len(url)) /\ i + 2 <= Len(url)
          /\ i + 1 = o[k - 1] + 2 /\ i + 2 = o[k - 1] + 3 /\ i + 3 = o[k] + 1
      BY <1>8, <2>1, <3>2, SMTT(60)
    <3>5. url[i] = Percent /\ url[i + 1] = high[k] /\ url[i + 2] = low[k]
      BY <3>1, <3>3, <3>4
    <3> HIDE DEF i
    <3>6. from[i] = <<16 * Hex(high[k]) + Hex(low[k])>> \o from[i + 3]
      <4>1. IsXDigit(url[i + 1]) /\ IsXDigit(url[i + 2])
        BY <1>3, <3>5
      <4>2. QED BY <1>10, <3>4, <3>5, <4>1, Zenon
    <3>7. 16 * Hex(high[k]) + Hex(low[k]) = want[k]
      BY <1>3, <1>4, <2>2
    <3>8. QED BY <3>4, <3>6, <3>7 DEF i
  <2>3. CASE k \notin escaped
    <3>0. codes[k] = <<text[k]>>
      BY <1>2, <2>3, Zenon
    <3>1. codes[k] = <<text[k]>> /\ Len(codes[k]) = 1
      BY <3>0
    <3>2. o[k] = o[k - 1] + 1 /\ o[k] <= Len(url)
      BY <1>11, <3>1
    <3>3. url[o[k - 1] + 1] = codes[k][1]
      <4>1. 1 \in 1 .. Len(codes[k])
        BY <3>1
      <4>2. QED BY <1>11, <4>1
    <3>4. i \in 1 .. Len(url) + 3 /\ ~(i > Len(url)) /\ i + 1 = o[k] + 1
      BY <1>8, <2>1, <3>2
    <3>5. url[i] = text[k] /\ text[k] # Percent
      <4>1. k \in DOMAIN text
        BY <1>1
      <4>2. text[k] # Percent
        BY <2>3, <4>1
      <4>3. QED BY <3>1, <3>3, <4>2
    <3> HIDE DEF i
    <3>6. from[i] = <<IF url[i] = Plus /\ plusSign THEN Blank ELSE url[i]>> \o from[i + 1]
      BY <1>10, <3>4, <3>5, Zenon
    <3>7. (IF url[i] = Plus /\ plusSign THEN Blank ELSE url[i]) = want[k]
      BY <1>4, <2>3, <3>5
    <3>8. QED BY <3>4, <3>6, <3>7 DEF i
  <2>4. QED BY <2>2, <2>3
\* So from any character on, beginning with the last one.
<1> DEFINE Good(d) == from[o[n - d] + 1] = SubSeq(want, (n - d) + 1, n)
           Done == {d \in Nat : d <= n => Good(d)}
<1>13. 0 \in Done
  <2>1. o[n - 0] = Len(url)
    BY <1>1, <1>11
  <2>2. from[Len(url) + 1] = <<>>
    <3>1. Len(url) + 1 \in 1 .. Len(url) + 3 /\ Len(url) + 1 > Len(url)
      BY <1>8
    <3>2. QED BY <1>10, <3>1
  <2>3. SubSeq(want, (n - 0) + 1, n) = <<>>
    BY <1>1, <1>4
  <2>4. QED BY <2>1, <2>2, <2>3
<1>14. \A d \in Nat : d \in Done => d + 1 \in Done
  <2> SUFFICES ASSUME NEW d \in Nat, d + 1 <= n, Good(d) PROVE Good(d + 1)
    <3> HIDE DEF Good
    <3> QED BY <1>1
  <2> DEFINE k == n - d
  <2>1. k \in 1 .. n /\ n - (d + 1) = k - 1 /\ (k - 1) + 1 = k
    BY <1>1
  <2> HIDE DEF k
  <2>2. from[o[k - 1] + 1] = <<want[k]>> \o from[o[k] + 1]
    BY <1>12, <2>1
  <2>3. from[o[k] + 1] = SubSeq(want, k + 1, n)
    BY DEF k
  <2>4. SubSeq(want, k, n) = <<want[k]>> \o SubSeq(want, k + 1, n)
    <3>1. n \in k .. Len(want)
      BY <1>1, <1>4, <2>1
    <3>2. QED BY <1>4, <2>1, <3>1, SubSeqRecursiveFirst
  <2>5. QED BY <2>1, <2>2, <2>3, <2>4
<1>15. Nat \subseteq Done
  <2> HIDE DEF Done
  <2> QED BY <1>13, <1>14, SetInduction
<1>16. Good(n)
  <2> HIDE DEF Good
  <2> QED BY <1>1, <1>15
<1>17. from[1] = SubSeq(want, 1, n)
  <2>1. n - n = 0 /\ (n - n) + 1 = 1 /\ o[0] + 1 = 1
    BY <1>1, <1>11
  <2>2. QED BY <1>16, <2>1
<1>18. SubSeq(want, 1, n) = want
  BY <1>4, SubSeqFull
<1>19. QED BY <1>9, <1>17, <1>18 DEF url, codes, want

\* The texts of the run are some of them.
THEOREM UrlDecodesHolds == Spec => []UrlDecodes
<1>1. Init => UrlDecodes
  BY DEF Init, UrlDecodes
<1>2. UrlDecodes /\ [Next]_input => UrlDecodes'
  <2> SUFFICES ASSUME UrlDecodes, [Next]_input, input'.kind = "url"
               PROVE  UrlDecodes'
    BY DEF UrlDecodes
  <2>1. CASE UNCHANGED input
    BY <2>1 DEF UrlDecodes, UrlEncoded
  <2>2. CASE GiveUrl
    <3>1. PICK s \in Strings(UrlChars, 0 .. 3), upper \in BOOLEAN :
            \E escaped \in SUBSET DOMAIN s :
              /\ \A i \in DOMAIN s : s[i] = Percent => i \in escaped
              /\ Given([kind |-> "url", text |-> s, escaped |-> escaped, upper |-> upper])
      BY <2>2, Zenon DEF GiveUrl
    <3>2. PICK escaped :
            /\ \A i \in DOMAIN s : s[i] = Percent => i \in escaped
            /\ Given([kind |-> "url", text |-> s, escaped |-> escaped, upper |-> upper])
      BY <3>1, Zenon
    <3>3. input'.text = s /\ input'.escaped = escaped /\ input'.upper = upper
      BY <3>2 DEF Given
    <3>4. s \in Seq(0 .. 255)
      <4>1. PICK n \in 0 .. 3 : s \in [1 .. n -> UrlChars]
        BY DEF Strings
      <4>2. UrlChars \subseteq 0 .. 255
        BY DEF UrlChars, Percent, Plus, Blank
      <4>3. s \in [1 .. n -> 0 .. 255] /\ n \in Nat
        <5>1. \A i \in 1 .. n : s[i] \in UrlChars
          BY <4>1
        <5>2. \A i \in 1 .. n : s[i] \in 0 .. 255
          BY <4>2, <5>1, Zenon
        <5> DEFINE B == 0 .. 255
        <5> HIDE DEF B
        <5>3. \A i \in 1 .. n : s[i] \in B
          BY <5>2 DEF B
        <5>4. s \in [1 .. n -> B] /\ n \in Nat
          BY <4>1, <5>3
        <5>5. QED BY <5>4 DEF B
      <4>4. QED BY <4>3
    <3>5. /\ UrlDecode(FlattenSeq(UrlCodes(s, escaped, upper)), FALSE) = UrlRead(s, escaped, FALSE)
          /\ UrlDecode(FlattenSeq(UrlCodes(s, escaped, upper)), TRUE) = UrlRead(s, escaped, TRUE)
      BY <3>2, <3>4, UrlReadsBack
    <3>6. UrlRead(s, escaped, FALSE) = s
      <4>1. UrlRead(s, escaped, FALSE) = [i \in DOMAIN s |-> s[i]]
        BY DEF UrlRead
      <4>2. s = [i \in DOMAIN s |-> s[i]]
        BY <3>4
      <4>3. QED BY <4>1, <4>2
    <3>7. UrlEncoded' = FlattenSeq(UrlCodes(input'.text, input'.escaped, input'.upper))
      BY Zenon DEF UrlEncoded, UrlCodes
    <3>8. UrlRead(input'.text, input'.escaped, TRUE) =
            [i \in DOMAIN input'.text |->
               IF input'.text[i] = Plus /\ i \notin input'.escaped THEN Blank ELSE input'.text[i]]
      BY DEF UrlRead
    <3>9. /\ UrlDecode(UrlEncoded', FALSE) = input'.text
          /\ UrlDecode(UrlEncoded', TRUE) = UrlRead(input'.text, input'.escaped, TRUE)
      BY <3>3, <3>5, <3>6, <3>7
    <3>10. QED BY <3>8, <3>9, Zenon DEF UrlDecodes
  <2>3. QED BY <2>1, <2>2, KindsGiven
<1>3. QED BY <1>1, <1>2, PTL DEF Spec

-------------------------------------------------------------------------------
\* As many pieces of m as L takes, and nothing left over.
Tiles(L, m, q) ==
    /\ q \in Nat /\ m * q >= L /\ m * q < L + m
    /\ \A k \in 1 .. q : m * (k - 1) < L /\ m * (k - 1) \in Nat /\ m * k \in Nat
                         /\ m * k = m * (k - 1) + m
    /\ \A k \in 1 .. q : k < q => m * k < L

\* The number that Pieces divides into.
LEMMA Multiples ==
  ASSUME NEW L \in Nat, NEW m \in Nat \ {0}
  PROVE  Tiles(L, m, (L + m - 1) \div m)
<1> DEFINE q == (L + m - 1) \div m
<1>1. q \in Int /\ m * q <= L + m - 1 /\ L + m - 1 < m * q + m
  OBVIOUS
<1>2. m * (-1) = -m /\ m * 0 = 0
  OBVIOUS
<1>3. q \in Nat
  <2> SUFFICES ASSUME q <= -1 PROVE FALSE
    BY <1>1
  <2>1. m * q <= m * (-1)
    BY <1>1
  <2>2. QED BY <1>1, <1>2, <2>1
<1>4. ASSUME NEW k \in 1 .. q
      PROVE  m * (k - 1) < L /\ m * (k - 1) \in Nat /\ m * k \in Nat /\ m * k = m * (k - 1) + m
  <2>1. m * k <= m * q
    BY <1>3
  <2>2. m * k = m * (k - 1) + m
    OBVIOUS
  <2>3. m * (k - 1) \in Nat /\ m * k \in Nat
    BY <1>3
  <2>4. QED BY <1>1, <2>1, <2>2, <2>3
<1>5. ASSUME NEW k \in 1 .. q, k < q PROVE m * k < L
  <2>1. k + 1 \in 1 .. q /\ (k + 1) - 1 = k
    BY <1>3, <1>5
  <2>2. QED BY <1>4, <2>1
<1> HIDE DEF q
<1>6. QED BY <1>1, <1>3, <1>4, <1>5 DEF Tiles, q

\* s cut into q pieces of m, the last one shorter.
Cuts(T, P, s, m, q) ==
    /\ P \in Seq(Seq(T)) /\ Len(P) = q /\ q \in Nat
    /\ \A k \in 1 .. q :
         /\ P[k] \in Seq(T)
         /\ Len(P[k]) = (IF m * k < Len(s) THEN m ELSE Len(s) - m * (k - 1))
         /\ \A j \in 1 .. Len(P[k]) : P[k][j] = s[m * (k - 1) + j]

\* The pieces a sequence begins with.
LEMMA PiecesAre ==
  ASSUME NEW T, NEW s \in Seq(T), NEW m \in Nat \ {0}
  PROVE  Cuts(T, Pieces(s, m), s, m, (Len(s) + m - 1) \div m)
<1> DEFINE L == Len(s)
           P == Pieces(s, m)
           q == (Len(s) + m - 1) \div m
<1>1. L \in Nat
  BY LenProperties
<1>2. /\ q \in Nat
      /\ \A k \in 1 .. q : m * (k - 1) < L /\ m * (k - 1) \in Nat /\ m * k \in Nat
                           /\ m * k = m * (k - 1) + m
  <2> HIDE DEF L, q
  <2>1. q = (L + m - 1) \div m
    BY DEF L, q
  <2>2. Tiles(L, m, q)
    BY <1>1, <2>1, Multiples
  <2>3. QED BY <2>2 DEF Tiles
<1>3. P = [k \in 1 .. q |-> SubSeq(s, m * (k - 1) + 1, IF m * k < L THEN m * k ELSE L)]
  BY DEF Pieces
<1> HIDE DEF P, L, q
<1>4. \A k \in 1 .. q :
        /\ P[k] \in Seq(T)
        /\ Len(P[k]) = (IF m * k < L THEN m ELSE L - m * (k - 1))
        /\ \A j \in 1 .. Len(P[k]) : P[k][j] = s[m * (k - 1) + j]
  <2> SUFFICES ASSUME NEW k \in 1 .. q
               PROVE  /\ P[k] \in Seq(T)
                      /\ Len(P[k]) = (IF m * k < L THEN m ELSE L - m * (k - 1))
                      /\ \A j \in 1 .. Len(P[k]) : P[k][j] = s[m * (k - 1) + j]
    OBVIOUS
  <2> DEFINE a == m * (k - 1)
             e == IF m * k < L THEN m * k ELSE L
  <2>1. a \in Nat /\ a < L /\ m * k = a + m /\ m * k \in Nat
    BY <1>2
  <2>2. P[k] = SubSeq(s, a + 1, e)
    BY <1>3
  <2>3. e \in Nat /\ e <= L /\ a < e
    BY <1>1, <2>1
  <2>4. e - a = IF m * k < L THEN m ELSE L - a
    BY <1>1, <2>1
  <2> HIDE DEF a, e
  <2>5. \A i \in 1 .. L : s[i] \in T
    BY ElementOfSeq DEF L
  <2> DEFINE r == SubSeq(s, a + 1, e)
  <2>6. r \in Seq(T) /\ Len(r) = e - a /\ \A j \in 1 .. e - a : r[j] = s[a + j]
    <3>1. \A i \in a + 1 .. e : s[i] \in T
      <4>1. \A i \in a + 1 .. e : i \in 1 .. L
        BY <1>1, <2>1, <2>3
      <4>2. QED BY <2>5, <4>1
    <3>2. /\ r \in Seq(T) /\ Len(r) = (IF a + 1 <= e THEN e - (a + 1) + 1 ELSE 0)
          /\ \A j \in 1 .. e - (a + 1) + 1 : r[j] = s[a + 1 + j - 1]
      BY <2>1, <2>3, <3>1, SubSeqProperties
    <3> HIDE DEF r
    <3>3. a + 1 <= e /\ e - (a + 1) + 1 = e - a /\ \A j \in 1 .. e - a : a + 1 + j - 1 = a + j
      BY <2>1, <2>3
    <3>4. QED BY <3>2, <3>3
  <2> HIDE DEF r
  <2>7. P[k] = r
    BY <2>2 DEF r
  <2>8. QED BY <2>4, <2>6, <2>7 DEF a
<1>5. P \in Seq(Seq(T)) /\ Len(P) = q
  <2>1. \A k \in 1 .. q : P[k] \in Seq(T)
    BY <1>4
  <2>2. DOMAIN P = 1 .. q /\ P = [k \in 1 .. q |-> P[k]]
    BY <1>3
  <2>3. P \in [1 .. q -> Seq(T)]
    BY <2>1, <2>2
  <2>4. QED BY <1>2, <2>3
<1>6. QED BY <1>2, <1>4, <1>5 DEF P, L, q, Cuts

\* A group of one to three bytes is four characters, of which the last ones
\* stand for bytes that there are not, and is read back.
LEMMA GroupIs ==
  ASSUME NEW p \in Seq(0 .. 255), Len(p) \in 1 .. 3
  PROVE  /\ Group(p) \in Seq(Int) /\ Len(Group(p)) = 4
         /\ \A i \in 1 .. 4 : Group(p)[i] = Equals <=> i > Len(p) + 1
         /\ Ungroup(Group(p)) \in Seq(Int) /\ Len(Ungroup(Group(p))) = 3
         /\ \A j \in 1 .. Len(p) : Ungroup(Group(p))[j] = p[j]
<1>1. \A i \in 1 .. Len(p) : p[i] \in 0 .. 255
  BY ElementOfSeq
<1>0. Len(p) \in Nat /\ Len(p) >= 1 /\ Len(p) <= 3
  <2>1. \A n \in 1 .. 3 : n \in Nat /\ n >= 1 /\ n <= 3
    OBVIOUS
  <2>2. QED BY <2>1
<1> DEFINE text == << p[1] \div 4, (p[1] % 4) * 16 + (At(p, 2) \div 16),
                      (At(p, 2) % 16) * 4 + (At(p, 3) \div 64), At(p, 3) % 64 >>
<1>2. /\ text[1] = p[1] \div 4 /\ text[2] = (p[1] % 4) * 16 + (At(p, 2) \div 16)
      /\ text[3] = (At(p, 2) % 16) * 4 + (At(p, 3) \div 64) /\ text[4] = At(p, 3) % 64
  OBVIOUS
<1>3. Group(p) = [i \in 1 .. 4 |-> IF i <= Len(p) + 1 THEN text[i] ELSE Equals]
  BY DEF Group
<1> HIDE DEF text
<1>4. p[1] \in 0 .. 255 /\ At(p, 2) \in 0 .. 255 /\ At(p, 3) \in 0 .. 255
  <2>1. DOMAIN p = 1 .. Len(p)
    OBVIOUS
  <2>2. 1 \in 1 .. Len(p)
    BY <1>0
  <2>3. p[1] \in 0 .. 255
    BY <1>1, <2>2
  <2>4. ASSUME NEW i \in {2, 3} PROVE At(p, i) \in 0 .. 255
    <3>1. CASE i \in DOMAIN p
      <4>1. At(p, i) = p[i]
        BY <3>1 DEF At
      <4>2. QED BY <1>1, <2>1, <3>1, <4>1
    <3>2. CASE i \notin DOMAIN p
      <4>1. At(p, i) = 0
        BY <3>2 DEF At
      <4>2. QED BY <4>1
    <3>3. QED BY <3>1, <3>2
  <2>5. QED BY <2>3, <2>4
<1>5. text[1] \in 0 .. 63 /\ text[2] \in 0 .. 63 /\ text[3] \in 0 .. 63 /\ text[4] \in 0 .. 63
  <2> DEFINE b1 == p[1]
             b2 == At(p, 2)
             b3 == At(p, 3)
  <2> HIDE DEF b1, b2, b3
  <2>1. b1 \in 0 .. 255 /\ b2 \in 0 .. 255 /\ b3 \in 0 .. 255
    BY <1>4 DEF b1, b2, b3
  <2>2. /\ b1 \div 4 \in 0 .. 63 /\ b1 % 4 \in 0 .. 3 /\ b2 \div 16 \in 0 .. 15
        /\ b2 % 16 \in 0 .. 15 /\ b3 \div 64 \in 0 .. 3 /\ b3 % 64 \in 0 .. 63
    BY <2>1, Cut
  <2>3. (b1 % 4) * 16 + (b2 \div 16) \in 0 .. 63 /\ (b2 % 16) * 4 + (b3 \div 64) \in 0 .. 63
    <3>1. \A u \in 0 .. 3, v \in 0 .. 15 : u * 16 + v \in 0 .. 63
      OBVIOUS
    <3>2. \A u \in 0 .. 15, v \in 0 .. 3 : u * 4 + v \in 0 .. 63
      OBVIOUS
    <3>3. QED BY <2>2, <3>1, <3>2, Zenon
  <2>4. QED BY <1>2, <2>2, <2>3 DEF b1, b2, b3
<1> DEFINE g == Group(p)
<1>6. /\ DOMAIN g = 1 .. 4 /\ g = [i \in 1 .. 4 |-> g[i]]
      /\ \A i \in 1 .. 4 : g[i] = IF i <= Len(p) + 1 THEN text[i] ELSE Equals
  BY <1>3
<1> HIDE DEF g
<1>7. \A i \in 1 .. 4 : text[i] \in Int /\ text[i] # Equals /\ Equals \in Int
  <2> SUFFICES ASSUME NEW i \in 1 .. 4 PROVE text[i] \in Int /\ text[i] # Equals /\ Equals \in Int
    OBVIOUS
  <2>1. i = 1 \/ i = 2 \/ i = 3 \/ i = 4
    OBVIOUS
  <2>2. text[i] \in 0 .. 63
    BY <1>5, <2>1
  <2> DEFINE c == text[i]
  <2> HIDE DEF c
  <2>3. c \in 0 .. 63
    BY <2>2 DEF c
  <2>4. c \in Int /\ c # Equals /\ Equals \in Int
    BY <2>3 DEF Equals
  <2>5. QED BY <2>4 DEF c
<1>8. g \in Seq(Int) /\ Len(g) = 4
  <2>1. \A i \in 1 .. 4 : g[i] \in Int
    BY <1>6, <1>7
  <2> DEFINE n == 4
  <2>2. n \in Nat /\ n = 4
    OBVIOUS
  <2> HIDE DEF n
  <2>3. g \in [1 .. n -> Int]
    BY <1>6, <2>1, <2>2
  <2>6. n \in Nat
    BY <2>2
  <2>4. g \in Seq(Int) /\ Len(g) = n
    BY <2>3, <2>6
  <2>5. QED BY <2>2, <2>4
<1>9. \A i \in 1 .. 4 : g[i] = Equals <=> i > Len(p) + 1
  BY <1>6, <1>7
<1>10. g = <<g[1], g[2], g[3], g[4]>>
  BY <1>8
<1>11. Ungroup(g) = << Desc(g[1]) * 4 + (Desc(g[2]) \div 16),
                       (Desc(g[2]) % 16) * 16 + (Desc(g[3]) \div 4),
                       (Desc(g[3]) % 4) * 64 + Desc(g[4]) >>
  BY <1>10, UngroupIs
<1>12. Ungroup(g) \in Seq(Int) /\ Len(Ungroup(g)) = 3
  <2>1. \A i \in 1 .. 4 : Desc(g[i]) \in Int
    BY <1>6, <1>7, SMTT(60) DEF Desc
  <2> DEFINE u1 == Desc(g[1]) * 4 + (Desc(g[2]) \div 16)
             u2 == (Desc(g[2]) % 16) * 16 + (Desc(g[3]) \div 4)
             u3 == (Desc(g[3]) % 4) * 64 + Desc(g[4])
  <2>2. u1 \in Int /\ u2 \in Int /\ u3 \in Int
    <3> DEFINE d1 == Desc(g[1])
               d2 == Desc(g[2])
               d3 == Desc(g[3])
               d4 == Desc(g[4])
    <3>1. d1 \in Int /\ d2 \in Int /\ d3 \in Int /\ d4 \in Int
      BY <2>1
    <3> HIDE DEF d1, d2, d3, d4
    <3>2. d1 * 4 + (d2 \div 16) \in Int
      BY <3>1
    <3>3. (d2 % 16) * 16 + (d3 \div 4) \in Int
      BY <3>1
    <3>4. (d3 % 4) * 64 + d4 \in Int
      BY <3>1
    <3>5. QED BY <3>2, <3>3, <3>4 DEF d1, d2, d3, d4
  <2> HIDE DEF u1, u2, u3
  <2>3. <<u1, u2, u3>> \in Seq(Int) /\ Len(<<u1, u2, u3>>) = 3
    BY <2>2
  <2>4. QED BY <1>11, <2>3 DEF u1, u2, u3
<1>13. \A j \in 1 .. Len(p) : Ungroup(g)[j] = p[j]
  <2>1. CASE Len(p) = 1
    <3>1. p = <<p[1]>>
      BY <2>1
    <3>2. Ungroup(Group(<<p[1]>>))[1] = p[1]
      BY <1>4, OneGroup
    <3>3. Ungroup(g)[1] = p[1]
      BY <3>1, <3>2 DEF g
    <3>4. QED BY <2>1, <3>3
  <2>2. CASE Len(p) = 2
    <3>1. p = <<p[1], p[2]>> /\ p[2] \in 0 .. 255
      BY <1>1, <2>2
    <3>2. /\ Ungroup(Group(<<p[1], p[2]>>))[1] = p[1]
          /\ Ungroup(Group(<<p[1], p[2]>>))[2] = p[2]
      <4> DEFINE x == p[1]
                 y == p[2]
      <4>1. x \in 0 .. 255 /\ y \in 0 .. 255
        BY <1>4, <3>1, SMTT(60)
      <4> HIDE DEF x, y
      <4>2. Ungroup(Group(<<x, y>>))[1] = x /\ Ungroup(Group(<<x, y>>))[2] = y
        BY <4>1, PairGroup, ZenonT(60)
      <4>3. QED BY <4>2 DEF x, y
    <3>3. Ungroup(g)[1] = p[1] /\ Ungroup(g)[2] = p[2]
      BY <1>4, <3>1, <3>2 DEF g
    <3>4. QED BY <2>2, <3>3
  <2>3. CASE Len(p) = 3
    <3>1. p = <<p[1], p[2], p[3]>> /\ p[2] \in 0 .. 255 /\ p[3] \in 0 .. 255
      BY <1>1, <2>3
    <3>2. Ungroup(Group(<<p[1], p[2], p[3]>>)) = <<p[1], p[2], p[3]>>
      <4> DEFINE x == p[1]
                 y == p[2]
                 z == p[3]
      <4>1. x \in 0 .. 255 /\ y \in 0 .. 255 /\ z \in 0 .. 255
        BY <1>4, <3>1
      <4> HIDE DEF x, y, z
      <4>2. Ungroup(Group(<<x, y, z>>)) = <<x, y, z>>
        BY <4>1, FullGroup, ZenonT(60)
      <4>3. QED BY <4>2 DEF x, y, z
    <3>3. Ungroup(g) = p
      BY <3>1, <3>2 DEF g
    <3>4. QED BY <3>3
  <2>4. QED BY <2>1, <2>2, <2>3
<1>14. QED BY <1>8, <1>9, <1>12, <1>13 DEF g

\* The groups of a text of any length, and their characters.
Coded64(text) ==
    LET groups == Pieces(text, 3)
    IN [k \in DOMAIN groups |-> Group(groups[k])]

\* The places of the last four characters.
LEMMA LastGroup ==
  ASSUME NEW n \in Nat, NEW G \in Nat, 3 * G >= n, 3 * G < n + 3,
         NEW i \in Int, i >= G + n, i <= 4 * G
  PROVE  /\ i - 4 * (G - 1) \in 1 .. 4 /\ 4 * (G - 1) + (i - 4 * (G - 1)) = i
         /\ i - 4 * (G - 1) > (n - 3 * (G - 1)) + 1 <=> i > G + n
  OBVIOUS

\* T is the groups C behind one another, four characters each, that the n bytes
\* of the text were coded in; the last characters are not from the alphabet, as
\* many as the last group has too few bytes.
Encoded(text, n, G, C, T) ==
    /\ n \in Nat /\ n >= 1 /\ G \in Nat /\ 3 * G >= n /\ 3 * G < n + 3
    /\ C \in Seq(Seq(Int)) /\ Len(C) = G
    /\ \A k \in 1 .. G :
         /\ Len(C[k]) = 4
         /\ Ungroup(C[k]) \in Seq(Int) /\ Len(Ungroup(C[k])) = 3
         /\ \A j \in 1 .. 3 : 3 * (k - 1) + j <= n => Ungroup(C[k])[j] = text[3 * (k - 1) + j]
    /\ T \in Seq(Int) /\ Len(T) = 4 * G
    /\ \A k \in 1 .. G, j \in 1 .. 4 : T[4 * (k - 1) + j] = C[k][j]
    /\ \A i \in G + n + 1 .. 4 * G : T[i] = Equals
    /\ T[G + n] # Equals

\* That is what base64_encode writes.
LEMMA EncodeIs ==
  ASSUME NEW text \in Seq(0 .. 255), Len(text) >= 1,
         NEW n, n = Len(text), NEW G, G = (n + 2) \div 3,
         NEW T, T = FlattenSeq(Coded64(text))
  PROVE  Encoded(text, n, G, Coded64(text), T)
<1> DEFINE P == Pieces(text, 3)
           codes == Coded64(text)
<1>1. n \in Nat /\ n >= 1
  BY LenProperties
<1>2. Tiles(n, 3, G)
  <2>1. Tiles(n, 3, (n + 3 - 1) \div 3)
    BY <1>1, Multiples
  <2>2. n + 3 - 1 = n + 2
    BY <1>1
  <2>3. QED BY <2>1, <2>2
<1>3. /\ G \in Nat /\ 3 * G >= n /\ 3 * G < n + 3
      /\ \A k \in 1 .. G : k < G => 3 * k < n
  BY <1>2 DEF Tiles
<1>4. /\ P \in Seq(Seq(0 .. 255)) /\ Len(P) = G
      /\ \A k \in 1 .. G :
           /\ P[k] \in Seq(0 .. 255)
           /\ Len(P[k]) = (IF 3 * k < n THEN 3 ELSE n - 3 * (k - 1))
           /\ \A j \in 1 .. Len(P[k]) : P[k][j] = text[3 * (k - 1) + j]
  <2> DEFINE m == 3
  <2>1. m \in Nat \ {0} /\ G = (Len(text) + m - 1) \div m
    BY <1>1
  <2> HIDE DEF m
  <2>2. Cuts(0 .. 255, Pieces(text, m), text, m, G)
    BY <2>1, PiecesAre
  <2>3. Cuts(0 .. 255, P, text, 3, G)
    BY <2>2 DEF m
  <2> HIDE DEF P
  <2>4. QED BY <2>3 DEF Cuts
<1>5. /\ DOMAIN codes = 1 .. G /\ codes = [k \in 1 .. G |-> codes[k]]
      /\ \A k \in 1 .. G : codes[k] = Group(P[k])
  <2>1. DOMAIN P = 1 .. G
    BY <1>4, LenProperties
  <2>2. codes = [k \in DOMAIN P |-> Group(P[k])]
    BY DEF Coded64
  <2> HIDE DEF codes, P
  <2>3. QED BY <2>1, <2>2
<1> HIDE DEF codes, P
<1>6. \A k \in 1 .. G :
        /\ codes[k] \in Seq(Int) /\ Len(codes[k]) = 4
        /\ \A i \in 1 .. 4 : codes[k][i] = Equals <=> i > Len(P[k]) + 1
        /\ Ungroup(codes[k]) \in Seq(Int) /\ Len(Ungroup(codes[k])) = 3
        /\ \A j \in 1 .. 3 : 3 * (k - 1) + j <= n => Ungroup(codes[k])[j] = text[3 * (k - 1) + j]
  <2> SUFFICES ASSUME NEW k \in 1 .. G
               PROVE  /\ codes[k] \in Seq(Int) /\ Len(codes[k]) = 4
                      /\ \A i \in 1 .. 4 : codes[k][i] = Equals <=> i > Len(P[k]) + 1
                      /\ Ungroup(codes[k]) \in Seq(Int) /\ Len(Ungroup(codes[k])) = 3
                      /\ \A j \in 1 .. 3 : 3 * (k - 1) + j <= n =>
                           Ungroup(codes[k])[j] = text[3 * (k - 1) + j]
    OBVIOUS
  <2> DEFINE p == P[k]
  <2>1. p \in Seq(0 .. 255) /\ Len(p) = (IF 3 * k < n THEN 3 ELSE n - 3 * (k - 1))
        /\ \A j \in 1 .. Len(p) : p[j] = text[3 * (k - 1) + j]
    BY <1>4
  <2>2. codes[k] = Group(p)
    BY <1>5
  <2> HIDE DEF p
  <2>3. Len(p) \in 1 .. 3
    <3>1. k = G \/ (k < G /\ 3 * k < n)
      BY <1>3
    <3>2. QED BY <1>1, <1>3, <2>1, <3>1
  <2>4. \A j \in 1 .. 3 : 3 * (k - 1) + j <= n => j \in 1 .. Len(p)
    BY <1>1, <1>3, <2>1
  <2>5. /\ Group(p) \in Seq(Int) /\ Len(Group(p)) = 4
        /\ \A i \in 1 .. 4 : Group(p)[i] = Equals <=> i > Len(p) + 1
        /\ Ungroup(Group(p)) \in Seq(Int) /\ Len(Ungroup(Group(p))) = 3
        /\ \A j \in 1 .. Len(p) : Ungroup(Group(p))[j] = p[j]
    BY <2>1, <2>3, GroupIs
  <2>6. QED BY <2>1, <2>2, <2>4, <2>5 DEF p
<1>7. codes \in Seq(Seq(Int)) /\ Len(codes) = G
  <2>1. \A k \in 1 .. G : codes[k] \in Seq(Int)
    BY <1>6
  <2>2. codes \in [1 .. G -> Seq(Int)]
    BY <1>5, <2>1
  <2>3. G \in Nat
    BY <1>3
  <2>4. QED BY <2>2, <2>3
<1>8. /\ T \in Seq(Int) /\ Len(T) = 4 * G
      /\ \A k \in 1 .. G, j \in 1 .. 4 : T[4 * (k - 1) + j] = codes[k][j]
  <2> DEFINE m == 4
  <2>1. m \in Nat /\ \A k \in 1 .. Len(codes) : Len(codes[k]) = m
    BY <1>6, <1>7
  <2> HIDE DEF m
  <2>2. T = FlattenSeq(codes)
    BY DEF codes
  <2>3. Blocks(Int, T, codes, m)
    BY <1>7, <2>1, <2>2, FlattenBlocks
  <2>4. QED BY <1>7, <2>3 DEF m, Blocks
<1>9. G \in 1 .. G /\ Len(P[G]) = n - 3 * (G - 1)
  <2>1. G \in 1 .. G /\ ~(3 * G < n)
    BY <1>1, <1>3
  <2>2. QED BY <1>4, <2>1
<1>10. \A i \in G + n + 1 .. 4 * G : T[i] = Equals
  <2> SUFFICES ASSUME NEW i \in G + n + 1 .. 4 * G PROVE T[i] = Equals
    OBVIOUS
  <2> DEFINE j == i - 4 * (G - 1)
  <2>1. j \in 1 .. 4 /\ j > Len(P[G]) + 1 /\ 4 * (G - 1) + j = i
    <3>1. i \in Int /\ i >= G + n /\ i <= 4 * G /\ i > G + n
      BY <1>1, <1>3
    <3>2. QED BY <1>1, <1>3, <1>9, <3>1, LastGroup, ZenonT(60)
  <2> HIDE DEF j
  <2>2. T[4 * (G - 1) + j] = codes[G][j] /\ codes[G][j] = Equals
    BY <1>6, <1>8, <1>9, <2>1, ZenonT(60)
  <2>3. QED BY <2>1, <2>2
<1>11. T[G + n] # Equals
  <2> DEFINE j == (G + n) - 4 * (G - 1)
  <2>1. j \in 1 .. 4 /\ ~(j > Len(P[G]) + 1) /\ 4 * (G - 1) + j = G + n
    <3>1. G + n \in Int /\ G + n >= G + n /\ G + n <= 4 * G /\ ~(G + n > G + n)
      BY <1>1, <1>3
    <3>2. QED BY <1>1, <1>3, <1>9, <3>1, LastGroup
  <2> HIDE DEF j
  <2>2. T[4 * (G - 1) + j] = codes[G][j] /\ ~(codes[G][j] = Equals)
    BY <1>6, <1>8, <1>9, <2>1
  <2>3. QED BY <2>1, <2>2
<1>12. Encoded(text, n, G, codes, T)
  BY <1>1, <1>3, <1>6, <1>7, <1>8, <1>10, <1>11 DEF Encoded
<1>13. QED BY <1>12 DEF codes

\* The bytes that base64_decode puts together.
Bytes64(T) ==
    LET groups == Pieces(T, 4)
    IN FlattenSeq([k \in DOMAIN groups |-> Ungroup(groups[k])])

\* base64_decode counts every "=" behind the last character of the alphabet.
LEMMA PaddedIs ==
  ASSUME NEW text, NEW n, NEW G, NEW C, NEW T, Encoded(text, n, G, C, T)
  PROVE  Cardinality({i \in 2 .. Len(T) : \A j \in i .. Len(T) : T[j] = Equals}) = 3 * G - n
<1> DEFINE padded == {i \in 2 .. Len(T) : \A j \in i .. Len(T) : T[j] = Equals}
<1>1. /\ n \in Nat /\ n >= 1 /\ G \in Nat /\ 3 * G >= n /\ 3 * G < n + 3
      /\ Len(T) = 4 * G
      /\ \A i \in G + n + 1 .. 4 * G : T[i] = Equals
      /\ T[G + n] # Equals
  BY DEF Encoded
<1>2. padded = G + n + 1 .. 4 * G
  <2>1. ASSUME NEW i \in G + n + 1 .. 4 * G PROVE i \in padded
    <3>1. i \in 2 .. 4 * G /\ \A j \in i .. 4 * G : j \in G + n + 1 .. 4 * G
      BY <1>1
    <3>2. QED BY <1>1, <3>1
  <2>2. ASSUME NEW i \in padded PROVE i \in G + n + 1 .. 4 * G
    <3>1. i \in 2 .. 4 * G /\ \A j \in i .. 4 * G : T[j] = Equals
      BY <1>1
    <3>2. ~(G + n \in i .. 4 * G)
      BY <1>1, <3>1
    <3>3. i \in Int /\ i <= 4 * G /\ G + n \in Int /\ G + n <= 4 * G
      BY <1>1, <3>1
    <3>4. QED BY <1>1, <3>2, <3>3
  <2> HIDE DEF padded
  <2>3. QED BY <2>1, <2>2
<1>3. Cardinality(G + n + 1 .. 4 * G) = 3 * G - n
  <2> DEFINE a == G + n + 1
             b == 4 * G
  <2>1. a \in Int /\ b \in Int /\ a <= b + 1 /\ b - a + 1 = 3 * G - n /\ (a > b => 3 * G - n = 0)
    BY <1>1
  <2> HIDE DEF a, b
  <2>2. Cardinality(a .. b) = IF a > b THEN 0 ELSE b - a + 1
    BY <2>1, FS_Interval
  <2>3. Cardinality(a .. b) = 3 * G - n
    BY <2>1, <2>2
  <2>4. QED BY <2>3 DEF a, b
<1>4. QED BY <1>2, <1>3

\* What was encoded is put together again, with as many bytes too many as there
\* are "=".
LEMMA BytesAre ==
  ASSUME NEW text, NEW n, NEW G, NEW C, NEW T, Encoded(text, n, G, C, T)
  PROVE  /\ Bytes64(T) \in Seq(Int) /\ Len(Bytes64(T)) = 3 * G
         /\ \A i \in 1 .. n : Bytes64(T)[i] = text[i]
<1> DEFINE Q == Pieces(T, 4)
           V == [k \in DOMAIN Q |-> Ungroup(Q[k])]
           bytes == FlattenSeq(V)
<1>1. /\ n \in Nat /\ n >= 1 /\ G \in Nat /\ 3 * G >= n /\ 3 * G < n + 3
      /\ C \in Seq(Seq(Int)) /\ Len(C) = G
      /\ T \in Seq(Int) /\ Len(T) = 4 * G
  BY DEF Encoded
<1>2. \A k \in 1 .. G :
        /\ Len(C[k]) = 4
        /\ Ungroup(C[k]) \in Seq(Int) /\ Len(Ungroup(C[k])) = 3
        /\ \A j \in 1 .. 3 : 3 * (k - 1) + j <= n => Ungroup(C[k])[j] = text[3 * (k - 1) + j]
  BY DEF Encoded
<1>3. \A k \in 1 .. G, j \in 1 .. 4 : T[4 * (k - 1) + j] = C[k][j]
  BY DEF Encoded
<1>4. /\ Q \in Seq(Seq(Int)) /\ Len(Q) = G
      /\ \A k \in 1 .. G :
           /\ Q[k] \in Seq(Int)
           /\ Len(Q[k]) = (IF 4 * k < 4 * G THEN 4 ELSE 4 * G - 4 * (k - 1))
           /\ \A j \in 1 .. Len(Q[k]) : Q[k][j] = T[4 * (k - 1) + j]
  <2> DEFINE m == 4
  <2>1. m \in Nat \ {0} /\ G = (Len(T) + m - 1) \div m
    BY <1>1
  <2> HIDE DEF m
  <2>2. Cuts(Int, Pieces(T, m), T, m, G)
    BY <1>1, <2>1, PiecesAre
  <2>3. Cuts(Int, Q, T, 4, G)
    BY <2>2 DEF m
  <2> HIDE DEF Q
  <2>4. QED BY <1>1, <2>3 DEF Cuts
<1> HIDE DEF Q
<1>5. \A k \in 1 .. G : Q[k] = C[k]
  <2> TAKE k \in 1 .. G
  <2> DEFINE a == Q[k]
             b == C[k]
  <2>1. a \in Seq(Int) /\ Len(a) = 4 /\ \A j \in 1 .. 4 : a[j] = T[4 * (k - 1) + j]
    <3>1. Len(Q[k]) = IF 4 * k < 4 * G THEN 4 ELSE 4 * G - 4 * (k - 1)
      BY <1>4
    <3>2. \/ 4 * k < 4 * G
          \/ 4 * G - 4 * (k - 1) = 4
      BY <1>1
    <3>3. Len(Q[k]) = 4
      BY <3>1, <3>2
    <3>4. Q[k] \in Seq(Int) /\ \A j \in 1 .. Len(Q[k]) : Q[k][j] = T[4 * (k - 1) + j]
      BY <1>4
    <3>5. QED BY <3>3, <3>4
  <2>2. b \in Seq(Int) /\ Len(b) = 4 /\ \A j \in 1 .. 4 : b[j] = T[4 * (k - 1) + j]
    <3>1. b \in Seq(Int)
      BY <1>1, ElementOfSeq
    <3>2. QED BY <1>2, <1>3, <3>1
  <2> HIDE DEF a, b
  <2>3. \A j \in 1 .. Len(a) : a[j] = b[j]
    BY <2>1, <2>2
  <2>4. a = b
    BY <2>1, <2>2, <2>3, SeqEqual
  <2>5. QED BY <2>4 DEF a, b
<1>6. /\ V \in Seq(Seq(Int)) /\ Len(V) = G
      /\ \A k \in 1 .. G : V[k] = Ungroup(C[k])
  <2>1. DOMAIN Q = 1 .. G
    BY <1>1, <1>4, LenProperties
  <2>2. \A k \in 1 .. G : V[k] = Ungroup(C[k])
    BY <1>5, <2>1
  <2>3. \A k \in 1 .. G : V[k] \in Seq(Int)
    BY <1>2, <2>2
  <2>4. DOMAIN V = 1 .. G /\ V = [k \in 1 .. G |-> V[k]]
    BY <2>1
  <2> HIDE DEF V
  <2>5. V \in [1 .. G -> Seq(Int)] /\ G \in Nat
    BY <1>1, <2>3, <2>4
  <2>6. QED BY <2>2, <2>5
<1> HIDE DEF V
<1>7. /\ bytes \in Seq(Int) /\ Len(bytes) = 3 * G
      /\ \A k \in 1 .. G, j \in 1 .. 3 : bytes[3 * (k - 1) + j] = V[k][j]
  <2> DEFINE m == 3
  <2>1. m \in Nat /\ \A k \in 1 .. Len(V) : Len(V[k]) = m
    BY <1>2, <1>6
  <2> HIDE DEF m
  <2>2. Blocks(Int, FlattenSeq(V), V, m)
    BY <1>6, <2>1, FlattenBlocks
  <2> HIDE DEF bytes
  <2>3. Blocks(Int, bytes, V, m)
    BY <2>2 DEF bytes
  <2>4. QED BY <1>6, <2>3 DEF m, Blocks
<1>8. Bytes64(T) = bytes
  BY DEF Bytes64, bytes, V, Q
<1> HIDE DEF bytes
<1>9. \A i \in 1 .. n : bytes[i] = text[i]
  <2> TAKE i \in 1 .. n
  <2> DEFINE k == ((i - 1) \div 3) + 1
             j == ((i - 1) % 3) + 1
  <2>1. k \in Int /\ j \in 1 .. 3 /\ 3 * (k - 1) + j = i /\ k >= 1
    <3> DEFINE h == i - 1
    <3>1. h \in Int /\ h >= 0 /\ h + 1 = i
      BY <1>1
    <3> HIDE DEF h
    <3>2. /\ h \div 3 \in Int /\ (h % 3) \in 0 .. 2 /\ 3 * (h \div 3) + (h % 3) = h
          /\ h \div 3 >= 0
      BY <3>1
    <3>3. k = (h \div 3) + 1 /\ j = (h % 3) + 1
      BY DEF h
    <3>4. QED BY <3>1, <3>2, <3>3
  <2> HIDE DEF k, j
  <2>2. k \in 1 .. G
    BY <1>1, <2>1
  <2>3. bytes[3 * (k - 1) + j] = V[k][j] /\ V[k] = Ungroup(C[k])
    BY <1>6, <1>7, <2>1, <2>2
  <2>4. Ungroup(C[k])[j] = text[3 * (k - 1) + j]
    <3>1. \A l \in 1 .. 3 : 3 * (k - 1) + l <= n => Ungroup(C[k])[l] = text[3 * (k - 1) + l]
      BY <1>2, <2>2
    <3>2. 3 * (k - 1) + j <= n => Ungroup(C[k])[j] = text[3 * (k - 1) + j]
      BY <2>1, <3>1
    <3>3. i <= n
      BY <1>1
    <3>4. QED BY <2>1, <3>2, <3>3
  <2>5. QED BY <2>1, <2>3, <2>4
<1>10. QED BY <1>7, <1>8, <1>9

\* So base64_decode gives the text that base64_encode was given.
LEMMA DecodeIs ==
  ASSUME NEW text \in Seq(0 .. 255), NEW n, n = Len(text), NEW G, NEW C, NEW T,
         Encoded(text, n, G, C, T)
  PROVE  Decode(T) = [length |-> n, text |-> text]
<1> DEFINE bytes == Bytes64(T)
           padded == Cardinality({i \in 2 .. Len(T) : \A j \in i .. Len(T) : T[j] = Equals})
<1>1. n \in Nat /\ G \in Nat /\ n >= 1 /\ 3 * G >= n /\ Len(T) = 4 * G
  BY DEF Encoded
<1>2. bytes \in Seq(Int) /\ Len(bytes) = 3 * G /\ \A i \in 1 .. n : bytes[i] = text[i]
  BY BytesAre
<1>3. padded = 3 * G - n
  BY PaddedIs
<1>4. Decode(T) = IF Len(T) % 4 # 0 THEN Error
                  ELSE [length |-> Len(bytes) - padded,
                        text |-> SubSeq(bytes, 1, Len(bytes) - padded)]
  BY DEF Decode, Bytes64
<1> HIDE DEF bytes, padded
<1>5. (Len(T) % 4) = 0 /\ Len(bytes) - padded = n
  <2>1. ((4 * G) % 4) = 0
    BY <1>1
  <2>2. 3 * G - (3 * G - n) = n
    BY <1>1
  <2>3. QED BY <1>1, <1>2, <1>3, <2>1, <2>2
<1>6. SubSeq(bytes, 1, n) = text
  <2> DEFINE r == SubSeq(bytes, 1, n)
  <2>1. \A i \in 1 .. n : bytes[i] \in Int
    <3>1. \A i \in 1 .. n : i \in 1 .. Len(bytes)
      BY <1>1, <1>2
    <3>2. QED BY <1>2, <3>1, ElementOfSeq
  <2>2. /\ r \in Seq(Int) /\ Len(r) = (IF 1 <= n THEN n - 1 + 1 ELSE 0)
        /\ \A i \in 1 .. n - 1 + 1 : r[i] = bytes[1 + i - 1]
    BY <1>1, <2>1, SubSeqProperties
  <2> HIDE DEF r
  <2>3. n - 1 + 1 = n /\ \A i \in 1 .. n : 1 + i - 1 = i
    BY <1>1
  <2>4. Len(r) = Len(text) /\ \A i \in 1 .. Len(r) : r[i] = text[i]
    BY <1>1, <1>2, <2>2, <2>3
  <2>5. r = text
    BY <2>2, <2>4, SeqEqual
  <2>6. QED BY <2>5 DEF r
<1>7. QED BY <1>4, <1>5, <1>6

\* BasicReadsBack of one text.
BasicBack(text) ==
    IF Len(text) = 1 THEN MakeBasicAuth(text) = Error
    ELSE /\ Decode(MakeBasicAuth(text).text) = [length |-> Len(text), text |-> text]
         /\ HasEnd(text) <=> Len(text) \notin {2, 4}

\* The credentials of a Basic response are read back whatever they are, and end
\* before their array does unless they have two or four characters; for a single
\* one there is no room.
THEOREM BasicReadsAnyBack ==
  ASSUME NEW text \in Seq(0 .. 255), Len(text) >= 1
  PROVE  BasicBack(text)
<1> DEFINE n == Len(text)
           G == (n + 2) \div 3
           C == Coded64(text)
           T == FlattenSeq(C)
<1>1. Encoded(text, n, G, C, T)
  BY EncodeIs
<1>2. n \in Nat /\ n >= 1 /\ text # <<>>
  BY LenProperties, EmptySeq
<1>3. MakeBasicAuth(text) = IF G * 4 > 2 * n THEN Error ELSE [length |-> 4 * Len(Pieces(text, 3)), text |-> T]
  BY <1>2 DEF MakeBasicAuth, Encode, Coded64
<1>4. HasEnd(text) <=> Len(MakeBasicAuth(text).text) < 2 * n
  BY DEF HasEnd
<1>5. Decode(T) = [length |-> n, text |-> text]
  <2> HIDE DEF G, C, T
  <2>1. QED BY <1>1, DecodeIs
<1>6. G \in Nat /\ 3 * G >= n /\ 3 * G < n + 3 /\ Len(T) = 4 * G
  <2> HIDE DEF G, C, T
  <2>1. QED BY <1>1 DEF Encoded
<1>7. n = Len(text)
  OBVIOUS
<1> HIDE DEF n, G, C, T
<1>8. CASE n = 1
  <2>1. G * 4 > 2 * n
    BY <1>6, <1>8
  <2>2. QED BY <1>3, <1>7, <1>8, <2>1 DEF BasicBack
<1>9. CASE n # 1
  <2>1. ~(G * 4 > 2 * n) /\ (4 * G < 2 * n <=> n \notin {2, 4})
    BY <1>2, <1>6, <1>9
  <2>2. MakeBasicAuth(text).text = T
    BY <1>3, <2>1
  <2>3. HasEnd(text) <=> n \notin {2, 4}
    BY <1>4, <1>6, <2>1, <2>2
  <2>4. QED BY <1>5, <1>7, <1>9, <2>2, <2>3 DEF BasicBack
<1>10. QED BY <1>8, <1>9

\* The credentials of the run are some of them.
THEOREM BasicReadsBackHolds == Spec => []BasicReadsBack
<1>1. Init => BasicReadsBack
  BY DEF Init, BasicReadsBack
<1>2. BasicReadsBack /\ [Next]_input => BasicReadsBack'
  <2> SUFFICES ASSUME BasicReadsBack, [Next]_input, input'.kind = "auth"
               PROVE  BasicReadsBack'
    BY DEF BasicReadsBack
  <2>1. CASE UNCHANGED input
    BY <2>1 DEF BasicReadsBack
  <2>2. CASE GiveAuth
    <3>1. PICK s \in Strings({1, 97, 255}, 1 .. 6) : Given([kind |-> "auth", text |-> s])
      BY <2>2, Zenon DEF GiveAuth
    <3>2. input'.text = s
      BY <3>1 DEF Given
    <3>3. s \in Seq(0 .. 255) /\ Len(s) >= 1
      <4>1. PICK n \in 1 .. 6 : s \in [1 .. n -> {1, 97, 255}]
        BY DEF Strings
      <4>2. {1, 97, 255} \subseteq 0 .. 255
        OBVIOUS
      <4> DEFINE B == 0 .. 255
                 A == {1, 97, 255}
      <4>3. A \subseteq B /\ s \in [1 .. n -> A]
        BY <4>1, <4>2
      <4> HIDE DEF A, B
      <4>4. s \in [1 .. n -> B] /\ n \in Nat /\ n >= 1
        BY <4>3
      <4>5. s \in Seq(B) /\ Len(s) = n
        BY <4>4
      <4>6. QED BY <4>4, <4>5 DEF B
    <3>4. BasicBack(s)
      BY <3>3, BasicReadsAnyBack
    <3>5. BasicBack(input'.text)
      BY <3>2, <3>4
    <3>6. QED BY <3>5 DEF BasicReadsBack, BasicBack
  <2>3. QED BY <2>1, <2>2, KindsGiven
<1>3. QED BY <1>1, <1>2, PTL DEF Spec

-------------------------------------------------------------------------------
(* MD5 is given a text piece by piece, and keeps what does not fill a block. *)

\* r is what stands behind a in s, up to b.
Stretch(S, r, s, a, b) ==
    /\ r \in Seq(S) /\ Len(r) = b - a
    /\ \A j \in 1 .. b - a : r[j] = s[a + j]

\* A part of a sequence.
LEMMA SubSeqAt ==
  ASSUME NEW S, NEW s \in Seq(S), NEW a \in Nat, NEW b \in Nat, a <= b, b <= Len(s)
  PROVE  Stretch(S, SubSeq(s, a + 1, b), s, a, b)
<1> DEFINE r == SubSeq(s, a + 1, b)
           L == Len(s)
<1>1. \A i \in 1 .. L : s[i] \in S
  BY ElementOfSeq
<1>2. L \in Nat /\ b <= L
  BY LenProperties
<1> HIDE DEF L
<1>3. \A i \in a + 1 .. b : s[i] \in S
  <2>1. \A i \in a + 1 .. b : i \in 1 .. L
    BY <1>2
  <2>2. QED BY <1>1, <2>1
<1>4. /\ r \in Seq(S) /\ Len(r) = (IF a + 1 <= b THEN b - (a + 1) + 1 ELSE 0)
      /\ \A j \in 1 .. b - (a + 1) + 1 : r[j] = s[a + 1 + j - 1]
  BY <1>3, SubSeqProperties
<1> HIDE DEF r
<1>5. /\ (IF a + 1 <= b THEN b - (a + 1) + 1 ELSE 0) = b - a
      /\ b - (a + 1) + 1 = b - a /\ \A j \in 1 .. b - a : a + 1 + j - 1 = a + j
  OBVIOUS
<1>6. Stretch(S, r, s, a, b)
  BY <1>4, <1>5 DEF Stretch
<1>7. QED BY <1>6 DEF r

\* What a context of MD5 has when it was given all: its blocks so far, and in the
\* buffer what is behind them.
Taken(S, c, all) ==
    /\ c \in [count : Nat, buffer : Seq(S), blocks : Seq(Seq(S))]
    /\ all \in Seq(S) /\ c.count = Len(all)
    /\ Len(c.buffer) < 64 /\ Len(all) = 64 * Len(c.blocks) + Len(c.buffer)
    /\ \A k \in 1 .. Len(c.blocks) : Len(c.blocks[k]) = 64
    /\ \A k \in 1 .. Len(c.blocks), j \in 1 .. 64 : c.blocks[k][j] = all[64 * (k - 1) + j]
    /\ \A j \in 1 .. Len(c.buffer) : c.buffer[j] = all[64 * Len(c.blocks) + j]

\* Too little for a block stays in the buffer.
LEMMA Md5Keeps ==
  ASSUME NEW S, NEW c, NEW all, Taken(S, c, all), NEW buf \in Seq(S),
         Len(buf) < 64 - Len(c.buffer)
  PROVE  Taken(S, [c EXCEPT !.count = @ + Len(buf), !.buffer = @ \o buf], all \o buf)
<1> DEFINE d   == [c EXCEPT !.count = @ + Len(buf), !.buffer = @ \o buf]
           new == all \o buf
           b   == c.buffer
           e   == b \o buf
           B   == Len(c.blocks)
<1>1. /\ c \in [count : Nat, buffer : Seq(S), blocks : Seq(Seq(S))]
      /\ all \in Seq(S) /\ c.count = Len(all)
      /\ Len(b) < 64 /\ Len(all) = 64 * B + Len(b)
      /\ \A k \in 1 .. B : Len(c.blocks[k]) = 64
      /\ \A k \in 1 .. B, j \in 1 .. 64 : c.blocks[k][j] = all[64 * (k - 1) + j]
      /\ \A j \in 1 .. Len(b) : b[j] = all[64 * B + j]
  BY DEF Taken
<1>2. b \in Seq(S) /\ c.blocks \in Seq(Seq(S))
  BY <1>1
<1>3. B \in Nat
  BY <1>2, LenProperties
<1>4. Concats(S, new, all, buf) /\ Concats(S, e, b, buf)
  BY <1>1, <1>2, ConcatAt
<1>5. d.count = Len(all) + Len(buf) /\ d.buffer = e /\ d.blocks = c.blocks
  BY <1>1
<1>6. Len(buf) < 64 - Len(b)
  OBVIOUS
<1>7. d \in [count : Nat, buffer : Seq(S), blocks : Seq(Seq(S))]
  <2>1. Len(all) + Len(buf) \in Nat
    BY <1>1, LenProperties
  <2>2. e \in Seq(S)
    BY <1>4 DEF Concats
  <2> HIDE DEF e
  <2>3. QED BY <1>1, <2>1, <2>2 DEF e
<1> HIDE DEF d, new, e, b, B
<1>8. /\ new \in Seq(S) /\ Len(new) = Len(all) + Len(buf) /\ Len(all) \in Nat /\ Len(buf) \in Nat
      /\ \A i \in 1 .. Len(all) : new[i] = all[i]
      /\ \A i \in 1 .. Len(buf) : new[Len(all) + i] = buf[i]
  BY <1>4 DEF Concats
<1>9. /\ Len(e) = Len(b) + Len(buf) /\ Len(b) \in Nat
      /\ \A i \in 1 .. Len(b) : e[i] = b[i]
      /\ \A i \in 1 .. Len(buf) : e[Len(b) + i] = buf[i]
  BY <1>4 DEF Concats
<1>10. \A k \in 1 .. B, j \in 1 .. 64 : c.blocks[k][j] = new[64 * (k - 1) + j]
  <2> TAKE k \in 1 .. B, j \in 1 .. 64
  <2>1. 64 * (k - 1) + j \in 1 .. Len(all)
    <3>1. B \in Nat /\ Len(b) \in Nat /\ Len(all) = 64 * B + Len(b)
      BY <1>1, <1>3, <1>9
    <3>2. QED BY <3>1
  <2>2. QED BY <1>1, <1>8, <2>1, ZenonT(60)
<1>11. \A j \in 1 .. Len(e) : e[j] = new[64 * B + j]
  <2> TAKE j \in 1 .. Len(e)
  <2>1. CASE j <= Len(b)
    <3>1. j \in 1 .. Len(b) /\ 64 * B + j \in 1 .. Len(all)
      BY <1>1, <1>3, <1>9, <2>1
    <3>2. e[j] = b[j] /\ b[j] = all[64 * B + j]
      BY <1>1, <1>9, <3>1
    <3>3. new[64 * B + j] = all[64 * B + j]
      BY <1>8, <3>1
    <3>4. QED BY <3>2, <3>3
  <2>2. CASE j > Len(b)
    <3> DEFINE i == j - Len(b)
    <3>1. i \in 1 .. Len(buf) /\ Len(b) + i = j /\ Len(all) + i = 64 * B + j
      BY <1>1, <1>3, <1>8, <1>9, <2>2
    <3> HIDE DEF i
    <3>2. QED BY <1>8, <1>9, <3>1
  <2>3. j \in Int
    OBVIOUS
  <2>4. QED BY <1>9, <2>1, <2>2, <2>3
<1>12. Len(e) < 64 /\ Len(new) = 64 * B + Len(e)
  BY <1>1, <1>3, <1>6, <1>8, <1>9
<1>13. Len(c.blocks) = B
  BY SMTT(60) DEF B
<1>14. Taken(S, d, new)
  BY <1>1, <1>5, <1>7, <1>8, <1>10, <1>11, <1>12, <1>13, SMTT(60) DEF Taken
<1>15. QED BY <1>14 DEF d, new

\* The first of rest are q blocks.
Whole(S, full, rest, q) ==
    /\ full \in Seq(Seq(S)) /\ Len(full) = q /\ q \in Nat
    /\ \A k \in 1 .. q : Len(full[k]) = 64
    /\ \A k \in 1 .. q, j \in 1 .. 64 : full[k][j] = rest[64 * (k - 1) + j]

\* As many as there is room for.
LEMMA WholeBlocks ==
  ASSUME NEW S, NEW rest \in Seq(S), NEW q, q = Len(rest) \div 64
  PROVE  Whole(S, SubSeq(Pieces(rest, 64), 1, q), rest, q) /\ 64 * q <= Len(rest) /\ Len(rest) < 64 * q + 64
<1> DEFINE R == Len(rest)
           P == Pieces(rest, 64)
           n == (R + 64 - 1) \div 64
           full == SubSeq(P, 1, q)
<1>1. R \in Nat /\ q = R \div 64
  BY LenProperties
<1>2. Cuts(S, P, rest, 64, n)
  <2> DEFINE m == 64
  <2>1. m \in Nat \ {0}
    OBVIOUS
  <2> HIDE DEF m
  <2>2. Cuts(S, Pieces(rest, m), rest, m, (Len(rest) + m - 1) \div m)
    BY <2>1, PiecesAre
  <2>3. QED BY <2>2 DEF m
<1>3. R = Len(rest)
  OBVIOUS
<1> HIDE DEF R, P
<1>4. q \in Nat /\ 64 * q <= R /\ R < 64 * q + 64 /\ n \in Nat /\ q <= n
  BY <1>1
<1> HIDE DEF n
<1>5. /\ P \in Seq(Seq(S)) /\ Len(P) = n
      /\ \A k \in 1 .. n :
           /\ Len(P[k]) = (IF 64 * k < R THEN 64 ELSE R - 64 * (k - 1))
           /\ \A j \in 1 .. Len(P[k]) : P[k][j] = rest[64 * (k - 1) + j]
  BY <1>2, <1>3 DEF Cuts
<1>6. full \in Seq(Seq(S)) /\ Len(full) = q /\ \A k \in 1 .. q : full[k] = P[k]
  <2> DEFINE X == Seq(S)
             z == 0
  <2>1. P \in Seq(X) /\ z \in Nat /\ z <= q /\ q <= Len(P) /\ q \in Nat
    BY <1>4, <1>5
  <2> HIDE DEF X, z
  <2>2. Stretch(X, SubSeq(P, z + 1, q), P, z, q)
    BY <2>1, SubSeqAt
  <2>3. Stretch(X, full, P, 0, q)
    <3>1. z + 1 = 1
      BY DEF z
    <3>2. QED BY <2>2, <3>1 DEF z
  <2> HIDE DEF full
  <2>4. full \in Seq(X) /\ Len(full) = q - 0 /\ \A k \in 1 .. q - 0 : full[k] = P[0 + k]
    BY <2>3 DEF Stretch
  <2>5. q - 0 = q /\ \A k \in 1 .. q : 0 + k = k
    BY <1>4
  <2>6. QED BY <2>4, <2>5 DEF X
<1> HIDE DEF full
<1>7. ASSUME NEW k \in 1 .. q
      PROVE  Len(full[k]) = 64 /\ \A j \in 1 .. 64 : full[k][j] = rest[64 * (k - 1) + j]
  <2>1. k \in 1 .. n /\ 64 * k <= R
    BY <1>1, <1>4
  <2>2. 64 * k < R \/ R - 64 * (k - 1) = 64
    BY <1>1, <1>4, <2>1
  <2>3. Len(P[k]) = 64
    BY <1>5, <2>1, <2>2
  <2>4. full[k] = P[k] /\ \A j \in 1 .. Len(P[k]) : P[k][j] = rest[64 * (k - 1) + j]
    BY <1>5, <1>6, <2>1
  <2>5. QED BY <2>3, <2>4
<1>8. Whole(S, full, rest, q)
  BY <1>4, <1>6, <1>7 DEF Whole
<1>9. QED BY <1>3, <1>4, <1>8 DEF full, P

\* Where things stand: B blocks and l bytes behind them are N; with M more, p of
\* them end the block begun, and q blocks follow.
Places(B, l, N, M, p, q) ==
    /\ l + p = 64 /\ (M - p) - 64 * q < 64 /\ N + M = 64 * (B + 1 + q) + ((M - p) - 64 * q)
    /\ \A k \in 1 .. B, j \in 1 .. 64 : 64 * (k - 1) + j \in 1 .. N
    /\ \A j \in 1 .. l : 64 * B + j \in 1 .. N
    /\ \A j \in 1 .. 64 :
         j > l => j - l \in 1 .. p /\ j - l \in 1 .. M /\ l + (j - l) = j /\ N + (j - l) = 64 * B + j
    /\ \A h \in 1 .. q, j \in 1 .. 64 :
         /\ 64 * (h - 1) + j \in 1 .. M - p /\ p + (64 * (h - 1) + j) \in 1 .. M
         /\ N + (p + (64 * (h - 1) + j)) = 64 * ((B + 1 + h) - 1) + j
    /\ \A j \in 1 .. (M - p) - 64 * q :
         /\ 64 * q + j \in 1 .. M - p /\ p + (64 * q + j) \in 1 .. M
         /\ N + (p + (64 * q + j)) = 64 * (B + 1 + q) + j

\* So the numbers say.
LEMMA PlacesAre ==
  ASSUME NEW B \in Nat, NEW l \in Nat, l < 64, NEW N \in Nat, N = 64 * B + l,
         NEW M \in Nat, NEW p \in Nat, p = 64 - l, p <= M,
         NEW q \in Nat, 64 * q <= M - p, M - p < 64 * q + 64
  PROVE  Places(B, l, N, M, p, q)
<1>1. l + p = 64 /\ (M - p) - 64 * q < 64 /\ N + M = 64 * (B + 1 + q) + ((M - p) - 64 * q)
  OBVIOUS
<1>2. \A k \in 1 .. B, j \in 1 .. 64 : 64 * (k - 1) + j \in 1 .. N
  OBVIOUS
<1>3. \A j \in 1 .. l : 64 * B + j \in 1 .. N
  OBVIOUS
<1>4. \A j \in 1 .. 64 :
        j > l => j - l \in 1 .. p /\ j - l \in 1 .. M /\ l + (j - l) = j /\ N + (j - l) = 64 * B + j
  OBVIOUS
<1>5. \A h \in 1 .. q, j \in 1 .. 64 :
        /\ 64 * (h - 1) + j \in 1 .. M - p /\ p + (64 * (h - 1) + j) \in 1 .. M
        /\ N + (p + (64 * (h - 1) + j)) = 64 * ((B + 1 + h) - 1) + j
  OBVIOUS
<1>6. \A j \in 1 .. (M - p) - 64 * q :
        /\ 64 * q + j \in 1 .. M - p /\ p + (64 * q + j) \in 1 .. M
        /\ N + (p + (64 * q + j)) = 64 * (B + 1 + q) + j
  OBVIOUS
<1>7. QED BY <1>1, <1>2, <1>3, <1>4, <1>5, <1>6 DEF Places

\* Enough for a block ends the one begun, gives as many as it has, and leaves the
\* rest in the buffer.
LEMMA Md5Fills ==
  ASSUME NEW S, NEW c, NEW all, Taken(S, c, all), NEW buf \in Seq(S),
         NEW p \in Nat, p = 64 - Len(c.buffer), Len(buf) >= p,
         NEW head, Stretch(S, head, buf, 0, p), NEW rest, Stretch(S, rest, buf, p, Len(buf)),
         NEW q \in Nat, 64 * q <= Len(rest), Len(rest) < 64 * q + 64,
         NEW full, Whole(S, full, rest, q), NEW tail, Stretch(S, tail, rest, 64 * q, Len(rest))
  PROVE  Taken(S, [count |-> c.count + Len(buf), buffer |-> tail,
                   blocks |-> c.blocks \o <<c.buffer \o head>> \o full],
               all \o buf)
<1> DEFINE new   == all \o buf
           b     == c.buffer
           B     == Len(c.blocks)
           N     == Len(all)
           M     == Len(buf)
           first == b \o head
           one   == <<first>>
           upto  == c.blocks \o one
           bs    == upto \o full
           d     == [count |-> c.count + M, buffer |-> tail, blocks |-> bs]
<1>1. /\ c \in [count : Nat, buffer : Seq(S), blocks : Seq(Seq(S))]
      /\ all \in Seq(S) /\ c.count = N
      /\ Len(b) < 64 /\ N = 64 * B + Len(b)
      /\ \A k \in 1 .. B : Len(c.blocks[k]) = 64
      /\ \A k \in 1 .. B, j \in 1 .. 64 : c.blocks[k][j] = all[64 * (k - 1) + j]
      /\ \A j \in 1 .. Len(b) : b[j] = all[64 * B + j]
  BY DEF Taken
<1>2. b \in Seq(S) /\ c.blocks \in Seq(Seq(S))
  BY <1>1
<1>3. B \in Nat /\ Len(b) \in Nat /\ M \in Nat /\ N \in Nat
  BY <1>1, <1>2, LenProperties
<1>5. Concats(S, new, all, buf)
  BY <1>1, ConcatAt
<1>7. M = Len(buf) /\ M >= p /\ p = 64 - Len(b) /\ Len(buf) = M
  OBVIOUS
<1> HIDE DEF M, b, B, N
<1>8. /\ rest \in Seq(S) /\ Len(rest) = M - p
      /\ \A j \in 1 .. M - p : rest[j] = buf[p + j]
  <2>1. Stretch(S, rest, buf, p, M)
    BY <1>7
  <2>2. QED BY <2>1 DEF Stretch
\* The numbers that the places are counted with.
<1>4. /\ B \in Nat /\ Len(b) \in Nat /\ Len(b) < 64 /\ N \in Nat /\ N = 64 * B + Len(b)
      /\ M \in Nat /\ p \in Nat /\ p = 64 - Len(b) /\ p <= M
      /\ q \in Nat /\ 64 * q <= M - p /\ M - p < 64 * q + 64
  BY <1>1, <1>3, <1>7, <1>8
<1>6. Places(B, Len(b), N, M, p, q)
  BY <1>4, PlacesAre
<1>12. /\ head \in Seq(S) /\ Len(head) = p /\ \A j \in 1 .. p : head[j] = buf[j]
  <2>1. head \in Seq(S) /\ Len(head) = p - 0 /\ \A j \in 1 .. p - 0 : head[j] = buf[0 + j]
    BY DEF Stretch
  <2>2. p - 0 = p /\ \A j \in 1 .. p : 0 + j = j
    OBVIOUS
  <2>3. QED BY <2>1, <2>2
<1>13. Concats(S, first, b, head)
  BY <1>2, <1>12, ConcatAt
<1> HIDE DEF first
<1>14. /\ first \in Seq(S) /\ Len(first) = 64
       /\ \A i \in 1 .. Len(b) : first[i] = b[i]
       /\ \A i \in 1 .. p : first[Len(b) + i] = buf[i]
  <2>1. /\ first \in Seq(S) /\ Len(first) = Len(b) + Len(head)
        /\ \A i \in 1 .. Len(b) : first[i] = b[i]
        /\ \A i \in 1 .. Len(head) : first[Len(b) + i] = head[i]
    BY <1>13 DEF Concats
  <2>2. Len(b) + p = 64
    BY <1>6 DEF Places
  <2>3. QED BY <1>12, <2>1, <2>2
<1>15. one \in Seq(Seq(S)) /\ Len(one) = 1 /\ one[1] = first
  BY <1>14
<1> HIDE DEF one
<1>16. Concats(Seq(S), upto, c.blocks, one)
  BY <1>2, <1>15, ConcatAt
<1> HIDE DEF upto
<1>17. /\ upto \in Seq(Seq(S)) /\ Len(upto) = B + 1
       /\ \A k \in 1 .. B : upto[k] = c.blocks[k]
       /\ upto[B + 1] = first
  <2>1. /\ upto \in Seq(Seq(S)) /\ Len(upto) = B + Len(one)
        /\ \A k \in 1 .. B : upto[k] = c.blocks[k]
        /\ \A k \in 1 .. Len(one) : upto[B + k] = one[k]
    BY <1>16 DEF Concats, B
  <2>2. 1 \in 1 .. Len(one)
    BY <1>15
  <2>3. QED BY <1>15, <2>1, <2>2
<1>18. /\ full \in Seq(Seq(S)) /\ Len(full) = q
       /\ \A k \in 1 .. q : Len(full[k]) = 64
       /\ \A k \in 1 .. q, j \in 1 .. 64 : full[k][j] = rest[64 * (k - 1) + j]
  BY DEF Whole
<1>19. Concats(Seq(S), bs, upto, full)
  BY <1>17, <1>18, ConcatAt
<1> HIDE DEF bs
<1>20. /\ bs \in Seq(Seq(S)) /\ Len(bs) = B + 1 + q
       /\ \A k \in 1 .. B + 1 : bs[k] = upto[k]
       /\ \A k \in 1 .. q : bs[B + 1 + k] = full[k]
  BY <1>17, <1>18, <1>19 DEF Concats
<1>21. /\ tail \in Seq(S) /\ Len(tail) = (M - p) - 64 * q
       /\ \A j \in 1 .. (M - p) - 64 * q : tail[j] = rest[64 * q + j]
  <2> DEFINE a == 64 * q
  <2>1. Stretch(S, tail, rest, a, M - p)
    BY <1>8
  <2> HIDE DEF a
  <2>2. /\ tail \in Seq(S) /\ Len(tail) = (M - p) - a
        /\ \A j \in 1 .. (M - p) - a : tail[j] = rest[a + j]
    BY <2>1 DEF Stretch
  <2>3. QED BY <2>2 DEF a
<1>22. /\ new \in Seq(S) /\ Len(new) = N + M
       /\ \A i \in 1 .. N : new[i] = all[i]
       /\ \A i \in 1 .. M : new[N + i] = buf[i]
  <2> HIDE DEF new
  <2>1. QED BY <1>5 DEF Concats, N, M
<1> HIDE DEF new
<1>23. ASSUME NEW k \in 1 .. B + 1 + q
       PROVE  Len(bs[k]) = 64 /\ \A j \in 1 .. 64 : bs[k][j] = new[64 * (k - 1) + j]
  <2>1. CASE k <= B
    <3>1. k \in 1 .. B /\ k \in 1 .. B + 1
      BY <1>3, <2>1
    <3>2. bs[k] = c.blocks[k] /\ Len(c.blocks[k]) = 64
      BY <1>1, <1>17, <1>20, <3>1
    <3>3. ASSUME NEW j \in 1 .. 64 PROVE c.blocks[k][j] = new[64 * (k - 1) + j]
      <4>1. 64 * (k - 1) + j \in 1 .. N
        BY <1>6, <3>1 DEF Places
      <4>2. c.blocks[k][j] = all[64 * (k - 1) + j]
        BY <1>1, <3>1
      <4>3. QED BY <1>22, <4>1, <4>2
    <3>4. QED BY <3>2, <3>3
  <2>2. CASE k = B + 1
    <3>1. bs[k] = first
      <4>1. B + 1 \in 1 .. B + 1
        BY <1>3
      <4>2. QED BY <1>17, <1>20, <2>2, <4>1
    <3>2. ASSUME NEW j \in 1 .. 64 PROVE first[j] = new[64 * (k - 1) + j]
      <4>0. k - 1 = B
        BY <1>3, <2>2
      <4>1. CASE j <= Len(b)
        <5>1. j \in 1 .. Len(b)
          BY <1>3, <4>1
        <5>5. 64 * B + j \in 1 .. N
          BY <1>6, <5>1 DEF Places
        <5>2. first[j] = b[j] /\ b[j] = all[64 * B + j]
          BY <1>1, <1>14, <5>1
        <5>3. new[64 * B + j] = all[64 * B + j]
          BY <1>22, <5>5
        <5>4. QED BY <4>0, <5>2, <5>3
      <4>2. CASE j > Len(b)
        <5> DEFINE i == j - Len(b)
        <5>1. i \in 1 .. p /\ i \in 1 .. M /\ Len(b) + i = j /\ N + i = 64 * B + j
          BY <1>6, <4>2 DEF Places
        <5> HIDE DEF i
        <5>2. first[j] = buf[i] /\ new[64 * B + j] = buf[i]
          BY <1>14, <1>22, <5>1
        <5>3. QED BY <4>0, <5>2
      <4>3. QED BY <1>3, <4>1, <4>2
    <3>3. QED BY <1>14, <3>1, <3>2
  <2>3. CASE k > B + 1
    <3> DEFINE h == k - (B + 1)
    <3>1. h \in 1 .. q /\ B + 1 + h = k
      BY <1>4, <2>3
    <3> HIDE DEF h
    <3>2. bs[k] = full[h] /\ Len(full[h]) = 64
      BY <1>18, <1>20, <3>1
    <3>3. ASSUME NEW j \in 1 .. 64 PROVE full[h][j] = new[64 * (k - 1) + j]
      <4> DEFINE x == 64 * (h - 1) + j
                 i == p + x
      <4>1. x \in 1 .. M - p /\ i \in 1 .. M /\ N + i = 64 * (k - 1) + j
        <5>1. /\ 64 * (h - 1) + j \in 1 .. M - p /\ p + (64 * (h - 1) + j) \in 1 .. M
              /\ N + (p + (64 * (h - 1) + j)) = 64 * ((B + 1 + h) - 1) + j
          BY <1>6, <3>1, ZenonT(60) DEF Places
        <5>2. QED BY <3>1, <5>1
      <4>2. full[h][j] = rest[x]
        BY <1>18, <3>1, ZenonT(60)
      <4> HIDE DEF x
      <4>3. rest[x] = buf[i]
        BY <1>8, <4>1
      <4> HIDE DEF i
      <4>4. new[N + i] = buf[i]
        BY <1>22, <4>1
      <4>5. QED BY <4>1, <4>2, <4>3, <4>4
    <3>4. QED BY <3>2, <3>3
  <2>4. k \in Int
    OBVIOUS
  <2>5. QED BY <1>3, <2>1, <2>2, <2>3, <2>4
<1>24. ASSUME NEW j \in 1 .. Len(tail) PROVE tail[j] = new[64 * (B + 1 + q) + j]
  <2> DEFINE x == 64 * q + j
             i == p + x
  <2>1. x \in 1 .. M - p /\ i \in 1 .. M /\ N + i = 64 * (B + 1 + q) + j
    BY <1>6, <1>21 DEF Places
  <2>2. tail[j] = rest[x]
    BY <1>21
  <2> HIDE DEF x
  <2>3. rest[x] = buf[i]
    BY <1>8, <2>1
  <2> HIDE DEF i
  <2>4. new[N + i] = buf[i]
    BY <1>22, <2>1
  <2>5. QED BY <2>1, <2>2, <2>3, <2>4
<1>25. Len(tail) < 64 /\ Len(new) = 64 * Len(bs) + Len(tail)
  BY <1>6, <1>20, <1>21, <1>22 DEF Places
<1>26. d.count = N + M /\ d.buffer = tail /\ d.blocks = bs
  BY <1>1
<1>27. d \in [count : Nat, buffer : Seq(S), blocks : Seq(Seq(S))]
  <2>1. c.count + M \in Nat
    BY <1>1, <1>3, SMTT(60)
  <2>2. QED BY <1>20, <1>21, <2>1
<1> HIDE DEF d
<1>28. Taken(S, d, new)
  <2>1. \A k \in 1 .. Len(bs) : Len(bs[k]) = 64
    BY <1>20, <1>23
  <2>2. \A k \in 1 .. Len(bs), j \in 1 .. 64 : bs[k][j] = new[64 * (k - 1) + j]
    BY <1>20, <1>23
  <2>3. \A j \in 1 .. Len(tail) : tail[j] = new[64 * Len(bs) + j]
    BY <1>20, <1>24
  <2>4. QED BY <1>22, <1>25, <1>26, <1>27, <2>1, <2>2, <2>3, SMTT(60) DEF Taken
<1>29. QED BY <1>28 DEF d, new, M, bs, upto, one, first, b

\* Whatever md5_update is given, the context has taken it.
LEMMA Md5Takes ==
  ASSUME NEW S, NEW c, NEW all, Taken(S, c, all), NEW buf \in Seq(S)
  PROVE  Taken(S, Md5Update(c, buf), all \o buf)
<1> DEFINE l    == Len(c.buffer)
           p    == 64 - (c.count % 64)
           rest == SubSeq(buf, p + 1, Len(buf))
           q    == Len(rest) \div 64
           head == SubSeq(buf, 1, p)
           full == SubSeq(Pieces(rest, 64), 1, q)
           tail == SubSeq(rest, 64 * q + 1, Len(rest))
<1>1. Md5Update(c, buf) =
        IF Len(buf) >= p
          THEN [count  |-> c.count + Len(buf), buffer |-> tail,
                blocks |-> c.blocks \o <<c.buffer \o head>> \o full]
        ELSE [c EXCEPT !.count = @ + Len(buf), !.buffer = @ \o buf]
  BY DEF Md5Update
<1>2. l \in Nat /\ l < 64 /\ Len(c.blocks) \in Nat /\ c.count = 64 * Len(c.blocks) + l
  <2>1. /\ c \in [count : Nat, buffer : Seq(S), blocks : Seq(Seq(S))]
        /\ c.count = Len(all) /\ Len(c.buffer) < 64
        /\ Len(all) = 64 * Len(c.blocks) + Len(c.buffer)
    BY DEF Taken
  <2>2. c.buffer \in Seq(S) /\ c.blocks \in Seq(Seq(S))
    BY <2>1
  <2>3. QED BY <2>1, <2>2, LenProperties
<1>3. p = 64 - l
  <2>1. \A B \in Nat, i \in Nat : i < 64 => ((64 * B + i) % 64) = i
    OBVIOUS
  <2>2. QED BY <1>2, <2>1
<1>4. l = Len(c.buffer) /\ Len(buf) \in Nat
  BY LenProperties
<1> HIDE DEF p, l
<1>5. p \in Nat /\ p >= 1
  BY <1>2, <1>3
<1>6. CASE Len(buf) >= p
  <2>1. Stretch(S, head, buf, 0, p)
    <3> DEFINE z == 0
    <3>1. z \in Nat /\ z <= p /\ p <= Len(buf)
      BY <1>4, <1>5, <1>6
    <3> HIDE DEF z
    <3>2. Stretch(S, SubSeq(buf, z + 1, p), buf, z, p)
      BY <1>5, <3>1, SubSeqAt
    <3>3. z + 1 = 1
      BY DEF z
    <3>4. QED BY <3>2, <3>3 DEF z
  <2>2. Stretch(S, rest, buf, p, Len(buf))
    <3> DEFINE M == Len(buf)
    <3>1. M \in Nat /\ p <= M /\ M <= Len(buf)
      BY <1>4, <1>5, <1>6
    <3> HIDE DEF M
    <3>2. Stretch(S, SubSeq(buf, p + 1, M), buf, p, M)
      BY <1>5, <3>1, SubSeqAt
    <3>3. QED BY <3>2 DEF M
  <2> HIDE DEF head, rest
  <2>3. rest \in Seq(S) /\ Len(rest) \in Nat
    <3>1. rest \in Seq(S)
      BY <2>2 DEF Stretch
    <3>2. QED BY <3>1, LenProperties
  <2>4. /\ Whole(S, full, rest, q) /\ 64 * q <= Len(rest) /\ Len(rest) < 64 * q + 64
    BY <2>3, WholeBlocks
  <2> HIDE DEF full, q
  <2>5. q \in Nat
    BY <2>4 DEF Whole
  <2>6. Stretch(S, tail, rest, 64 * q, Len(rest))
    <3> DEFINE a == 64 * q
               R == Len(rest)
    <3>1. a \in Nat /\ R \in Nat /\ a <= R /\ R <= Len(rest)
      BY <2>3, <2>4, <2>5
    <3> HIDE DEF a, R
    <3>2. Stretch(S, SubSeq(rest, a + 1, R), rest, a, R)
      BY <2>3, <3>1, SubSeqAt
    <3>3. QED BY <3>2 DEF a, R
  <2> HIDE DEF tail
  <2>7. p = 64 - Len(c.buffer)
    BY <1>3, <1>4
  <2>8. Taken(S, [count |-> c.count + Len(buf), buffer |-> tail,
                  blocks |-> c.blocks \o <<c.buffer \o head>> \o full],
              all \o buf)
    BY <1>5, <1>6, <2>1, <2>2, <2>4, <2>5, <2>6, <2>7, Md5Fills
  <2>9. QED BY <1>1, <1>6, <2>8
<1>7. CASE ~(Len(buf) >= p)
  <2>1. Len(buf) < 64 - Len(c.buffer)
    BY <1>3, <1>4, <1>5, <1>7
  <2>2. Taken(S, [c EXCEPT !.count = @ + Len(buf), !.buffer = @ \o buf], all \o buf)
    BY <2>1, Md5Keeps, Zenon
  <2>3. QED BY <1>1, <1>7, <2>2
<1>8. QED BY <1>6, <1>7

\* The message, its padding and its length.
Padded(src) == (src \o SubSeq(Padding, 1, PadLen(Len(src) % 64))) \o Bits(Len(src))

\* The blocks are all of a text, and whole ones.
Closed(closed, all) ==
    /\ closed.buffer = <<>>
    /\ \A k \in DOMAIN closed.blocks : Len(closed.blocks[k]) = 64
    /\ FlattenSeq(closed.blocks) = all

\* The block of a place.
LEMMA InBlock ==
  ASSUME NEW B \in Nat, NEW h \in Nat, h < 64 * B, NEW k \in Int, NEW j \in 1 .. 64,
         NEW i, i = h + 1, 64 * (k - 1) + j = i
  PROVE  k \in 1 .. B
  OBVIOUS

\* Whatever else a text is made of, the padding and the length are bytes.
HoldsBytes(S) == 0 .. 255 \subseteq S

\* The first word of the count is enough for the length in bits; from 2^32 bits on,
\* the code counts in the second one as well, which Bits leaves out.
OneWord(src) == Len(src) < 2 ^ 29

\* A message of any length is closed: the blocks of MD5 are the message, its
\* padding and its length in bits, and nothing is left in the buffer.
THEOREM Md5Closes ==
  ASSUME NEW S, HoldsBytes(S), NEW src \in Seq(S), OneWord(src)
  PROVE  Closed(Md5Encrypt(src), Padded(src))
<1> DEFINE n     == Len(src)
           index == n % 64
           pad   == SubSeq(Padding, 1, PadLen(index))
           bits  == Bits(n)
           c0    == Md5Initial
           c1    == Md5Update(c0, src)
           c2    == Md5Update(c1, pad)
           c3    == Md5Update(c2, bits)
           two   == src \o pad
           all   == two \o bits
<1>1. n \in Nat
  BY LenProperties
<1>2. /\ PadLen(index) \in Nat /\ PadLen(index) >= 1 /\ PadLen(index) <= 64
      /\ ((n + PadLen(index) + 8) % 64) = 0
  <2>1. PadLen(index) \in 1 .. 64 /\ ((n + PadLen(index) + 8) % 64) = 0
    BY <1>1, PaddingEndsBlock
  <2> HIDE DEF index
  <2>2. \A x \in 1 .. 64 : x \in Nat /\ x >= 1 /\ x <= 64
    OBVIOUS
  <2>3. QED BY <2>1, <2>2
<1> HIDE DEF index
<1>3. Taken(S, c0, <<>>)
  <2>1. /\ c0.count = 0 /\ c0.buffer = <<>> /\ c0.blocks = <<>>
        /\ c0 \in [count : Nat, buffer : Seq(S), blocks : Seq(Seq(S))]
    BY EmptySeq DEF Md5Initial
  <2>2. Len(<<>>) = 0 /\ <<>> \in Seq(S) /\ 1 .. 0 = {}
    BY EmptySeq
  <2> HIDE DEF c0
  <2>3. QED BY <2>1, <2>2 DEF Taken
<1>4. Taken(S, c1, src)
  <2>1. Taken(S, c1, <<>> \o src)
    BY <1>3, Md5Takes
  <2>2. <<>> \o src = src
    BY ConcatEmptySeq
  <2>3. QED BY <2>1, <2>2
<1>5. pad \in Seq(S) /\ Len(pad) = PadLen(index)
  <2> DEFINE P == Padding
             m == PadLen(index)
  <2>1. P \in Seq(S) /\ Len(P) = 64 /\ P = [i \in 1 .. 64 |-> IF i = 1 THEN 128 ELSE 0]
    <3>1. 128 \in 0 .. 255 /\ 0 \in 0 .. 255
      OBVIOUS
    <3>2. 128 \in S /\ 0 \in S
      BY <3>1 DEF HoldsBytes
    <3>3. QED BY <3>2 DEF Padding
  <2>2. m \in Nat /\ m >= 1 /\ m <= 64
    BY <1>2
  <2> HIDE DEF P, m
  <2>3. Stretch(S, SubSeq(P, 1, m), P, 0, m)
    <3> DEFINE z == 0
    <3>1. z \in Nat /\ z <= m /\ m <= Len(P)
      BY <2>1, <2>2
    <3> HIDE DEF z
    <3>2. Stretch(S, SubSeq(P, z + 1, m), P, z, m)
      BY <2>1, <2>2, <3>1, SubSeqAt
    <3>3. z + 1 = 1
      BY DEF z
    <3>4. QED BY <3>2, <3>3 DEF z
  <2>4. SubSeq(P, 1, m) \in Seq(S) /\ Len(SubSeq(P, 1, m)) = m - 0
    BY <2>3 DEF Stretch
  <2>5. m - 0 = m
    BY <2>2
  <2>6. QED BY <2>4, <2>5 DEF P, m
<1>6. bits \in Seq(S) /\ Len(bits) = 8
  <2> DEFINE b == 8 * n
             A == 0 .. 255
  <2>1. b \in Nat
    BY <1>1
  <2>2. bits = << b % 256, (b \div 256) % 256, (b \div (256 * 256)) % 256,
                  (b \div (256 * 256 * 256)) % 256, 0, 0, 0, 0 >>
    BY DEF Bits
  <2> HIDE DEF b
  <2>3. /\ (b % 256) \in A /\ ((b \div 256) % 256) \in A /\ ((b \div (256 * 256)) % 256) \in A
        /\ ((b \div (256 * 256 * 256)) % 256) \in A /\ 0 \in A
    BY <2>1
  <2> HIDE DEF A
  <2>4. A \subseteq S
    BY DEF A, HoldsBytes
  <2> HIDE DEF bits
  <2>5. QED BY <2>2, <2>3, <2>4
<1>7. c1.count = n
  BY <1>4 DEF Taken
<1>8. Md5Encrypt(src) = c3
  BY <1>7 DEF Md5Encrypt, Md5Final, index
<1> HIDE DEF c0, c1, pad, bits
<1>9. Taken(S, c2, two)
  BY <1>4, <1>5, Md5Takes
<1> HIDE DEF c2, two
<1>10. Taken(S, c3, all)
  BY <1>6, <1>9, Md5Takes
<1>11. Len(all) = n + PadLen(index) + 8 /\ all \in Seq(S)
  <2>1. Concats(S, two, src, pad)
    BY <1>5, ConcatAt DEF two
  <2>2. two \in Seq(S) /\ Len(two) = n + PadLen(index)
    BY <1>5, <2>1 DEF Concats
  <2>3. Concats(S, all, two, bits)
    BY <1>6, <2>2, ConcatAt
  <2> HIDE DEF all
  <2>4. all \in Seq(S) /\ Len(all) = Len(two) + Len(bits)
    BY <2>3 DEF Concats
  <2>5. QED BY <1>6, <2>2, <2>4
<1> HIDE DEF c3, all
<1> DEFINE B == Len(c3.blocks)
           e == Len(c3.buffer)
<1>12. /\ c3 \in [count : Nat, buffer : Seq(S), blocks : Seq(Seq(S))]
       /\ e < 64 /\ Len(all) = 64 * B + e
       /\ \A k \in 1 .. B : Len(c3.blocks[k]) = 64
       /\ \A k \in 1 .. B, j \in 1 .. 64 : c3.blocks[k][j] = all[64 * (k - 1) + j]
  BY <1>10 DEF Taken
<1>13. /\ c3.buffer \in Seq(S) /\ c3.blocks \in Seq(Seq(S)) /\ B \in Nat /\ e \in Nat
       /\ DOMAIN c3.blocks = 1 .. B
  <2>1. c3.buffer \in Seq(S) /\ c3.blocks \in Seq(Seq(S))
    BY <1>12
  <2>2. QED BY <2>1, LenProperties
<1>14. c3.buffer = <<>>
  <2>1. (Len(all) % 64) = 0
    BY <1>2, <1>11
  <2> HIDE DEF B, e
  <2>2. \A b \in Nat, i \in Nat : i < 64 /\ ((64 * b + i) % 64) = 0 => i = 0
    OBVIOUS
  <2>3. e = 0
    <3>1. e \in Nat /\ B \in Nat /\ e < 64 /\ ((64 * B + e) % 64) = 0
      BY <1>12, <1>13, <2>1
    <3>2. QED BY <2>2, <3>1
  <2>4. QED BY <1>13, <2>3, EmptySeq DEF e
<1> DEFINE flat == FlattenSeq(c3.blocks)
<1>15. Blocks(S, flat, c3.blocks, 64)
  <2> DEFINE m == 64
  <2>1. m \in Nat /\ \A k \in 1 .. Len(c3.blocks) : Len(c3.blocks[k]) = m
    BY <1>12
  <2> HIDE DEF m
  <2>2. Blocks(S, flat, c3.blocks, m)
    BY <1>13, <2>1, FlattenBlocks
  <2>3. QED BY <2>2 DEF m
<1> HIDE DEF flat
<1>16. /\ flat \in Seq(S) /\ Len(flat) = 64 * B
       /\ \A k \in 1 .. B, j \in 1 .. 64 : flat[64 * (k - 1) + j] = c3.blocks[k][j]
  BY <1>15 DEF Blocks
<1> HIDE DEF B
<1>17. Len(all) = 64 * B
  <2>1. e = 0
    BY <1>14, EmptySeq
  <2> HIDE DEF e
  <2>2. QED BY <1>12, <1>13, <2>1
<1>18. \A i \in 1 .. Len(flat) : flat[i] = all[i]
  <2> TAKE i \in 1 .. Len(flat)
  <2> DEFINE h == i - 1
             k == (h \div 64) + 1
             j == (h % 64) + 1
  <2>1. h \in Nat /\ h + 1 = i /\ h < 64 * B
    BY <1>13, <1>16
  <2> HIDE DEF h
  <2>2. /\ h \div 64 \in Int /\ (h % 64) \in 0 .. 63 /\ 64 * (h \div 64) + (h % 64) = h
    BY <2>1
  <2>3. j \in 1 .. 64 /\ k \in Int /\ 64 * (k - 1) + j = i
    BY <2>1, <2>2
  <2> HIDE DEF k, j
  <2>4. k \in 1 .. B
    BY <1>13, <2>1, <2>3, InBlock
  <2>5. flat[64 * (k - 1) + j] = c3.blocks[k][j]
    BY <1>16, <2>3, <2>4
  <2>6. c3.blocks[k][j] = all[64 * (k - 1) + j]
    BY <1>12, <2>3, <2>4
  <2>7. QED BY <2>3, <2>5, <2>6
<1>19. flat = all
  BY <1>11, <1>16, <1>17, <1>18, SeqEqual
<1>20. Closed(c3, all)
  BY <1>12, <1>13, <1>14, <1>19 DEF Closed, flat
<1>21. all = Padded(src)
  BY DEF all, two, pad, bits, index, Padded
<1>22. QED BY <1>8, <1>20, <1>21

\* What the message, its padding and its length are, byte by byte.
Md5Wanted(n, size) ==
    [i \in 1 .. size |->
        IF i <= n THEN i
        ELSE IF i = n + 1 THEN 128
        ELSE IF i = size - 7 THEN (8 * n) % 256
        ELSE IF i = size - 6 THEN (8 * n) \div 256
        ELSE 0]

\* The length in bits of a message of the run.
LEMMA BitsAre ==
  ASSUME NEW n \in 0 .. 200
  PROVE  Bits(n) = << (8 * n) % 256, (8 * n) \div 256, 0, 0, 0, 0, 0, 0 >>
<1> DEFINE b == 8 * n
<1>1. b \in Nat /\ b <= 1600
  OBVIOUS
<1>2. Bits(n) = << b % 256, (b \div 256) % 256, (b \div (256 * 256)) % 256,
                   (b \div (256 * 256 * 256)) % 256, 0, 0, 0, 0 >>
  BY DEF Bits
<1> HIDE DEF b
<1>3. /\ ((b \div 256) % 256) = b \div 256
      /\ ((b \div (256 * 256)) % 256) = 0 /\ ((b \div (256 * 256 * 256)) % 256) = 0
  BY <1>1
<1>4. Bits(n) = << b % 256, b \div 256, 0, 0, 0, 0, 0, 0 >>
  BY <1>2, <1>3
<1>5. QED BY <1>4 DEF b

\* The number of blocks, and where the padding and the length stand in them.
LEMMA Md5Size ==
  ASSUME NEW n \in Nat, NEW P \in Nat, P >= 1, P <= 64, ((n + P + 8) % 64) = 0,
         NEW size, size = 64 * ((n + 9 + 63) \div 64)
  PROVE  size = n + P + 8 /\ size \in Nat
<1> DEFINE q == (n + P + 8) \div 64
<1>1. q \in Int /\ n + P + 8 = 64 * q
  OBVIOUS
<1> HIDE DEF q
<1>2. ((n + 9 + 63) \div 64) = q
  BY <1>1
<1>3. QED BY <1>1, <1>2

\* For a message that counts its bytes, that is what the run expects.
LEMMA PaddedIsWanted ==
  ASSUME NEW n \in 0 .. 200, NEW src \in Seq(Nat), src = [i \in 1 .. n |-> i], Len(src) = n,
         NEW size, size = 64 * ((n + 9 + 63) \div 64)
  PROVE  Padded(src) = Md5Wanted(n, size)
<1> DEFINE P    == PadLen(n % 64)
           pad  == SubSeq(Padding, 1, P)
           bits == Bits(n)
           two  == src \o pad
           all  == two \o bits
           want == Md5Wanted(n, size)
<1>1. P \in Nat /\ P >= 1 /\ P <= 64 /\ ((n + P + 8) % 64) = 0 /\ n \in Nat
  <2>4. n \in Nat
    OBVIOUS
  <2>1. P \in 1 .. 64 /\ ((n + P + 8) % 64) = 0
    BY <2>4, PaddingEndsBlock
  <2> HIDE DEF P
  <2>2. \A x \in 1 .. 64 : x \in Nat /\ x >= 1 /\ x <= 64
    OBVIOUS
  <2>3. QED BY <2>1, <2>2, <2>4
<1> HIDE DEF P
<1>2. size = n + P + 8 /\ size \in Nat
  BY <1>1, Md5Size
<1>3. pad \in Seq(Nat) /\ Len(pad) = P /\ \A i \in 1 .. P : pad[i] = IF i = 1 THEN 128 ELSE 0
  <2> DEFINE D == Padding
             z == 0
  <2>1. D \in Seq(Nat) /\ Len(D) = 64 /\ \A i \in 1 .. 64 : D[i] = IF i = 1 THEN 128 ELSE 0
    BY DEF Padding
  <2>2. z \in Nat /\ z <= P /\ P <= Len(D)
    BY <1>1, <2>1
  <2> HIDE DEF D, z
  <2>3. Stretch(Nat, SubSeq(D, z + 1, P), D, z, P)
    <3>1. D \in Seq(Nat) /\ P \in Nat
      BY <1>1, <2>1
    <3>2. QED BY <2>2, <3>1, SubSeqAt
  <2>4. z + 1 = 1
    BY DEF z
  <2>5. Stretch(Nat, pad, D, 0, P)
    BY <2>3, <2>4 DEF D, z
  <2> HIDE DEF pad
  <2>6. pad \in Seq(Nat) /\ Len(pad) = P - 0 /\ \A i \in 1 .. P - 0 : pad[i] = D[0 + i]
    BY <2>5 DEF Stretch
  <2>7. P - 0 = P /\ \A i \in 1 .. P : 0 + i = i /\ i \in 1 .. 64
    BY <1>1
  <2>8. \A i \in 1 .. P : pad[i] = IF i = 1 THEN 128 ELSE 0
    <3> TAKE i \in 1 .. P
    <3>1. pad[i] = D[i] /\ i \in 1 .. 64
      <4>1. i \in 1 .. P - 0 /\ 0 + i = i /\ i \in 1 .. 64
        BY <2>7
      <4>2. pad[i] = D[0 + i]
        BY <2>6, <4>1
      <4>3. QED BY <4>1, <4>2
    <3>2. QED BY <2>1, <3>1, ZenonT(60)
  <2>9. QED BY <2>6, <2>7, <2>8
<1>4. /\ bits \in Seq(Nat) /\ Len(bits) = 8
      /\ bits[1] = (8 * n) % 256 /\ bits[2] = (8 * n) \div 256
      /\ \A i \in 3 .. 8 : bits[i] = 0
  <2> DEFINE x == (8 * n) % 256
             y == (8 * n) \div 256
  <2>1. x \in Nat /\ y \in Nat
    BY <1>1
  <2>2. bits = << x, y, 0, 0, 0, 0, 0, 0 >>
    BY BitsAre, ZenonT(60)
  <2> HIDE DEF x, y, bits
  <2>3. bits \in Seq(Nat) /\ Len(bits) = 8 /\ bits[1] = x /\ bits[2] = y
    BY <2>1, <2>2
  <2>4. bits[3] = 0 /\ bits[4] = 0 /\ bits[5] = 0 /\ bits[6] = 0 /\ bits[7] = 0 /\ bits[8] = 0
    BY <2>2
  <2>5. \A i \in 3 .. 8 : i \in {3, 4, 5, 6, 7, 8}
    OBVIOUS
  <2>6. \A i \in 3 .. 8 : bits[i] = 0
    BY <2>4, <2>5
  <2>7. QED BY <2>3, <2>6 DEF x, y
<1> HIDE DEF pad, bits
<1>5. Concats(Nat, two, src, pad)
  BY <1>3, ConcatAt
<1> HIDE DEF two
<1>6. /\ two \in Seq(Nat) /\ Len(two) = n + P
      /\ \A i \in 1 .. n : two[i] = src[i]
      /\ \A i \in 1 .. P : two[n + i] = pad[i]
  BY <1>3, <1>5 DEF Concats
<1>7. Concats(Nat, all, two, bits)
  BY <1>4, <1>6, ConcatAt
<1> HIDE DEF all
<1>8. /\ all \in Seq(Nat) /\ Len(all) = size
      /\ \A i \in 1 .. n + P : all[i] = two[i]
      /\ \A i \in 1 .. 8 : all[n + P + i] = bits[i]
  <2>1. /\ all \in Seq(Nat) /\ Len(all) = (n + P) + 8
        /\ \A i \in 1 .. n + P : all[i] = two[i]
        /\ \A i \in 1 .. 8 : all[(n + P) + i] = bits[i]
    BY <1>4, <1>6, <1>7 DEF Concats
  <2>2. QED BY <1>2, <2>1
<1>9. /\ DOMAIN want = 1 .. size
      /\ \A i \in 1 .. size :
           want[i] = IF i <= n THEN i
                     ELSE IF i = n + 1 THEN 128
                     ELSE IF i = size - 7 THEN (8 * n) % 256
                     ELSE IF i = size - 6 THEN (8 * n) \div 256
                     ELSE 0
  BY DEF Md5Wanted
<1> HIDE DEF want
<1>10. ASSUME NEW i \in 1 .. size PROVE all[i] = want[i]
  <2>1. CASE i <= n
    <3>1. i \in 1 .. n /\ i \in 1 .. n + P
      BY <1>1, <2>1
    <3>2. all[i] = src[i] /\ src[i] = i
      BY <1>6, <1>8, <3>1
    <3>3. QED BY <1>9, <2>1, <3>2
  <2>2. CASE i > n /\ i <= n + P
    <3> DEFINE j == i - n
    <3>1. /\ j \in 1 .. P /\ n + j = i /\ i \in 1 .. n + P /\ (j = 1 <=> i = n + 1)
          /\ i # size - 7 /\ i # size - 6 /\ ~(i <= n)
      BY <1>1, <1>2, <2>2
    <3> HIDE DEF j
    <3>2. all[i] = pad[j]
      BY <1>6, <1>8, <3>1, ZenonT(60)
    <3>3. pad[j] = IF i = n + 1 THEN 128 ELSE 0
      BY <1>3, <3>1
    <3>4. want[i] = IF i = n + 1 THEN 128 ELSE 0
      BY <1>9, <3>1
    <3>5. QED BY <3>2, <3>3, <3>4
  <2>3. CASE i > n + P
    <3> DEFINE j == i - (n + P)
    <3>1. /\ j \in 1 .. 8 /\ n + P + j = i /\ (j = 1 <=> i = size - 7) /\ (j = 2 <=> i = size - 6)
          /\ ~(i <= n) /\ i # n + 1 /\ (j \in 3 .. 8 \/ j = 1 \/ j = 2)
      BY <1>1, <1>2, <2>3
    <3> HIDE DEF j
    <3>2. all[i] = bits[j]
      BY <1>8, <3>1
    <3>3. want[i] = IF j = 1 THEN (8 * n) % 256 ELSE IF j = 2 THEN (8 * n) \div 256 ELSE 0
      BY <1>9, <3>1
    <3>4. j \in 3 .. 8 => j # 1 /\ j # 2
      OBVIOUS
    <3>5. QED BY <1>4, <3>1, <3>2, <3>3, <3>4
  <2>4. QED BY <1>1, <2>1, <2>2, <2>3
<1>11. all = [i \in 1 .. size |-> all[i]] /\ want = [i \in 1 .. size |-> want[i]]
  <2>1. DOMAIN all = 1 .. size
    BY <1>2, <1>8, LenProperties
  <2>2. all = [i \in DOMAIN all |-> all[i]]
    BY <1>8
  <2>3. want = [i \in DOMAIN want |-> want[i]]
    BY DEF want, Md5Wanted
  <2>4. QED BY <1>9, <2>1, <2>2, <2>3
<1>12. all = want
  BY <1>10, <1>11
<1>13. QED BY <1>12 DEF all, two, pad, bits, P, want, Padded

\* The messages of the run are some of them.
THEOREM Md5BlocksHolds == Spec => []Md5Blocks
<1>1. Init => Md5Blocks
  BY DEF Init, Md5Blocks
<1>2. Md5Blocks /\ [Next]_input => Md5Blocks'
  <2> SUFFICES ASSUME Md5Blocks, [Next]_input, input'.kind = "md5"
               PROVE  Md5Blocks'
    BY DEF Md5Blocks
  <2>1. CASE UNCHANGED input
    BY <2>1 DEF Md5Blocks
  <2>2. CASE GiveLength
    <3>1. PICK n \in 0 .. 200 : Given([kind |-> "md5", length |-> n])
      BY <2>2, Zenon DEF GiveLength
    <3>2. input'.length = n
      BY <3>1 DEF Given
    <3> DEFINE src  == [i \in 1 .. n |-> i]
               size == 64 * ((n + 9 + 63) \div 64)
               closed == Md5Encrypt(src)
    <3>3. src \in Seq(Nat) /\ Len(src) = n
      BY DEF src
    <3>4. Closed(closed, Padded(src))
      <4>1. HoldsBytes(Nat)
        BY DEF HoldsBytes
      <4>2. OneWord(src)
        BY <3>3 DEF OneWord
      <4> HIDE DEF src
      <4>3. QED BY <3>3, <4>1, <4>2, Md5Closes
    <3>5. Padded(src) = Md5Wanted(n, size)
      <4>1. src = [i \in 1 .. n |-> i]
        OBVIOUS
      <4> HIDE DEF src, size
      <4>2. size = 64 * ((n + 9 + 63) \div 64)
        BY DEF size
      <4>3. QED BY <3>3, <4>1, <4>2, PaddedIsWanted, ZenonT(60)
    <3>6. /\ closed.buffer = <<>>
          /\ \A k \in DOMAIN closed.blocks : Len(closed.blocks[k]) = 64
          /\ FlattenSeq(closed.blocks) = Md5Wanted(n, size)
      BY <3>4, <3>5 DEF Closed
    <3>7. QED BY <3>2, <3>6, ZenonT(60) DEF Md5Blocks, Md5Wanted
  <2>3. QED BY <2>1, <2>2, KindsGiven
<1>3. QED BY <1>1, <1>2, PTL DEF Spec


-------------------------------------------------------------------------------
(* Emulation prevention. *)

\* What has been written, and how many zeros it ends with.
Writer == [out : Seq(0 .. 255), zeros : 0 .. 2]

Unwritten == [out |-> <<>>, zeros |-> 0]

\* One more byte is written, behind a 3 where it could look like a start code.
Writes(e, b) ==
    [out   |-> IF e.zeros = 2 /\ b <= 3 THEN e.out \o <<3, b>> ELSE Append(e.out, b),
     zeros |-> IF b # 0 THEN 0 ELSE (e.zeros % 2) + 1]

\* It stays a writer.
LEMMA WritesType == ASSUME NEW e \in Writer, NEW b \in 0 .. 255 PROVE Writes(e, b) \in Writer
<1>1. e.out \in Seq(0 .. 255) /\ e.zeros \in 0 .. 2
  BY DEF Writer
<1>2. <<3, b>> \in Seq(0 .. 255)
  <2>1. 3 \in 0 .. 255
    OBVIOUS
  <2> DEFINE A == 0 .. 255
  <2>2. 3 \in A /\ b \in A
    BY <2>1
  <2> HIDE DEF A
  <2>3. <<3, b>> \in Seq(A)
    BY <2>2
  <2>4. QED BY <2>3 DEF A
<1>3. e.out \o <<3, b>> \in Seq(0 .. 255) /\ Append(e.out, b) \in Seq(0 .. 255)
  BY <1>1, <1>2, ConcatProperties, AppendProperties
<1>4. (IF b # 0 THEN 0 ELSE (e.zeros % 2) + 1) \in 0 .. 2
  BY <1>1
<1>5. QED BY <1>3, <1>4 DEF Writes, Writer

\* It begins as one.
LEMMA UnwrittenType == Unwritten \in Writer
  BY EmptySeq DEF Unwritten, Writer

\* The function behind the fold of Escape.
WritesAll(f, bytes) ==
    f = [s \in SUBSET DOMAIN bytes |->
           IF s = {} THEN Unwritten ELSE Writes(f[s \ {Max(s)}], bytes[Max(s)])]

\* The writer from one byte to the next.
LEMMA WritesPath ==
  ASSUME NEW bytes \in Seq(0 .. 255)
  PROVE  \E p \in [0 .. Len(bytes) -> Writer] :
            /\ p[0] = Unwritten /\ p[Len(bytes)] = FoldLeft(Writes, Unwritten, bytes)
            /\ \A k \in 1 .. Len(bytes) : p[k] = Writes(p[k - 1], bytes[k])
<1> DEFINE A == Writer
           n == Len(bytes)
           step == [i \in 1 .. n |-> [x \in A |-> Writes(x, bytes[i])]]
<1>1. n \in Nat /\ DOMAIN bytes = 1 .. n /\ \A i \in 1 .. n : bytes[i] \in 0 .. 255
  BY LenProperties, ElementOfSeq
<1>2. step \in [1 .. n -> [A -> A]]
  BY <1>1, WritesType
<1>3. \A i \in 1 .. n : \A x \in A : step[i][x] = Writes(x, bytes[i])
  OBVIOUS
<1>0. Unwritten \in A
  BY UnwrittenType
<1> HIDE DEF step, A
<1>4. \E f : WritesAll(f, bytes)
  <2>1. PICK f \in [SUBSET (1 .. n) -> A] : FoldsTo(f, Unwritten, step, n)
    BY <1>0, <1>1, <1>2, FoldExists
  <2>2. \A s \in SUBSET (1 .. n) :
           f[s] = IF s = {} THEN Unwritten ELSE Writes(f[s \ {Max(s)}], bytes[Max(s)])
    <3> SUFFICES ASSUME NEW s \in SUBSET (1 .. n), s # {}
                 PROVE  f[s] = Writes(f[s \ {Max(s)}], bytes[Max(s)])
      BY <2>1 DEF FoldsTo
    <3>1. f[s] = step[Max(s)][f[s \ {Max(s)}]]
      BY <2>1 DEF FoldsTo
    <3>2. Max(s) \in 1 .. n /\ f[s \ {Max(s)}] \in A
      BY <1>1, <2>1, GreatestOne
    <3>3. QED BY <1>3, <3>1, <3>2
  <2>3. QED BY <1>1, <2>1, <2>2 DEF WritesAll
<1> DEFINE g == CHOOSE f : WritesAll(f, bytes)
<1>5. WritesAll(g, bytes)
  BY <1>4, Zenon
<1>6. FoldLeft(Writes, Unwritten, bytes) = g[DOMAIN bytes]
  BY DEF Writes, FoldLeft, MapThenFoldSet, WritesAll
<1> HIDE DEF g
<1>7. /\ g[{}] = Unwritten
      /\ \A s \in SUBSET (1 .. n) :
           s # {} => g[s] = Writes(g[s \ {Max(s)}], bytes[Max(s)])
  <2> DEFINE h == [s \in SUBSET DOMAIN bytes |->
                     IF s = {} THEN Unwritten ELSE Writes(g[s \ {Max(s)}], bytes[Max(s)])]
  <2>1. g = h
    BY <1>5 DEF WritesAll
  <2>2. /\ h[{}] = Unwritten
        /\ \A s \in SUBSET DOMAIN bytes :
             s # {} => h[s] = Writes(g[s \ {Max(s)}], bytes[Max(s)])
    OBVIOUS
  <2> HIDE DEF h
  <2>3. QED BY <1>1, <2>1, <2>2
<1>8. \A s \in SUBSET (1 .. n) :
         s # {} /\ g[s \ {Max(s)}] \in A => g[s] = step[Max(s)][g[s \ {Max(s)}]]
  <2> SUFFICES ASSUME NEW s \in SUBSET (1 .. n), s # {}, g[s \ {Max(s)}] \in A
               PROVE  g[s] = step[Max(s)][g[s \ {Max(s)}]]
    OBVIOUS
  <2>1. Max(s) \in 1 .. n
    BY <1>1, GreatestOne
  <2>2. g[s] = Writes(g[s \ {Max(s)}], bytes[Max(s)])
    BY <1>7
  <2>3. QED BY <1>3, <2>1, <2>2
<1>9. FoldsIn(A, g, Unwritten, step, n)
  BY <1>7, <1>8 DEF FoldsIn
<1>10. Unrolled(A, Unwritten, step, n, g)
  <2> HIDE DEF n
  <2>1. n \in Nat
    BY <1>1
  <2>2. QED BY ONLY <1>0, <1>2, <1>9, <2>1, FoldUnrolled
<1>11. PICK p \in [0 .. n -> A] : Unrolls(p, Unwritten, step, n) /\ p[n] = g[1 .. n]
  BY <1>10, Zenon DEF Unrolled
<1>12. \A k \in 1 .. n : p[k] = Writes(p[k - 1], bytes[k])
  <2> SUFFICES ASSUME NEW k \in 1 .. n PROVE p[k] = Writes(p[k - 1], bytes[k])
    OBVIOUS
  <2>1. p[k - 1] \in A
    <3>1. k - 1 \in 0 .. n
      BY <1>1
    <3>2. QED BY <1>11, <3>1
  <2>2. p[k] = step[k][p[k - 1]]
    BY <1>11 DEF Unrolls
  <2>3. QED BY <1>3, <2>1, <2>2
<1>13. p[0] = Unwritten /\ p[n] = FoldLeft(Writes, Unwritten, bytes)
  BY <1>1, <1>6, <1>11 DEF Unrolls
<1>14. QED BY <1>11, <1>12, <1>13 DEF A

\* b without its i-th element.
Removed(S, r, b, i) ==
    /\ r \in Seq(S) /\ Len(r) = Len(b) - 1
    /\ \A j \in 1 .. i - 1 : r[j] = b[j]
    /\ \A j \in i .. Len(b) - 1 : r[j] = b[j + 1]

\* RemoveAt takes one element away.
LEMMA RemovedAt ==
  ASSUME NEW S, NEW b \in Seq(S), NEW i \in 1 .. Len(b)
  PROVE  Removed(S, RemoveAt(b, i), b, i)
<1> DEFINE n == Len(b)
           x == SubSeq(b, 1, i - 1)
           y == SubSeq(b, i + 1, n)
           r == x \o y
<1>1. n \in Nat /\ i \in Nat /\ i >= 1 /\ i <= n /\ i - 1 \in Nat /\ n <= Len(b) /\ n = Len(b)
  BY LenProperties
<1>2. RemoveAt(b, i) = r
  BY DEF RemoveAt
<1> HIDE DEF n
<1>3. Stretch(S, x, b, 0, i - 1)
  <2> DEFINE z == 0
             e == i - 1
  <2>1. z \in Nat /\ e \in Nat /\ z <= e /\ e <= Len(b)
    BY <1>1
  <2> HIDE DEF z, e
  <2>2. Stretch(S, SubSeq(b, z + 1, e), b, z, e)
    BY <2>1, SubSeqAt
  <2>3. z + 1 = 1
    BY DEF z
  <2>4. QED BY <2>2, <2>3 DEF z, e
<1>4. Stretch(S, y, b, i, n)
  BY <1>1, SubSeqAt
<1> HIDE DEF x, y
<1>5. x \in Seq(S) /\ Len(x) = i - 1 /\ \A j \in 1 .. i - 1 : x[j] = b[j]
  <2>1. x \in Seq(S) /\ Len(x) = (i - 1) - 0 /\ \A j \in 1 .. (i - 1) - 0 : x[j] = b[0 + j]
    BY <1>3 DEF Stretch
  <2>2. (i - 1) - 0 = i - 1 /\ \A j \in 1 .. i - 1 : 0 + j = j
    BY <1>1
  <2>3. QED BY <2>1, <2>2
<1>6. y \in Seq(S) /\ Len(y) = n - i /\ \A j \in 1 .. n - i : y[j] = b[i + j]
  BY <1>4 DEF Stretch
<1>7. Concats(S, r, x, y)
  BY <1>5, <1>6, ConcatAt
<1> HIDE DEF r
<1>8. /\ r \in Seq(S) /\ Len(r) = (i - 1) + (n - i)
      /\ \A j \in 1 .. i - 1 : r[j] = x[j]
      /\ \A j \in 1 .. n - i : r[(i - 1) + j] = y[j]
  BY <1>5, <1>6, <1>7 DEF Concats
<1>9. Len(r) = n - 1
  BY <1>1, <1>8
<1>10. \A j \in i .. n - 1 : r[j] = b[j + 1]
  <2> TAKE j \in i .. n - 1
  <2> DEFINE h == j - (i - 1)
  <2>1. h \in 1 .. n - i /\ (i - 1) + h = j /\ i + h = j + 1
    BY <1>1
  <2> HIDE DEF h
  <2>2. r[(i - 1) + h] = y[h] /\ y[h] = b[i + h]
    BY <1>6, <1>8, <2>1
  <2>3. QED BY <2>1, <2>2
<1>11. Removed(S, r, b, i)
  BY <1>1, <1>5, <1>8, <1>9, <1>10 DEF Removed
<1>12. QED BY <1>2, <1>11

\* One more place is looked at.
Scans(b, i) ==
    IF i + 2 <= Len(b) /\ SubSeq(b, i, i + 2) = <<0, 0, 3>> THEN RemoveAt(b, i + 2) ELSE b

\* Whatever is taken away, bytes are left.
LEMMA ScansType == ASSUME NEW b \in Seq(0 .. 255), NEW i \in Nat PROVE Scans(b, i) \in Seq(0 .. 255)
<1>1. CASE i + 2 <= Len(b)
  <2>1. i + 2 \in 1 .. Len(b)
    BY <1>1, LenProperties
  <2>2. Removed(0 .. 255, RemoveAt(b, i + 2), b, i + 2)
    BY <2>1, RemovedAt
  <2>3. QED BY <2>2 DEF Scans, Removed
<1>2. CASE ~(i + 2 <= Len(b))
  BY <1>2 DEF Scans
<1>3. QED BY <1>1, <1>2

\* The places of a buffer.
PlacesOf(buf) == [i \in 1 .. Len(buf) |-> i]

\* The function behind the fold of DeEmulation.
ScansAll(f, buf) ==
    f = [s \in SUBSET DOMAIN PlacesOf(buf) |->
           IF s = {} THEN buf ELSE Scans(f[s \ {Max(s)}], PlacesOf(buf)[Max(s)])]

\* The buffer from one place to the next.
LEMMA ScansPath ==
  ASSUME NEW buf \in Seq(0 .. 255)
  PROVE  \E p \in [0 .. Len(buf) -> Seq(0 .. 255)] :
            /\ p[0] = buf /\ p[Len(buf)] = FoldLeft(Scans, buf, PlacesOf(buf))
            /\ \A k \in 1 .. Len(buf) : p[k] = Scans(p[k - 1], k)
<1> DEFINE A == Seq(0 .. 255)
           n == Len(buf)
           step == [i \in 1 .. n |-> [x \in A |-> Scans(x, i)]]
<1>1. n \in Nat /\ DOMAIN PlacesOf(buf) = 1 .. n /\ \A i \in 1 .. n : i \in Nat /\ PlacesOf(buf)[i] = i
  BY LenProperties DEF PlacesOf
<1>2. step \in [1 .. n -> [A -> A]]
  BY <1>1, ScansType
<1>3. \A i \in 1 .. n : \A x \in A : step[i][x] = Scans(x, i)
  OBVIOUS
<1>0. buf \in A
  OBVIOUS
<1> HIDE DEF step, A
<1>4. \E f : ScansAll(f, buf)
  <2>1. PICK f \in [SUBSET (1 .. n) -> A] : FoldsTo(f, buf, step, n)
    BY <1>0, <1>1, <1>2, FoldExists
  <2>2. \A s \in SUBSET (1 .. n) :
           f[s] = IF s = {} THEN buf ELSE Scans(f[s \ {Max(s)}], PlacesOf(buf)[Max(s)])
    <3> SUFFICES ASSUME NEW s \in SUBSET (1 .. n), s # {}
                 PROVE  f[s] = Scans(f[s \ {Max(s)}], PlacesOf(buf)[Max(s)])
      BY <2>1 DEF FoldsTo
    <3>1. f[s] = step[Max(s)][f[s \ {Max(s)}]]
      BY <2>1 DEF FoldsTo
    <3>2. Max(s) \in 1 .. n /\ f[s \ {Max(s)}] \in A
      BY <1>1, <2>1, GreatestOne
    <3>3. QED BY <1>1, <1>3, <3>1, <3>2
  <2>3. QED BY <1>1, <2>1, <2>2, ZenonT(60) DEF ScansAll
<1> DEFINE g == CHOOSE f : ScansAll(f, buf)
<1>5. ScansAll(g, buf)
  BY <1>4, Zenon
<1>6. FoldLeft(Scans, buf, PlacesOf(buf)) = g[DOMAIN PlacesOf(buf)]
  BY DEF Scans, FoldLeft, MapThenFoldSet, ScansAll
<1> HIDE DEF g
<1>7. /\ g[{}] = buf
      /\ \A s \in SUBSET (1 .. n) :
           s # {} => g[s] = Scans(g[s \ {Max(s)}], PlacesOf(buf)[Max(s)])
  <2> DEFINE h == [s \in SUBSET DOMAIN PlacesOf(buf) |->
                     IF s = {} THEN buf ELSE Scans(g[s \ {Max(s)}], PlacesOf(buf)[Max(s)])]
  <2>1. g = h
    BY <1>5 DEF ScansAll
  <2>2. /\ h[{}] = buf
        /\ \A s \in SUBSET DOMAIN PlacesOf(buf) :
             s # {} => h[s] = Scans(g[s \ {Max(s)}], PlacesOf(buf)[Max(s)])
    OBVIOUS
  <2> HIDE DEF h
  <2>3. QED BY <1>1, <2>1, <2>2
<1>8. \A s \in SUBSET (1 .. n) :
         s # {} /\ g[s \ {Max(s)}] \in A => g[s] = step[Max(s)][g[s \ {Max(s)}]]
  <2> SUFFICES ASSUME NEW s \in SUBSET (1 .. n), s # {}, g[s \ {Max(s)}] \in A
               PROVE  g[s] = step[Max(s)][g[s \ {Max(s)}]]
    OBVIOUS
  <2>1. Max(s) \in 1 .. n
    BY <1>1, GreatestOne
  <2>2. g[s] = Scans(g[s \ {Max(s)}], PlacesOf(buf)[Max(s)])
    BY <1>7
  <2>3. QED BY <1>1, <1>3, <2>1, <2>2
<1>9. FoldsIn(A, g, buf, step, n)
  BY <1>7, <1>8 DEF FoldsIn
<1>10. Unrolled(A, buf, step, n, g)
  <2> HIDE DEF n
  <2>1. n \in Nat
    BY <1>1
  <2>2. QED BY ONLY <1>0, <1>2, <1>9, <2>1, FoldUnrolled
<1>11. PICK p \in [0 .. n -> A] : Unrolls(p, buf, step, n) /\ p[n] = g[1 .. n]
  BY <1>10, Zenon DEF Unrolled
<1>12. \A k \in 1 .. n : p[k] = Scans(p[k - 1], k)
  <2> SUFFICES ASSUME NEW k \in 1 .. n PROVE p[k] = Scans(p[k - 1], k)
    OBVIOUS
  <2>1. p[k - 1] \in A
    <3>1. k - 1 \in 0 .. n
      BY <1>1
    <3>2. QED BY <1>11, <3>1
  <2>2. p[k] = step[k][p[k - 1]]
    BY <1>11 DEF Unrolls
  <2>3. QED BY <1>3, <2>1, <2>2
<1>13. p[0] = buf /\ p[n] = FoldLeft(Scans, buf, PlacesOf(buf))
  BY <1>1, <1>6, <1>11 DEF Unrolls
<1>14. QED BY <1>11, <1>12, <1>13 DEF A

\* u is e with b written: the 3 is there exactly when it is called for.
WritesOn(u, e, b) ==
    /\ u \in Writer /\ u.zeros = (IF b # 0 THEN 0 ELSE (e.zeros % 2) + 1)
    /\ Len(e.out) \in Nat /\ Len(u.out) \in Nat
    /\ \A j \in 1 .. Len(e.out) : u.out[j] = e.out[j]
    /\ e.zeros = 2 /\ b <= 3 =>
         Len(u.out) = Len(e.out) + 2 /\ u.out[Len(e.out) + 1] = 3 /\ u.out[Len(e.out) + 2] = b
    /\ ~(e.zeros = 2 /\ b <= 3) => Len(u.out) = Len(e.out) + 1 /\ u.out[Len(e.out) + 1] = b

\* So Writes does.
LEMMA WritesAt == ASSUME NEW e \in Writer, NEW b \in 0 .. 255 PROVE WritesOn(Writes(e, b), e, b)
<1> DEFINE u == Writes(e, b)
           two == <<3, b>>
           a == e.out \o two
           c == Append(e.out, b)
           A == 0 .. 255
<1>1. e.out \in Seq(A) /\ Len(e.out) \in Nat
  BY LenProperties DEF Writer
<1>2. two \in Seq(A) /\ Len(two) = 2 /\ two[1] = 3 /\ two[2] = b
  <2>1. 3 \in A /\ b \in A
    OBVIOUS
  <2> HIDE DEF A
  <2>2. QED BY <2>1
<1>3. /\ u.out = IF e.zeros = 2 /\ b <= 3 THEN a ELSE c
      /\ u.zeros = IF b # 0 THEN 0 ELSE (e.zeros % 2) + 1
  BY DEF Writes
<1>4. u \in Writer
  BY WritesType
<1>5. Len(u.out) \in Nat
  BY <1>4, LenProperties DEF Writer
<1> HIDE DEF u, A, two
<1>6. Concats(A, a, e.out, two)
  BY <1>1, <1>2, ConcatAt
<1>7. /\ c \in Seq(A) /\ Len(c) = Len(e.out) + 1 /\ c[Len(e.out) + 1] = b
      /\ \A j \in 1 .. Len(e.out) : c[j] = e.out[j]
  <2>1. b \in A
    BY DEF A
  <2>2. QED BY <1>1, <2>1, AppendProperties
<1> HIDE DEF a, c
<1>8. /\ Len(a) = Len(e.out) + 2 /\ a[Len(e.out) + 1] = 3 /\ a[Len(e.out) + 2] = b
      /\ \A j \in 1 .. Len(e.out) : a[j] = e.out[j]
  <2>1. 1 \in 1 .. Len(two) /\ 2 \in 1 .. Len(two)
    BY <1>2
  <2>2. QED BY <1>2, <1>6, <2>1 DEF Concats
<1>9. CASE e.zeros = 2 /\ b <= 3
  <2>1. u.out = a
    BY <1>3, <1>9
  <2>2. QED BY <1>1, <1>3, <1>4, <1>5, <1>8, <1>9, <2>1 DEF WritesOn, u
<1>10. CASE ~(e.zeros = 2 /\ b <= 3)
  <2>1. u.out = c
    BY <1>3, <1>10
  <2>2. QED BY <1>1, <1>3, <1>4, <1>5, <1>7, <1>10, <2>1 DEF WritesOn, u
<1>11. QED BY <1>9, <1>10

\* What is coded of the first m bytes: where each of them stands, and how many
\* zeros there are up to it.
Coding(o, z, coded, bytes, m) ==
    /\ o[0] = 0 /\ z[0] = 0
    /\ \A t \in 1 .. m : z[t] = IF bytes[t] # 0 THEN 0 ELSE (z[t - 1] % 2) + 1
    /\ \A t \in 1 .. m : coded[o[t]] = bytes[t] /\ o[t] >= 1 /\ o[t] <= o[m]
    /\ \A t \in 1 .. m :
         z[t - 1] = 2 /\ bytes[t] <= 3 => o[t] = o[t - 1] + 2 /\ coded[o[t] - 1] = 3
    /\ \A t \in 1 .. m : ~(z[t - 1] = 2 /\ bytes[t] <= 3) => o[t] = o[t - 1] + 1

\* The places count up from the first.
LEMMA CodingGoesOn ==
  ASSUME NEW bytes, NEW n \in Nat, NEW o \in [0 .. n -> Nat], NEW z \in [0 .. n -> 0 .. 2],
         NEW m \in Nat, m + 1 <= n,
         NEW e, NEW u, NEW b, WritesOn(u, e, b), b = bytes[m + 1],
         o[m] = Len(e.out), o[m + 1] = Len(u.out), z[m] = e.zeros, z[m + 1] = u.zeros,
         Coding(o, z, e.out, bytes, m)
  PROVE  Coding(o, z, u.out, bytes, m + 1)
<1> DEFINE a == e.out
           c == u.out
           esc == e.zeros = 2 /\ b <= 3
<1>1. /\ o[0] = 0 /\ z[0] = 0
      /\ \A t \in 1 .. m : z[t] = IF bytes[t] # 0 THEN 0 ELSE (z[t - 1] % 2) + 1
      /\ \A t \in 1 .. m : a[o[t]] = bytes[t] /\ o[t] >= 1 /\ o[t] <= o[m]
      /\ \A t \in 1 .. m :
           z[t - 1] = 2 /\ bytes[t] <= 3 => o[t] = o[t - 1] + 2 /\ a[o[t] - 1] = 3
      /\ \A t \in 1 .. m : ~(z[t - 1] = 2 /\ bytes[t] <= 3) => o[t] = o[t - 1] + 1
  BY DEF Coding
<1>2. /\ z[m + 1] = (IF b # 0 THEN 0 ELSE (z[m] % 2) + 1)
      /\ \A j \in 1 .. o[m] : c[j] = a[j]
      /\ esc => o[m + 1] = o[m] + 2 /\ c[o[m] + 1] = 3 /\ c[o[m] + 2] = b
      /\ ~esc => o[m + 1] = o[m] + 1 /\ c[o[m] + 1] = b
      /\ (esc <=> z[m] = 2 /\ b <= 3)
  BY DEF WritesOn
<1>3. /\ m + 1 \in 1 .. n /\ m \in 0 .. n /\ (m + 1) - 1 = m
      /\ \A t \in 1 .. m + 1 : t \in 1 .. m \/ t = m + 1
      /\ \A t \in 1 .. m : t \in 0 .. n /\ t - 1 \in 0 .. n
  OBVIOUS
<1>4. /\ o[m] \in Nat /\ o[m + 1] \in Nat /\ \A t \in 1 .. m : o[t] \in Nat /\ o[t - 1] \in Nat
  BY <1>3
<1> HIDE DEF a, c, esc
<1>5. o[m + 1] >= 1 /\ o[m] <= o[m + 1] /\ c[o[m + 1]] = b
  BY <1>2, <1>4
<1>6. esc => c[o[m + 1] - 1] = 3
  <2>1. (o[m] + 2) - 1 = o[m] + 1
    BY <1>4
  <2>2. QED BY <1>2, <2>1
<1>7. \A t \in 1 .. m : c[o[t]] = bytes[t] /\ o[t] >= 1 /\ o[t] <= o[m + 1]
  <2> TAKE t \in 1 .. m
  <2>1. a[o[t]] = bytes[t] /\ o[t] >= 1 /\ o[t] <= o[m] /\ o[t] \in Nat
    BY <1>1, <1>4
  <2>2. o[t] \in 1 .. o[m] /\ o[t] <= o[m + 1]
    BY <1>4, <1>5, <2>1
  <2>3. QED BY <1>2, <2>1, <2>2
<1>8. ASSUME NEW t \in 1 .. m, z[t - 1] = 2 /\ bytes[t] <= 3
      PROVE  o[t] = o[t - 1] + 2 /\ c[o[t] - 1] = 3
  <2>1. o[t] = o[t - 1] + 2 /\ a[o[t] - 1] = 3 /\ o[t] <= o[m] /\ o[t] \in Nat /\ o[t - 1] \in Nat
    BY <1>1, <1>4, <1>8
  <2>2. o[t] - 1 \in 1 .. o[m]
    <3> DEFINE x == o[t]
               y == o[t - 1]
               M == o[m]
    <3>1. x \in Nat /\ y \in Nat /\ M \in Nat /\ x = y + 2 /\ x <= M
      BY <1>4, <2>1
    <3> HIDE DEF x, y, M
    <3>2. x - 1 \in 1 .. M
      BY <3>1
    <3>3. QED BY <3>2 DEF x, M
  <2>3. QED BY <1>2, <2>1, <2>2
<1>9. \A t \in 1 .. m + 1 : z[t] = IF bytes[t] # 0 THEN 0 ELSE (z[t - 1] % 2) + 1
  BY <1>1, <1>2, <1>3
<1>10. \A t \in 1 .. m + 1 : c[o[t]] = bytes[t] /\ o[t] >= 1 /\ o[t] <= o[m + 1]
  BY <1>3, <1>4, <1>5, <1>7
<1>11. \A t \in 1 .. m + 1 :
         z[t - 1] = 2 /\ bytes[t] <= 3 => o[t] = o[t - 1] + 2 /\ c[o[t] - 1] = 3
  BY <1>2, <1>3, <1>6, <1>8
<1>12. \A t \in 1 .. m + 1 : ~(z[t - 1] = 2 /\ bytes[t] <= 3) => o[t] = o[t - 1] + 1
  BY <1>1, <1>2, <1>3
<1>13. QED BY <1>1, <1>9, <1>10, <1>11, <1>12 DEF Coding, c

\* How the bytes of a text are coded, and the 3 behind two zeros at the end.
Codes(o, z, coded, bytes, n) ==
    /\ o \in [0 .. n -> Nat] /\ z \in [0 .. n -> 0 .. 2] /\ n \in Nat /\ coded \in Seq(0 .. 255)
    /\ Coding(o, z, coded, bytes, n)
    /\ z[n] # 2 => Len(coded) = o[n]
    /\ z[n] = 2 => Len(coded) = o[n] + 1 /\ coded[o[n] + 1] = 3

\* That is what Escape gives.
LEMMA EscapeIs ==
  ASSUME NEW bytes \in Seq(0 .. 255)
  PROVE  \E o, z : Codes(o, z, Escape(bytes), bytes, Len(bytes))
<1> DEFINE n == Len(bytes)
<1>1. n \in Nat /\ \A t \in 1 .. n : bytes[t] \in 0 .. 255
  BY LenProperties, ElementOfSeq
<1>2. PICK p \in [0 .. n -> Writer] :
        /\ p[0] = Unwritten /\ p[n] = FoldLeft(Writes, Unwritten, bytes)
        /\ \A k \in 1 .. n : p[k] = Writes(p[k - 1], bytes[k])
  BY WritesPath
<1>3. Escape(bytes) = IF p[n].zeros = 2 THEN Append(p[n].out, 3) ELSE p[n].out
  <2>1. Escape(bytes) = LET s == FoldLeft(Writes, Unwritten, bytes)
                        IN IF s.zeros = 2 THEN Append(s.out, 3) ELSE s.out
    BY DEF Escape, FoldLeft, MapThenFoldSet, Writes, Unwritten
  <2>2. QED BY <1>2, <2>1
<1> HIDE DEF n
<1> DEFINE o == [t \in 0 .. n |-> Len(p[t].out)]
           z == [t \in 0 .. n |-> p[t].zeros]
<1>4. \A t \in 0 .. n : p[t].out \in Seq(0 .. 255) /\ Len(p[t].out) \in Nat /\ p[t].zeros \in 0 .. 2
  BY <1>2, LenProperties DEF Writer
<1>5. /\ o \in [0 .. n -> Nat] /\ z \in [0 .. n -> 0 .. 2]
      /\ \A t \in 0 .. n : o[t] = Len(p[t].out) /\ z[t] = p[t].zeros
  BY <1>4
<1> HIDE DEF o, z
<1> DEFINE Good(m) == Coding(o, z, p[m].out, bytes, m)
           S == {m \in Nat : m <= n => Good(m)}
<1>6. 0 \in S
  <2>1. 0 \in 0 .. n /\ 1 .. 0 = {}
    BY <1>1
  <2>2. o[0] = 0 /\ z[0] = 0
    BY <1>2, <1>5, <2>1, EmptySeq DEF Unwritten
  <2>3. Good(0)
    BY <2>1, <2>2 DEF Coding
  <2> HIDE DEF Good
  <2>4. QED BY <2>3
<1>7. \A m \in Nat : m \in S => m + 1 \in S
  <2> SUFFICES ASSUME NEW m \in Nat, m \in S, m + 1 <= n PROVE Good(m + 1)
    <3> HIDE DEF Good
    <3> QED OBVIOUS
  <2>1. Good(m)
    <3> HIDE DEF Good
    <3>1. m <= n
      BY <1>1
    <3>2. QED BY <3>1
  <2>2. m + 1 \in 1 .. n /\ m \in 0 .. n /\ m + 1 \in 0 .. n /\ (m + 1) - 1 = m
    BY <1>1
  <2> DEFINE e == p[m]
             b == bytes[m + 1]
             u == p[m + 1]
  <2>3. e \in Writer /\ b \in 0 .. 255 /\ u = Writes(e, b)
    BY <1>1, <1>2, <2>2
  <2>4. WritesOn(u, e, b)
    BY <2>3, WritesAt
  <2>5. o[m] = Len(e.out) /\ o[m + 1] = Len(u.out) /\ z[m] = e.zeros /\ z[m + 1] = u.zeros
    BY <1>5, <2>2
  <2>6. b = bytes[m + 1] /\ Coding(o, z, e.out, bytes, m)
    BY <2>1
  <2> HIDE DEF e, b, u
  <2>7. Coding(o, z, u.out, bytes, m + 1)
    BY <1>1, <1>5, <2>4, <2>5, <2>6, CodingGoesOn
  <2>8. QED BY <2>7 DEF u
<1>8. Nat \subseteq S
  <2> HIDE DEF S
  <2> QED BY <1>6, <1>7, SetInduction
<1>9. Coding(o, z, p[n].out, bytes, n)
  <2>1. n <= n
    BY <1>1
  <2>2. QED BY <1>1, <1>8, <2>1
<1> DEFINE a == p[n].out
<1>10. a \in Seq(0 .. 255) /\ Len(a) = o[n] /\ z[n] = p[n].zeros /\ o[n] \in Nat
  <2>1. n \in 0 .. n
    BY <1>1
  <2>2. QED BY <1>4, <1>5, <2>1
<1>11. CASE z[n] # 2
  <2>1. Escape(bytes) = a
    BY <1>3, <1>10, <1>11
  <2>2. Codes(o, z, a, bytes, n)
    BY <1>1, <1>5, <1>9, <1>10, <1>11 DEF Codes
  <2>3. QED BY <2>1, <2>2 DEF n
<1>12. CASE z[n] = 2
  <2> DEFINE c == Append(a, 3)
  <2>1. Escape(bytes) = c
    BY <1>3, <1>10, <1>12
  <2>2. /\ c \in Seq(0 .. 255) /\ Len(c) = o[n] + 1 /\ c[o[n] + 1] = 3
        /\ \A j \in 1 .. o[n] : c[j] = a[j]
    <3> DEFINE A == 0 .. 255
    <3>1. 3 \in A /\ a \in Seq(A)
      BY <1>10
    <3> HIDE DEF A, a
    <3>2. c \in Seq(A) /\ Len(c) = Len(a) + 1 /\ c[Len(a) + 1] = 3 /\ \A j \in 1 .. Len(a) : c[j] = a[j]
      BY <3>1, AppendProperties
    <3>3. QED BY <1>10, <3>2 DEF A
  <2> HIDE DEF c, a
  <2>3. Coding(o, z, c, bytes, n)
    <3>1. /\ o[0] = 0 /\ z[0] = 0
          /\ \A t \in 1 .. n : z[t] = IF bytes[t] # 0 THEN 0 ELSE (z[t - 1] % 2) + 1
          /\ \A t \in 1 .. n : a[o[t]] = bytes[t] /\ o[t] >= 1 /\ o[t] <= o[n]
          /\ \A t \in 1 .. n :
               z[t - 1] = 2 /\ bytes[t] <= 3 => o[t] = o[t - 1] + 2 /\ a[o[t] - 1] = 3
          /\ \A t \in 1 .. n : ~(z[t - 1] = 2 /\ bytes[t] <= 3) => o[t] = o[t - 1] + 1
      BY <1>9 DEF Coding, a
    <3>2. \A t \in 1 .. n : o[t] \in Nat /\ o[t - 1] \in Nat
      <4>1. \A t \in 1 .. n : t \in 0 .. n /\ t - 1 \in 0 .. n
        BY <1>1
      <4>2. QED BY <1>5, <4>1
    <3>3. \A t \in 1 .. n : c[o[t]] = bytes[t]
      <4> TAKE t \in 1 .. n
      <4>1. o[t] \in 1 .. o[n]
        BY <1>10, <3>1, <3>2
      <4>2. QED BY <2>2, <3>1, <4>1
    <3>4. ASSUME NEW t \in 1 .. n, z[t - 1] = 2 /\ bytes[t] <= 3
          PROVE  o[t] = o[t - 1] + 2 /\ c[o[t] - 1] = 3
      <4>1. o[t] = o[t - 1] + 2 /\ a[o[t] - 1] = 3 /\ o[t] <= o[n] /\ o[t] \in Nat /\ o[t - 1] \in Nat
        BY <3>1, <3>2, <3>4
      <4>2. o[t] - 1 \in 1 .. o[n]
        BY <1>10, <4>1, SMTT(60)
      <4>3. QED BY <2>2, <4>1, <4>2
    <3>5. QED BY <3>1, <3>3, <3>4 DEF Coding
  <2>4. Codes(o, z, c, bytes, n)
    BY <1>1, <1>5, <1>12, <2>2, <2>3 DEF Codes
  <2>5. QED BY <2>1, <2>4 DEF n
<1>13. QED BY <1>11, <1>12

\* Three bytes of a buffer.
LEMMA ThreeAt ==
  ASSUME NEW b \in Seq(0 .. 255), NEW i \in Nat, i >= 1, i + 2 <= Len(b)
  PROVE  SubSeq(b, i, i + 2) = <<0, 0, 3>> <=> b[i] = 0 /\ b[i + 1] = 0 /\ b[i + 2] = 3
<1> DEFINE A == 0 .. 255
           a == i - 1
           e == i + 2
           r == SubSeq(b, i, e)
<1>1. a \in Nat /\ e \in Nat /\ a <= e /\ e <= Len(b) /\ a + 1 = i /\ e - a = 3
  OBVIOUS
<1>2. b \in Seq(A)
  OBVIOUS
<1> HIDE DEF A, a, e
<1>3. Stretch(A, SubSeq(b, a + 1, e), b, a, e)
  BY <1>1, <1>2, SubSeqAt
<1>4. Stretch(A, r, b, a, e)
  BY <1>1, <1>3
<1> HIDE DEF r
<1>5. r \in Seq(A) /\ Len(r) = 3 /\ \A j \in 1 .. 3 : r[j] = b[a + j]
  BY <1>1, <1>4 DEF Stretch
<1>6. r[1] = b[i] /\ r[2] = b[i + 1] /\ r[3] = b[i + 2]
  <2>1. 1 \in 1 .. 3 /\ 2 \in 1 .. 3 /\ 3 \in 1 .. 3
    OBVIOUS
  <2>2. r[1] = b[a + 1] /\ r[2] = b[a + 2] /\ r[3] = b[a + 3]
    BY <1>5, <2>1
  <2>3. a + 2 = i + 1 /\ a + 3 = i + 2
    BY <1>1
  <2>4. QED BY <1>1, <2>2, <2>3
<1>7. r = <<0, 0, 3>> <=> r[1] = 0 /\ r[2] = 0 /\ r[3] = 3
  <2>1. r = <<r[1], r[2], r[3]>>
    BY <1>5
  <2>2. QED BY <2>1
<1>8. r = SubSeq(b, i, i + 2)
  BY DEF r, e
<1>9. QED BY <1>6, <1>7, <1>8

\* Five bytes that close up.
LEMMA FiveAt ==
  ASSUME NEW c \in Seq(0 .. 255), NEW i \in Nat, i >= 1, i + 4 <= Len(c),
         c[i] = 0, c[i + 1] = 0, c[i + 2] = 3, c[i + 3] = 0, c[i + 4] = 3
  PROVE  ClosesUp(c)
<1> DEFINE A == 0 .. 255
           a == i - 1
           e == i + 4
           r == SubSeq(c, i, e)
<1>1. a \in Nat /\ e \in Nat /\ a <= e /\ e <= Len(c) /\ a + 1 = i /\ e - a = 5
  OBVIOUS
<1>2. c \in Seq(A)
  OBVIOUS
<1> HIDE DEF A, a, e
<1>3. Stretch(A, SubSeq(c, a + 1, e), c, a, e)
  BY <1>1, <1>2, SubSeqAt
<1>4. Stretch(A, r, c, a, e)
  BY <1>1, <1>3
<1> HIDE DEF r
<1>5. r \in Seq(A) /\ Len(r) = 5 /\ \A j \in 1 .. 5 : r[j] = c[a + j]
  BY <1>1, <1>4 DEF Stretch
<1>6. r[1] = 0 /\ r[2] = 0 /\ r[3] = 3 /\ r[4] = 0 /\ r[5] = 3
  <2>1. 1 \in 1 .. 5 /\ 2 \in 1 .. 5 /\ 3 \in 1 .. 5 /\ 4 \in 1 .. 5 /\ 5 \in 1 .. 5
    OBVIOUS
  <2>2. /\ r[1] = c[a + 1] /\ r[2] = c[a + 2] /\ r[3] = c[a + 3]
        /\ r[4] = c[a + 4] /\ r[5] = c[a + 5]
    BY <1>5, <2>1
  <2>3. a + 2 = i + 1 /\ a + 3 = i + 2 /\ a + 4 = i + 3 /\ a + 5 = i + 4
    BY <1>1
  <2>4. QED BY <1>1, <2>2, <2>3
<1>7. r = <<0, 0, 3, 0, 3>>
  <2>1. r = <<r[1], r[2], r[3], r[4], r[5]>>
    BY <1>5
  <2>2. QED BY <1>6, <2>1
<1>8. SubSeq(c, i, i + 4) = <<0, 0, 3, 0, 3>>
  BY <1>7 DEF r, e
<1>9. i \in 1 .. Len(c) - 4
  BY LenProperties
<1>10. QED BY <1>8, <1>9 DEF ClosesUp

\* One place of a coded text.
CodedAt(o, z, coded, bytes, t) ==
    /\ z[t] = (IF bytes[t] # 0 THEN 0 ELSE (z[t - 1] % 2) + 1)
    /\ z[t] \in 0 .. 2 /\ z[t - 1] \in 0 .. 2 /\ o[t] \in Nat /\ o[t - 1] \in Nat
    /\ coded[o[t]] = bytes[t] /\ o[t] >= 1 /\ o[t] <= Len(coded) /\ Len(coded) \in Nat
    /\ z[t - 1] = 2 /\ bytes[t] <= 3 => o[t] = o[t - 1] + 2 /\ coded[o[t] - 1] = 3
    /\ ~(z[t - 1] = 2 /\ bytes[t] <= 3) => o[t] = o[t - 1] + 1

\* Every place is one.
LEMMA CodesAt ==
  ASSUME NEW o, NEW z, NEW coded, NEW bytes, NEW n, Codes(o, z, coded, bytes, n), NEW t \in 1 .. n
  PROVE  CodedAt(o, z, coded, bytes, t)
<1>1. /\ o \in [0 .. n -> Nat] /\ z \in [0 .. n -> 0 .. 2] /\ n \in Nat /\ coded \in Seq(0 .. 255)
      /\ Coding(o, z, coded, bytes, n)
      /\ z[n] # 2 => Len(coded) = o[n]
      /\ z[n] = 2 => Len(coded) = o[n] + 1
  BY DEF Codes
<1>2. /\ z[t] = (IF bytes[t] # 0 THEN 0 ELSE (z[t - 1] % 2) + 1)
      /\ coded[o[t]] = bytes[t] /\ o[t] >= 1 /\ o[t] <= o[n]
      /\ z[t - 1] = 2 /\ bytes[t] <= 3 => o[t] = o[t - 1] + 2 /\ coded[o[t] - 1] = 3
      /\ ~(z[t - 1] = 2 /\ bytes[t] <= 3) => o[t] = o[t - 1] + 1
  BY <1>1 DEF Coding
<1>3. t \in 0 .. n /\ t - 1 \in 0 .. n /\ n \in 0 .. n
  BY <1>1
<1>4. z[t] \in 0 .. 2 /\ z[t - 1] \in 0 .. 2 /\ o[t] \in Nat /\ o[t - 1] \in Nat /\ o[n] \in Nat
  BY <1>1, <1>3
<1>5. o[n] <= Len(coded) /\ Len(coded) \in Nat
  <2> DEFINE x == o[n]
             l == Len(coded)
  <2>1. l \in Nat
    BY <1>1, LenProperties
  <2>2. x \in Nat /\ (l = x \/ l = x + 1)
    BY <1>1, <1>4
  <2> HIDE DEF x, l
  <2>3. x <= l
    BY <2>1, <2>2
  <2>4. QED BY <2>1, <2>3 DEF x, l
<1>6. o[t] <= Len(coded)
  BY <1>2, <1>4, <1>5
<1>7. QED BY <1>2, <1>4, <1>5, <1>6 DEF CodedAt

\* The writer has seen two zeros exactly behind two zeros, and writes them one
\* behind the other.
LEMMA TwoZeros ==
  ASSUME NEW o, NEW z, NEW coded, NEW bytes, NEW n, Codes(o, z, coded, bytes, n),
         NEW m \in 1 .. n, z[m] = 2
  PROVE  /\ m >= 2 /\ bytes[m] = 0 /\ bytes[m - 1] = 0
         /\ o[m] >= 2 /\ coded[o[m]] = 0 /\ coded[o[m] - 1] = 0
<1>1. CodedAt(o, z, coded, bytes, m)
  BY CodesAt
<1>2. n \in Nat /\ z[0] = 0
  BY DEF Codes, Coding
<1>3. bytes[m] = 0 /\ z[m - 1] = 1
  BY <1>1 DEF CodedAt
<1>4. m >= 2
  <2>1. m # 1
    BY <1>2, <1>3
  <2>2. QED BY <1>2, <2>1
<1>5. m - 1 \in 1 .. n
  BY <1>2, <1>4
<1>6. CodedAt(o, z, coded, bytes, m - 1)
  BY <1>5, CodesAt
<1>7. bytes[m - 1] = 0 /\ coded[o[m - 1]] = 0 /\ o[m - 1] >= 1 /\ o[m - 1] \in Nat
  BY <1>3, <1>6 DEF CodedAt
<1>8. o[m] = o[m - 1] + 1 /\ coded[o[m]] = 0
  BY <1>1, <1>3 DEF CodedAt
<1>9. o[m] - 1 = o[m - 1] /\ o[m] >= 2
  BY <1>7, <1>8
<1>10. QED BY <1>3, <1>4, <1>7, <1>8, <1>9

\* Where no 3 was put in, none looks like it, unless the bytes close up.
LEMMA NoneLooksEscaped ==
  ASSUME NEW o, NEW z, NEW coded, NEW bytes, NEW n, Codes(o, z, coded, bytes, n),
         ~ClosesUp(coded), NEW m \in Nat, m >= 2, m + 1 <= n,
         ~(z[m] = 2 /\ bytes[m + 1] <= 3), bytes[m - 1] = 0, bytes[m] = 0, bytes[m + 1] = 3
  PROVE  FALSE
<1>1. n \in Nat /\ coded \in Seq(0 .. 255)
  BY DEF Codes
<1>2. m \in 1 .. n /\ m - 1 \in 1 .. n /\ m + 1 \in 1 .. n /\ (m + 1) - 1 = m
  BY <1>1
<1>3. /\ CodedAt(o, z, coded, bytes, m - 1) /\ CodedAt(o, z, coded, bytes, m)
      /\ CodedAt(o, z, coded, bytes, m + 1)
  BY <1>2, CodesAt
<1>4. z[m] # 2
  OBVIOUS
<1>5. z[m - 1] = 2
  <2>1. z[m] = (z[m - 1] % 2) + 1 /\ z[m - 1] \in 0 .. 2
    BY <1>3 DEF CodedAt
  <2>2. z[m - 1] # 0
    <3>1. z[m - 1] = (z[(m - 1) - 1] % 2) + 1 /\ z[(m - 1) - 1] \in 0 .. 2
      BY <1>3 DEF CodedAt
    <3>2. \A x \in 0 .. 2 : (x % 2) + 1 # 0
      OBVIOUS
    <3>3. QED BY <3>1, <3>2
  <2>3. \A x \in 0 .. 2 : x = 0 \/ x = 2 \/ (x % 2) + 1 = 2
    OBVIOUS
  <2>4. QED BY <1>4, <2>1, <2>2, <2>3
<1>6. o[m - 1] >= 2 /\ coded[o[m - 1]] = 0 /\ coded[o[m - 1] - 1] = 0
  BY <1>2, <1>5, TwoZeros
<1>7. o[m] = o[m - 1] + 2 /\ coded[o[m] - 1] = 3 /\ coded[o[m]] = 0 /\ o[m - 1] \in Nat
  <2>1. bytes[m] <= 3
    OBVIOUS
  <2>2. QED BY <1>3, <1>5, <2>1 DEF CodedAt
<1>8. o[m + 1] = o[m] + 1 /\ coded[o[m + 1]] = 3 /\ o[m + 1] <= Len(coded)
  BY <1>2, <1>3 DEF CodedAt
<1> DEFINE i == o[m - 1] - 1
<1>9. /\ i \in Nat /\ i >= 1 /\ i + 1 = o[m - 1] /\ i + 2 = o[m] - 1 /\ i + 3 = o[m]
      /\ i + 4 = o[m + 1]
  <2> DEFINE x == o[m - 1]
             y == o[m]
             w == o[m + 1]
             h == x - 1
  <2>1. x \in Nat /\ x >= 2 /\ y = x + 2 /\ w = y + 1
    BY <1>6, <1>7, <1>8
  <2> HIDE DEF x, y, w
  <2>2. h \in Nat /\ h >= 1 /\ h + 1 = x /\ h + 2 = y - 1 /\ h + 3 = y /\ h + 4 = w
    BY <2>1
  <2>3. i = h
    BY DEF i, x
  <2> HIDE DEF h
  <2>4. QED BY <2>2, <2>3 DEF x, y, w
<1>10. coded[i] = 0
  BY <1>6
<1> HIDE DEF i
<1>11. ClosesUp(coded)
  BY <1>1, <1>6, <1>7, <1>8, <1>9, <1>10, FiveAt
<1>12. QED BY <1>11

\* The first m bytes are as they were, and what is behind them is still coded.
LeftCoded(b, o, coded, bytes, m) ==
    /\ b \in Seq(0 .. 255) /\ Len(b) = m + (Len(coded) - o[m])
    /\ \A j \in 1 .. m : b[j] = bytes[j]
    /\ \A j \in 1 .. Len(coded) - o[m] : b[m + j] = coded[o[m] + j]

\* The scan takes the 3 away in front of the next byte, or leaves that one alone.
LEMMA ScanGoesOn ==
  ASSUME NEW o, NEW z, NEW coded, NEW bytes, NEW n, Codes(o, z, coded, bytes, n),
         ~ClosesUp(coded), NEW m \in Nat, m >= 2, m + 1 <= n,
         NEW b, LeftCoded(b, o, coded, bytes, m)
  PROVE  LeftCoded(Scans(b, m - 1), o, coded, bytes, m + 1)
<1> DEFINE L == Len(coded)
           x == o[m]
           y == o[m + 1]
           u == Scans(b, m - 1)
           i == m - 1
<1>1. n \in Nat
  BY DEF Codes
<1>2. m \in 1 .. n /\ m + 1 \in 1 .. n /\ (m + 1) - 1 = m
  BY <1>1
<1>3. CodedAt(o, z, coded, bytes, m) /\ CodedAt(o, z, coded, bytes, m + 1)
  BY <1>2, CodesAt
<1>4. /\ L \in Nat /\ x \in Nat /\ y \in Nat /\ y <= L /\ coded[y] = bytes[m + 1]
      /\ z[m] = 2 /\ bytes[m + 1] <= 3 => y = x + 2 /\ coded[y - 1] = 3
      /\ ~(z[m] = 2 /\ bytes[m + 1] <= 3) => y = x + 1
  BY <1>2, <1>3 DEF CodedAt
<1>5. /\ b \in Seq(0 .. 255) /\ Len(b) = m + (L - x)
      /\ \A j \in 1 .. m : b[j] = bytes[j]
      /\ \A j \in 1 .. L - x : b[m + j] = coded[x + j]
  BY DEF LeftCoded
<1>6. i \in Nat /\ i >= 1 /\ i + 1 = m /\ i + 2 = m + 1
  OBVIOUS
<1>7. u = IF i + 2 <= Len(b) /\ SubSeq(b, i, i + 2) = <<0, 0, 3>> THEN RemoveAt(b, i + 2) ELSE b
  BY DEF Scans
<1> HIDE DEF L, x, y, u, i
<1>8. x < y /\ m + 1 <= Len(b) /\ 1 \in 1 .. L - x
  BY <1>4, <1>5
<1>9. b[m + 1] = coded[x + 1]
  BY <1>5, <1>8
<1>10. b[i] = bytes[m - 1] /\ b[m] = bytes[m]
  <2>1. i \in 1 .. m /\ m \in 1 .. m /\ i = m - 1
    BY <1>6
  <2>2. QED BY <1>5, <2>1
<1>11. SubSeq(b, i, i + 2) = <<0, 0, 3>> <=> b[i] = 0 /\ b[m] = 0 /\ b[m + 1] = 3
  BY <1>5, <1>6, <1>8, ThreeAt
<1>12. CASE z[m] = 2 /\ bytes[m + 1] <= 3
  <2>1. y = x + 2 /\ coded[x + 1] = 3
    <3>1. y = x + 2 /\ coded[y - 1] = 3
      BY <1>4, <1>12
    <3>2. y - 1 = x + 1
      BY <1>4, <3>1
    <3>3. QED BY <3>1, <3>2
  <2>2. bytes[m] = 0 /\ bytes[m - 1] = 0
    BY <1>2, <1>12, TwoZeros
  <2>3. u = RemoveAt(b, m + 1)
    BY <1>6, <1>7, <1>8, <1>9, <1>10, <1>11, <2>1, <2>2
  <2>4. Removed(0 .. 255, u, b, m + 1)
    <3> DEFINE k == m + 1
               A == 0 .. 255
    <3>1. k \in 1 .. Len(b) /\ b \in Seq(A)
      BY <1>5, <1>8, LenProperties
    <3> HIDE DEF k, A
    <3>2. Removed(A, RemoveAt(b, k), b, k)
      BY <3>1, RemovedAt
    <3>3. QED BY <2>3, <3>2 DEF k, A
  <2>5. /\ u \in Seq(0 .. 255) /\ Len(u) = Len(b) - 1
        /\ \A j \in 1 .. m : u[j] = b[j]
        /\ \A j \in m + 1 .. Len(b) - 1 : u[j] = b[j + 1]
    <3>1. (m + 1) - 1 = m
      OBVIOUS
    <3>2. QED BY <2>4, <3>1 DEF Removed
  <2>6. Len(u) = (m + 1) + (L - y)
    BY <1>4, <1>5, <2>1, <2>5
  <2>7. u[m + 1] = bytes[m + 1]
    <3>1. m + 1 \in m + 1 .. Len(b) - 1 /\ 2 \in 1 .. L - x /\ (m + 1) + 1 = m + 2
      BY <1>4, <1>5, <2>1
    <3>2. u[m + 1] = b[m + 2] /\ b[m + 2] = coded[x + 2]
      BY <1>5, <2>5, <3>1
    <3>3. QED BY <1>4, <2>1, <3>2
  <2>8. \A j \in 1 .. m + 1 : u[j] = bytes[j]
    <3> TAKE j \in 1 .. m + 1
    <3>1. j \in 1 .. m \/ j = m + 1
      OBVIOUS
    <3>2. QED BY <1>5, <2>5, <2>7, <3>1
  <2>9. \A j \in 1 .. L - y : u[(m + 1) + j] = coded[y + j]
    <3> TAKE j \in 1 .. L - y
    <3> DEFINE k == (m + 1) + j
               h == 2 + j
    <3>1. k \in m + 1 .. Len(b) - 1 /\ h \in 1 .. L - x /\ k + 1 = m + h /\ x + h = y + j
      BY <1>4, <1>5, <2>1
    <3> HIDE DEF k, h
    <3>2. u[k] = b[k + 1] /\ b[m + h] = coded[x + h]
      BY <1>5, <2>5, <3>1
    <3>3. u[k] = coded[y + j]
      BY <3>1, <3>2
    <3>4. QED BY <3>3 DEF k
  <2>10. QED BY <2>5, <2>6, <2>8, <2>9 DEF LeftCoded, L, y, u, i
<1>13. CASE ~(z[m] = 2 /\ bytes[m + 1] <= 3)
  <2>1. y = x + 1 /\ b[m + 1] = bytes[m + 1]
    BY <1>4, <1>9, <1>13
  <2>2. ~(bytes[m - 1] = 0 /\ bytes[m] = 0 /\ bytes[m + 1] = 3)
    BY <1>13, NoneLooksEscaped
  <2>3. u = b
    BY <1>7, <1>10, <1>11, <2>1, <2>2
  <2>4. Len(b) = (m + 1) + (L - y)
    BY <1>4, <1>5, <2>1
  <2>5. \A j \in 1 .. m + 1 : b[j] = bytes[j]
    <3> TAKE j \in 1 .. m + 1
    <3>1. j \in 1 .. m \/ j = m + 1
      OBVIOUS
    <3>2. QED BY <1>5, <2>1, <3>1
  <2>6. \A j \in 1 .. L - y : b[(m + 1) + j] = coded[y + j]
    <3> TAKE j \in 1 .. L - y
    <3> DEFINE h == 1 + j
    <3>1. h \in 1 .. L - x /\ m + h = (m + 1) + j /\ x + h = y + j
      BY <1>4, <2>1
    <3> HIDE DEF h
    <3>2. b[m + h] = coded[x + h]
      BY <1>5, <3>1
    <3>3. QED BY <3>1, <3>2
  <2>7. QED BY <1>5, <2>3, <2>4, <2>5, <2>6 DEF LeftCoded, L, y, u, i
<1>14. QED BY <1>12, <1>13

\* A byte is never coded in front of its place.
LEMMA CodedBehind ==
  ASSUME NEW o, NEW z, NEW coded, NEW bytes, NEW n, Codes(o, z, coded, bytes, n)
  PROVE  n <= o[n] /\ n <= Len(coded)
<1>1. n \in Nat /\ o[0] = 0
  BY DEF Codes, Coding
<1> DEFINE S == {t \in Nat : t <= n => t <= o[t]}
<1>2. 0 \in S
  BY <1>1
<1>3. \A t \in Nat : t \in S => t + 1 \in S
  <2> SUFFICES ASSUME NEW t \in Nat, t <= o[t], t + 1 <= n PROVE t + 1 <= o[t + 1]
    BY <1>1
  <2>1. t + 1 \in 1 .. n /\ (t + 1) - 1 = t
    BY <1>1
  <2>2. CodedAt(o, z, coded, bytes, t + 1)
    BY <2>1, CodesAt
  <2>3. /\ o[t + 1] \in Nat /\ o[t] \in Nat
        /\ o[t + 1] = o[t] + 2 \/ o[t + 1] = o[t] + 1
    BY <2>1, <2>2 DEF CodedAt
  <2> DEFINE x == o[t]
             y == o[t + 1]
  <2>4. x \in Nat /\ y \in Nat /\ (y = x + 2 \/ y = x + 1) /\ t <= x
    BY <2>3
  <2> HIDE DEF x, y
  <2>5. t + 1 <= y
    BY <2>4
  <2>6. QED BY <2>5 DEF y
<1>4. Nat \subseteq S
  <2> HIDE DEF S
  <2> QED BY <1>2, <1>3, SetInduction
<1>5. n <= o[n]
  BY <1>1, <1>4
<1>6. CASE n = 0
  <2>1. coded \in Seq(0 .. 255)
    BY DEF Codes
  <2>2. Len(coded) \in Nat
    BY <2>1, LenProperties
  <2>3. QED BY <1>5, <1>6, <2>2
<1>7. CASE n # 0
  <2>1. n \in 1 .. n
    BY <1>1, <1>7
  <2>2. CodedAt(o, z, coded, bytes, n)
    BY <2>1, CodesAt
  <2>3. o[n] \in Nat /\ o[n] <= Len(coded) /\ Len(coded) \in Nat
    BY <2>2 DEF CodedAt
  <2>4. QED BY <1>1, <1>5, <2>3
<1>8. QED BY <1>6, <1>7

\* The scan starts on bytes that are all coded: the first two stand as they are.
LEMMA ScanStarts ==
  ASSUME NEW o, NEW z, NEW coded, NEW bytes, NEW n, Codes(o, z, coded, bytes, n), n >= 2
  PROVE  LeftCoded(coded, o, coded, bytes, 2)
<1>1. n \in Nat /\ coded \in Seq(0 .. 255) /\ Len(coded) \in Nat /\ o[0] = 0 /\ z[0] = 0
  BY LenProperties DEF Codes, Coding
<1>2. 1 \in 1 .. n /\ 2 \in 1 .. n /\ 1 - 1 = 0 /\ 2 - 1 = 1
  BY <1>1
<1>3. CodedAt(o, z, coded, bytes, 1) /\ CodedAt(o, z, coded, bytes, 2)
  BY <1>2, CodesAt
<1>4. o[1] = 1 /\ z[1] # 2 /\ coded[1] = bytes[1]
  <2>1. /\ z[1] = (IF bytes[1] # 0 THEN 0 ELSE (z[0] % 2) + 1)
        /\ coded[o[1]] = bytes[1]
        /\ ~(z[0] = 2 /\ bytes[1] <= 3) => o[1] = o[0] + 1
    BY <1>2, <1>3 DEF CodedAt
  <2>2. z[0] # 2 /\ (z[0] % 2) + 1 # 2
    BY <1>1
  <2>3. o[1] = o[0] + 1
    BY <2>1, <2>2
  <2>4. o[1] = 1
    BY <1>1, <2>3
  <2>5. QED BY <2>1, <2>2, <2>4
<1>5. o[2] = 2 /\ coded[2] = bytes[2]
  <2>1. coded[o[2]] = bytes[2] /\ (~(z[1] = 2 /\ bytes[2] <= 3) => o[2] = o[1] + 1)
    BY <1>2, <1>3 DEF CodedAt
  <2>2. o[2] = o[1] + 1
    BY <1>4, <2>1
  <2>3. o[2] = 2
    BY <1>4, <2>2
  <2>4. QED BY <2>1, <2>3
<1>6. Len(coded) = 2 + (Len(coded) - o[2])
  BY <1>1, <1>5
<1>7. \A j \in 1 .. 2 : coded[j] = bytes[j]
  BY <1>4, <1>5
<1>8. \A j \in 1 .. Len(coded) - o[2] : coded[2 + j] = coded[o[2] + j]
  BY <1>5
<1>9. QED BY <1>1, <1>6, <1>7, <1>8 DEF LeftCoded

\* Behind the last byte the scan takes the 3 away that ends the coding, or leaves
\* the bytes alone.
LEMMA ScanEnds ==
  ASSUME NEW o, NEW z, NEW coded, NEW bytes \in Seq(0 .. 255),
         Codes(o, z, coded, bytes, Len(bytes)), Len(bytes) >= 2,
         NEW b, LeftCoded(b, o, coded, bytes, Len(bytes))
  PROVE  Scans(b, Len(bytes) - 1) = bytes
<1> DEFINE n == Len(bytes)
           L == Len(coded)
           x == o[n]
           i == n - 1
           u == Scans(b, i)
<1>1. n \in Nat /\ n >= 2 /\ Codes(o, z, coded, bytes, n)
  BY LenProperties
<1>2. /\ z[n] # 2 => L = x
      /\ z[n] = 2 => L = x + 1 /\ coded[x + 1] = 3
  BY <1>1 DEF Codes
<1>3. /\ b \in Seq(0 .. 255) /\ Len(b) = n + (L - x)
      /\ \A j \in 1 .. n : b[j] = bytes[j]
      /\ \A j \in 1 .. L - x : b[n + j] = coded[x + j]
  BY DEF LeftCoded
<1>4. u = IF i + 2 <= Len(b) /\ SubSeq(b, i, i + 2) = <<0, 0, 3>> THEN RemoveAt(b, i + 2) ELSE b
  BY DEF Scans
<1>5. n \in 1 .. n
  BY <1>1
<1>6. x \in Nat
  <2>1. CodedAt(o, z, coded, bytes, n)
    BY <1>1, <1>5, CodesAt
  <2>2. QED BY <2>1 DEF CodedAt
<1> HIDE DEF n, L, x, u, i
<1>7. i \in Nat /\ i >= 1 /\ i + 1 = n /\ i + 2 = n + 1
  BY <1>1 DEF i
<1>8. CASE z[n] = 2
  <2>1. Len(b) = n + 1 /\ 1 \in 1 .. L - x /\ L = x + 1
    BY <1>1, <1>2, <1>3, <1>6, <1>8
  <2>2. b[n + 1] = 3
    BY <1>2, <1>3, <1>8, <2>1
  <2>3. bytes[n] = 0 /\ bytes[n - 1] = 0
    BY <1>1, <1>5, <1>8, TwoZeros
  <2>4. b[i] = 0 /\ b[i + 1] = 0
    <3>1. i \in 1 .. n /\ i = n - 1
      BY <1>1, <1>7
    <3>2. b[i] = bytes[i] /\ b[n] = bytes[n]
      BY <1>3, <1>5, <3>1
    <3>3. QED BY <1>7, <2>3, <3>1, <3>2
  <2>5. i + 2 <= Len(b) /\ b[i + 2] = 3
    BY <1>1, <1>7, <2>1, <2>2
  <2>6. SubSeq(b, i, i + 2) = <<0, 0, 3>>
    BY <1>3, <1>7, <2>4, <2>5, ThreeAt
  <2>7. u = RemoveAt(b, n + 1)
    BY <1>4, <1>7, <2>5, <2>6
  <2>8. Removed(0 .. 255, u, b, n + 1)
    <3> DEFINE k == n + 1
               A == 0 .. 255
    <3>1. k \in 1 .. Len(b) /\ b \in Seq(A)
      BY <1>1, <1>3, <2>1
    <3> HIDE DEF k, A
    <3>2. Removed(A, RemoveAt(b, k), b, k)
      BY <3>1, RemovedAt
    <3>3. QED BY <2>7, <3>2 DEF k, A
  <2>9. u \in Seq(0 .. 255) /\ Len(u) = n /\ \A j \in 1 .. n : u[j] = b[j]
    <3>1. (n + 1) - 1 = n
      BY <1>1
    <3>2. /\ u \in Seq(0 .. 255) /\ Len(u) = Len(b) - 1
          /\ \A j \in 1 .. n : u[j] = b[j]
      BY <2>8, <3>1 DEF Removed
    <3>3. QED BY <2>1, <3>1, <3>2
  <2>10. \A j \in 1 .. n : u[j] = bytes[j]
    BY <1>3, <2>9
  <2>11. u = bytes
    BY <2>9, <2>10, SeqEqual DEF n
  <2>12. QED BY <2>11 DEF u, i, n
<1>9. CASE z[n] # 2
  <2>1. Len(b) = n
    BY <1>1, <1>2, <1>3, <1>6, <1>9
  <2>2. u = b
    BY <1>1, <1>4, <1>7, <2>1
  <2>3. b = bytes
    BY <1>3, <2>1, SeqEqual DEF n
  <2>4. QED BY <2>2, <2>3 DEF u, i, n
<1>10. QED BY <1>8, <1>9

\* DeEmulation reads back whatever Escape has written of two bytes or more, unless
\* bytes close up to what looks escaped again: where the scan stands, everything in
\* front of it is as it was, and everything behind it is still coded.
THEOREM DeEmulatesAny ==
  ASSUME NEW bytes \in Seq(0 .. 255), Len(bytes) >= 2, ~ClosesUp(Escape(bytes))
  PROVE  DeEmulation(Escape(bytes)) = bytes
<1> DEFINE n == Len(bytes)
           coded == Escape(bytes)
<1>1. n \in Nat /\ n >= 2 /\ ~ClosesUp(coded)
  BY LenProperties
<1>2. PICK o, z : Codes(o, z, coded, bytes, n)
  BY EscapeIs, Zenon
<1>3. coded \in Seq(0 .. 255)
  BY <1>2 DEF Codes
<1>4. DeEmulation(coded) = FoldLeft(Scans, coded, PlacesOf(coded))
  BY DEF DeEmulation, FoldLeft, MapThenFoldSet, Scans, PlacesOf
<1> HIDE DEF coded
<1>5. PICK p \in [0 .. Len(coded) -> Seq(0 .. 255)] :
        /\ p[0] = coded /\ p[Len(coded)] = FoldLeft(Scans, coded, PlacesOf(coded))
        /\ \A k \in 1 .. Len(coded) : p[k] = Scans(p[k - 1], k)
  BY <1>3, ScansPath
<1> DEFINE L == Len(coded)
<1>6. L \in Nat /\ n <= L
  BY <1>2, <1>3, CodedBehind, LenProperties
<1>7. Codes(o, z, coded, bytes, Len(bytes)) /\ Len(bytes) >= 2
  BY <1>1, <1>2
<1> HIDE DEF n, L
<1> DEFINE Good(i) == IF i + 2 <= n THEN LeftCoded(p[i], o, coded, bytes, i + 2) ELSE p[i] = bytes
           S == {i \in Nat : i <= L => Good(i)}
<1>8. 0 \in S
  <2>1. LeftCoded(p[0], o, coded, bytes, 0 + 2)
    <3>1. 0 + 2 = 2
      OBVIOUS
    <3>2. LeftCoded(coded, o, coded, bytes, 2)
      BY <1>1, <1>2, ScanStarts
    <3>3. QED BY <1>5, <3>1, <3>2
  <2>2. 0 + 2 <= n
    BY <1>1
  <2>3. Good(0)
    BY <2>1, <2>2
  <2> HIDE DEF Good
  <2>4. QED BY <2>3
<1>9. \A i \in Nat : i \in S => i + 1 \in S
  <2> SUFFICES ASSUME NEW i \in Nat, i \in S, i + 1 <= L PROVE Good(i + 1)
    <3> HIDE DEF Good
    <3> QED OBVIOUS
  <2>1. Good(i)
    <3> HIDE DEF Good
    <3>1. i <= L
      BY <1>6
    <3>2. QED BY <3>1
  <2>2. p[i + 1] = Scans(p[i], i + 1)
    <3>1. i + 1 \in 1 .. L /\ (i + 1) - 1 = i
      BY <1>6
    <3>2. QED BY <1>5, <3>1 DEF L
  <2>3. CASE (i + 1) + 2 <= n
    <3> DEFINE m == i + 2
    <3>1. m \in Nat /\ m >= 2 /\ m + 1 <= n /\ m - 1 = i + 1 /\ m + 1 = (i + 1) + 2 /\ i + 2 <= n
      BY <1>1, <2>3
    <3>2. LeftCoded(p[i], o, coded, bytes, m)
      BY <2>1, <3>1
    <3> HIDE DEF m
    <3>3. LeftCoded(Scans(p[i], m - 1), o, coded, bytes, m + 1)
      BY <1>1, <1>2, <3>1, <3>2, ScanGoesOn
    <3>4. QED BY <2>2, <2>3, <3>1, <3>3
  <2>4. CASE i + 2 = n
    <3>1. i + 2 <= n /\ ~((i + 1) + 2 <= n) /\ i + 1 = n - 1
      BY <1>1, <2>4
    <3>2. LeftCoded(p[i], o, coded, bytes, Len(bytes))
      BY <2>1, <2>4, <3>1 DEF n
    <3>3. Scans(p[i], n - 1) = bytes
      BY <1>7, <3>2, ScanEnds DEF n
    <3>4. QED BY <2>2, <3>1, <3>3
  <2>5. CASE i + 2 > n
    <3>1. ~(i + 2 <= n) /\ ~((i + 1) + 2 <= n)
      BY <1>1, <2>5
    <3>2. p[i] = bytes
      BY <2>1, <3>1
    <3>3. Scans(p[i], i + 1) = bytes
      <4>1. ~((i + 1) + 2 <= Len(bytes))
        BY <3>1 DEF n
      <4>2. QED BY <3>2, <4>1 DEF Scans
    <3>4. QED BY <2>2, <3>1, <3>3
  <2>6. (i + 1) + 2 <= n \/ i + 2 = n \/ i + 2 > n
    BY <1>1
  <2>7. QED BY <2>3, <2>4, <2>5, <2>6
<1>10. Nat \subseteq S
  <2> HIDE DEF S
  <2> QED BY <1>8, <1>9, SetInduction
<1>11. Good(L)
  <2> HIDE DEF Good
  <2>1. L <= L
    BY <1>6
  <2>2. QED BY <1>6, <1>10, <2>1
<1>12. p[L] = bytes
  <2>1. ~(L + 2 <= n)
    BY <1>1, <1>6
  <2>2. QED BY <1>11, <2>1
<1>13. QED BY <1>4, <1>5, <1>12 DEF coded, L

\* The texts of the run are some of them.
THEOREM DeEmulatesHolds == Spec => []DeEmulates
<1>1. Init => DeEmulates
  BY DEF Init, DeEmulates
<1>2. DeEmulates /\ [Next]_input => DeEmulates'
  <2> SUFFICES ASSUME DeEmulates, [Next]_input, input'.kind = "plain"
               PROVE  DeEmulates'
    BY DEF DeEmulates
  <2>1. CASE UNCHANGED input
    BY <2>1 DEF DeEmulates
  <2>2. CASE GivePlain
    <3>1. PICK s \in Strings({0, 1, 3}, 2 .. 6) : Given([kind |-> "plain", bytes |-> s])
      BY <2>2, Zenon DEF GivePlain
    <3>2. input'.bytes = s
      BY <3>1 DEF Given
    <3>3. s \in Seq(0 .. 255) /\ Len(s) >= 2
      <4>1. PICK n \in 2 .. 6 : s \in [1 .. n -> {0, 1, 3}]
        BY DEF Strings
      <4>2. {0, 1, 3} \subseteq 0 .. 255
        OBVIOUS
      <4> DEFINE B == 0 .. 255
                 A == {0, 1, 3}
      <4>3. A \subseteq B /\ s \in [1 .. n -> A]
        BY <4>1, <4>2
      <4> HIDE DEF A, B
      <4>4. s \in [1 .. n -> B] /\ n \in Nat /\ n >= 2
        BY <4>3
      <4>5. s \in Seq(B) /\ Len(s) = n
        BY <4>4
      <4>6. QED BY <4>4, <4>5 DEF B
    <3>4. ~ClosesUp(Escape(s)) => DeEmulation(Escape(s)) = s
      BY <3>3, DeEmulatesAny
    <3>5. ~ClosesUp(Escape(input'.bytes)) => DeEmulation(Escape(input'.bytes)) = input'.bytes
      BY <3>2, <3>4
    <3>6. QED BY <3>5 DEF DeEmulates
  <2>3. QED BY <2>1, <2>2, KindsGiven
<1>3. QED BY <1>1, <1>2, PTL DEF Spec
===============================================================================
