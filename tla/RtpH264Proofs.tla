---------------------------- MODULE RtpH264Proofs -----------------------------
(***************************************************************************)
(* Proofs about RtpH264, for any number of units and fragments and for a   *)
(* channel of any length.                                                  *)
(***************************************************************************)
EXTENDS RtpH264, TLAPS

\* What the packets of each kind hold.
LEMMA PacketFields ==
    ASSUME NEW p \in Packet
    PROVE  /\ p.kind = "single" => p.unit \in 1 .. Units
           /\ p.kind = "fu" => p.unit \in 1 .. Units /\ p.part \in 1 .. Parts
           /\ p.kind = "stap" =>
                /\ p.units \in Seq(1 .. Units)
                /\ p.units # <<>>
                /\ Head(p.units) \in 1 .. Units
                /\ Tail(p.units) \in Seq(1 .. Units)
<1> DEFINE Good(us) == /\ us \in Seq(1 .. Units) /\ us # <<>>
                      /\ Head(us) \in 1 .. Units
                      /\ Tail(us) \in Seq(1 .. Units)
<1>1. ASSUME NEW u \in 1 .. Units
      PROVE  Good(<<u>>)
  OBVIOUS
<1>2. ASSUME NEW u \in 1 .. Units - 1
      PROVE  Good(<<u, u + 1>>)
  <2>1. u \in 1 .. Units /\ u + 1 \in 1 .. Units
    BY SizesAssumption
  <2>2. ASSUME NEW v \in 1 .. Units, NEW w \in 1 .. Units
        PROVE  Good(<<v, w>>)
    OBVIOUS
  <2> QED
    BY <2>1, <2>2
<1>3. p.kind = "single" => p.unit \in 1 .. Units
  BY DEF Packet
<1>4. p.kind = "fu" => p.unit \in 1 .. Units /\ p.part \in 1 .. Parts
  BY DEF Packet
<1>5. p.kind = "stap" => \/ \E u \in 1 .. Units : p.units = <<u>>
                         \/ \E u \in 1 .. Units - 1 : p.units = <<u, u + 1>>
  BY DEF Packet
<1>6. p.kind = "stap" => Good(p.units)
  <2> HIDE DEF Good
  <2> QED
    BY <1>1, <1>2, <1>5
<1> QED
  BY <1>3, <1>4, <1>6

LEMMA NonEmptySeq ==
    ASSUME NEW S, NEW s \in Seq(S), s # <<>>
    PROVE  /\ Head(s) \in S /\ Head(s) = s[1]
           /\ Tail(s) \in Seq(S)
           /\ Len(Tail(s)) = Len(s) - 1
           /\ \A i \in 1 .. Len(s) - 1 : Tail(s)[i] = s[i + 1]
           /\ Len(s) \in Nat \ {0}
OBVIOUS

LEMMA ContentType ==
    ASSUME NEW u \in 1 .. Units
    PROVE  /\ Content(u) \in Seq(Piece)
           /\ Len(Content(u)) = Parts + 1
           /\ SubSeq(Content(u), 1, 2) \in Seq(Piece)
           /\ Len(SubSeq(Content(u), 1, 2)) = 2
           /\ SubSeq(Content(u), 1, 2)[1] = Content(u)[1]
           /\ SubSeq(Content(u), 1, 2)[2] = Content(u)[2]
<1>1. Content(u) \in Seq(Piece) /\ Len(Content(u)) = Parts + 1
  BY SizesAssumption DEF Content, Piece
<1> QED
  BY <1>1, SizesAssumption

\* The channel without one of its packets.
LEMMA WithoutType ==
    ASSUME channel \in Seq(Packet), NEW i \in 1 .. Len(channel)
    PROVE  Without(i) \in Seq(Packet)
<1> HIDE DEF Packet
<1>1. SubSeq(channel, 1, i - 1) \in Seq(Packet)
  OBVIOUS
<1>2. SubSeq(channel, i + 1, Len(channel)) \in Seq(Packet)
  OBVIOUS
<1> QED
  BY <1>1, <1>2 DEF Without

\* What every step of parse_nalu on a packet has in common.
LEMMA ParseNaluCases ==
    ASSUME TypeOK, ParseNalu
    PROVE  /\ channel' \in Seq(Packet)
           /\ ~ready /\ more = <<>>
           /\ UNCHANGED <<next, doubled, out>>
           /\ \E p \in Packet : \/ ParseSingle(p)
                                \/ ParseStap(p)
                                \/ ParseFragment(p)
                                \/ ParseOther(p)
<1>1. PICK i \in 1 .. Len(channel) :
         /\ Arrives(channel[i])
         /\ \/ ParseSingle(channel[i])
            \/ ParseStap(channel[i])
            \/ ParseFragment(channel[i])
            \/ ParseOther(channel[i])
  BY Zenon DEF ParseNalu
<1>2. channel \in Seq(Packet)
  BY DEF TypeOK
<1>3. channel[i] \in Packet
  BY <1>2
<1>4. PICK j \in 1 .. Len(channel) : channel' = Without(j)
  BY <1>1 DEF Arrives
<1>5. channel' \in Seq(Packet)
  BY <1>2, <1>4, WithoutType
<1>6. /\ ~ready /\ more = <<>>
      /\ UNCHANGED <<next, doubled, out>>
  BY <1>1 DEF Arrives
<1> QED
  BY <1>1, <1>3, <1>5, <1>6, Zenon

-------------------------------------------------------------------------------
LEMMA InitType == Init => TypeOK
<1> SUFFICES ASSUME Init PROVE TypeOK
  OBVIOUS
<1>1. \A S : <<>> \in Seq(S)
  OBVIOUS
<1>2. Empty \in [data : Seq(Piece), finish : BOOLEAN]
  BY <1>1 DEF Empty
<1>3. next \in 1 .. Units + 1 /\ doubled \in 0 .. MaxDouble
  BY SizesAssumption DEF Init
<1> QED
  BY <1>1, <1>2, <1>3 DEF Init, TypeOK

\* Giving packets to the channel.
LEMMA PostType ==
    ASSUME TypeOK, NEW packets \in Seq(Packet), NEW n \in Nat, Post(packets, n)
    PROVE  TypeOK'
<1>1. channel' \in Seq(Packet)
  <2> HIDE DEF Packet
  <2> QED
    BY DEF TypeOK, Post
<1>2. next' \in 1 .. Units + 1
  BY SizesAssumption DEF TypeOK, Post
<1>3. UNCHANGED <<doubled, nalu, more, ready, out, progress, intact>>
  BY DEF Post, recvVars
<1> QED
  BY <1>1, <1>2, <1>3 DEF TypeOK

\* The packets of the n next units.
Packets(ps, n) ==
    \/ n = 1 /\ ps = <<[kind |-> "single", unit |-> next]>>
    \/ n = 1 /\ ps = [i \in 1 .. Parts |-> Fragment(next, i)]
    \/ n = 1 /\ ps = <<[kind |-> "stap", units |-> <<next>>]>>
    \/ n = 2 /\ ps = <<[kind |-> "stap", units |-> <<next, next + 1>>]>>
    \/ n = 0 /\ ps = <<[kind |-> "other"]>>

\* The four ways of sending.
LEMMA SendCases ==
    ASSUME TypeOK, SendSingle \/ SendFragments \/ SendStap \/ SendOther
    PROVE  \E packets \in Seq(Packet), n \in Nat :
             Post(packets, n) /\ Packets(packets, n)
<1>0. \A p \in Packet : <<p>> \in Seq(Packet)
  <2> HIDE DEF Packet
  <2> QED
    OBVIOUS
<1>1. next \in 1 .. Units + 1 /\ Units \in Nat
  BY SizesAssumption DEF TypeOK
<1>2. CASE SendSingle
  <2>1. next <= Units
    BY <1>1, <1>2 DEF SendSingle, Post
  <2>2. [kind |-> "single", unit |-> next] \in Packet
    BY <1>1, <2>1 DEF Packet
  <2> QED
    BY <1>0, <1>2, <2>2 DEF SendSingle, Packets
<1>3. CASE SendFragments
  <2>1. next <= Units
    BY <1>1, <1>3 DEF SendFragments, Post
  <2>2. \A i \in 1 .. Parts : Fragment(next, i) \in Packet
    BY <1>1, <2>1 DEF Packet, Fragment
  <2>3. [i \in 1 .. Parts |-> Fragment(next, i)] \in Seq(Packet)
    <3> HIDE DEF Packet
    <3> QED
      BY <2>2, SizesAssumption
  <2> QED
    BY <1>3, <2>3 DEF SendFragments, Packets
<1>4. CASE SendStap
  <2>1. CASE Post(<<[kind |-> "stap", units |-> <<next>>]>>, 1)
    <3>1. next <= Units
      BY <1>1, <2>1 DEF Post
    <3>2. [kind |-> "stap", units |-> <<next>>] \in Packet
      BY <1>1, <3>1 DEF Packet
    <3> QED
      BY <1>0, <2>1, <3>2 DEF Packets
  <2>2. CASE Post(<<[kind |-> "stap", units |-> <<next, next + 1>>]>>, 2)
    <3>1. next \in 1 .. Units - 1
      BY <1>1, <2>2 DEF Post
    <3>2. [kind |-> "stap", units |-> <<next, next + 1>>] \in Packet
      BY <1>1, <3>1 DEF Packet
    <3> QED
      BY <1>0, <2>2, <3>2 DEF Packets
  <2> QED
    BY <1>4, <2>1, <2>2 DEF SendStap
<1>5. CASE SendOther
  <2>1. [kind |-> "other"] \in Packet
    BY DEF Packet
  <2> QED
    BY <1>0, <1>5, <2>1 DEF SendOther, Packets
<1> QED
  BY <1>2, <1>3, <1>4, <1>5

\* What the network does.
LEMMA NetworkType ==
    ASSUME TypeOK, Lose \/ Double
    PROVE  TypeOK' /\ UNCHANGED <<recvVars, progress, intact>>
<1>1. channel \in Seq(Packet) /\ doubled \in 0 .. MaxDouble
  BY DEF TypeOK
<1>2. UNCHANGED <<next, recvVars, progress, intact>>
  BY DEF Lose, Double
<1>3. channel' \in Seq(Packet) /\ doubled' \in 0 .. MaxDouble
  <2>1. CASE Lose
    BY <1>1, <2>1, WithoutType DEF Lose
  <2>2. CASE Double
    <3>1. doubled' = doubled + 1 /\ doubled < MaxDouble
      BY <2>2 DEF Double
    <3>2. PICK i \in 1 .. Len(channel) : channel' = Append(channel, channel[i])
      BY <2>2 DEF Double
    <3> HIDE DEF Packet
    <3>3. channel' \in Seq(Packet)
      BY <1>1, <3>2
    <3> QED
      BY <1>1, <3>1, <3>3, SizesAssumption
  <2> QED
    BY <2>1, <2>2
<1> QED
  BY <1>2, <1>3 DEF TypeOK, recvVars

\* parse_nalu on a packet.
LEMMA ParseNaluType ==
    ASSUME TypeOK, ParseNalu
    PROVE  TypeOK'
<1>1. PICK p \in Packet : \/ ParseSingle(p)
                          \/ ParseStap(p)
                          \/ ParseFragment(p)
                          \/ ParseOther(p)
  BY ParseNaluCases
<1>2. /\ channel' \in Seq(Packet)
      /\ UNCHANGED <<next, doubled, out>>
  BY ParseNaluCases
<1>3. SUFFICES /\ nalu' \in [data : Seq(Piece), finish : BOOLEAN]
               /\ more' \in Seq(1 .. Units)
               /\ ready' \in BOOLEAN
               /\ progress' \in Piece \cup {Nothing}
               /\ intact' \in SUBSET (1 .. Units)
  BY <1>2 DEF TypeOK
<1>4. /\ nalu.data \in Seq(Piece) /\ nalu.finish \in BOOLEAN
      /\ nalu \in [data : Seq(Piece), finish : BOOLEAN]
      /\ intact \in SUBSET (1 .. Units)
  BY DEF TypeOK
<1>5. <<>> \in Seq(1 .. Units) /\ <<>> \in Seq(Piece)
  OBVIOUS
<1>6. CASE ParseSingle(p)
  <2>1. p.unit \in 1 .. Units
    BY <1>6, PacketFields DEF ParseSingle
  <2>2. Content(p.unit) \in Seq(Piece)
    BY <2>1, ContentType
  <2> QED
    BY <1>4, <1>5, <1>6, <2>1, <2>2, Zenon DEF ParseSingle, Parsed
<1>7. CASE ParseStap(p)
  <2>1. /\ p.units \in Seq(1 .. Units)
        /\ Head(p.units) \in 1 .. Units
        /\ Tail(p.units) \in Seq(1 .. Units)
    BY <1>7, PacketFields DEF ParseStap
  <2>2. Content(Head(p.units)) \in Seq(Piece)
    BY <2>1, ContentType
  <2>3. {p.units[i] : i \in 1 .. Len(p.units)} \in SUBSET (1 .. Units)
    <3>1. ASSUME NEW S, NEW us \in Seq(S)
          PROVE  {us[i] : i \in 1 .. Len(us)} \in SUBSET S
      OBVIOUS
    <3> QED
      BY <2>1, <3>1
  <2>4. /\ nalu' = [data |-> Content(Head(p.units)), finish |-> TRUE]
        /\ ready' = TRUE
        /\ more' = Tail(p.units)
        /\ progress' = Nothing
        /\ intact' = intact \cup {p.units[i] : i \in 1 .. Len(p.units)}
    BY <1>7, Zenon DEF ParseStap, Parsed
  <2>5. nalu' \in [data : Seq(Piece), finish : BOOLEAN] /\ ready' \in BOOLEAN
    BY <2>2, <2>4
  <2>6. intact' \in SUBSET (1 .. Units)
    BY <1>4, <2>3, <2>4, Zenon
  <2> QED
    BY <2>1, <2>4, <2>5, <2>6
<1>8. CASE ParseFragment(p)
  <2>1. p.unit \in 1 .. Units /\ p.part \in 1 .. Parts
    BY <1>8, PacketFields DEF ParseFragment
  <2>2. [unit |-> p.unit, part |-> p.part] \in Piece
    BY <2>1 DEF Piece
  <2>3. Append(nalu.data, [unit |-> p.unit, part |-> p.part]) \in Seq(Piece)
    <3> HIDE DEF Piece
    <3> QED
      BY <1>4, <2>2
  <2>4. Start(p) \in Seq(Piece)
    BY <2>1, ContentType DEF Start
  <2>5. (p.part = Parts \/ nalu.finish) \in BOOLEAN
    OBVIOUS
  <2>6. nalu' \in [data : Seq(Piece), finish : BOOLEAN] /\ ready' \in BOOLEAN
    <3>1. \/ nalu' = [data |-> Start(p), finish |-> FALSE] /\ ready' = FALSE
          \/ /\ nalu' = [data |-> Append(nalu.data,
                                   [unit |-> p.unit, part |-> p.part]),
                        finish |-> p.part = Parts \/ nalu.finish]
             /\ ready' = (p.part = Parts \/ nalu.finish)
          \/ nalu' = nalu /\ ready' = nalu.finish
      BY <1>8, Zenon DEF ParseFragment, Parsed
    <3>2. \A d \in Seq(Piece), b \in BOOLEAN :
             [data |-> d, finish |-> b] \in [data : Seq(Piece), finish : BOOLEAN]
      OBVIOUS
    <3> QED
      BY <1>4, <2>3, <2>4, <2>5, <3>1, <3>2, Zenon
  <2>7. progress' \in Piece \cup {Nothing}
    BY <1>8, <2>2, Zenon DEF ParseFragment
  <2>8. intact' \in SUBSET (1 .. Units)
    BY <1>4, <1>8, <2>1, Zenon DEF ParseFragment
  <2>9. more' = <<>>
    BY <1>8 DEF ParseFragment
  <2> QED
    BY <1>5, <2>6, <2>7, <2>8, <2>9
<1>9. CASE ParseOther(p)
  BY <1>4, <1>5, <1>9, Zenon DEF ParseOther, Empty
<1> QED
  BY <1>1, <1>6, <1>7, <1>8, <1>9

\* The application takes a unit, or asks for the next of a packet.
LEMMA ApplicationType ==
    ASSUME TypeOK, Take \/ ParseNaluStap
    PROVE  TypeOK'
<1>1. CASE Take
  <2>1. /\ UNCHANGED <<next, channel, doubled, more, progress, intact>>
        /\ ready' = FALSE
        /\ nalu' \in {nalu, Empty}
        /\ out' = Append(out, nalu.data)
    BY <1>1 DEF Take
  <2>2. Empty \in [data : Seq(Piece), finish : BOOLEAN]
    BY DEF Empty
  <2>3. nalu.data \in Seq(Piece) /\ out \in Seq(Seq(Piece))
    BY DEF TypeOK
  <2>4. out' \in Seq(Seq(Piece))
    <3> HIDE DEF Piece
    <3> QED
      BY <2>1, <2>3
  <2>5. nalu' \in [data : Seq(Piece), finish : BOOLEAN] /\ ready' \in BOOLEAN
    BY <2>1, <2>2 DEF TypeOK
  <2> QED
    BY <2>1, <2>4, <2>5 DEF TypeOK
<1>2. CASE ParseNaluStap
  <2>1. /\ UNCHANGED <<next, channel, doubled, out, progress, intact>>
        /\ more # <<>>
        /\ more' = Tail(more)
        /\ nalu' = [data |-> Content(Head(more)), finish |-> TRUE]
        /\ ready' = TRUE
    BY <1>2 DEF ParseNaluStap, Parsed
  <2>2. more \in Seq(1 .. Units)
    BY DEF TypeOK
  <2>3. Head(more) \in 1 .. Units /\ Tail(more) \in Seq(1 .. Units)
    BY <2>1, <2>2, NonEmptySeq
  <2>4. Content(Head(more)) \in Seq(Piece)
    BY <2>3, ContentType
  <2>5. nalu' \in [data : Seq(Piece), finish : BOOLEAN] /\ ready' \in BOOLEAN
    BY <2>1, <2>4
  <2> QED
    BY <2>1, <2>3, <2>5 DEF TypeOK
<1> QED
  BY <1>1, <1>2

LEMMA NextType == TypeOK /\ [Next]_vars => TypeOK'
<1> SUFFICES ASSUME TypeOK, [Next]_vars PROVE TypeOK'
  OBVIOUS
<1>1. CASE SendSingle \/ SendFragments \/ SendStap \/ SendOther
  BY <1>1, SendCases, PostType
<1>2. CASE Lose \/ Double
  BY <1>2, NetworkType
<1>3. CASE ParseNalu
  BY <1>3, ParseNaluType
<1>4. CASE Take \/ ParseNaluStap
  BY <1>4, ApplicationType
<1>5. CASE UNCHANGED vars
  BY <1>5 DEF TypeOK, vars, recvVars
<1> QED
  BY <1>1, <1>2, <1>3, <1>4, <1>5 DEF Next

\* Whatever the network does, what is put together is a sequence of pieces and
\* every field of the state keeps its type.
THEOREM TypeCorrect == Spec => []TypeOK
<1>1. Init => TypeOK
  BY InitType
<1>2. TypeOK /\ [Next]_vars => TypeOK'
  BY NextType
<1> QED
  BY <1>1, <1>2, PTL DEF Spec

-------------------------------------------------------------------------------
\* What is put together begins with a start, and is something if it is to be
\* taken or was finished before.
StartInv ==
    /\ nalu.data = <<>> \/ BeginsWithStart(nalu.data)
    /\ nalu.finish => nalu.data # <<>>
    /\ ready => nalu.finish
    /\ TakenFromStart

\* A whole unit and its first two pieces begin with a start.
LEMMA ContentBegins ==
    ASSUME NEW u \in 1 .. Units
    PROVE  /\ BeginsWithStart(Content(u))
           /\ BeginsWithStart(SubSeq(Content(u), 1, 2))
           /\ Content(u) # <<>>
           /\ SubSeq(Content(u), 1, 2) # <<>>
<1>1. Len(Content(u)) >= 2 /\ Content(u) # <<>>
  BY ContentType, SizesAssumption
<1>2. Len(SubSeq(Content(u), 1, 2)) >= 2 /\ SubSeq(Content(u), 1, 2) # <<>>
  <2>1. \A s : Len(s) = 2 => Len(s) >= 2 /\ s # <<>>
    OBVIOUS
  <2>2. Len(SubSeq(Content(u), 1, 2)) = 2
    BY ContentType
  <2> QED
    BY <2>1, <2>2
<1>3. BeginsWithStart(Content(u))
  BY <1>1, Zenon DEF BeginsWithStart
<1>4. BeginsWithStart(SubSeq(Content(u), 1, 2))
  BY <1>2, ContentType, Zenon DEF BeginsWithStart
<1> QED
  BY <1>1, <1>2, <1>3, <1>4

\* Another piece does not change how it begins.
LEMMA AppendBegins ==
    ASSUME NEW data \in Seq(Piece), NEW q \in Piece, BeginsWithStart(data)
    PROVE  BeginsWithStart(Append(data, q)) /\ Append(data, q) # <<>>
<1> HIDE DEF Piece
<1>1. Len(data) \in Nat /\ Len(data) >= 2
  BY DEF BeginsWithStart
<1>2. /\ Len(Append(data, q)) = Len(data) + 1
      /\ \A i \in 1 .. Len(data) : Append(data, q)[i] = data[i]
  BY <1>1
<1>3. Append(data, q)[1] = data[1] /\ Append(data, q)[2] = data[2]
  BY <1>1, <1>2
<1>4. Len(Append(data, q)) >= 2 /\ Append(data, q) # <<>>
  BY <1>1, <1>2
<1> QED
  BY <1>3, <1>4, Zenon DEF BeginsWithStart

\* What a fragment does to the structure.
LEMMA FragmentCases ==
    ASSUME NEW p, ParseFragment(p)
    PROVE  \/ /\ p.part = 1
              /\ nalu' = [data |-> Start(p), finish |-> FALSE]
              /\ ready' = FALSE
           \/ /\ p.part # 1 /\ nalu.data # <<>>
              /\ nalu' = [data |-> Append(nalu.data,
                                     [unit |-> p.unit, part |-> p.part]),
                          finish |-> p.part = Parts \/ nalu.finish]
              /\ ready' = (p.part = Parts \/ nalu.finish)
           \/ /\ p.part # 1 /\ nalu.data = <<>>
              /\ nalu' = nalu
              /\ ready' = nalu.finish
BY Zenon DEF ParseFragment, Parsed, Continues

LEMMA ParseNaluStart ==
    ASSUME TypeOK, StartInv, ParseNalu
    PROVE  StartInv'
<1>1. PICK p \in Packet : \/ ParseSingle(p)
                          \/ ParseStap(p)
                          \/ ParseFragment(p)
                          \/ ParseOther(p)
  BY ParseNaluCases
<1>2. UNCHANGED out
  BY ParseNaluCases
<1>3. SUFFICES /\ nalu'.data = <<>> \/ BeginsWithStart(nalu'.data)
               /\ nalu'.finish => nalu'.data # <<>>
               /\ ready' => nalu'.finish
  BY <1>2 DEF StartInv, TakenFromStart, BeginsWithStart, Content
<1>4. CASE ParseSingle(p)
  <2>1. p.unit \in 1 .. Units
    BY <1>4, PacketFields DEF ParseSingle
  <2>2. nalu' = [data |-> Content(p.unit), finish |-> TRUE]
    BY <1>4 DEF ParseSingle, Parsed
  <2> QED
    BY <2>1, <2>2, ContentBegins
<1>5. CASE ParseStap(p)
  <2>1. Head(p.units) \in 1 .. Units
    BY <1>5, PacketFields DEF ParseStap
  <2>2. nalu' = [data |-> Content(Head(p.units)), finish |-> TRUE]
    BY <1>5, Zenon DEF ParseStap, Parsed
  <2> QED
    BY <2>1, <2>2, ContentBegins
<1>6. CASE ParseFragment(p)
  <2>1. p.unit \in 1 .. Units /\ p.part \in 1 .. Parts
    BY <1>6, PacketFields DEF ParseFragment
  <2>2. nalu.data \in Seq(Piece)
    BY DEF TypeOK
  <2>3. CASE nalu' = [data |-> Start(p), finish |-> FALSE] /\ ready' = FALSE
    BY <2>1, <2>3, ContentBegins DEF Start
  <2>4. CASE /\ nalu.data # <<>>
             /\ nalu' = [data |-> Append(nalu.data,
                                    [unit |-> p.unit, part |-> p.part]),
                         finish |-> p.part = Parts \/ nalu.finish]
             /\ ready' = (p.part = Parts \/ nalu.finish)
    <3>1. BeginsWithStart(nalu.data)
      BY <2>4 DEF StartInv
    <3>2. [unit |-> p.unit, part |-> p.part] \in Piece
      BY <2>1 DEF Piece
    <3>3. BeginsWithStart(nalu'.data) /\ nalu'.data # <<>>
      BY <2>2, <2>4, <3>1, <3>2, AppendBegins
    <3>4. ready' = nalu'.finish
      BY <2>4, Zenon
    <3> QED
      BY <3>3, <3>4
  <2>5. CASE nalu' = nalu /\ ready' = nalu.finish
    BY <2>5 DEF StartInv
  <2> QED
    BY <1>6, <2>3, <2>4, <2>5, FragmentCases
<1>7. CASE ParseOther(p)
  BY <1>7 DEF ParseOther, Empty
<1> QED
  BY <1>1, <1>4, <1>5, <1>6, <1>7

LEMMA TakeStart ==
    ASSUME TypeOK, StartInv, Take
    PROVE  StartInv'
<1>1. /\ ready
      /\ ready' = FALSE
      /\ nalu' = nalu \/ nalu' = Empty
      /\ out' = Append(out, nalu.data)
  BY DEF Take
<1>2. BeginsWithStart(nalu.data)
  BY <1>1 DEF StartInv
<1>3. out \in Seq(Seq(Piece)) /\ nalu.data \in Seq(Piece)
  BY DEF TypeOK
<1>4. \A k \in 1 .. Len(out) : BeginsWithStart(out[k])
  BY DEF StartInv, TakenFromStart
<1>5. /\ Len(out') = Len(out) + 1
      /\ Len(out) \in Nat
      /\ \A k \in 1 .. Len(out) : out'[k] = out[k]
      /\ out'[Len(out) + 1] = nalu.data
  BY <1>1, <1>3
<1>6. ASSUME NEW k \in 1 .. Len(out') PROVE BeginsWithStart(out'[k])
  <2>1. CASE k \in 1 .. Len(out)
    BY <1>4, <1>5, <2>1
  <2>2. CASE k = Len(out) + 1
    BY <1>2, <1>5, <2>2
  <2> QED
    BY <1>5, <2>1, <2>2
<1>7. nalu' = Empty => nalu'.data = <<>> /\ nalu'.finish = FALSE
  BY DEF Empty
<1>8. \/ nalu'.data = <<>> /\ nalu'.finish = FALSE
      \/ nalu' = nalu
  BY <1>1, <1>7
<1>9. /\ nalu'.data = <<>> \/ BeginsWithStart(nalu'.data)
      /\ nalu'.finish => nalu'.data # <<>>
  BY <1>8 DEF StartInv
<1>10. TakenFromStart'
  BY <1>6 DEF TakenFromStart, BeginsWithStart, Content
<1> QED
  BY <1>1, <1>9, <1>10 DEF StartInv, BeginsWithStart, Content

\* The steps that leave what is put together, and what was taken, alone.
LEMMA StartStutter ==
    ASSUME StartInv, UNCHANGED <<nalu, ready, out>>
    PROVE  StartInv'
BY DEF StartInv, TakenFromStart, BeginsWithStart, Content

\* Whatever the network loses, doubles and reorders, and whether or not the
\* application clears the structure, no unit is taken that begins in its
\* middle.
THEOREM NoHeadlessUnit == Spec => []TakenFromStart
<1>1. Init => TypeOK /\ StartInv
  <2> SUFFICES ASSUME Init PROVE StartInv
    BY InitType
  <2>1. nalu.data = <<>> /\ nalu.finish = FALSE /\ ready = FALSE /\ out = <<>>
    BY DEF Init, Empty
  <2> QED
    BY <2>1 DEF StartInv, TakenFromStart
<1>2. TypeOK /\ StartInv /\ [Next]_vars => StartInv'
  <2> SUFFICES ASSUME TypeOK, StartInv, [Next]_vars PROVE StartInv'
    OBVIOUS
  <2>1. CASE SendSingle \/ SendFragments \/ SendStap \/ SendOther
    <3>1. UNCHANGED recvVars
      BY <2>1, SendCases DEF Post
    <3> QED
      BY <3>1, StartStutter DEF recvVars
  <2>2. CASE Lose \/ Double
    BY <2>2, NetworkType, StartStutter DEF recvVars
  <2>3. CASE ParseNalu
    BY <2>3, ParseNaluStart
  <2>4. CASE Take
    BY <2>4, TakeStart
  <2>5. CASE ParseNaluStap
    <3>1. /\ UNCHANGED out
          /\ nalu' = [data |-> Content(Head(more)), finish |-> TRUE]
          /\ more # <<>>
      BY <2>5 DEF ParseNaluStap, Parsed
    <3>2. Head(more) \in 1 .. Units
      BY <3>1, NonEmptySeq DEF TypeOK
    <3>3. BeginsWithStart(Content(Head(more))) /\ Content(Head(more)) # <<>>
      BY <3>2, ContentBegins
    <3>4. BeginsWithStart(nalu'.data) /\ nalu'.data # <<>> /\ nalu'.finish
      BY <3>1, <3>3
    <3> QED
      BY <3>1, <3>4 DEF StartInv, TakenFromStart, BeginsWithStart, Content
  <2>6. CASE UNCHANGED vars
    BY <2>6, StartStutter DEF vars, recvVars
  <2> QED
    BY <2>1, <2>2, <2>3, <2>4, <2>5, <2>6 DEF Next
<1>3. TypeOK /\ StartInv => TakenFromStart
  BY DEF StartInv
<1> QED
  BY <1>1, <1>2, <1>3, NextType, PTL DEF Spec

-------------------------------------------------------------------------------
Taken(u) == \E k \in 1 .. Len(out) : out[k] = Content(u)

\* Some fragments of a unit have come in without a break, not all of them.
Partial == progress.part \in 1 .. Parts - 1

PartialInv ==
    /\ progress = Nothing \/ progress.part \in 1 .. Parts
    /\ Partial => /\ nalu.data = SubSeq(Content(progress.unit), 1, progress.part + 1)
                  /\ nalu.finish = FALSE
    /\ more # <<>> => progress = Nothing
    /\ ready => nalu.finish

\* A unit that came in whole is taken, is what is finished, or is behind the
\* offset returned.
IntactInv ==
    /\ PartialInv
    /\ \A u \in intact :
         \/ Taken(u)
         \/ ready /\ nalu.data = Content(u)
         \/ \E j \in 1 .. Len(more) : more[j] = u

\* The first part + 1 pieces of a unit and its next piece.
LEMMA ContentGrows ==
    ASSUME NEW u \in 1 .. Units, NEW n \in 1 .. Parts
    PROVE  Append(SubSeq(Content(u), 1, n), [unit |-> u, part |-> n])
             = SubSeq(Content(u), 1, n + 1)
<1>1. /\ Content(u) \in Seq(Piece) /\ Len(Content(u)) = Parts + 1
      /\ Content(u)[n + 1] = [unit |-> u, part |-> n]
      /\ Parts \in Nat
  <2>1. n + 1 \in 1 .. Parts + 1 /\ n + 1 - 1 = n
    BY SizesAssumption
  <2>2. Content(u)[n + 1] = [unit |-> u, part |-> n]
    BY <2>1 DEF Content
  <2> QED
    BY <2>2, ContentType, SizesAssumption
<1>2. ASSUME NEW S, NEW s \in Seq(S), NEW k \in Nat, k + 1 <= Len(s)
      PROVE  Append(SubSeq(s, 1, k), s[k + 1]) = SubSeq(s, 1, k + 1)
  OBVIOUS
<1> HIDE DEF Content, Piece
<1> QED
  BY <1>1, <1>2

LEMMA ContentWhole ==
    ASSUME NEW u \in 1 .. Units
    PROVE  SubSeq(Content(u), 1, Parts + 1) = Content(u)
<1>1. Content(u) \in Seq(Piece) /\ Len(Content(u)) = Parts + 1
  BY ContentType
<1>2. ASSUME NEW S, NEW s \in Seq(S) PROVE SubSeq(s, 1, Len(s)) = s
  OBVIOUS
<1> HIDE DEF Content, Piece
<1> QED
  BY <1>1, <1>2

\* A fragment that comes in without a break is the start of its unit, or adds
\* to the first pieces of it.
LEMMA FragmentInSequence ==
    ASSUME TypeOK, PartialInv, NEW p \in Packet, ParseFragment(p), InSequence(p)
    PROVE  /\ progress' = [unit |-> p.unit, part |-> p.part]
           /\ p.part < Parts =>
                /\ nalu' = [data   |-> SubSeq(Content(p.unit), 1, p.part + 1),
                            finish |-> FALSE]
                /\ ready' = FALSE
           /\ p.part = Parts =>
                /\ nalu' = [data |-> Content(p.unit), finish |-> TRUE]
                /\ ready' = TRUE
                /\ Partial /\ progress.unit = p.unit
<1>1. p.unit \in 1 .. Units /\ p.part \in 1 .. Parts
  BY PacketFields DEF ParseFragment
<1>2. progress' = [unit |-> p.unit, part |-> p.part]
  BY Zenon DEF ParseFragment
<1>3. CASE p.part = 1
  <2>1. nalu' = [data |-> SubSeq(Content(p.unit), 1, 2), finish |-> FALSE]
        /\ ready' = FALSE
    BY <1>3, FragmentCases DEF Start
  <2> QED
    BY <1>2, <1>3, <2>1, SizesAssumption
<1>4. CASE p.part # 1
  <2>1. progress = [unit |-> p.unit, part |-> p.part - 1]
    BY <1>4 DEF InSequence
  <2>2. Partial /\ progress.unit = p.unit /\ progress.part = p.part - 1
    BY <1>1, <1>4, <2>1, SizesAssumption DEF Partial
  <2>3. p.part - 1 + 1 = p.part
    BY <1>1
  <2>4. nalu.data = SubSeq(Content(p.unit), 1, p.part) /\ nalu.finish = FALSE
    BY <2>2, <2>3 DEF PartialInv
  <2>5. SubSeq(Content(p.unit), 1, p.part) # <<>>
    <3>1. Content(p.unit) \in Seq(Piece) /\ Len(Content(p.unit)) = Parts + 1
      BY <1>1, ContentType
    <3>2. ASSUME NEW S, NEW s \in Seq(S), NEW k \in 1 .. Len(s)
          PROVE  SubSeq(s, 1, k) # <<>>
      OBVIOUS
    <3>3. p.part \in 1 .. Len(Content(p.unit))
      BY <1>1, <3>1, SizesAssumption
    <3> QED
      BY <3>1, <3>2, <3>3
  <2>6. /\ nalu' = [data |-> Append(nalu.data, [unit |-> p.unit, part |-> p.part]),
                    finish |-> p.part = Parts \/ nalu.finish]
        /\ ready' = (p.part = Parts \/ nalu.finish)
    BY <1>4, <2>4, <2>5, FragmentCases
  <2>7. nalu' = [data   |-> SubSeq(Content(p.unit), 1, p.part + 1),
                 finish |-> p.part = Parts]
        /\ ready' = (p.part = Parts)
    BY <1>1, <2>4, <2>6, ContentGrows
  <2>8. p.part < Parts => (p.part = Parts) = FALSE
    BY <1>1, SizesAssumption
  <2>9. p.part = Parts => nalu' = [data |-> Content(p.unit), finish |-> TRUE]
                          /\ ready' = TRUE
    BY <1>1, <2>7, ContentWhole
  <2>10. p.part < Parts =>
            /\ nalu' = [data   |-> SubSeq(Content(p.unit), 1, p.part + 1),
                        finish |-> FALSE]
            /\ ready' = FALSE
    BY <2>7, <2>8
  <2> QED
    BY <1>2, <2>2, <2>9, <2>10
<1> QED
  BY <1>3, <1>4

\* A fragment out of sequence leaves no unit partly received.
LEMMA FragmentOutOfSequence ==
    ASSUME NEW p, ParseFragment(p), ~InSequence(p)
    PROVE  progress' = Nothing /\ intact' = intact /\ (ready' => nalu'.finish)
<1>1. progress' = Nothing /\ intact' = intact
  BY Zenon DEF ParseFragment
<1>2. ready' => nalu'.finish
  <2>1. CASE nalu' = [data |-> Start(p), finish |-> FALSE] /\ ready' = FALSE
    BY <2>1
  <2>2. CASE /\ nalu' = [data |-> Append(nalu.data,
                                    [unit |-> p.unit, part |-> p.part]),
                         finish |-> p.part = Parts \/ nalu.finish]
             /\ ready' = (p.part = Parts \/ nalu.finish)
    <3>1. nalu'.finish = (p.part = Parts \/ nalu.finish)
      BY <2>2, Zenon
    <3> QED
      BY <2>2, <3>1, Zenon
  <2>3. CASE nalu' = nalu /\ ready' = nalu.finish
    BY <2>3
  <2> QED
    BY <2>1, <2>2, <2>3, FragmentCases, Zenon
<1> QED
  BY <1>1, <1>2

LEMMA NothingPartial == Nothing.part \notin 1 .. Parts - 1
BY DEF Nothing

LEMMA ParseNaluPartial ==
    ASSUME TypeOK, PartialInv, ParseNalu
    PROVE  PartialInv'
<1>1. PICK p \in Packet : \/ ParseSingle(p)
                          \/ ParseStap(p)
                          \/ ParseFragment(p)
                          \/ ParseOther(p)
  BY ParseNaluCases
<1>2. CASE ParseSingle(p)
  BY <1>2, NothingPartial DEF ParseSingle, Parsed, PartialInv, Partial
<1>3. CASE ParseStap(p)
  <2>1. progress' = Nothing /\ nalu'.finish
    BY <1>3, Zenon DEF ParseStap, Parsed
  <2> QED
    BY <2>1, NothingPartial DEF PartialInv, Partial
<1>4. CASE ParseFragment(p)
  <2>0. p.unit \in 1 .. Units /\ p.part \in 1 .. Parts
    BY <1>4, PacketFields DEF ParseFragment
  <2>1. more' = <<>>
    BY <1>4, Zenon DEF ParseFragment
  <2>2. CASE InSequence(p)
    <3>1. progress' = [unit |-> p.unit, part |-> p.part]
      BY <1>4, <2>2, FragmentInSequence
    <3>2. CASE p.part < Parts
      <4>1. /\ nalu' = [data   |-> SubSeq(Content(p.unit), 1, p.part + 1),
                        finish |-> FALSE]
            /\ ready' = FALSE
        BY <1>4, <2>2, <3>2, FragmentInSequence
      <4>2. nalu'.data = SubSeq(Content(progress'.unit), 1, progress'.part + 1)
            /\ nalu'.finish = FALSE
        BY <3>1, <4>1
      <4>3. progress' = Nothing \/ progress'.part \in 1 .. Parts
        BY <2>0, <3>1
      <4>4. ready' => nalu'.finish
        BY <4>1
      <4>5. more' # <<>> => progress' = Nothing
        BY <2>1
      <4>6. /\ nalu'.data = SubSeq(Content(progress.unit), 1, progress.part + 1)'
            /\ nalu'.finish = FALSE
        BY <4>2 DEF Content
      <4> QED
        BY <4>3, <4>4, <4>5, <4>6, Zenon DEF PartialInv
    <3>3. CASE p.part = Parts
      <4>1. nalu'.finish
        <5>1. nalu' = [data |-> Content(p.unit), finish |-> TRUE]
          BY <1>4, <2>2, <3>3, FragmentInSequence, Zenon
        <5> QED
          BY <5>1
      <4>2. ~Partial'
        BY <3>1, <3>3, SizesAssumption DEF Partial
      <4> QED
        BY <2>0, <2>1, <3>1, <4>1, <4>2 DEF PartialInv
    <3> QED
      BY <2>0, <3>2, <3>3, SizesAssumption
  <2>3. CASE ~InSequence(p)
    <3>1. progress' = Nothing /\ (ready' => nalu'.finish)
      BY <1>4, <2>3, FragmentOutOfSequence
    <3> QED
      BY <2>1, <3>1, NothingPartial DEF PartialInv, Partial
  <2> QED
    BY <2>2, <2>3
<1>5. CASE ParseOther(p)
  <2>1. progress' = Nothing /\ ready' = FALSE
    BY <1>5 DEF ParseOther
  <2> QED
    BY <2>1, NothingPartial DEF PartialInv, Partial
<1> QED
  BY <1>1, <1>2, <1>3, <1>4, <1>5

\* The steps that only the application or the network takes.
LEMMA OtherPartial ==
    ASSUME TypeOK, PartialInv, Take \/ ParseNaluStap \/ UNCHANGED <<recvVars, progress>>
    PROVE  PartialInv'
<1>1. CASE Take
  <2>1. /\ ready /\ ready' = FALSE
        /\ UNCHANGED <<more, progress>>
    BY <1>1 DEF Take
  <2>2. ~Partial
    <3>1. nalu.finish
      BY <2>1 DEF PartialInv
    <3>2. nalu.finish = FALSE => FALSE
      BY <3>1
    <3> QED
      BY <3>2, Zenon DEF PartialInv
  <2>3. ~Partial'
    BY <2>1, <2>2 DEF Partial
  <2> QED
    BY <2>1, <2>3 DEF PartialInv
<1>2. CASE ParseNaluStap
  <2>1. /\ more # <<>>
        /\ nalu' = [data |-> Content(Head(more)), finish |-> TRUE]
        /\ UNCHANGED progress
    BY <1>2, Zenon DEF ParseNaluStap, Parsed
  <2>2. progress' = Nothing
    BY <2>1 DEF PartialInv
  <2>3. ~Partial'
    BY <2>2, NothingPartial DEF Partial
  <2>4. nalu'.finish
    BY <2>1
  <2> QED
    BY <2>2, <2>3, <2>4 DEF PartialInv
<1>3. CASE UNCHANGED <<recvVars, progress>>
  BY <1>3 DEF PartialInv, Partial, recvVars, Content
<1> QED
  BY <1>1, <1>2, <1>3

LEMMA ParseNaluIntact ==
    ASSUME TypeOK, IntactInv, ParseNalu
    PROVE  \A u \in intact' :
             \/ Taken(u)'
             \/ ready' /\ nalu'.data = Content(u)
             \/ \E j \in 1 .. Len(more') : more'[j] = u
<1>1. PICK p \in Packet : \/ ParseSingle(p)
                          \/ ParseStap(p)
                          \/ ParseFragment(p)
                          \/ ParseOther(p)
  BY ParseNaluCases
<1>2. /\ ~ready /\ more = <<>>
      /\ UNCHANGED out
  BY ParseNaluCases
<1>3. \A u \in intact : Taken(u)'
  <2>1. \A j \in 1 .. Len(<<>>) : FALSE
    OBVIOUS
  <2>2. \A u \in intact : Taken(u)
    BY <1>2, <2>1 DEF IntactInv
  <2> QED
    BY <1>2, <2>2 DEF Taken, Content
<1>4. CASE ParseSingle(p)
  <2>1. /\ nalu' = [data |-> Content(p.unit), finish |-> TRUE]
        /\ ready' = TRUE
        /\ intact' = intact \cup {p.unit}
    BY <1>4, Zenon DEF ParseSingle, Parsed
  <2> QED
    BY <1>3, <2>1
<1>5. CASE ParseStap(p)
  <2>1. /\ nalu' = [data |-> Content(Head(p.units)), finish |-> TRUE]
        /\ ready' = TRUE
        /\ more' = Tail(p.units)
        /\ intact' = intact \cup {p.units[i] : i \in 1 .. Len(p.units)}
    BY <1>5, Zenon DEF ParseStap, Parsed
  <2>2. p.units \in Seq(1 .. Units) /\ p.units # <<>>
    BY <1>5, PacketFields DEF ParseStap
  <2>3. ASSUME NEW S, NEW us \in Seq(S), us # <<>>, NEW i \in 1 .. Len(us)
        PROVE  us[i] = Head(us) \/ \E j \in 1 .. Len(Tail(us)) : Tail(us)[j] = us[i]
    <3>1. CASE i = 1
      BY <3>1
    <3>2. CASE i # 1
      <4>1. i - 1 \in 1 .. Len(Tail(us)) /\ Tail(us)[i - 1] = us[i]
        BY <3>2
      <4> QED
        BY <4>1
    <3> QED
      BY <3>1, <3>2
  <2>4. ASSUME NEW i \in 1 .. Len(p.units)
        PROVE  \/ ready' /\ nalu'.data = Content(p.units[i])
               \/ \E j \in 1 .. Len(more') : more'[j] = p.units[i]
    <3>1. \/ p.units[i] = Head(p.units)
          \/ \E j \in 1 .. Len(Tail(p.units)) : Tail(p.units)[j] = p.units[i]
      BY <2>2, <2>3
    <3>2. CASE p.units[i] = Head(p.units)
      <4>1. nalu'.data = Content(Head(p.units))
        BY <2>1
      <4> QED
        BY <2>1, <3>2, <4>1, Zenon
    <3> QED
      BY <2>1, <3>1, <3>2, Zenon
  <2>5. ASSUME NEW u \in intact'
        PROVE  u \in intact \/ \E i \in 1 .. Len(p.units) : u = p.units[i]
    BY <2>1
  <2>6. ASSUME NEW u \in intact', NEW i \in 1 .. Len(p.units), u = p.units[i]
        PROVE  \/ ready' /\ nalu'.data = Content(u)
               \/ \E j \in 1 .. Len(more') : more'[j] = u
    BY <2>4, <2>6
  <2> QED
    BY <1>3, <2>5, <2>6
<1>6. CASE ParseFragment(p)
  <2>1. intact' = intact \/ (InSequence(p) /\ p.part = Parts /\ intact' = intact \cup {p.unit})
    BY <1>6, Zenon DEF ParseFragment
  <2>2. CASE InSequence(p) /\ p.part = Parts /\ intact' = intact \cup {p.unit}
    <3>1. /\ nalu' = [data |-> Content(p.unit), finish |-> TRUE]
          /\ ready' = TRUE
      BY <1>6, <2>2, FragmentInSequence, Zenon DEF IntactInv
    <3>2. nalu'.data = Content(p.unit)
      BY <3>1
    <3> QED
      BY <1>3, <2>2, <3>1, <3>2, Zenon
  <2> QED
    BY <1>3, <2>1, <2>2, Zenon
<1>7. CASE ParseOther(p)
  BY <1>3, <1>7, Zenon DEF ParseOther
<1> QED
  BY <1>1, <1>4, <1>5, <1>6, <1>7

LEMMA ApplicationIntact ==
    ASSUME TypeOK, IntactInv, Take \/ ParseNaluStap
    PROVE  \A u \in intact' :
             \/ Taken(u)'
             \/ ready' /\ nalu'.data = Content(u)
             \/ \E j \in 1 .. Len(more') : more'[j] = u
<1>1. \A u \in intact :
         \/ Taken(u)
         \/ ready /\ nalu.data = Content(u)
         \/ \E j \in 1 .. Len(more) : more[j] = u
  BY Zenon DEF IntactInv
<1>2. CASE Take
  <2>1. /\ out' = Append(out, nalu.data)
        /\ UNCHANGED <<more, intact>>
    BY <1>2 DEF Take
  <2>2. out \in Seq(Seq(Piece)) /\ nalu.data \in Seq(Piece)
    BY DEF TypeOK
  <2>3. ASSUME NEW S, NEW s \in Seq(S), NEW e \in S
        PROVE  /\ \A k \in 1 .. Len(s) : /\ k \in 1 .. Len(Append(s, e))
                                         /\ Append(s, e)[k] = s[k]
               /\ \E k \in 1 .. Len(Append(s, e)) : Append(s, e)[k] = e
    <3>1. /\ Len(s) + 1 \in 1 .. Len(Append(s, e))
          /\ Append(s, e)[Len(s) + 1] = e
      OBVIOUS
    <3> QED
      BY <3>1
  <2>4. /\ \A k \in 1 .. Len(out) : k \in 1 .. Len(out') /\ out'[k] = out[k]
        /\ \E k \in 1 .. Len(out') : out'[k] = nalu.data
    <3> DEFINE T == Seq(Piece)
    <3>1. out \in Seq(T) /\ nalu.data \in T
      BY <2>2
    <3> HIDE DEF T
    <3> QED
      BY <2>1, <2>3, <3>1
  <2>5. ASSUME NEW u, Taken(u) \/ nalu.data = Content(u) PROVE Taken(u)'
    BY <2>4, <2>5, Zenon DEF Taken, Content
  <2> QED
    BY <1>1, <2>1, <2>5, Zenon
<1>3. CASE ParseNaluStap
  <2>1. /\ ~ready
        /\ more # <<>>
        /\ nalu' = [data |-> Content(Head(more)), finish |-> TRUE]
        /\ ready' = TRUE
        /\ more' = Tail(more)
        /\ UNCHANGED <<out, intact>>
    BY <1>3, Zenon DEF ParseNaluStap, Parsed
  <2>2. \A u : Taken(u) => Taken(u)'
    BY <2>1 DEF Taken, Content
  <2>3. nalu'.data = Content(Head(more))
    BY <2>1
  <2>4. more \in Seq(1 .. Units)
    BY DEF TypeOK
  <2>5. ASSUME NEW j \in 1 .. Len(more)
        PROVE  \/ more[j] = Head(more)
               \/ \E i \in 1 .. Len(more') : more'[i] = more[j]
    <3>1. CASE j = 1
      BY <2>1, <2>4, <3>1, NonEmptySeq
    <3>2. CASE j # 1
      <4>1. j - 1 \in 1 .. Len(more') /\ j - 1 \in 1 .. Len(more) - 1 /\ j - 1 + 1 = j
        BY <2>1, <2>4, <3>2, NonEmptySeq
      <4>2. more'[j - 1] = more[j]
        BY <2>1, <2>4, <4>1, NonEmptySeq
      <4> QED
        BY <4>1, <4>2
    <3> QED
      BY <3>1, <3>2
  <2>6. ASSUME NEW u \in intact
        PROVE  Taken(u) \/ \E j \in 1 .. Len(more) : more[j] = u
    BY <1>1, <2>1
  <2>7. ASSUME NEW u, NEW j \in 1 .. Len(more), more[j] = u
        PROVE  \/ ready' /\ nalu'.data = Content(u)
               \/ \E i \in 1 .. Len(more') : more'[i] = u
    BY <2>1, <2>3, <2>5, <2>7, Zenon
  <2>8. intact' = intact
    BY <2>1
  <2> QED
    BY <2>2, <2>6, <2>7, <2>8, Zenon
<1> QED
  BY <1>2, <1>3

LEMMA IntactStep == TypeOK /\ IntactInv /\ [Next]_vars => IntactInv'
<1> SUFFICES ASSUME TypeOK, IntactInv, [Next]_vars PROVE IntactInv'
  OBVIOUS
<1>0. PartialInv
  BY DEF IntactInv
<1>1. CASE UNCHANGED <<recvVars, progress, intact>>
  <2>1. PartialInv'
    BY <1>0, <1>1, OtherPartial
  <2> QED
    BY <1>1, <2>1 DEF IntactInv, Taken, Content, recvVars
<1>2. CASE ParseNalu
  BY <1>0, <1>2, ParseNaluPartial, ParseNaluIntact, Zenon DEF IntactInv, Content
<1>3. CASE Take \/ ParseNaluStap
  BY <1>0, <1>3, OtherPartial, ApplicationIntact, Zenon DEF IntactInv, Content
<1>4. CASE SendSingle \/ SendFragments \/ SendStap \/ SendOther
  BY <1>1, <1>4, SendCases DEF Post
<1>5. CASE Lose \/ Double
  BY <1>1, <1>5, NetworkType
<1>6. CASE UNCHANGED vars
  BY <1>1, <1>6 DEF vars
<1> QED
  BY <1>2, <1>3, <1>4, <1>5, <1>6 DEF Next

\* Whatever came in before, and whether or not the application clears the
\* structure, a unit whose packets come in without a break is taken as sent.
THEOREM IntactUnitsTaken == Spec => []IntactTaken
<1>1. Init => TypeOK /\ IntactInv
  <2> SUFFICES ASSUME Init PROVE IntactInv
    BY InitType
  <2>1. progress = Nothing /\ more = <<>> /\ ready = FALSE /\ intact = {}
    BY DEF Init
  <2> QED
    BY <2>1, NothingPartial DEF IntactInv, PartialInv, Partial
<1>2. IntactInv => IntactTaken
  <2> SUFFICES ASSUME IntactInv, ~ready, more = <<>>, NEW u \in intact
               PROVE  \E k \in 1 .. Len(out) : out[k] = Content(u)
    BY DEF IntactTaken
  <2>1. \A j \in 1 .. Len(<<>>) : FALSE
    OBVIOUS
  <2> QED
    BY <2>1 DEF IntactInv, Taken
<1> QED
  BY <1>1, <1>2, NextType, IntactStep, PTL DEF Spec

-------------------------------------------------------------------------------
(* Over TCP: the packets on their way lead from what has come in to what   *)
(* has been sent.  A position is the number of units that are complete and *)
(* of the fragments of the next one.                                       *)
Position(n) == [unit : 0 .. n - 1, part : 0 .. Parts - 1]

At(u) == [unit |-> u, part |-> 0]

\* The packet p leads from position a to position b.
Carries(p, a, b) ==
    /\ p.kind = "single" => a = At(p.unit - 1) /\ b = At(p.unit)
    /\ p.kind = "stap" => /\ a.part = 0
                          /\ b = At(a.unit + Len(p.units))
                          /\ \A i \in 1 .. Len(p.units) : p.units[i] = a.unit + i
    /\ p.kind = "fu" => /\ a = [unit |-> p.unit - 1, part |-> p.part - 1]
                        /\ b = IF p.part = Parts
                                 THEN At(p.unit)
                                 ELSE [unit |-> p.unit - 1, part |-> p.part]
    /\ p.kind = "other" => a.part = 0 /\ b = a

\* The packets ch lead from a to b.
Leads(ch, a, b, n) ==
    \E pos \in [0 .. Len(ch) -> Position(n)] :
        /\ pos[0] = a
        /\ pos[Len(ch)] = b
        /\ \A i \in 1 .. Len(ch) : Carries(ch[i], pos[i - 1], pos[i])

LEMMA LeadsEnds ==
    ASSUME NEW S, NEW ch \in Seq(S), NEW a, NEW b, NEW n, Leads(ch, a, b, n)
    PROVE  a \in Position(n)
<1>1. Len(ch) \in Nat
  OBVIOUS
<1>2. 0 \in 0 .. Len(ch)
  BY <1>1
<1> HIDE DEF Position
<1> QED
  BY <1>2 DEF Leads

LEMMA LeadsEmpty ==
    ASSUME NEW n, NEW a \in Position(n)
    PROVE  Leads(<<>>, a, a, n)
<1> DEFINE pos == [i \in 0 .. Len(<<>>) |-> a]
<1>1. Len(<<>>) = 0
  OBVIOUS
<1>2. /\ pos \in [0 .. Len(<<>>) -> Position(n)]
      /\ pos[0] = a /\ pos[Len(<<>>)] = a
      /\ \A i \in 1 .. Len(<<>>) : Carries(<<>>[i], pos[i - 1], pos[i])
  BY <1>1
<1> HIDE DEF pos
<1> QED
  BY <1>2 DEF Leads

LEMMA LeadsOne ==
    ASSUME NEW p, NEW n, NEW a \in Position(n), NEW b \in Position(n), Carries(p, a, b)
    PROVE  Leads(<<p>>, a, b, n)
<1> DEFINE pos == [i \in 0 .. Len(<<p>>) |-> IF i = 0 THEN a ELSE b]
<1>1. Len(<<p>>) = 1 /\ <<p>>[1] = p
  OBVIOUS
<1>2. pos \in [0 .. Len(<<p>>) -> Position(n)]
  OBVIOUS
<1>3. pos[0] = a /\ pos[1] = b
  BY <1>1
<1>4. ASSUME NEW i \in 1 .. Len(<<p>>)
      PROVE  Carries(<<p>>[i], pos[i - 1], pos[i])
  <2>1. i = 1 /\ i - 1 = 0
    BY <1>1
  <2> HIDE DEF pos, Carries
  <2> QED
    BY <1>1, <1>3, <2>1
<1> HIDE DEF pos
<1> QED
  BY <1>1, <1>2, <1>3, <1>4 DEF Leads

\* The first packet leads to where the others start.
LEMMA LeadsTail ==
    ASSUME NEW S, NEW ch \in Seq(S), ch # <<>>,
           NEW a, NEW b, NEW n, Leads(ch, a, b, n)
    PROVE  \E c \in Position(n) : Carries(ch[1], a, c) /\ Leads(Tail(ch), c, b, n)
<1> HIDE DEF Position
<1>1. /\ Len(ch) \in Nat \ {0}
      /\ Len(Tail(ch)) = Len(ch) - 1
      /\ \A i \in 1 .. Len(ch) - 1 : Tail(ch)[i] = ch[i + 1]
  OBVIOUS
<1>2. PICK pos \in [0 .. Len(ch) -> Position(n)] :
        /\ pos[0] = a
        /\ pos[Len(ch)] = b
        /\ \A i \in 1 .. Len(ch) : Carries(ch[i], pos[i - 1], pos[i])
  BY DEF Leads
<1> DEFINE q == [i \in 0 .. Len(Tail(ch)) |-> pos[i + 1]]
<1>3. q \in [0 .. Len(Tail(ch)) -> Position(n)]
  BY <1>1
<1>4. q[0] = pos[1] /\ q[Len(Tail(ch))] = b
  BY <1>1, <1>2
<1>5. ASSUME NEW i \in 1 .. Len(Tail(ch))
      PROVE  Carries(Tail(ch)[i], q[i - 1], q[i])
  <2>1. /\ i + 1 \in 1 .. Len(ch) /\ i + 1 - 1 = i
        /\ Tail(ch)[i] = ch[i + 1]
        /\ q[i - 1] = pos[i] /\ q[i] = pos[i + 1]
    BY <1>1
  <2>2. Carries(ch[i + 1], pos[i + 1 - 1], pos[i + 1])
    BY <1>2, <2>1
  <2> HIDE DEF q
  <2> QED
    BY <2>1, <2>2
<1>6. Leads(Tail(ch), pos[1], b, n)
  <2> HIDE DEF q
  <2> QED
    BY <1>3, <1>4, <1>5 DEF Leads
<1>7. pos[1] \in Position(n) /\ Carries(ch[1], a, pos[1])
  <2>1. 1 \in 1 .. Len(ch) /\ 1 \in 0 .. Len(ch) /\ 1 - 1 = 0
    BY <1>1
  <2> QED
    BY <1>2, <2>1
<1> QED
  BY <1>6, <1>7

\* Packets behind packets.
LEMMA LeadsConcat ==
    ASSUME NEW S, NEW ch \in Seq(S), NEW ps \in Seq(S), NEW a, NEW b, NEW c,
           NEW n, NEW m, Position(n) \subseteq Position(m),
           Leads(ch, a, b, n), Leads(ps, b, c, m)
    PROVE  Leads(ch \o ps, a, c, m)
<1> HIDE DEF Position
<1>1. /\ Len(ch) \in Nat /\ Len(ps) \in Nat
      /\ Len(ch \o ps) = Len(ch) + Len(ps)
      /\ \A i \in 1 .. Len(ch) : (ch \o ps)[i] = ch[i]
      /\ \A i \in 1 .. Len(ps) : (ch \o ps)[Len(ch) + i] = ps[i]
  OBVIOUS
<1>2. PICK f \in [0 .. Len(ch) -> Position(n)] :
        /\ f[0] = a
        /\ f[Len(ch)] = b
        /\ \A i \in 1 .. Len(ch) : Carries(ch[i], f[i - 1], f[i])
  BY DEF Leads
<1>3. PICK g \in [0 .. Len(ps) -> Position(m)] :
        /\ g[0] = b
        /\ g[Len(ps)] = c
        /\ \A i \in 1 .. Len(ps) : Carries(ps[i], g[i - 1], g[i])
  BY DEF Leads
<1> DEFINE q == [i \in 0 .. Len(ch \o ps) |->
                   IF i <= Len(ch) THEN f[i] ELSE g[i - Len(ch)]]
<1>4. q \in [0 .. Len(ch \o ps) -> Position(m)]
  <2>1. ASSUME NEW i \in 0 .. Len(ch \o ps)
        PROVE  (IF i <= Len(ch) THEN f[i] ELSE g[i - Len(ch)]) \in Position(m)
    <3>1. CASE i <= Len(ch)
      BY <1>1, <3>1
    <3>2. CASE ~(i <= Len(ch))
      <4>1. i - Len(ch) \in 0 .. Len(ps)
        BY <1>1, <3>2
      <4> QED
        BY <3>2, <4>1
    <3> QED
      BY <3>1, <3>2
  <2> QED
    BY <2>1
<1>5. \A i \in 0 .. Len(ch) : q[i] = f[i]
  BY <1>1
<1>6. \A i \in 0 .. Len(ps) : q[Len(ch) + i] = g[i]
  <2> SUFFICES ASSUME NEW i \in 0 .. Len(ps) PROVE q[Len(ch) + i] = g[i]
    OBVIOUS
  <2>1. Len(ch) + i \in 0 .. Len(ch \o ps) /\ Len(ch) + i - Len(ch) = i
    BY <1>1
  <2>2. CASE i = 0
    BY <1>1, <1>2, <1>3, <2>1, <2>2
  <2>3. CASE i # 0
    <3>1. ~(Len(ch) + i <= Len(ch))
      BY <1>1, <2>3
    <3> QED
      BY <2>1, <3>1
  <2> QED
    BY <2>2, <2>3
<1> HIDE DEF q
<1>7. q[0] = a /\ q[Len(ch \o ps)] = c
  BY <1>1, <1>2, <1>3, <1>5, <1>6
<1>8. ASSUME NEW i \in 1 .. Len(ch \o ps)
      PROVE  Carries((ch \o ps)[i], q[i - 1], q[i])
  <2>1. CASE i <= Len(ch)
    <3>1. /\ i \in 1 .. Len(ch)
          /\ q[i - 1] = f[i - 1] /\ q[i] = f[i]
          /\ (ch \o ps)[i] = ch[i]
      BY <1>1, <1>5, <2>1
    <3> QED
      BY <1>2, <3>1
  <2>2. CASE ~(i <= Len(ch))
    <3> DEFINE j == i - Len(ch)
    <3>1. /\ j \in 1 .. Len(ps) /\ j - 1 \in 0 .. Len(ps) /\ j \in 0 .. Len(ps)
          /\ Len(ch) + j = i /\ Len(ch) + (j - 1) = i - 1
      BY <1>1, <2>2
    <3> HIDE DEF j
    <3>2. /\ q[i - 1] = g[j - 1] /\ q[i] = g[j]
          /\ (ch \o ps)[i] = ps[j]
      BY <1>1, <1>6, <3>1
    <3> QED
      BY <1>3, <3>1, <3>2
  <2> QED
    BY <2>1, <2>2
<1> QED
  BY <1>4, <1>7, <1>8 DEF Leads

\* Units that have come in whole, and how far what has come in reaches.
Held == Len(out) + (IF ready THEN 1 ELSE 0) + Len(more)
Here == IF Partial THEN [unit |-> progress.unit - 1, part |-> progress.part]
                   ELSE At(Held)

OrderInv ==
    /\ \A k \in 1 .. Len(out) : out[k] = Content(k)
    /\ ready => nalu.data = Content(Len(out) + 1)
    /\ \A j \in 1 .. Len(more) : more[j] = Held - Len(more) + j
    /\ Partial => ~ready /\ more = <<>> /\ progress.unit = Held + 1
    /\ Leads(channel, Here, At(next - 1), next)

LEMMA SequenceLengths ==
    ASSUME TypeOK
    PROVE  /\ Len(out) \in Nat /\ Len(more) \in Nat
           /\ next \in Nat \ {0} /\ Units \in Nat /\ Parts \in Nat \ {0, 1}
           /\ Held \in Nat
<1>1. Len(out) \in Nat
  BY DEF TypeOK
<1>2. Len(more) \in Nat
  BY DEF TypeOK
<1>3. next \in Nat \ {0} /\ Units \in Nat /\ Parts \in Nat \ {0, 1}
  BY SizesAssumption DEF TypeOK
<1>4. (IF ready THEN 1 ELSE 0) \in Nat
  OBVIOUS
<1> QED
  BY <1>1, <1>2, <1>3, <1>4 DEF Held

LEMMA PositionGrows ==
    ASSUME NEW n \in Nat, NEW m \in Nat, n <= m
    PROVE  Position(n) \subseteq Position(m)
BY DEF Position

LEMMA AtPosition ==
    ASSUME NEW n \in Nat, NEW u \in 0 .. n - 1
    PROVE  /\ At(u) \in Position(n)
           /\ \A i \in 0 .. Parts - 1 : [unit |-> u, part |-> i] \in Position(n)
BY SizesAssumption DEF At, Position

\* The fragments of a unit lead from the unit before to that unit.
LEMMA LeadsFragments ==
    ASSUME NEW u \in Nat \ {0}
    PROVE  Leads([i \in 1 .. Parts |-> Fragment(u, i)], At(u - 1), At(u), u + 1)
<1> DEFINE ps == [i \in 1 .. Parts |-> Fragment(u, i)]
           pos == [i \in 0 .. Parts |-> IF i = Parts
                                          THEN At(u)
                                          ELSE [unit |-> u - 1, part |-> i]]
<1>1. Parts \in Nat \ {0, 1} /\ Len(ps) = Parts
  BY SizesAssumption
<1>2. u \in 0 .. u + 1 - 1 /\ u - 1 \in 0 .. u + 1 - 1 /\ u + 1 \in Nat
  OBVIOUS
<1>3. pos \in [0 .. Parts -> Position(u + 1)]
  <2>1. ASSUME NEW i \in 0 .. Parts
        PROVE  (IF i = Parts THEN At(u) ELSE [unit |-> u - 1, part |-> i])
                 \in Position(u + 1)
    <3>1. CASE i = Parts
      BY <1>2, <3>1, AtPosition
    <3>2. CASE i # Parts
      <4>1. i \in 0 .. Parts - 1
        BY <1>1, <3>2
      <4> QED
        BY <1>2, <3>2, <4>1, AtPosition
    <3> QED
      BY <3>1, <3>2
  <2> QED
    BY <2>1
<1>4. pos[0] = At(u - 1) /\ pos[Parts] = At(u)
  BY <1>1 DEF At
<1>5. ASSUME NEW i \in 1 .. Parts
      PROVE  Carries(ps[i], pos[i - 1], pos[i])
  <2>1. /\ ps[i].kind = "fu" /\ ps[i].unit = u /\ ps[i].part = i
    BY DEF Fragment
  <2>2. pos[i - 1] = [unit |-> u - 1, part |-> i - 1]
    BY <1>1
  <2>3. pos[i] = IF i = Parts THEN At(u) ELSE [unit |-> u - 1, part |-> i]
    BY <1>1
  <2> HIDE DEF ps, pos
  <2> QED
    BY <2>1, <2>2, <2>3 DEF Carries
<1> HIDE DEF pos, ps
<1>6. Leads(ps, At(u - 1), At(u), u + 1)
  BY <1>1, <1>3, <1>4, <1>5 DEF Leads
<1> QED
  BY <1>6 DEF ps

\* What is sent leads from what was sent before to what is sent now.
LEMMA SendLeads ==
    ASSUME TypeOK, NEW ps, NEW n, Packets(ps, n)
    PROVE  Leads(ps, At(next - 1), At(next - 1 + n), next + n)
<1>1. next \in Nat \ {0}
  BY SequenceLengths
<1>2. ASSUME n \in {0, 1, 2}
      PROVE  /\ At(next - 1) \in Position(next + n)
             /\ At(next - 1 + n) \in Position(next + n)
  <2> DEFINE m == next + n
             u == next - 1 + n
  <2>1. m \in Nat /\ next - 1 \in 0 .. m - 1 /\ u \in 0 .. m - 1
    BY <1>1, <1>2
  <2> HIDE DEF m, u
  <2>2. At(next - 1) \in Position(m) /\ At(u) \in Position(m)
    BY <2>1, AtPosition
  <2> QED
    BY <2>2 DEF m, u
<1>3. CASE n = 1 /\ ps = <<[kind |-> "single", unit |-> next]>>
  <2>1. Carries([kind |-> "single", unit |-> next], At(next - 1), At(next - 1 + 1))
    <3>1. next - 1 + 1 = next
      BY <1>1
    <3> QED
      BY <3>1 DEF Carries
  <2> QED
    BY <1>2, <1>3, <2>1, LeadsOne
<1>4. CASE n = 1 /\ ps = [i \in 1 .. Parts |-> Fragment(next, i)]
  <2>1. next - 1 + 1 = next
    BY <1>1
  <2> QED
    BY <1>1, <1>4, <2>1, LeadsFragments
<1>5. CASE n = 1 /\ ps = <<[kind |-> "stap", units |-> <<next>>]>>
  <2> DEFINE p == [kind |-> "stap", units |-> <<next>>]
  <2>1. /\ p.kind = "stap" /\ Len(p.units) = 1
        /\ \A i \in 1 .. 1 : p.units[i] = next - 1 + i
    BY <1>1
  <2> HIDE DEF p
  <2>2. Carries(p, At(next - 1), At(next - 1 + 1))
    BY <2>1 DEF Carries, At
  <2>3. ps = <<p>>
    BY <1>5 DEF p
  <2> QED
    BY <1>2, <1>5, <2>2, <2>3, LeadsOne
<1>6. CASE n = 2 /\ ps = <<[kind |-> "stap", units |-> <<next, next + 1>>]>>
  <2> DEFINE p == [kind |-> "stap", units |-> <<next, next + 1>>]
  <2>1. /\ p.kind = "stap" /\ Len(p.units) = 2
        /\ \A i \in 1 .. 2 : p.units[i] = next - 1 + i
    BY <1>1
  <2> HIDE DEF p
  <2>2. Carries(p, At(next - 1), At(next - 1 + 2))
    BY <2>1 DEF Carries, At
  <2>3. ps = <<p>>
    BY <1>6 DEF p
  <2> QED
    BY <1>2, <1>6, <2>2, <2>3, LeadsOne
<1>7. CASE n = 0 /\ ps = <<[kind |-> "other"]>>
  <2>1. next - 1 + 0 = next - 1
    BY <1>1
  <2>2. Carries([kind |-> "other"], At(next - 1), At(next - 1))
    BY DEF Carries, At
  <2> QED
    BY <1>2, <1>7, <2>1, <2>2, LeadsOne
<1> QED
  BY <1>3, <1>4, <1>5, <1>6, <1>7 DEF Packets

LEMMA SendOrder ==
    ASSUME TypeOK, OrderInv, SendSingle \/ SendFragments \/ SendStap \/ SendOther
    PROVE  OrderInv'
<1>1. PICK ps \in Seq(Packet), n \in Nat : Post(ps, n) /\ Packets(ps, n)
  BY SendCases
<1>2. /\ channel' = channel \o ps
      /\ next' = next + n
      /\ UNCHANGED <<nalu, more, ready, out, progress>>
  BY <1>1 DEF Post, recvVars
<1>3. next \in Nat /\ next' - 1 = next - 1 + n /\ next' \in Nat /\ next <= next'
  BY <1>2, SequenceLengths
<1>4. Leads(channel', Here, At(next' - 1), next')
  <2>1. channel \in Seq(Packet)
    BY DEF TypeOK
  <2>2. Leads(channel, Here, At(next - 1), next)
    BY DEF OrderInv
  <2>3. Leads(ps, At(next - 1), At(next' - 1), next')
    BY <1>1, <1>2, <1>3, SendLeads
  <2>4. Position(next) \subseteq Position(next')
    BY <1>3, PositionGrows
  <2> HIDE DEF Packet
  <2> QED
    BY <1>2, <2>1, <2>2, <2>3, <2>4, LeadsConcat
<1>5. Here' = Here /\ Held' = Held /\ (Partial' <=> Partial)
  BY <1>2 DEF Here, Held, Partial, At
<1>6. Leads(channel, Here, At(next - 1), next)'
  BY <1>4, <1>5 DEF Leads, Carries, At, Position
<1> QED
  BY <1>2, <1>5, <1>6 DEF OrderInv, Content

\* Over TCP it is the first packet that comes in.
LEMMA FirstPacket ==
    ASSUME ~Udp, TypeOK, OrderInv, ParseNalu
    PROVE  \E p \in Packet, c \in Position(next) :
             /\ ParseSingle(p) \/ ParseStap(p) \/ ParseFragment(p) \/ ParseOther(p)
             /\ Carries(p, Here, c)
             /\ Leads(channel', c, At(next - 1), next)
<1>1. channel \in Seq(Packet)
  BY DEF TypeOK
<1>2. PICK i \in 1 .. Len(channel) :
         /\ Arrives(channel[i])
         /\ \/ ParseSingle(channel[i])
            \/ ParseStap(channel[i])
            \/ ParseFragment(channel[i])
            \/ ParseOther(channel[i])
  BY Zenon DEF ParseNalu
<1>3. channel[i] = channel[1] /\ channel' = Without(1) /\ channel # <<>>
  BY <1>1, <1>2 DEF Arrives
<1>4. Without(1) = Tail(channel) /\ channel[1] \in Packet
  <2> HIDE DEF Packet
  <2> QED
    BY <1>1, <1>3 DEF Without
<1>5. Leads(channel, Here, At(next - 1), next)
  BY DEF OrderInv
<1>6. PICK c \in Position(next) :
        Carries(channel[1], Here, c) /\ Leads(Tail(channel), c, At(next - 1), next)
  BY <1>1, <1>3, <1>5, LeadsTail
<1> QED
  BY <1>2, <1>3, <1>4, <1>6, Zenon

\* The first packet of the channel brings what comes in to where it leads.
LEMMA ParseNaluOrder ==
    ASSUME ~Udp, TypeOK, PartialInv, OrderInv, ParseNalu
    PROVE  OrderInv'
<1>1. PICK p \in Packet, c \in Position(next) :
             /\ ParseSingle(p) \/ ParseStap(p) \/ ParseFragment(p) \/ ParseOther(p)
             /\ Carries(p, Here, c)
             /\ Leads(channel', c, At(next - 1), next)
  BY FirstPacket
<1>2. ready = FALSE /\ more = <<>> /\ out' = out /\ next' = next
  BY ParseNaluCases DEF TypeOK
<1>3. Len(out) \in Nat /\ Held = Len(out) /\ Parts \in Nat \ {0, 1}
  <2>1. Len(<<>>) = 0
    OBVIOUS
  <2> QED
    BY <1>2, <2>1, SequenceLengths DEF Held
<1>4. Here.part = 0 => ~Partial /\ Here = At(Len(out))
  <2>1. CASE Partial
    <3>1. Here.part = progress.part /\ progress.part # 0
      BY <2>1 DEF Here, Partial
    <3> QED
      BY <3>1
  <2>2. CASE ~Partial
    BY <1>3, <2>2 DEF Here
  <2> QED
    BY <2>1, <2>2
<1>5. SUFFICES /\ ready' => nalu'.data = Content(Len(out) + 1)
               /\ \A j \in 1 .. Len(more') : more'[j] = Held' - Len(more') + j
               /\ Partial' => /\ ~ready' /\ more' = <<>>
                              /\ progress'.unit = Held' + 1
               /\ Here' = c
  <2>1. Leads(channel, Here, At(next - 1), next)'
    <3>1. Leads(channel', c, At(next - 1), next)
      BY <1>1
    <3>2. Leads(channel', Here', At(next' - 1), next')
      BY <1>2, <1>5, <3>1
    <3> QED
      BY <3>2 DEF Leads, Carries, At, Position
  <2>2. (\A k \in 1 .. Len(out) : out[k] = Content(k))'
    BY <1>2 DEF OrderInv, Content
  <2> QED
    BY <1>2, <1>5, <2>1, <2>2 DEF OrderInv, Content
<1>6. \A j \in 1 .. Len(<<>>) : FALSE
  OBVIOUS
<1>7. CASE ParseSingle(p)
  <2>1. /\ p.unit \in 1 .. Units
        /\ Here = At(p.unit - 1) /\ c = At(p.unit)
    BY <1>1, <1>7, PacketFields DEF ParseSingle, Carries
  <2>2. Len(out) = p.unit - 1
    BY <1>4, <2>1 DEF At
  <2>3. /\ nalu' = [data |-> Content(p.unit), finish |-> TRUE]
        /\ ready' = TRUE /\ more' = <<>> /\ progress' = Nothing
    BY <1>7 DEF ParseSingle, Parsed
  <2>4. ~Partial'
    BY <2>3, NothingPartial DEF Partial
  <2>5. Held' = p.unit
    BY <1>2, <1>3, <2>1, <2>2, <2>3 DEF Held
  <2>6. Here' = c
    BY <2>1, <2>4, <2>5 DEF Here, At
  <2>7. p.unit = Len(out) + 1
    BY <2>1, <2>2
  <2> QED
    BY <1>6, <2>3, <2>4, <2>6, <2>7
<1>8. CASE ParseStap(p)
  <2>1. /\ p.units \in Seq(1 .. Units) /\ p.units # <<>>
        /\ Here.part = 0
        /\ c = At(Here.unit + Len(p.units))
        /\ \A i \in 1 .. Len(p.units) : p.units[i] = Here.unit + i
    BY <1>1, <1>8, PacketFields DEF ParseStap, Carries
  <2>2. Here.unit = Len(out)
    BY <1>4, <2>1 DEF At
  <2>3. /\ nalu' = [data |-> Content(Head(p.units)), finish |-> TRUE]
        /\ ready' = TRUE /\ more' = Tail(p.units) /\ progress' = Nothing
    BY <1>8, Zenon DEF ParseStap, Parsed
  <2>4. ~Partial'
    BY <2>3, NothingPartial DEF Partial
  <2>5. /\ Len(p.units) \in Nat \ {0}
        /\ Head(p.units) = p.units[1]
        /\ Len(more') = Len(p.units) - 1
        /\ \A j \in 1 .. Len(more') : more'[j] = p.units[j + 1]
    BY <2>1, <2>3, NonEmptySeq
  <2>6. Held' = Len(out) + Len(p.units) /\ Len(p.units) = Len(more') + 1
    <3>1. Held' = Len(out) + 1 + Len(more')
      BY <1>2, <2>3 DEF Held
    <3>2. Len(p.units) = Len(more') + 1 /\ Len(more') \in Nat
      BY <2>5
    <3> HIDE DEF Held
    <3> QED
      BY <1>3, <3>1, <3>2
  <2>7. Here' = c
    BY <2>1, <2>2, <2>4, <2>6 DEF Here, At
  <2>8. Head(p.units) = Len(out) + 1
    BY <2>1, <2>2, <2>5
  <2>9. ASSUME NEW j \in 1 .. Len(more') PROVE more'[j] = Held' - Len(more') + j
    <3>1. j + 1 \in 1 .. Len(p.units)
      BY <2>5
    <3>2. more'[j] = Len(out) + (j + 1)
      BY <2>1, <2>2, <2>5, <3>1
    <3>3. ASSUME NEW m \in Nat, NEW i \in 1 .. m, NEW n \in Nat
          PROVE  n + (m + 1) - m + i = n + (i + 1)
      OBVIOUS
    <3>4. Len(more') \in Nat
      BY <2>5
    <3> QED
      BY <1>3, <2>6, <3>2, <3>3, <3>4
  <2> QED
    BY <2>3, <2>4, <2>7, <2>8, <2>9
<1>9. CASE ParseFragment(p)
  <2>1. /\ p.unit \in 1 .. Units /\ p.part \in 1 .. Parts
        /\ Here = [unit |-> p.unit - 1, part |-> p.part - 1]
        /\ c = IF p.part = Parts THEN At(p.unit)
                                 ELSE [unit |-> p.unit - 1, part |-> p.part]
    BY <1>1, <1>9, PacketFields DEF ParseFragment, Carries
  <2>2. Len(out) = p.unit - 1 /\ InSequence(p)
    <3>1. CASE p.part = 1
      BY <1>4, <2>1, <3>1 DEF At, InSequence
    <3>2. CASE p.part # 1
      <4>1. Partial
        BY <2>1, <3>2 DEF Here, At
      <4>2. progress.unit - 1 = p.unit - 1 /\ progress.part = p.part - 1
        BY <2>1, <4>1 DEF Here
      <4>3. progress.unit = Len(out) + 1
        BY <1>3, <4>1 DEF OrderInv
      <4>4. progress \in Piece
        <5>1. progress # Nothing
          BY <4>1, NothingPartial DEF Partial
        <5> QED
          BY <5>1 DEF TypeOK
      <4>5. progress = [unit |-> p.unit, part |-> p.part - 1]
        <5>1. progress.unit = p.unit /\ progress.part = p.part - 1
          BY <1>3, <2>1, <4>2, <4>3
        <5> QED
          BY <4>4, <5>1 DEF Piece
      <4> QED
        BY <1>3, <2>1, <4>2, <4>3, <4>5 DEF InSequence
    <3> QED
      BY <3>1, <3>2
  <2>3. progress' = [unit |-> p.unit, part |-> p.part] /\ more' = <<>>
    BY <1>9, <2>2, FragmentInSequence, Zenon DEF ParseFragment
  <2>4. CASE p.part < Parts
    <3>1. ready' = FALSE
      BY <1>9, <2>2, <2>4, FragmentInSequence, Zenon
    <3>2. Partial'
      BY <1>3, <2>1, <2>3, <2>4 DEF Partial
    <3>3. Held' = Len(out)
      BY <1>2, <1>3, <2>3, <3>1 DEF Held
    <3>4. Here' = c
      BY <1>3, <2>1, <2>3, <2>4, <3>2 DEF Here
    <3>5. progress'.unit = Held' + 1
      BY <2>1, <2>2, <2>3, <3>3
    <3> QED
      BY <1>6, <2>3, <3>1, <3>4, <3>5
  <2>5. CASE p.part = Parts
    <3>1. nalu' = [data |-> Content(p.unit), finish |-> TRUE] /\ ready' = TRUE
      BY <1>9, <2>2, <2>5, FragmentInSequence, Zenon
    <3>2. ~Partial'
      BY <1>3, <2>3, <2>5 DEF Partial
    <3>3. Held' = p.unit
      BY <1>2, <1>3, <2>1, <2>2, <2>3, <3>1 DEF Held
    <3>4. Here' = c
      BY <2>1, <2>5, <3>2, <3>3 DEF Here, At
    <3>5. p.unit = Len(out) + 1
      BY <2>1, <2>2
    <3>6. nalu'.data = Content(Len(out) + 1)
      BY <3>1, <3>5
    <3> QED
      BY <1>6, <2>3, <3>2, <3>4, <3>6
  <2> QED
    BY <1>3, <2>1, <2>4, <2>5
<1>10. CASE ParseOther(p)
  <2>1. Here.part = 0 /\ c = Here
    BY <1>1, <1>10 DEF ParseOther, Carries
  <2>2. ready' = FALSE /\ more' = <<>> /\ progress' = Nothing
    BY <1>10 DEF ParseOther
  <2>3. ~Partial'
    BY <2>2, NothingPartial DEF Partial
  <2>4. Held' = Len(out)
    BY <1>2, <1>3, <2>2 DEF Held
  <2>5. Here' = c
    BY <1>4, <2>1, <2>3, <2>4 DEF Here, At
  <2> QED
    BY <1>6, <2>2, <2>3, <2>5
<1> QED
  BY <1>1, <1>7, <1>8, <1>9, <1>10

\* A finished unit is not a unit partly received.
LEMMA ReadyNotPartial ==
    ASSUME PartialInv, ready PROVE ~Partial
<1>1. nalu.finish
  BY DEF PartialInv
<1>2. nalu.finish = FALSE => FALSE
  BY <1>1
<1> QED
  BY <1>2, Zenon DEF PartialInv

\* A finished unit is the next one of those sent.
LEMMA ReadyIsSent ==
    ASSUME TypeOK, PartialInv, OrderInv, ready
    PROVE  Len(out) + 1 \in 1 .. next - 1
<1>1. Here = At(Held)
  BY ReadyNotPartial DEF Here
<1>2. Here \in Position(next)
  <2>1. channel \in Seq(Packet)
    BY DEF TypeOK
  <2> QED
    BY <2>1, LeadsEnds DEF OrderInv
<1>3. Held \in 0 .. next - 1
  BY <1>1, <1>2 DEF At, Position
<1>4. Held = Len(out) + 1 + Len(more)
  BY DEF Held
<1> QED
  BY <1>3, <1>4, SequenceLengths

LEMMA SameLeads ==
    ASSUME OrderInv, UNCHANGED <<channel, next>>, Here' = Here
    PROVE  Leads(channel, Here, At(next - 1), next)'
<1>1. Leads(channel', Here, At(next' - 1), next')
  BY DEF OrderInv
<1> QED
  BY <1>1 DEF Leads, Carries, At, Position

LEMMA TakeOrder ==
    ASSUME TypeOK, PartialInv, OrderInv, Take
    PROVE  OrderInv'
<1>1. /\ ready /\ ready' = FALSE
      /\ out' = Append(out, nalu.data)
      /\ UNCHANGED <<next, channel, more, progress>>
  BY DEF Take
<1>2. nalu.data = Content(Len(out) + 1)
  BY <1>1 DEF OrderInv
<1>3. out \in Seq(Seq(Piece)) /\ nalu.data \in Seq(Piece)
  BY DEF TypeOK
<1>4. /\ Len(out) \in Nat /\ Len(more) \in Nat
      /\ Len(out') = Len(out) + 1
      /\ \A k \in 1 .. Len(out) : out'[k] = out[k]
      /\ out'[Len(out) + 1] = nalu.data
  BY <1>1, <1>3, SequenceLengths
<1>5. \A k \in 1 .. Len(out') : out'[k] = Content(k)
  <2>1. ASSUME NEW k \in 1 .. Len(out') PROVE out'[k] = Content(k)
    <3>1. CASE k \in 1 .. Len(out)
      BY <1>4, <3>1 DEF OrderInv
    <3>2. CASE k = Len(out) + 1
      BY <1>2, <1>4, <3>2
    <3> QED
      BY <1>4, <3>1, <3>2
  <2> QED
    BY <2>1
<1>6. ~Partial /\ ~Partial'
  BY <1>1, ReadyNotPartial DEF Partial
<1>7. Held' = Held
  <2>1. Held = Len(out) + 1 + Len(more)
    BY <1>1 DEF Held
  <2>2. Held' = Len(out') + 0 + Len(more)
    BY <1>1 DEF Held
  <2> QED
    BY <1>4, <2>1, <2>2
<1>8. Here' = Here
  BY <1>6, <1>7 DEF Here, At
<1>9. Leads(channel, Here, At(next - 1), next)'
  BY <1>1, <1>8, SameLeads
<1>10. \A j \in 1 .. Len(more') : more'[j] = Held' - Len(more') + j
  BY <1>1, <1>7 DEF OrderInv
<1> QED
  BY <1>1, <1>5, <1>6, <1>9, <1>10 DEF OrderInv, Content

LEMMA ParseNaluStapOrder ==
    ASSUME TypeOK, PartialInv, OrderInv, ParseNaluStap
    PROVE  OrderInv'
<1>1. /\ ~ready /\ ready' = TRUE
      /\ more # <<>> /\ more' = Tail(more)
      /\ nalu' = [data |-> Content(Head(more)), finish |-> TRUE]
      /\ UNCHANGED <<next, channel, out, progress>>
  BY Zenon DEF ParseNaluStap, Parsed
<1>2. progress = Nothing
  BY <1>1 DEF PartialInv
<1>3. ~Partial /\ ~Partial'
  BY <1>1, <1>2, NothingPartial DEF Partial
<1>4. more \in Seq(1 .. Units)
  BY DEF TypeOK
<1>5. /\ Len(more) \in Nat \ {0}
      /\ Head(more) = more[1]
      /\ Len(more') = Len(more) - 1
      /\ \A j \in 1 .. Len(more) - 1 : more'[j] = more[j + 1]
  BY <1>1, <1>4, NonEmptySeq
<1>6. Held = Len(out) + Len(more) /\ Held' = Len(out) + Len(more) /\ Len(out) \in Nat
  <2>1. Held = Len(out) + 0 + Len(more)
    BY <1>1 DEF Held
  <2>2. Held' = Len(out) + 1 + Len(more')
    BY <1>1 DEF Held
  <2> QED
    BY <1>5, <2>1, <2>2, SequenceLengths
<1>7. \A j \in 1 .. Len(more) : more[j] = Held - Len(more) + j
  BY DEF OrderInv
<1>8. nalu'.data = Content(Len(out) + 1)
  <2>1. more[1] = Len(out) + 1
    BY <1>5, <1>6, <1>7
  <2> QED
    BY <1>1, <1>5, <2>1
<1>9. \A j \in 1 .. Len(more') : more'[j] = Held' - Len(more') + j
  <2>1. ASSUME NEW j \in 1 .. Len(more') PROVE more'[j] = Held' - Len(more') + j
    <3>1. j \in 1 .. Len(more) - 1 /\ j + 1 \in 1 .. Len(more)
      BY <1>5
    <3>2. more'[j] = Held - Len(more) + (j + 1)
      BY <1>5, <1>7, <3>1
    <3> QED
      BY <1>5, <1>6, <3>1, <3>2
  <2> QED
    BY <2>1
<1>10. Here' = Here
  BY <1>3, <1>6 DEF Here, At
<1>11. Leads(channel, Here, At(next - 1), next)'
  BY <1>1, <1>10, SameLeads
<1>12. \A k \in 1 .. Len(out') : out'[k] = Content(k)
  BY <1>1 DEF OrderInv
<1>13. ready' => nalu'.data = Content(Len(out') + 1)
  BY <1>1, <1>8
<1> QED
  BY <1>3, <1>9, <1>11, <1>12, <1>13 DEF OrderInv, Content

-------------------------------------------------------------------------------
LEMMA OrderStep ==
    ASSUME ~Udp
    PROVE  TypeOK /\ PartialInv /\ OrderInv /\ [Next]_vars => OrderInv'
<1> SUFFICES ASSUME TypeOK, PartialInv, OrderInv, [Next]_vars PROVE OrderInv'
  OBVIOUS
<1>1. CASE SendSingle \/ SendFragments \/ SendStap \/ SendOther
  BY <1>1, SendOrder
<1>2. CASE Lose \/ Double
  BY <1>2 DEF Lose, Double
<1>3. CASE ParseNalu
  BY <1>3, ParseNaluOrder
<1>4. CASE Take
  BY <1>4, TakeOrder
<1>5. CASE ParseNaluStap
  BY <1>5, ParseNaluStapOrder
<1>6. CASE UNCHANGED vars
  <2>1. UNCHANGED <<next, channel, nalu, more, ready, out, progress>>
    BY <1>6 DEF vars, recvVars
  <2>2. Here' = Here /\ Held' = Held /\ (Partial' <=> Partial)
    BY <2>1 DEF Here, Held, Partial, At
  <2>3. Leads(channel, Here, At(next - 1), next)'
    BY <2>1, <2>2, SameLeads
  <2> QED
    BY <2>1, <2>2, <2>3 DEF OrderInv, Content
<1> QED
  BY <1>1, <1>2, <1>3, <1>4, <1>5, <1>6 DEF Next

LEMMA OrderInit == Init => OrderInv
<1> SUFFICES ASSUME Init PROVE OrderInv
  OBVIOUS
<1>1. /\ next = 1 /\ channel = <<>> /\ more = <<>> /\ ready = FALSE /\ out = <<>>
      /\ progress = Nothing
  BY DEF Init
<1>2. ~Partial
  BY <1>1, NothingPartial DEF Partial
<1>3. Len(<<>>) = 0 /\ \A j \in 1 .. Len(<<>>) : FALSE
  OBVIOUS
<1>4. Held = 0
  BY <1>1, <1>3 DEF Held
<1>5. Here = At(0) /\ At(next - 1) = At(0)
  BY <1>1, <1>2, <1>4 DEF Here
<1>6. At(0) \in Position(1)
  BY SizesAssumption DEF At, Position
<1>7. Leads(channel, Here, At(next - 1), next)
  BY <1>1, <1>5, <1>6, LeadsEmpty
<1> QED
  BY <1>1, <1>2, <1>3, <1>7 DEF OrderInv

\* Sending n units more.
LEMMA PostSends ==
    ASSUME TypeOK, NEW ps, NEW n \in Nat, Post(ps, n)
    PROVE  [Delivery!Next]_(Delivery!vars)
<1>1. next' = next + n /\ next + n <= Units + 1 /\ next \in Nat \ {0} /\ out' = out
  BY SequenceLengths DEF Post, recvVars
<1> DEFINE sent(m) == [u \in 1 .. m - 1 |-> Content(u)]
           D == {Content(u) : u \in 1 .. Units}
<1>2. sent(next') \in Seq(D) /\ Len(sent(next')) = next + n - 1 /\ Len(sent(next)) = next - 1
  <2>1. \A u \in 1 .. next' - 1 : Content(u) \in D
    BY <1>1, SizesAssumption
  <2> HIDE DEF D
  <2> QED
    BY <1>1, <2>1
<1>3. SubSeq(sent(next'), 1, Len(sent(next))) = sent(next)
  BY <1>1, <1>2
<1>4. CASE n = 0
  <2>1. sent(next') = sent(next)
    BY <1>1, <1>4
  <2> QED
    BY <1>1, <2>1 DEF Delivery!vars, Content
<1>5. CASE n > 0
  <2>1. Len(sent(next')) > Len(sent(next))
    BY <1>1, <1>2, <1>5
  <2>2. Delivery!Send
    BY <1>1, <1>2, <1>3, <2>1 DEF Delivery!Send, Content
  <2> QED
    BY <2>2 DEF Delivery!Next
<1> QED
  BY <1>1, <1>4, <1>5

\* Over TCP the units are taken as they were sent, in order, each one once:
\* parse_nalu and parse_nalu_stap implement an ordered and complete delivery.
THEOREM TcpDeliversInOrder == ASSUME ~Udp PROVE Spec => DeliversInOrder
<1>1. Init => TypeOK /\ PartialInv /\ OrderInv
  <2>1. Init => PartialInv
    BY NothingPartial DEF Init, PartialInv, Partial
  <2> QED
    BY <2>1, InitType, OrderInit
<1>2. TypeOK /\ PartialInv /\ [Next]_vars => PartialInv'
  <2> SUFFICES ASSUME TypeOK, PartialInv, [Next]_vars PROVE PartialInv'
    OBVIOUS
  <2>1. CASE UNCHANGED <<recvVars, progress>>
    BY <2>1, OtherPartial
  <2>2. CASE SendSingle \/ SendFragments \/ SendStap \/ SendOther
    BY <2>1, <2>2, SendCases DEF Post
  <2>3. CASE Lose \/ Double
    BY <2>1, <2>3, NetworkType
  <2>4. CASE ParseNalu
    BY <2>4, ParseNaluPartial
  <2>5. CASE Take \/ ParseNaluStap
    BY <2>5, OtherPartial
  <2>6. CASE UNCHANGED vars
    BY <2>1, <2>6 DEF vars
  <2> QED
    BY <2>2, <2>3, <2>4, <2>5, <2>6 DEF Next
<1>3. Init => Delivery!Init
  BY SizesAssumption DEF Init, Delivery!Init
<1>4. TypeOK /\ PartialInv /\ OrderInv /\ [Next]_vars => [Delivery!Next]_(Delivery!vars)
  <2> SUFFICES ASSUME TypeOK, PartialInv, OrderInv, [Next]_vars
               PROVE  [Delivery!Next]_(Delivery!vars)
    OBVIOUS
  <2>1. CASE UNCHANGED <<next, out>>
    BY <2>1 DEF Delivery!vars, Content
  <2>2. CASE SendSingle \/ SendFragments \/ SendStap \/ SendOther
    BY <2>2, SendCases, PostSends
  <2>3. CASE Lose \/ Double
    BY <2>1, <2>3, NetworkType DEF recvVars, Lose, Double
  <2>4. CASE ParseNalu
    BY <2>1, <2>4, ParseNaluCases
  <2>5. CASE Take
    <3>1. /\ ready
          /\ out' = Append(out, nalu.data)
          /\ UNCHANGED next
      BY <2>5 DEF Take
    <3>2. Len(out) + 1 \in 1 .. next - 1 /\ nalu.data = Content(Len(out) + 1)
      BY <3>1, ReadyIsSent DEF OrderInv
    <3> DEFINE sent == [u \in 1 .. next - 1 |-> Content(u)]
    <3>3. sent[Len(out) + 1] = Content(Len(out) + 1) /\ Len(out) < Len(sent)
      BY <3>2, SequenceLengths
    <3>4. sent' = sent
      BY <3>1 DEF Content
    <3>5. Delivery!Deliver
      BY <3>1, <3>2, <3>3, <3>4 DEF Delivery!Deliver
    <3> QED
      BY <3>5 DEF Delivery!Next
  <2>6. CASE ParseNaluStap
    BY <2>1, <2>6 DEF ParseNaluStap
  <2>7. CASE UNCHANGED vars
    BY <2>1, <2>7 DEF vars, recvVars
  <2> QED
    BY <2>2, <2>3, <2>4, <2>5, <2>6, <2>7 DEF Next
<1> QED
  BY <1>1, <1>2, <1>3, <1>4, NextType, OrderStep, PTL
     DEF Spec, DeliversInOrder, Delivery!Spec
===============================================================================
