-------------------------------- MODULE RtpH264 --------------------------------
(***************************************************************************)
(* Putting H.264 units together from RTP packets: parse_nalu and           *)
(* parse_nalu_stap of src/rtsp/rtpdec_h264.cpp.                            *)
(*                                                                         *)
(* The sender splits numbered units into packets as RFC 6184 does; packets *)
(* travel over TCP, in order and complete, or over UDP, where they may be  *)
(* lost, doubled and reordered.  Sender, network and the application that  *)
(* calls parse_nalu and takes the finished units are the environment.      *)
(*                                                                         *)
(* A unit is a sequence of pieces: piece 0 is its header byte, the others  *)
(* are what a fragment carries.  Sizes count pieces.                       *)
(***************************************************************************)
EXTENDS Naturals, Sequences, FiniteSets

CONSTANTS
    Units,          \* bound: units sent
    Parts,          \* pieces of a unit after its header
    Udp,            \* the channel may lose, double and reorder
    MaxChannel,     \* bound: packets on their way
    MaxDouble       \* bound: packets the network doubles

ASSUME SizesAssumption ==
    /\ Units \in Nat
    /\ Parts \in Nat \ {0, 1}
    /\ Udp \in BOOLEAN
    /\ MaxChannel \in Nat
    /\ MaxDouble \in Nat

VARIABLES
    next,           \* the next unit to be sent
    channel,        \* packets on their way
    doubled,        \* packets the network has doubled
    nalu,           \* rtp_h264_nalu_t: what is put together
    more,           \* units of the packet at hand behind the offset returned
    ready,          \* parse_nalu has left a finished unit to be taken
    out,            \* units taken
    \* ---- history
    progress,       \* the unit whose packets came in without a break, how far
    intact          \* units whose packets all came in without a break

recvVars == <<nalu, more, ready, out>>
vars     == <<next, channel, doubled, recvVars, progress, intact>>

Piece == [unit : 1 .. Units, part : 0 .. Parts]

Content(u) == [i \in 1 .. Parts + 1 |-> [unit |-> u, part |-> i - 1]]

\* "single" holds the whole of one unit, "stap" those of several, "fu" a
\* fragment with its s and e bits, "other" a type parse_nalu does not know.
Packet ==
    [kind : {"stap"}, units : {<<u>> : u \in 1 .. Units}
                                \cup {<<u, u + 1>> : u \in 1 .. Units - 1}]
      \cup [kind : {"single"}, unit : 1 .. Units]
      \cup [kind : {"fu"}, unit : 1 .. Units, part : 1 .. Parts]
      \cup {[kind |-> "other"]}

Nothing == [unit |-> 0, part |-> 0]

TypeOK ==
    /\ next \in 1 .. Units + 1
    /\ channel \in Seq(Packet)
    /\ doubled \in 0 .. MaxDouble
    /\ nalu \in [data : Seq(Piece), finish : BOOLEAN]
    /\ more \in Seq(1 .. Units)
    /\ ready \in BOOLEAN
    /\ out \in Seq(Seq(Piece))
    /\ progress \in Piece \cup {Nothing}
    /\ intact \in SUBSET (1 .. Units)

Empty == [data |-> <<>>, finish |-> FALSE]

Init ==
    /\ next = 1
    /\ channel = <<>>
    /\ doubled = 0
    /\ nalu = Empty
    /\ more = <<>>
    /\ ready = FALSE
    /\ out = <<>>
    /\ progress = Nothing
    /\ intact = {}

-------------------------------------------------------------------------------
(* The sender and the network *)
Fragment(u, i) == [kind |-> "fu", unit |-> u, part |-> i]

Post(packets, n) ==
    /\ next + n <= Units + 1
    /\ Len(channel) + Len(packets) <= MaxChannel
    /\ channel' = channel \o packets
    /\ next' = next + n
    /\ UNCHANGED <<doubled, recvVars, progress, intact>>

SendSingle    == Post(<<[kind |-> "single", unit |-> next]>>, 1)
SendFragments == Post([i \in 1 .. Parts |-> Fragment(next, i)], 1)
SendStap      ==
    \/ Post(<<[kind |-> "stap", units |-> <<next>>]>>, 1)
    \/ Post(<<[kind |-> "stap", units |-> <<next, next + 1>>]>>, 2)

\* A packet of a type that carries no unit here, between two units.
SendOther     == Post(<<[kind |-> "other"]>>, 0)

Without(i) == SubSeq(channel, 1, i - 1) \o SubSeq(channel, i + 1, Len(channel))

Lose ==
    /\ Udp
    /\ \E i \in 1 .. Len(channel) : channel' = Without(i)
    /\ UNCHANGED <<next, doubled, recvVars, progress, intact>>

Double ==
    /\ Udp
    /\ doubled < MaxDouble
    /\ Len(channel) < MaxChannel
    /\ doubled' = doubled + 1
    /\ \E i \in 1 .. Len(channel) : channel' = Append(channel, channel[i])
    /\ UNCHANGED <<next, recvVars, progress, intact>>

-------------------------------------------------------------------------------
(* parse_nalu on the packet that comes in *)
Arrives(p) ==
    /\ ~ready
    /\ more = <<>>
    /\ \E i \in (IF Udp THEN 1 .. Len(channel) ELSE {1} \cap 1 .. Len(channel)) :
         /\ p = channel[i]
         /\ channel' = Without(i)
    /\ UNCHANGED <<next, doubled, out>>

\* Whatever is returned is not negative: finish tells the application.
Parsed(data, finish) ==
    /\ nalu' = [data |-> data, finish |-> finish]
    /\ ready' = finish

ParseSingle(p) ==
    /\ p.kind = "single"
    /\ Parsed(Content(p.unit), TRUE)
    /\ more' = <<>>
    /\ progress' = Nothing
    /\ intact' = intact \cup {p.unit}

\* Only the first unit is parsed, the offset behind it is returned.
ParseStap(p) ==
    /\ p.kind = "stap"
    /\ Parsed(Content(Head(p.units)), TRUE)
    /\ more' = Tail(p.units)
    /\ progress' = Nothing
    /\ intact' = intact \cup {p.units[i] : i \in 1 .. Len(p.units)}

\* Seeded faults: the header byte stays that of the fragment; a fragment with
\* the s bit is appended to what is there.
StartUnrestored(p) == <<Nothing, [unit |-> p.unit, part |-> 1]>>
StartAppended(p) == nalu.data \o SubSeq(Content(p.unit), 1, 2)

\* The header byte is restored from the indicator and the fragment's type.
Start(p) == SubSeq(Content(p.unit), 1, 2)

\* Seeded fault: a fragment is taken although no start has been.
ContinuesAlways == TRUE

\* Without a start there is nothing to be continued.
Continues == nalu.data # <<>>

InSequence(p) ==
    IF p.part = 1 THEN TRUE
    ELSE progress = [unit |-> p.unit, part |-> p.part - 1]

\* Neither the sequence number nor the unit is looked at, and a finished unit
\* the application has not cleared is continued like an unfinished one.
ParseFragment(p) ==
    /\ p.kind = "fu"
    /\ IF p.part = 1
         THEN Parsed(Start(p), FALSE)
         ELSE IF Continues
                THEN Parsed(Append(nalu.data, [unit |-> p.unit, part |-> p.part]),
                            p.part = Parts \/ nalu.finish)
                ELSE nalu' = nalu /\ ready' = nalu.finish
    /\ more' = <<>>
    /\ progress' = IF InSequence(p) THEN [unit |-> p.unit, part |-> p.part] ELSE Nothing
    /\ intact' = IF InSequence(p) /\ p.part = Parts THEN intact \cup {p.unit} ELSE intact

\* What is there is dropped; -1 is returned.
ParseOther(p) ==
    /\ p.kind = "other"
    /\ nalu' = Empty
    /\ ready' = FALSE
    /\ more' = <<>>
    /\ progress' = Nothing
    /\ UNCHANGED intact

ParseNalu ==
    \E i \in 1 .. Len(channel) :
      LET p == channel[i] IN
        /\ Arrives(p)
        /\ \/ ParseSingle(p)
           \/ ParseStap(p)
           \/ ParseFragment(p)
           \/ ParseOther(p)

-------------------------------------------------------------------------------
(* The application *)

\* It takes a finished unit, and may or may not clear the structure then.
Take ==
    /\ ready
    /\ out' = Append(out, nalu.data)
    /\ ready' = FALSE
    /\ nalu' \in {nalu, Empty}
    /\ UNCHANGED <<next, channel, doubled, more, progress, intact>>

\* parse_nalu_stap again, at the offset returned.
ParseNaluStap ==
    /\ ~ready
    /\ more # <<>>
    /\ Parsed(Content(Head(more)), TRUE)
    /\ more' = Tail(more)
    /\ UNCHANGED <<next, channel, doubled, out, progress, intact>>

Next ==
    \/ SendSingle
    \/ SendFragments
    \/ SendStap
    \/ SendOther
    \/ Lose
    \/ Double
    \/ ParseNalu
    \/ Take
    \/ ParseNaluStap

Spec == Init /\ [][Next]_vars

-------------------------------------------------------------------------------
IsUnit(data) == \E u \in 1 .. Units : data = Content(u)

\* Whatever the network has done before, and whether or not the application
\* clears the structure, a unit whose packets come in without a break is taken
\* as it was sent: nothing left over from earlier packets gets into it.
IntactTaken ==
    ~ready /\ more = <<>> =>
        \A u \in intact : \E k \in 1 .. Len(out) : out[k] = Content(u)

\* No unit is taken that begins in the middle: fragments whose start has been
\* lost are not delivered on their own.
BeginsWithStart(data) ==
    Len(data) >= 2 /\ \E u \in 1 .. Units : /\ data[1] = Content(u)[1]
                                            /\ data[2] = Content(u)[2]

TakenFromStart == \A k \in 1 .. Len(out) : BeginsWithStart(out[k])

\* Over TCP units are taken as they were sent, in order, each one once.
Delivery == INSTANCE NaluDelivery WITH
    Data <- {Content(u) : u \in 1 .. Units},
    sent <- [u \in 1 .. next - 1 |-> Content(u)],
    got  <- out

DeliversInOrder == Delivery!Spec
===============================================================================
