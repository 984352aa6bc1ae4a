----------------------------- MODULE RtspHeaders -----------------------------
(***************************************************************************)
(* What the headers of a reply leave in RTSPMessage: rtsp_parse_line of    *)
(* src/rtsp/rtsp.cpp with rtsp_parse_transport, rtsp_parse_range and       *)
(* rtsp_parse_range_npt of src/rtsp/parse.cpp.  The loop over the SETUPs   *)
(* in rtsp_client.cpp keeps one message and one vector of lines, so every  *)
(* line of the first reply is parsed again with the second.                *)
(*                                                                         *)
(* A line is its key and the text behind the colon, a sequence of tokens;  *)
(* numbers are tokens too, without a sign, as large as a server likes.     *)
(* Times are whole seconds that int64_t holds as microseconds.  A line end *)
(* inside a Transport is what test/test_rtsp_parse/main.cpp:33 has; the    *)
(* client cuts lines there.  The server is the environment, and so is the  *)
(* system clock, which may be set at any time.                             *)
(***************************************************************************)
EXTENDS StrUtils

CONSTANTS
    Messages,       \* the header lines of the replies a server may send
    Decimal,        \* the numbers among the tokens, with their values
    MaxInt,         \* the largest int
    MaxTransports,  \* RTSP_MAX_TRANSPORTS
    MaxClock        \* bound: times get_current_microseconds returns

Digits == DOMAIN Decimal

Ranges  == {"port", "client_port", "server_port", "interleaved"}
Numbers == {"Content-Length", "CSeq", "Notice", "x-Accept-Dynamic-Rate"}
Texts   == {"Content-Base", "Content-Type", "Location", "Server"}

\* The headers rtsp_parse_line knows; one without an effect stands for all those.
Keys == Numbers \cup Texts
          \cup {"Public", "Range", "Session", "Transport", "Cache-Control", "unknown"}

LineEnd == "\r\n"

\* What stands between the names and the numbers of a line.
Marks == {Space, "-", ";", "=", "/", ",", LineEnd, "now"}

Lines == [key : Keys, val : Seq(STRING)]

ASSUME BoundsAssumption == MaxInt \in Nat /\ MaxTransports \in Nat /\ MaxClock \in Nat

ASSUME MessagesAssumption ==
    /\ Messages \subseteq Seq(Lines)
    /\ Digits \cap Marks = {} /\ \A d \in Digits : Decimal[d] \in Nat

VARIABLES
    method,         \* of the request the replies are for
    lines,          \* the vector of lines
    received,       \* replies received
    idx,            \* index of the line being parsed
    reply,          \* RTSPMessage, and what the line writes into m_ctx
    setBack,        \* history: the clock was, between the last two readings of it
    status          \* "idle", "parsing", or "dead" by an exception

vars == <<method, lines, received, idx, reply, setBack, status>>

Unset == -1         \* whatever the memory held
NOPTS == -2         \* RTSP_NOPTS_VALUE

UDP == 0
TCP == 1
UDP_MULTICAST == 2

\* Seeded fault: the last place is never used.
RoomLess(nb) == nb + 1 < MaxTransports

Room(nb) == nb < MaxTransports

Number == 0 .. MaxInt \cup {Unset}

Time == Nat \cup {Unset, NOPTS}

Transport == [lower : {Unset, UDP, TCP, UDP_MULTICAST},
              ranges : [Ranges -> Number \X Number],
              ttl : Number, mode_record : {Unset, 1},
              rtp : BOOLEAN]

NoTransport == [lower |-> Unset, ranges |-> [r \in Ranges |-> <<Unset, Unset>>],
                ttl |-> Unset, mode_record |-> Unset, rtp |-> FALSE]

\* RTSPMessage
Message == [numbers : [Numbers -> Number], texts : [Texts -> Seq(STRING)],
            get_parameter : BOOLEAN,
            session : Seq(STRING), timeout : Number,
            start : Time, end : Time,
            nb : 0 .. MaxTransports,
            transports : [1 .. MaxTransports -> Transport]]

\* new RTSPMessage
NewMessage == [numbers |-> [k \in Numbers |-> Unset],
               texts |-> [k \in Texts |-> <<>>],
               get_parameter |-> FALSE,
               session |-> <<>>, timeout |-> Unset,
               start |-> Unset, end |-> Unset,
               nb |-> 0,
               transports |-> [i \in 1 .. MaxTransports |-> NoTransport]]

-------------------------------------------------------------------------------
\* std::stod passes over blanks, reads a number, and throws if there is none.
IsNumber(text) == ~OnlyBlanks(text) /\ SkipBlanks(text)[1] \in Digits

ValueOf(text) == Decimal[SkipBlanks(text)[1]]

\* std::stoi does the same, and throws if the number does not fit an int.
IsInt(text) == IsNumber(text) /\ ValueOf(text) <= MaxInt

\* Seeded fault: the first number is taken for both ends.
ParseRangeFirst(text) == LET vec == Split(text, "-") IN <<ValueOf(vec[1]), ValueOf(vec[1])>>

\* rtsp_parse_range: anything but two numbers is one number.
ParseRange(text) ==
    LET vec == Split(text, "-")
    IN <<ValueOf(vec[1]), ValueOf(vec[IF Len(vec) = 2 THEN 2 ELSE 1])>>

\* Seeded fault: the second number is read although there is only one.
ReadableRangeTwo(text) ==
    LET vec == Split(text, "-")
    IN Len(vec) > 1 /\ IsInt(vec[1]) /\ IsInt(vec[2])

ReadableRange(text) ==
    LET vec == Split(text, "-")
    IN vec # <<>> /\ IsInt(vec[1]) /\ (Len(vec) = 2 => IsInt(vec[2]))

-------------------------------------------------------------------------------
(* rtsp_parse_transport *)

\* The protocol, the profile and the lower transport in front of a transport.
\* at(0) throws when nothing follows the profile.
Leading(text, lower) ==
    LET protocol == CutUntilChar(text, {"/"}, FALSE)
        profile  == CutUntilChar(protocol.rest, {"/", ";", ","}, TRUE)
        named    == CutUntilChar(Tail(profile.rest), {";", ","}, FALSE)
    IN IF protocol.head # <<"RTP">>
         THEN [rtp |-> FALSE, bad |-> FALSE, lower |-> lower, rest |-> protocol.rest]
       ELSE IF profile.rest = <<>>
         THEN [rtp |-> TRUE, bad |-> TRUE, lower |-> lower, rest |-> <<>>]
       ELSE IF profile.rest[1] = "/"
         THEN [rtp |-> TRUE, bad |-> FALSE, lower |-> named.head, rest |-> named.rest]
       ELSE [rtp |-> TRUE, bad |-> FALSE, lower |-> lower, rest |-> Tail(profile.rest)]

\* Seeded fault: multicast is added like a flag.
MulticastAdded(t) == [t EXCEPT !.lower = @ + UDP_MULTICAST]

\* Seeded fault: TCP is no obstacle to multicast.
MulticastAlways(t) == [t EXCEPT !.lower = UDP_MULTICAST]

Multicast(t) == [t EXCEPT !.lower = IF @ = UDP THEN UDP_MULTICAST ELSE @]

\* One field of a transport; destination and source are texts stored as they are.
ReadField(t, field) ==
    LET name == CutUntilChar(field, {"="}, FALSE).head
        text == CutUntilChar(field, {"="}, FALSE).rest
    IN CASE name = <<"multicast">> -> Multicast(t)
         [] Len(name) = 1 /\ name[1] \in Ranges ->
              [t EXCEPT !.ranges[name[1]] = ParseRange(text)]
         [] name = <<"ttl">> -> [t EXCEPT !.ttl = ValueOf(text)]
         [] name = <<"mode">> ->
              [t EXCEPT !.mode_record = IF text \in {<<"record">>, <<"receive">>} THEN 1 ELSE @]
         [] OTHER -> t

ReadableField(field) ==
    LET cut == CutUntilChar(field, {"="}, FALSE)
    IN /\ Len(cut.head) = 1 /\ cut.head[1] \in Ranges => ReadableRange(cut.rest)
       /\ cut.head = <<"ttl">> => IsInt(cut.rest)

\* One transport of the header, into the next place there is; m carries the
\* lower transport from one to the next.
ReadTransport(m, text) ==
    LET lead   == Leading(text, m.lower)
        place  == m.nb + 1
        fields == Split(lead.rest, ";")
        before == [m.transports[place] EXCEPT
                     !.rtp = lead.rtp \/ @,
                     !.lower = IF lead.lower = <<"TCP">> THEN TCP ELSE UDP]
    IN IF ~Room(m.nb) \/ m.bad THEN m
       ELSE IF lead.bad \/ \E i \in DOMAIN fields : ~ReadableField(fields[i])
         THEN [m EXCEPT !.bad = TRUE]
       ELSE [m EXCEPT !.lower = lead.lower, !.nb = place,
                      !.transports[place] = FoldLeft(ReadField, before, fields)]

\* Seeded fault: transports of this header go behind those of the one before.
ParseTransportAppended(r, text) ==
    FoldLeft(ReadTransport,
             [nb |-> r.nb, transports |-> r.transports, lower |-> <<"UDP">>, bad |-> FALSE],
             Split(text, LineEnd))

ParseTransport(r, text) ==
    FoldLeft(ReadTransport,
             [nb |-> 0, transports |-> r.transports, lower |-> <<"UDP">>, bad |-> FALSE],
             Split(text, LineEnd))

-------------------------------------------------------------------------------
(* rtsp_parse_line *)

\* parse_timestr: a time of the range is put on the clock.
Timestr(text, now) == IF text = <<"now">> THEN now ELSE now + ValueOf(text)

IsNpt(text) == text # <<>> /\ text[1] = "npt="

\* Seeded fault: an end is kept if the range has none.
RangeNptKept(r, text, t1, t2) ==
    LET vec == Split(SkipBlanks(Tail(text)), "-")
    IN [r EXCEPT !.start = IF vec = <<>> THEN NOPTS ELSE Timestr(vec[1], t1),
                 !.end   = IF Len(vec) < 2 THEN @ ELSE Timestr(vec[2], t2)]

\* rtsp_parse_range_npt: the clock is read once for each end.
RangeNpt(r, text, t1, t2) ==
    LET vec == Split(SkipBlanks(Tail(text)), "-")
    IN [r EXCEPT !.start = IF vec = <<>> THEN NOPTS ELSE Timestr(vec[1], t1),
                 !.end   = IF Len(vec) < 2 THEN NOPTS ELSE Timestr(vec[2], t2)]

ReadableNpt(text) ==
    LET vec == Split(SkipBlanks(Tail(text)), "-")
    IN /\ ~OnlyBlanks(Tail(text))
       /\ \A i \in DOMAIN vec : i <= 2 => vec[i] = <<"now">> \/ IsNumber(vec[i])

\* Session: the number behind ";timeout=", with nothing between.
TimeoutText(text) == CutUntilChar(text, {";"}, FALSE).rest

HasTimeout(text) == TimeoutText(text) # <<>> /\ TimeoutText(text)[1] = "timeout="

Timeout(text) == SkipBlanks(Tail(TimeoutText(text)))

\* A line of which the times are put on the clock.
IsClocked(line) == line.key = "Range" /\ IsNpt(SkipBlanks(line.val))

\* What a line must be not to throw; the value of a header is never blank.
Readable(line) ==
    LET text == SkipBlanks(line.val)
    IN /\ OnlyBlanks(line.val) => line.key = "unknown"
       /\ line.key \in Numbers => IsInt(text)
       /\ line.key = "Session" /\ HasTimeout(text) => IsInt(Timeout(text))
       /\ IsClocked(line) => ReadableNpt(text)
       /\ line.key = "Transport" => ~ParseTransport(NewMessage, text).bad

\* What a line leaves in the message, the clock being read at t1 and t2.
ParseLine(r, line, t1, t2) ==
    LET text == SkipBlanks(line.val)
    IN CASE line.key \in Numbers -> [r EXCEPT !.numbers[line.key] = ValueOf(text)]
         [] line.key \in Texts   -> [r EXCEPT !.texts[line.key] = text]
         [] line.key = "Public"  ->
              [r EXCEPT !.get_parameter = @ \/ ("GET_PARAMETER" \in ToSet(text) /\ method = "OPTIONS")]
         [] IsClocked(line) -> RangeNpt(r, text, t1, t2)
         [] line.key = "Session" ->
              [r EXCEPT !.session = CutUntilChar(text, {";"}, FALSE).head,
                        !.timeout = IF HasTimeout(text) THEN ValueOf(Timeout(text)) ELSE @]
         [] line.key = "Transport" ->
              LET m == ParseTransport(r, text)
              IN [r EXCEPT !.nb = m.nb, !.transports = m.transports]
         [] OTHER -> r

-------------------------------------------------------------------------------
Init ==
    /\ method \in {"OPTIONS", "SETUP"}
    /\ lines = <<>>
    /\ received = 0
    /\ idx = 1
    /\ reply = NewMessage
    /\ setBack = FALSE
    /\ status = "idle"

\* read_rtsp_message: the lines of a reply go behind those that are there.  Only
\* the first line of the vector is passed over, so the status line of the
\* second reply is parsed, as an unknown header.
Receive ==
    /\ status = "idle"
    /\ received < IF method = "SETUP" THEN 2 ELSE 1
    /\ \E msg \in Messages :
         lines' = lines \o <<[key |-> "unknown", val |-> <<>>]>> \o msg
    /\ received' = received + 1
    /\ idx' = 2
    /\ status' = "parsing"
    /\ UNCHANGED <<method, reply, setBack>>

Parse ==
    /\ status = "parsing"
    /\ idx <= Len(lines)
    /\ Readable(lines[idx])
    /\ \E t1, t2 \in 0 .. MaxClock :
         /\ reply' = ParseLine(reply, lines[idx], t1, t2)
         /\ setBack' = IF IsClocked(lines[idx]) THEN t2 < t1 ELSE setBack
    /\ idx' = idx + 1
    /\ UNCHANGED <<method, lines, received, status>>

\* Nothing catches what std::stoi, std::stod and at() throw.
Throw ==
    /\ status = "parsing"
    /\ idx <= Len(lines)
    /\ ~Readable(lines[idx])
    /\ status' = "dead"
    /\ UNCHANGED <<method, lines, received, idx, reply, setBack>>

Parsed ==
    /\ status = "parsing"
    /\ idx > Len(lines)
    /\ status' = "idle"
    /\ UNCHANGED <<method, lines, received, idx, reply, setBack>>

Next == Receive \/ Parse \/ Throw \/ Parsed

Spec == Init /\ [][Next]_vars

-------------------------------------------------------------------------------
(* Properties.  They look at the lines themselves and never at what the      *)
(* parser cut out of them.                                                   *)

LinesOf(key) == {i \in DOMAIN lines : lines[i].key = key}

\* The last line of a kind, and the transports of the last Transport.
LastVal(S) == SkipBlanks(lines[Max(S)].val)

Pieces == Split(LastVal(LinesOf("Transport")), LineEnd)

\* Where a transport has a field of this name.
FieldsAt(piece, name) ==
    {j \in DOMAIN piece : /\ j > 1 /\ piece[j] = name /\ piece[j - 1] = ";"
                          /\ \E s \in 1 .. j - 1 : piece[s] = "/"}

IsDigit(piece, j) == j \in DOMAIN piece /\ piece[j] \in Digits

FieldEnds(piece, j) == j = Len(piece) \/ piece[j + 1] = ";"

\* A number or two and nothing else behind the "=" in front of position j.
IsRange(piece, j) ==
    /\ IsDigit(piece, j) /\ piece[j - 1] = "="
    /\ \/ FieldEnds(piece, j)
       \/ piece[j + 1] = "-" /\ IsDigit(piece, j + 2) /\ FieldEnds(piece, j + 2)

\* The two ends of the range at position j.
EndsAt(piece, j) ==
    <<Decimal[piece[j]],
      Decimal[piece[IF IsDigit(piece, j + 2) /\ piece[j + 1] = "-" THEN j + 2 ELSE j]]>>

\* The "/" behind the profile, where the lower transport is named.
Names(piece, e) ==
    /\ e \in 3 .. Len(piece) /\ piece[1] = "RTP" /\ piece[2] = "/" /\ piece[e] = "/"
    /\ \A h \in 3 .. e - 1 : piece[h] \notin {"/", ";", ","}

NamesTcp(piece) ==
    \E e \in DOMAIN piece :
      /\ Names(piece, e) /\ e < Len(piece) /\ piece[e + 1] = "TCP"
      /\ e + 1 = Len(piece) \/ piece[e + 2] \in {";", ","}

\* Every field keeps its type (RTSPMessage, RTSPTransportField).
TypeOK ==
    /\ method \in {"OPTIONS", "SETUP"}
    /\ lines \in Seq(Lines)
    /\ received \in 0 .. 2 /\ setBack \in BOOLEAN
    /\ idx \in 1 .. Len(lines) + 1
    /\ status \in {"idle", "parsing", "dead"}
    /\ reply \in Message

\* After any number of Transport headers, repeated ones included, there are as
\* many transports as the last header has (and the array holds), and each has
\* the ports and channels that header gives it (rtsp_parse_transport).
LastTransport ==
    status = "idle" /\ LinesOf("Transport") # {} =>
      /\ reply.nb = Least(MaxTransports, Len(Pieces))
      /\ \A p \in 1 .. reply.nb, r \in Ranges :
           LET at == FieldsAt(Pieces[p], r)
           IN at # {} /\ IsRange(Pieces[p], Max(at) + 2) =>
                reply.transports[p].ranges[r] = EndsAt(Pieces[p], Max(at) + 2)

\* The lower transport is TCP if the transport names it, or, when it names
\* none, if the one named last before it in the same header is TCP; otherwise
\* it is UDP, multicast where a field says so.  Nothing is left of the headers
\* before, and only UDP can be multicast (parse.cpp:41).
LowerNamed ==
    status = "idle" /\ LinesOf("Transport") # {} =>
      \A p \in 1 .. reply.nb :
        LET piece  == Pieces[p]
            lower  == reply.transports[p].lower
            naming == {q \in 1 .. p : \E e \in DOMAIN Pieces[q] : Names(Pieces[q], e)}
        IN IF naming # {} /\ NamesTcp(Pieces[Max(naming)]) THEN lower = TCP
           ELSE /\ lower \in {UDP, UDP_MULTICAST}
                /\ lower = UDP_MULTICAST => \E j \in DOMAIN piece : piece[j] = "multicast"
                /\ (\E j \in FieldsAt(piece, "multicast") : FieldEnds(piece, j)) =>
                     lower = UDP_MULTICAST

Untimed(r) == [r EXCEPT !.start = 0, !.end = 0]

Once(r, line) == ParseLine(r, line, 0, 0)

\* Parsing the lines of the first reply again with those of the second leaves
\* the message as if each line had been parsed once, but for the times, which
\* move with the clock (the loop at rtsp_client.cpp:122).
ReparseHarmless ==
    status = "idle" => Untimed(reply) = Untimed(FoldLeft(Once, NewMessage, lines))

\* A closed range is at least as long as it says, however late its end is put
\* on the clock, unless the clock is set back in between; a range without an end
\* has none, even behind one that had, and a range without a start is taken for
\* one without an end (rtsp_parse_range_npt).
RangeHolds ==
    LET ranges  == {i \in DOMAIN lines : IsClocked(lines[i])}
        text    == LastVal(ranges)
        times   == {j \in 2 .. Len(text) : text[j] \in Digits \cup {"now"}}
        Secs(j) == IF text[j] = "now" THEN 0 ELSE Decimal[text[j]]
    IN status = "idle" /\ ranges # {} =>
         /\ times = {} => reply.start = NOPTS /\ reply.end = NOPTS
         /\ \A a \in times : times = {a} => reply.start >= Secs(a) /\ reply.end = NOPTS
         /\ \A a, b \in times :
              times = {a, b} /\ (\E d \in a .. b : text[d] = "-") =>
                /\ reply.start >= Secs(a)
                /\ ~setBack => reply.end - reply.start >= Secs(b) - Secs(a)

\* What a line must have for the process to get past it.  It is more than RFC
\* 2326 asks for: a number there fits an int, a transport has something behind
\* the profile of RTP (parse.cpp:52), and a range nothing but its two times.
IsIntAt(text, j) == IsDigit(text, j) /\ Decimal[text[j]] <= MaxInt

SoundTransport(text) ==
    /\ \A j \in DOMAIN text :
         /\ text[j] \in Ranges \cup {"ttl"} => IsIntAt(text, j + 2) /\ text[j + 1] = "="
         /\ text[j] = "-" => IsIntAt(text, j + 1)
    /\ \A p \in DOMAIN Split(text, LineEnd) :
         LET piece == Split(text, LineEnd)[p]
         IN piece[1] = "RTP" => \E j \in 3 .. Len(piece) : piece[j] \in {"/", ";", ","}

\* A range of numbers and "now", a blank being in front of a number only.
SoundRange(text) ==
    /\ Len(text) > 1
    /\ \A j \in 2 .. Len(text) :
         /\ text[j] \in Digits \cup {"now", "-", Space}
         /\ text[j] = "now" => j = Len(text) \/ text[j + 1] = "-"
         /\ text[j] = Space => IsDigit(text, j + 1)

Sound(line) ==
    LET text == SkipBlanks(line.val)
    IN \/ line.key = "unknown"
       \/ /\ ~OnlyBlanks(line.val)
          /\ line.key \in Numbers => IsIntAt(text, 1)
          /\ line.key = "Session" =>
               \A j \in DOMAIN text : text[j] = "timeout=" => IsIntAt(text, j + 1)
          /\ IsClocked(line) => SoundRange(text)
          /\ line.key = "Transport" => SoundTransport(text)

\* The process ends at no other line than one that is not sound, however the
\* fields of its transports and the numbers are put together: nothing else that
\* std::stoi, std::stod or at() throws is reached.
SoundSurvives == status = "dead" => ~Sound(lines[idx])
===============================================================================
