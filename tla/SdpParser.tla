------------------------------ MODULE SdpParser ------------------------------
(***************************************************************************)
(* The description of a session: sdp_parser, sdp_format and sdp_destroy of *)
(* src/rtsp/sdp.cpp, with load_next_entry and str_split_values.  A caller  *)
(* parses what a server sent, writes it again and parses what it wrote.    *)
(*                                                                         *)
(* A line is its key, its value and the way it ends.  A value is a         *)
(* sequence of the tokens between its separators (":" for b=, blanks for   *)
(* the others), and a token a sequence of atoms: numbers, and characters   *)
(* that are no digits, written as numbers below 0.  Blank lines, numbers   *)
(* too large for an int and lines over the 4095 characters of str_format   *)
(* are left out; the client receives at most 4096 bytes in all.            *)
(***************************************************************************)
EXTENDS Integers, SequencesExt

CONSTANTS
    Letters,        \* what a line may start with
    Documents       \* descriptions a server may send

Slash   == -1
Letter  == -2       \* any character without a meaning of its own
Newline == -3       \* a line end inside a value, with what follows it
Day     == -4
Hour    == -5
Minute  == -6

Unit == [c \in {Day, Hour, Minute} |->
            IF c = Day THEN 86400 ELSE IF c = Hour THEN 3600 ELSE 60]

SessionOrder == <<"v", "o", "s", "i", "u", "e", "p", "c", "b", "t", "z", "k", "a">>
MediaOrder   == <<"i", "c", "b", "k", "a">>

\* Keys read with "if", the others are read with "while".
Single == {"v", "o", "s", "i", "u", "c", "z", "k"}

Texts  == Seq(Seq(Int))
Values == Seq(Seq(Int) \ {<<>>})

Lines == [key : Letters, val : Values, eol : {"crlf", "lf"}]

ASSUME DocumentsAssumption ==
    /\ ToSet(SessionOrder) \cup {"r", "m"} \subseteq Letters
    /\ Documents \subseteq Seq(Lines)

VARIABLES
    source,     \* the text being parsed
    doc,        \* its lines not loaded yet
    sdp,        \* the description built so far
    open,       \* the first place in the order where the next line may go
    heap,       \* blocks allocated and not freed
    status,     \* "parsing", "parsed", "rejected" or "no_memory"
    first       \* what the text was written from, in the second parse

vars == <<source, doc, sdp, open, heap, status, first>>

Nothing == [fields |-> [k \in ToSet(SessionOrder) |-> <<>>], medias |-> <<>>]

NoFields == [k \in ToSet(MediaOrder) |-> <<>>]

-------------------------------------------------------------------------------
(* str_split_values: one letter of its format takes a field from the text. *)

IsNumber(toks) == toks # <<>> /\ toks[1][1] >= 0

\* The text without the first n atoms of its first token.
Skip(toks, n) ==
    IF n = Len(toks[1]) THEN Tail(toks)
    ELSE <<SubSeq(toks[1], n + 1, Len(toks[1]))>> \o Tail(toks)

\* Without a number the rest of the text is cut off: *p = 0.
TakeNumber(out, toks) ==
    IF IsNumber(toks)
      THEN [out |-> Append(out, <<toks[1][1]>>), rest |-> Skip(toks, 1)]
      ELSE [out |-> Append(out, <<0>>), rest |-> <<>>]

HasUnit(toks) == IsNumber(toks) /\ Len(toks[1]) > 1 /\ toks[1][2] \in DOMAIN Unit

TakeTime(out, toks) ==
    IF HasUnit(toks)
      THEN [out  |-> Append(out, <<toks[1][1] * Unit[toks[1][2]]>>),
            rest |-> Skip(toks, 2)]
      ELSE TakeNumber(out, toks)

TakeString(out, toks) ==
    IF toks = <<>> THEN [out |-> Append(out, <<>>), rest |-> <<>>]
    ELSE [out |-> Append(out, Head(toks)), rest |-> Tail(toks)]

Take(text, letter) ==
    IF letter = "s" THEN TakeString(text.out, text.rest)
    ELSE IF letter = "t" THEN TakeTime(text.out, text.rest)
    ELSE TakeNumber(text.out, text.rest)

Split(fmt, val) == FoldLeft(Take, [out |-> <<>>, rest |-> val], fmt)

\* while (*value): a call takes an atom at least, or all there is.
SplitAll(fmt, text) ==
    FoldLeft(LAMBDA t, i : IF t.rest = <<>> THEN t ELSE FoldLeft(Take, t, fmt),
             text, FlattenSeq(text.rest))

-------------------------------------------------------------------------------
(* What sdp_parser makes of a value; numbers are tokens again. *)

\* m=: strtol reads the port and, behind a slash, the number of ports.
TakePort(text) ==
    LET toks == text.rest
        tok  == IF toks = <<>> THEN <<>> ELSE toks[1]
        d    == IF IsNumber(toks) THEN 1 ELSE 0
        s    == IF Len(tok) > d /\ tok[d + 1] = Slash THEN 1 ELSE 0
        e    == IF s = 1 /\ Len(tok) > d + 1 /\ tok[d + 2] >= 0 THEN 1 ELSE 0
        port == IF d = 1 THEN tok[1] ELSE 0
        port_n == IF e = 1 THEN tok[d + 2] ELSE 0
    IN [out  |-> Append(text.out, IF port_n = 0 THEN <<port>>
                                  ELSE <<port, Slash, port_n>>),
        rest |-> IF d + s = 0 THEN toks ELSE Skip(toks, d + s + e)]

\* Seeded fault: the transport is not read.
MediaInfoShort(val) == SplitAll(<<"i">>, TakePort(Split(<<"s">>, val))).out

MediaInfo(val) == SplitAll(<<"i">>, Take(TakePort(Split(<<"s">>, val)), "s")).out

Fields(k, val) ==
    CASE k = "o" -> Split(<<"s", "l", "l", "s", "s", "s">>, val).out
      [] k = "c" -> Split(<<"s", "s", "s">>, val).out
      [] k = "b" -> Split(<<"s", "s">>, val).out
      [] k = "t" -> Split(<<"t", "t">>, val).out
      [] k = "r" -> SplitAll(<<"t">>, Split(<<"t", "t">>, val)).out
      [] k = "z" -> SplitAll(<<"t", "t">>, [out |-> <<>>, rest |-> val]).out
      [] k = "m" -> MediaInfo(val)
      [] OTHER   -> val

-------------------------------------------------------------------------------
(* load_next_entry: the line at the head of doc.  "\r\n" is searched for up  *)
(* to the end of the text before "\n" is: lines that end in "\n" are one     *)
(* with what follows if a later one ends in "\r\n".                          *)

CrLf == {i \in DOMAIN doc : doc[i].eol = "crlf"}

EntryEnd == IF CrLf = {} THEN 1 ELSE Min(CrLf)

key == IF doc = <<>> THEN "none" ELSE doc[1].key

value ==
    LET val == doc[1].val
    IN IF EntryEnd = 1 THEN val
       ELSE IF val = <<>> THEN <<<<Newline>>>>
       ELSE [val EXCEPT ![Len(val)] = Append(@, Newline)]

-------------------------------------------------------------------------------
(* Blocks: what is allocated for a line, and what sdp_destroy frees. *)

Times(s)   == s.fields["t"]
Here       == Len(sdp.medias)
LastTime   == Len(Times(sdp))

\* The arrays a line needs, in the order they are allocated or grown.
Needs(k, fields) ==
    CASE k = "r" -> <<<<"r", LastTime, 0>>>>
                      \o (IF Len(fields) > 2
                            THEN <<<<"offsets", LastTime, Len(Times(sdp)[LastTime])>>>>
                            ELSE <<>>)
      [] k = "m" -> <<<<"m", 0, 0>>>>
                      \o (IF Len(fields) > 3 THEN <<<<"fmt", Here + 1, 0>>>> ELSE <<>>)
      [] k = "z" -> IF fields = <<>> THEN <<>> ELSE <<<<"z", 0, 0>>>>
      [] k \in {"e", "p", "b", "t", "a"} -> <<<<k, Here, 0>>>>
      [] OTHER -> <<>>

\* Seeded fault: the offsets of repeat times are forgotten.
FreedButOffsets(s) ==
    {<<k, 0, 0>> : k \in {"sdp", "payload", "e", "p", "b", "t", "z", "a", "m"}}
      \cup {<<"r", i, 0>> : i \in DOMAIN Times(s)}
      \cup {<<k, i, 0>> : k \in {"fmt", "b", "a"}, i \in DOMAIN s.medias}

\* sdp_destroy
Freed(s) ==
    {<<k, 0, 0>> : k \in {"sdp", "payload", "e", "p", "b", "t", "z", "a", "m"}}
      \cup {<<"r", i, 0>> : i \in DOMAIN Times(s)}
      \cup (UNION {{<<"offsets", i, j>> : j \in 1 .. Len(Times(s)[i]) - 1} :
                      i \in DOMAIN Times(s)})
      \cup {<<k, i, 0>> : k \in {"fmt", "b", "a"}, i \in DOMAIN s.medias}

-------------------------------------------------------------------------------
(* sdp_parser, one action per kind of line *)

Begin(text) ==
    /\ source = text
    /\ doc = text
    /\ sdp = Nothing
    /\ open = 1
    /\ heap = {<<"sdp", 0, 0>>, <<"payload", 0, 0>>}
    /\ status = "parsing"

Init == first = Nothing /\ \E d \in Documents : Begin(d)

\* A line goes into the description, or memory for it runs out on the way:
\* all there is of the description is destroyed.
Load(k, next) ==
    LET needs == Needs(k, Fields(k, value))
    IN \/ /\ sdp' = next
          /\ doc' = SubSeq(doc, EntryEnd + 1, Len(doc))
          /\ heap' = heap \cup ToSet(needs)
          /\ UNCHANGED status
       \/ \E n \in DOMAIN needs :
            /\ heap' = (heap \cup ToSet(SubSeq(needs, 1, n - 1)))
                         \ Freed(IF n = 1 THEN sdp ELSE next)
            /\ status' = "no_memory"
            /\ sdp' = Nothing
            /\ UNCHANGED doc

Order == IF sdp.medias = <<>> THEN SessionOrder ELSE MediaOrder

\* Seeded fault: places already passed are looked at again.
ReachedAgain(k) == {i \in DOMAIN Order : Order[i] = k /\ (open <= 3 => i = open)}

\* The places a key may go to: v=, o= and s= are required, other places can be
\* left out, and there is no way back.
Reached(k) ==
    {i \in DOMAIN Order :
        /\ Order[i] = k
        /\ i >= open
        /\ sdp.medias = <<>> /\ open <= 3 => i = open}

\* Seeded fault: lines of a stream are kept with the session.
PlacedInSession(entry) == [sdp EXCEPT !.fields[key] = @ \o entry]

\* An entry joins the session, or the last stream once there is one.
Placed(entry) ==
    IF sdp.medias = <<>> THEN [sdp EXCEPT !.fields[key] = @ \o entry]
    ELSE [sdp EXCEPT !.medias[Here].fields[key] = @ \o entry]

\* What a line adds in its place: a t= line begins a time with no repeats, an
\* empty z= leaves nothing.
Entry ==
    LET fields == Fields(key, value)
    IN IF key = "t" THEN <<<<fields>>>>
       ELSE IF key = "z" /\ fields = <<>> THEN <<>>
       ELSE <<fields>>

IsVersion0 == value = <<<<0>>>>

\* A line with a place in the order.
ReadField ==
    /\ status = "parsing"
    /\ doc # <<>>
    /\ key = "v" => IsVersion0
    /\ \E i \in Reached(key) :
         open' = IF key \in Single THEN i + 1 ELSE i
    /\ Load(key, Placed(Entry))
    /\ UNCHANGED <<source, first>>

\* r= is read as long as the line before it was t= or r=.
RepeatReached == sdp.medias = <<>> /\ open <= Len(Order) /\ Order[open] = "t"

ReadRepeat ==
    /\ status = "parsing"
    /\ key = "r"
    /\ RepeatReached
    /\ Load("r", [sdp EXCEPT !.fields["t"][LastTime] = Append(@, Fields("r", value))])
    /\ UNCHANGED <<source, open, first>>

MediaReached == sdp.medias # <<>> \/ open > 3

ReadMedia ==
    /\ status = "parsing"
    /\ key = "m"
    /\ MediaReached
    /\ Load("m", [sdp EXCEPT !.medias =
                     Append(@, [info |-> Fields("m", value), fields |-> NoFields])])
    /\ open' = 1
    /\ UNCHANGED <<source, first>>

Fits == \/ Reached(key) # {} /\ (key = "v" => IsVersion0)
        \/ key = "r" /\ RepeatReached
        \/ key = "m" /\ MediaReached

\* The first line that has no place, or that is none, ends the description.
Return ==
    /\ status = "parsing"
    /\ MediaReached
    /\ ~Fits
    /\ status' = "parsed"
    /\ UNCHANGED <<source, doc, sdp, open, heap, first>>

Reject ==
    /\ status = "parsing"
    /\ ~MediaReached
    /\ ~Fits
    /\ status' = "rejected"
    /\ heap' = heap \ Freed(sdp)
    /\ sdp' = Nothing
    /\ UNCHANGED <<source, doc, open, first>>

-------------------------------------------------------------------------------
(* sdp_format *)

\* Fields are written with separators between them: an empty one leaves none.
Joined(fields) ==
    FlattenSeq([n \in DOMAIN fields |->
        IF fields[n] = <<>> THEN <<>> ELSE <<fields[n]>>])

\* Seeded fault: the offsets of a repeat time are not written.
LineButOffsets(k, fields) ==
    [key |-> k, val |-> Joined(IF k = "r" THEN SubSeq(fields, 1, 2) ELSE fields),
     eol |-> "crlf"]

Line(k, fields) == [key |-> k, val |-> Joined(fields), eol |-> "crlf"]

Written(k, entries) ==
    IF k = "t"
      THEN FlattenSeq([n \in DOMAIN entries |->
             [j \in DOMAIN entries[n] |-> Line(IF j = 1 THEN "t" ELSE "r", entries[n][j])]])
      ELSE [n \in DOMAIN entries |-> Line(k, entries[n])]

InOrder(order, fields) ==
    FlattenSeq([i \in DOMAIN order |-> Written(order[i], fields[order[i]])])

Format(s) ==
    InOrder(SessionOrder, s.fields)
      \o FlattenSeq([i \in DOMAIN s.medias |->
           <<Line("m", s.medias[i].info)>> \o InOrder(MediaOrder, s.medias[i].fields)])

\* The caller writes the description, destroys it and parses the text.
ParseAgain ==
    /\ status = "parsed"
    /\ first = Nothing
    /\ first' = sdp
    /\ LET text == Format(sdp)
       IN source' = text /\ doc' = text
    /\ sdp' = Nothing
    /\ open' = 1
    /\ heap' = (heap \ Freed(sdp)) \cup {<<"sdp", 0, 0>>, <<"payload", 0, 0>>}
    /\ status' = "parsing"

Next ==
    \/ ReadField
    \/ ReadRepeat
    \/ ReadMedia
    \/ Return
    \/ Reject
    \/ ParseAgain

Spec == Init /\ [][Next]_vars

-------------------------------------------------------------------------------
(* What is expected of a description. *)

\* Every line ends where its writer ended it.
Uniform ==
    \A i, j \in DOMAIN source : i < j /\ source[i].eol = "lf" => source[j].eol = "lf"

Keys(lines) == [i \in DOMAIN lines |-> lines[i].key]

Loaded == SubSeq(source, 1, Len(source) - Len(doc))

TypeOK ==
    /\ status \in {"parsing", "parsed", "rejected", "no_memory"}
    /\ open \in 1 .. Len(SessionOrder) + 1
    /\ DOMAIN sdp.fields = ToSet(SessionOrder)
    /\ \A k \in ToSet(SessionOrder) \ {"t"} : sdp.fields[k] \in Seq(Texts)
    /\ sdp.fields["t"] \in Seq(Seq(Texts) \ {<<>>})
    /\ \A m \in ToSet(sdp.medias) :
         /\ m.info \in Texts /\ Len(m.info) >= 3
         /\ m.fields \in [ToSet(MediaOrder) -> Seq(Texts)]
    /\ \A block \in heap : block[2] \in Nat /\ block[3] \in Nat

\* The order of the grammar of README.md:17-55, told by what holds of any two
\* lines: the first three are v=, o= and s=; inside one description the letters
\* keep their order, those read once come once, and r= stands behind t= or r=.
Rank(k) == CHOOSE i \in DOMAIN SessionOrder :
              SessionOrder[i] = IF k = "r" THEN "t" ELSE k

\* The m= lines up to a line tell the descriptions apart.
Part(ks, i) == {j \in 1 .. i : ks[j] = "m"}

Ordered(ks) ==
    /\ \A i \in DOMAIN ks :
         /\ i <= 3 => ks[i] = SessionOrder[i]
         /\ ks[i] \in IF Part(ks, i) = {} THEN ToSet(SessionOrder) \cup {"r"}
                      ELSE ToSet(MediaOrder) \cup {"m"}
         /\ ks[i] = "r" => ks[i - 1] \in {"t", "r"}
    /\ \A i, j \in DOMAIN ks :
         i < j /\ Part(ks, i) = Part(ks, j) /\ ks[i] # "m" =>
           /\ Rank(ks[i]) <= Rank(ks[j])
           /\ ks[i] = ks[j] => ks[i] \notin Single

\* The parser has no memory but its place in the code, and what it takes is
\* always the longest beginning of the text that keeps the order: no line is
\* lost before the first one out of order, and none is read behind it.  That a
\* line the grammar asks for is there is another matter: see Conforms.
LongestOrdered ==
    Uniform =>
      /\ Ordered(Keys(Loaded))
      /\ status = "parsed" => Len(Loaded) >= 3
      /\ status \in {"parsed", "rejected"} /\ doc # <<>> =>
           \/ ~Ordered(Append(Keys(Loaded), doc[1].key))
           \/ Loaded = <<>> /\ doc[1].val # <<<<0>>>>

\* A z= line without adjustments is nothing to either function.
KeysKept(lines) ==
    FlattenSeq([i \in DOMAIN lines |->
        IF lines[i].key = "z" /\ lines[i].val = <<>> THEN <<>> ELSE <<lines[i].key>>])

\* Every line read is in the description, once, in its place and under the
\* stream it stood under: written out, the description has the lines read.
EveryLineKept ==
    Uniform /\ status \in {"parsing", "parsed"} => Keys(Format(sdp)) = KeysKept(Loaded)

\* o= and m= lines whose first field is there: numbers follow it, and the first
\* of them would be read in its place.
Named(s) ==
    /\ s.fields["o"][1][1] # <<>>
    /\ \A m \in ToSet(s.medias) : m.info[1] # <<>>

\* sdp_format is the inverse of sdp_parser: what was cut off, defaulted or
\* converted in the first parse is the same in the second, whatever the lines
\* were like.
RoundTrip ==
    first # Nothing /\ Named(first) /\ status \in {"parsed", "rejected"} =>
      status = "parsed" /\ sdp = first /\ doc = <<>>

\* Wherever memory runs out or the text is rejected, what was allocated on the
\* way is freed; and nothing of the first description is left in the second parse.
NothingLeaks ==
    /\ status \in {"rejected", "no_memory"} => heap = {}
    /\ status = "parsing" /\ doc = source =>
         heap = {<<"sdp", 0, 0>>, <<"payload", 0, 0>>}

-------------------------------------------------------------------------------
(* What README.md and the comments of sdp_parser say of a description.       *)

\* The grammar of README.md:17-55: its order, "One or more time descriptions"
\* (README.md:31, sdp.cpp:155), and a connection for the session or for every
\* stream (README.md:29, sdp.cpp:128).
Conforms(ks) ==
    /\ Ordered(ks)
    /\ \E i \in DOMAIN ks : ks[i] = "t"
    /\ \/ \E i \in DOMAIN ks : ks[i] = "c" /\ Part(ks, i) = {}
       \/ \A i \in DOMAIN ks : ks[i] = "m" =>
            \E j \in DOMAIN ks : ks[j] = "c" /\ Part(ks, j) = Part(ks, i)

\* A text that is parsed to its end, every line of it on its own, is a
\* description by that grammar.
TakenConforms ==
    status = "parsed" /\ first = Nothing /\ doc = <<>> /\ Uniform => Conforms(Keys(source))
===============================================================================
