------------------------------ MODULE RtspUrl --------------------------------
(***************************************************************************)
(* split_video_url of src/rtsp/rtsp_url.cpp.  A URL is a sequence of       *)
(* characters; only the number of a port is one token.  A URL that runs    *)
(* out of one of its fields (rtsp_url.h:15-21) does not run out of         *)
(* RTSPUrlInfo.                                                            *)
(***************************************************************************)
EXTENDS StrUtils

CONSTANTS
    Token,              \* characters and numbers that URLs are made of
    Decimal,            \* the numbers among them, with their values
    ProtoSize,          \* characters there is room for in RTSPUrlInfo
    AuthorizationSize,
    HostnameSize,
    PathSize

ASSUME SizesAssumption ==
    {ProtoSize, AuthorizationSize, HostnameSize, PathSize} \subseteq Nat \ {0}

\* What RFC 3986 keeps for the structure of a URL.
Delimiters == {":", "/", "?", "#", "[", "]", "@"}

RTSP_DEFAULT_PORT == 554

Cleared == [proto |-> <<>>, authorization |-> <<>>, hostname |-> <<>>,
            port |-> 0, path |-> <<>>, overrun |-> FALSE]

\* What the fields hold when one was not large enough is left open.
Spoiled == [Cleared EXCEPT !.overrun = TRUE]

\* Seeded fault: the authorization ends at the first "@".
FirstAt(places) == Min(places)

\* The authorization ends at the last of these places.
LastAt(places) == Max(places)

\* atoi, into a uint16_t.
Atoi(text) ==
    IF text # <<>> /\ text[1] \in DOMAIN Decimal THEN Decimal[text[1]] % 65536 ELSE 0

HostDefault(info, text) ==
    [info EXCEPT !.hostname = text, !.port = RTSP_DEFAULT_PORT]

\* The host and its port.  The port of an IPv6 literal is not defaulted.
Host(info, text) ==
    LET brk == SelectInSeq(text, LAMBDA c : c = "]")
        col == CutUntilChar(text, {":"}, FALSE)
    IN IF text # <<>> /\ text[1] = "[" /\ brk > 0
         THEN [info EXCEPT !.hostname = SubSeq(text, 2, brk - 1),
                           !.port = IF brk < Len(text) /\ text[brk + 1] = ":"
                                      THEN Atoi(SubSeq(text, brk + 2, Len(text))) ELSE @]
       ELSE IF Contains(text, ":")
         THEN [info EXCEPT !.hostname = col.head, !.port = Atoi(col.rest)]
       ELSE HostDefault(info, text)

\* What stands between "//" and the path.
Authority(info, text) ==
    LET ats == {i \in DOMAIN text : text[i] = "@"}
    IN IF text = <<>> THEN info
       ELSE IF ats = {} THEN Host(info, text)
       ELSE Host([info EXCEPT !.authorization = SubSeq(text, 1, LastAt(ats) - 1)],
                 SubSeq(text, LastAt(ats) + 1, Len(text)))

\* Seeded fault: the end of the string is not counted.
FitsFull(text, size) == Len(text) <= size

Fits(text, size) == Len(text) < size

\* The length of the text is all that bounds these copies, not the field.
Overruns(info) ==
    \/ ~Fits(info.proto, ProtoSize)
    \/ ~Fits(info.authorization, AuthorizationSize)
    \/ ~Fits(info.hostname, HostnameSize)

\* What is copied to the fields; the path is cut to its own.
Copied(url) ==
    LET scheme  == CutUntilChar(url, {":"}, FALSE)
        slashes == Cardinality({i \in 1 .. 2 : \A j \in 1 .. i :
                                   j \in DOMAIN scheme.rest /\ scheme.rest[j] = "/"})
        cut     == CutUntilChar(SubSeq(scheme.rest, slashes + 1, Len(scheme.rest)),
                                {"/", "?", "#"}, TRUE)
    IN IF ~Contains(url, ":") THEN [Cleared EXCEPT !.path = StrCopy(url, PathSize)]
       ELSE Authority([Cleared EXCEPT !.proto = scheme.head,
                                      !.path = StrCopy(cut.rest, PathSize)], cut.head)

SplitVideoUrl(url) ==
    LET info == Copied(url) IN IF Overruns(info) THEN Spoiled ELSE info

-------------------------------------------------------------------------------
(* The URL, as RFC 3986 writes it, of its parts; one without a scheme is a  *)
(* path.                                                                    *)
Write(t) ==
    IF t.proto = <<>> THEN t.path
    ELSE t.proto \o <<":", "/", "/">>
         \o (IF t.authorization = <<>> THEN <<>> ELSE t.authorization \o <<"@">>)
         \o (IF t.v6 THEN <<"[">> \o t.hostname \o <<"]">> ELSE t.hostname)
         \o (IF t.port = <<>> THEN <<>> ELSE <<":">> \o t.port) \o t.path

\* Parts that RFC 3986 lets stand in a URL, but for the authorization, which may
\* be anything.
IsUrl(t) ==
    /\ {t.proto, t.authorization, t.hostname, t.port, t.path} \subseteq Seq(Token)
    /\ ToSet(t.proto \o t.authorization \o t.hostname \o t.path) \cap DOMAIN Decimal = {}
    /\ t.v6 \in BOOLEAN
    /\ ToSet(t.proto) \cap Delimiters = {}
    /\ IF t.proto = <<>>
         THEN /\ t.authorization = <<>> /\ t.hostname = <<>>
              /\ ":" \notin ToSet(t.path)
         ELSE /\ t.hostname # <<>>
              /\ ToSet(t.hostname) \cap Delimiters \subseteq IF t.v6 THEN {":"} ELSE {}
              /\ t.port = <<>> \/ \E n \in DOMAIN Decimal : t.port = <<n>>
              /\ t.path = <<>> \/ t.path[1] \in {"/", "?", "#"}
===============================================================================
