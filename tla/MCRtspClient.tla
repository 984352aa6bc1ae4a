----------------------------- MODULE MCRtspClient -----------------------------
(***************************************************************************)
(* Small servers for RtspClient.                                           *)
(***************************************************************************)
EXTENDS RtspClient

H(name, value) == [t |-> name, v |-> value]
Tok(name)      == [t |-> name, v |-> 0]

\* A description: version and origin, name, then for each stream its "m" line
\* and its attribute lines; the first attribute line can be cut in two places.
Head2    == <<Tok("v"), Eol, Tok("s"), Eol>>
Attr     == <<Tok("a"), Tok("more"), Eol>>
ShortTail == <<Tok("a"), Tok("last"), Eol>>
OneTrack == Head2 \o <<Tok("m"), Eol>> \o Attr
TwoTracks == Head2 \o <<Tok("a"), Eol, Tok("m"), Eol>> \o Attr
                   \o <<Tok("m"), Eol>> \o ShortTail

Plain(headers) == [headers |-> headers, content |-> <<>>]
WithContent(body) == [headers |-> <<H("Content-Length", Len(body))>>, content |-> body]

\* A server that announces the content it sends and describes every stream
\* with an attribute line.
HonestReplies ==
    [m \in Methods |->
        CASE m = "OPTIONS"  -> {Plain(<<H("Public", 1)>>)}
          [] m = "DESCRIBE" -> {WithContent(OneTrack), WithContent(TwoTracks)}
          [] m = "SETUP"    -> {Plain(<<H("Session", 7)>>)}
          [] m = "PLAY"     -> {Plain(<<>>)}]

ASSUME HonestAssumption == Honest(HonestReplies)

\* And one that does what a client has to expect of servers in the field: no
\* Content-Length, contents where none is looked for, empty header values,
\* lines too long, streams without attributes, no description at all.
WildReplies ==
    [m \in Methods |->
        CASE m = "OPTIONS"  -> {Plain(<<H("WWW-Authenticate", 1), H("WWW-Authenticate", 2)>>),
                                WithContent(<<Tok("Other"), Eol, Eol>>),
                                Plain(<<Tok("Empty")>>)}
          [] m = "DESCRIBE" -> {WithContent(OneTrack),
                                Plain(<<>>),
                                WithContent(<<>>),
                                Plain(<<Tok("Long")>>),
                                WithContent(<<Tok("v"), Eol, Tok("a"), Eol>>),
                                [headers |-> <<Tok("Other")>>, content |-> OneTrack],
                                WithContent(Head2 \o <<Tok("a"), Eol, Tok("m"), Eol>>)}
          [] m = "SETUP"    -> {Plain(<<H("Session", 7), Tok("Other")>>)}
          [] m = "PLAY"     -> {WithContent(<<Tok("Other"), Eol>>)}]
===============================================================================
