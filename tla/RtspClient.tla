------------------------------ MODULE RtspClient ------------------------------
(***************************************************************************)
(* The RTSP client of src/manager/rtsp_client.cpp over the TCP connection  *)
(* of src/socket/TcpClient.cpp, with rtsp_method_encode and                *)
(* rtsp_parse_line of src/rtsp/rtsp.cpp and the line loop of sdp_parser.   *)
(*                                                                         *)
(* connect() is one blocking thread; each action below is what it does     *)
(* between two system calls.  The server is the environment: it answers    *)
(* the requests it has received in order, and may go away at any moment.   *)
(*                                                                         *)
(* The byte stream from the server is a sequence of tokens.  A line is a   *)
(* text token (named after its header, or after the type letter of an SDP  *)
(* line), possibly some more bytes of the same line, and an end of line.   *)
(* recv() may stop between any two tokens, inside a line or just before    *)
(* its end, which is where TCP segments may end.                           *)
(***************************************************************************)
EXTENDS Integers, Sequences, FiniteSets

CONSTANTS
    Replies,        \* method -> set of replies the server may give to it
    RequestParts,   \* pieces in which send() may pass a request to TCP
    MaxContent,     \* size of the buffer for the content, in tokens
    MaxCalls        \* bound: how often connect() is called on one client

Methods == {"OPTIONS", "DESCRIBE", "SETUP", "PLAY"}

\* Headers with a name of their own store their value v; "Empty" is a header
\* with nothing after the colon; "Other" only ends up in the log or in fields
\* that nothing in src/ reads; "Long" is a line of more than 4096 bytes.
HeaderTypes == {"Status", "CSeq", "Content-Length", "Session",
                "WWW-Authenticate", "Public", "Empty", "Other", "Long"}

\* First bytes of the SDP lines that matter here: "v" and "o" together, "s",
\* a stream, an attribute.  "more" is the rest of a line that may be cut off
\* from its beginning, "last" a rest of a single byte.
SdpTypes  == {"v", "s", "m", "a"}
RestTypes == {"more", "last"}

Token == [t : HeaderTypes \cup SdpTypes \cup RestTypes \cup {"eol"}, v : Nat]

Eol == [t |-> "eol", v |-> 0]

\* A reply: its header lines after the status line and CSeq, its content.
Reply == [headers : Seq(Token), content : Seq(Token)]

ASSUME RepliesAssumption ==
    /\ Replies \in [Methods -> SUBSET Reply]
    /\ \A m \in Methods : \A rep \in Replies[m] : \A i \in 1 .. Len(rep.headers) :
         rep.headers[i].t = "Content-Length" => rep.headers[i].v <= MaxContent
ASSUME BoundsAssumption ==
    /\ RequestParts \in Nat \ {0}
    /\ MaxContent \in Nat
    /\ MaxCalls \in Nat

\* The URI of every request is m_info->path; 1, 2, ... would be the path with
\* the control attribute of that stream appended.
Path == 0

\* Field values nothing has assigned yet.
Unset == -1
None  == [t |-> "none", v |-> 0]

VARIABLES
    \* ---- the client object and the stack of connect()
    pc,             \* where connect() stands
    calls,          \* calls of connect() so far
    method,         \* rtsp_send_options, _describe, _setup or _play
    ctx,            \* m_ctx
    request,        \* the request encoded last
    sendLen,        \* parts of it TcpClient::send has passed on
    lines,          \* the header lines read
    cur,            \* first token of the line being read, None at its start
    idx,            \* parse_reply's i
    reply,          \* the RTSPMessage
    content,        \* what recv() stored in buf and sdp_parser has not read
    streams,        \* sdp->medias, with their attributes_count
    media,          \* rtsp_send_setup's i
    \* ---- the connection and the server
    inbox,          \* requests the server has not answered
    stream,         \* tokens the client has not read
    down,           \* the server has closed its end
    \* ---- history
    issued,         \* method of the last request sent completely
    setups,         \* SETUP requests sent completely
    described,      \* streams of the last description sent completely
    short,          \* a recv() returned less than Content-Length
    cause           \* why the process died

clientVars  == <<pc, calls, method, ctx, request, sendLen, lines, cur, idx,
                 reply, content, streams, media>>
serverVars  == <<inbox, stream, down, described>>
historyVars == <<issued, setups, short, cause>>
vars        == <<clientVars, serverVars, historyVars>>

Request == [method : Methods, seq : Nat, uri : Nat, session : Nat, auth : Nat]

\* In session_id and auth, 0 is the empty string.
Context == [seq : Nat, session_id : Nat, auth : Nat, auth_type : Nat,
            get_parameter_supported : Nat]

Message == [seq : Nat \cup {Unset}, content_length : Nat \cup {Unset},
            session_id : Nat \cup {Unset}]

TypeOK ==
    /\ pc \in {"idle", "encode", "send", "read", "parse", "content",
               "sdp_v", "sdp_s", "sdp_m", "setup", "dead"}
    /\ calls \in 0 .. MaxCalls
    /\ method \in Methods
    /\ ctx \in Context
    /\ request \in Request
    /\ sendLen \in 0 .. RequestParts
    /\ lines \in Seq(Token)
    /\ cur \in Token \cup {None}
    /\ idx \in Nat \ {0}
    /\ reply \in Message
    /\ content \in Seq(Token)
    /\ streams \in Seq(Nat)
    /\ media \in Nat
    /\ inbox \in Seq(Request)
    /\ stream \in Seq(Token)
    /\ down \in BOOLEAN
    /\ issued \in Methods \cup {"none"}
    /\ setups \in Nat
    /\ described \in Nat
    /\ short \in BOOLEAN
    /\ cause \in {"none", "sigpipe", "exception", "no_sdp", "no_attribute"}

-------------------------------------------------------------------------------
\* memset(m_ctx, 0): in particular no session id and no username:password.
NewContext == [seq |-> 0, session_id |-> 0, auth |-> 0,
               auth_type |-> 0, get_parameter_supported |-> 0]

\* new RTSPMessage leaves the fields as they happen to be.
NewMessage == [seq |-> Unset, content_length |-> Unset, session_id |-> Unset]

Init ==
    /\ pc = "idle"
    /\ calls = 0
    /\ method = "OPTIONS"
    /\ ctx = NewContext
    /\ request = [method |-> "OPTIONS", seq |-> 0, uri |-> Path,
                  session |-> 0, auth |-> 0]
    /\ sendLen = 0
    /\ lines = <<>>
    /\ cur = None
    /\ idx = 1
    /\ reply = NewMessage
    /\ content = <<>>
    /\ streams = <<>>
    /\ media = 0
    /\ inbox = <<>>
    /\ stream = <<>>
    /\ down = TRUE
    /\ issued = "none"
    /\ setups = 0
    /\ described = 0
    /\ short = FALSE
    /\ cause = "none"

-------------------------------------------------------------------------------
(* Entering rtsp_send_<m>: a message of its own and no lines yet. *)
Enter(m) ==
    /\ method' = m
    /\ reply' = NewMessage
    /\ lines' = <<>>

\* Every failure makes the callers return false up to connect(), which
\* leaves the socket as it is.
Fail == pc' = "idle"

Die(why) ==
    /\ pc' = "dead"
    /\ cause' = why

\* RtspClient::connect: TcpClient::connect opens a new socket.
Connect ==
    /\ pc = "idle"
    /\ calls < MaxCalls
    /\ calls' = calls + 1
    /\ inbox' = <<>>
    /\ stream' = <<>>
    /\ down' = FALSE
    /\ described' = 0
    /\ issued' = "none"
    /\ setups' = 0
    /\ short' = FALSE
    /\ ctx' = NewContext
    /\ Enter("OPTIONS")
    /\ cur' = None
    /\ streams' = <<>>
    /\ media' = 0
    /\ content' = <<>>
    /\ pc' = "encode"
    /\ UNCHANGED <<request, sendLen, idx, cause>>

\* The server is not there: TcpClient::connect closes the socket again.
ConnectRefused ==
    /\ pc = "idle"
    /\ calls < MaxCalls
    /\ calls' = calls + 1
    /\ UNCHANGED <<pc, method, ctx, request, sendLen, lines, cur, idx, reply,
                   content, streams, media, serverVars, historyVars>>

\* rtsp_method_encode; the URI is m_info->path whatever is to be set up.
Encode ==
    /\ pc = "encode"
    /\ request' = [method |-> method, seq |-> ctx.seq, uri |-> Path,
                   session |-> ctx.session_id,
                   auth |-> IF ctx.auth # 0 THEN ctx.auth_type ELSE 0]
    /\ ctx' = [ctx EXCEPT !.seq = @ + 1]
    /\ sendLen' = 0
    /\ pc' = "send"
    /\ UNCHANGED <<calls, method, lines, cur, idx, reply, content, streams,
                   media, serverVars, historyVars>>

\* Seeded fault: the parts already passed on are sent again.
RemainingWhole == RequestParts

Remaining == RequestParts - sendLen

\* One round of TcpClient::send: TCP takes n parts.  The kernel accepts them
\* even when the peer has just closed.
SendPart ==
    /\ pc = "send"
    /\ \E n \in 1 .. Remaining :
         /\ sendLen' = sendLen + n
         /\ IF sendLen' < RequestParts
              THEN UNCHANGED <<pc, inbox, issued, setups, cur>>
              ELSE /\ inbox' = Append(inbox, request)
                   /\ issued' = request.method
                   /\ setups' = IF request.method = "SETUP" THEN setups + 1 ELSE setups
                   /\ cur' = None
                   /\ pc' = "read"
    /\ UNCHANGED <<calls, method, ctx, request, lines, idx, reply, content,
                   streams, media, stream, down, described, short, cause>>

\* ::send on a connection the peer has reset: an error, or SIGPIPE, which
\* neither MSG_NOSIGNAL nor a handler keeps from ending the process.
SendFails ==
    /\ pc = "send"
    /\ down
    /\ \/ Fail /\ UNCHANGED cause
       \/ Die("sigpipe")
    /\ UNCHANGED <<calls, method, ctx, request, sendLen, lines, cur, idx, reply,
                   content, streams, media, serverVars, issued, setups, short>>

-------------------------------------------------------------------------------
(* read_line and read_rtsp_message, one token of the stream at a time. *)
Reading ==
    /\ pc = "read"
    /\ stream # <<>>
    /\ stream' = Tail(stream)
    /\ UNCHANGED <<calls, method, ctx, request, sendLen, reply, content,
                   streams, media, inbox, down, described, issued, setups, short, cause>>

\* Bytes of a line; only its first token decides what the line is.
ReadText ==
    /\ Reading
    /\ Head(stream).t \notin {"eol", "Long"}
    /\ cur' = IF cur = None THEN Head(stream) ELSE cur
    /\ UNCHANGED <<pc, lines, idx>>

\* The end of a line with something on it; a single byte is not kept.
ReadLine ==
    /\ Reading
    /\ Head(stream).t = "eol"
    /\ cur # None
    /\ lines' = IF cur.t = "last" THEN lines ELSE Append(lines, cur)
    /\ cur' = None
    /\ UNCHANGED <<pc, idx>>

\* Seeded fault: the loop of read_rtsp_message also goes on at length 0.
ReadBlankSkipped ==
    /\ Reading
    /\ Head(stream).t = "eol"
    /\ cur = None
    /\ UNCHANGED <<pc, lines, idx, cur>>

\* An empty line ends the message.
ReadBlank ==
    /\ Reading
    /\ Head(stream).t = "eol"
    /\ cur = None
    /\ pc' = "parse"
    /\ idx' = 1
    /\ UNCHANGED <<lines, cur>>

\* The line does not fit the buffer.
ReadLong ==
    /\ Reading
    /\ Head(stream).t = "Long"
    /\ Fail
    /\ UNCHANGED <<lines, cur, idx>>

\* recv() returns 0 or -1, in the middle of a message or of the content.
ReadDown ==
    /\ pc \in {"read", "content"}
    /\ stream = <<>>
    /\ down
    /\ Fail
    /\ UNCHANGED <<calls, method, ctx, request, sendLen, lines, cur, idx, reply,
                   content, streams, media, serverVars, historyVars>>

-------------------------------------------------------------------------------
(* parse_reply: rtsp_parse_line on every line but the first. *)
Parsing ==
    /\ pc = "parse"
    /\ idx <= Len(lines)
    /\ idx' = idx + 1
    /\ UNCHANGED <<calls, method, request, sendLen, lines, cur, content,
                   streams, media, serverVars, issued, setups, short>>

Header == lines[idx].t
Value  == lines[idx].v

Parse(name) == Parsing /\ idx > 1 /\ Header = name

ParseStored ==
    /\ \/ Parse("CSeq") /\ reply' = [reply EXCEPT !.seq = Value]
       \/ Parse("Content-Length")
            /\ reply' = [reply EXCEPT !.content_length = Value]
       \/ Parse("Session") /\ reply' = [reply EXCEPT !.session_id = Value]
    /\ UNCHANGED <<pc, ctx, cause>>

\* http_auth_handle_header; v is 1 for Basic, 2 for Digest.
ParseAuthenticate ==
    /\ Parse("WWW-Authenticate")
    /\ ctx' = [ctx EXCEPT !.auth_type = IF @ <= Value THEN Value ELSE @]
    /\ UNCHANGED <<pc, reply, cause>>

\* v is 1 if the methods listed include GET_PARAMETER.
ParsePublic ==
    /\ Parse("Public")
    /\ ctx' = [ctx EXCEPT !.get_parameter_supported =
                   IF Value = 1 /\ method = "OPTIONS" THEN 1 ELSE @]
    /\ UNCHANGED <<pc, reply, cause>>

\* str_start_and_cut skips spaces with at(), which throws at the end of the
\* line, and nothing catches it.
ParseEmpty ==
    /\ Parse("Empty")
    /\ Die("exception")
    /\ UNCHANGED <<ctx, reply>>

\* The line taken for the status line, and the lines that change nothing.
ParseIgnored ==
    /\ Parsing
    /\ \/ idx = 1
       \/ Header \notin {"CSeq", "Content-Length", "Session",
                         "WWW-Authenticate", "Public", "Empty"}
    /\ UNCHANGED <<pc, ctx, reply, cause>>

ParseLine ==
    \/ ParseStored
    \/ ParseAuthenticate
    \/ ParsePublic
    \/ ParseEmpty
    \/ ParseIgnored

\* The request function is through; the status code plays no part in it.
ReplyDone ==
    /\ pc = "parse"
    /\ idx > Len(lines)
    /\ \/ /\ method = "OPTIONS"
          /\ Enter("DESCRIBE")
          /\ pc' = "encode"
          /\ UNCHANGED media
       \/ /\ method = "DESCRIBE"
          /\ pc' = "content"
          /\ UNCHANGED <<method, reply, lines, media>>
       \/ /\ method = "SETUP"
          /\ media' = media + 1
          /\ pc' = "setup"
          /\ UNCHANGED <<method, reply, lines>>
       \/ /\ method = "PLAY"            \* rtsp_connect returns false even now
          /\ Fail
          /\ UNCHANGED <<method, reply, lines, media>>
    /\ UNCHANGED <<calls, ctx, request, sendLen, cur, idx, content, streams,
                   serverVars, historyVars>>

-------------------------------------------------------------------------------
(* The one recv() of the content. *)

\* Seeded fault: one token less than announced is asked for.
WantedLess ==
    IF reply.content_length = Unset THEN 0 .. MaxContent
    ELSE {reply.content_length - 1}

\* Without a Content-Length header the length is whatever the message held.
Wanted ==
    IF reply.content_length = Unset THEN 0 .. MaxContent
    ELSE {reply.content_length}

\* recv() of no bytes returns 0, at once or after the first byte has come.
RecvNothing ==
    /\ pc = "content"
    /\ 0 \in Wanted
    /\ Fail
    /\ UNCHANGED <<calls, method, ctx, request, sendLen, lines, cur, idx, reply,
                   content, streams, media, serverVars, historyVars>>

RecvContent ==
    /\ pc = "content"
    /\ \E want \in Wanted :
       \E n \in 1 .. Len(stream) :
         /\ n <= want
         /\ content' = SubSeq(stream, 1, n)
         /\ stream' = SubSeq(stream, n + 1, Len(stream))
         /\ short' = (short \/ n < want)
    /\ pc' = "sdp_v"
    /\ UNCHANGED <<calls, method, ctx, request, sendLen, lines, cur, idx, reply,
                   streams, media, inbox, down, described, issued, setups, cause>>

(* sdp_parser, line by line: "v" and "s" are required, then attributes and   *)
(* streams are collected up to the first line that is neither.               *)

\* Seeded fault: attribute lines are not known.
SdpExpectedNoAttribute ==
    CASE pc = "sdp_v" -> {"v"}
      [] pc = "sdp_s" -> {"s"} \cup RestTypes \cup {"eol"}
      [] OTHER        -> {"m"} \cup RestTypes \cup {"eol"}

\* load_next_entry skips what is left of a line with its end, but not at the
\* beginning of the description.
SdpExpected ==
    CASE pc = "sdp_v" -> {"v"}
      [] pc = "sdp_s" -> {"s"} \cup RestTypes \cup {"eol"}
      [] OTHER        -> {"m", "a"} \cup RestTypes \cup {"eol"}

SdpContinues == content # <<>> /\ Head(content).t \in SdpExpected

SdpLine ==
    /\ pc \in {"sdp_v", "sdp_s", "sdp_m"}
    /\ SdpContinues
    /\ content' = Tail(content)
    /\ CASE Head(content).t = "v" -> pc' = "sdp_s" /\ UNCHANGED streams
         [] Head(content).t = "s" -> pc' = "sdp_m" /\ UNCHANGED streams
         [] Head(content).t = "m" ->
              streams' = Append(streams, 0) /\ UNCHANGED pc
         [] Head(content).t = "a" /\ streams # <<>> ->
              streams' = [streams EXCEPT ![Len(streams)] = @ + 1] /\ UNCHANGED pc
         [] OTHER -> UNCHANGED <<pc, streams>>
    /\ UNCHANGED <<calls, method, ctx, request, sendLen, lines, cur, idx, reply,
                   media, serverVars, historyVars>>

\* rtsp_send_setup starts with the description found.
SdpParsed ==
    /\ pc = "sdp_m"
    /\ ~SdpContinues
    /\ Enter("SETUP")
    /\ media' = 0
    /\ pc' = "setup"
    /\ UNCHANGED <<calls, ctx, request, sendLen, cur, idx, content, streams,
                   serverVars, historyVars>>

\* sdp_parser returns nullptr and rtsp_send_setup reads sdp->medias_count.
SdpRejected ==
    /\ pc \in {"sdp_v", "sdp_s"}
    /\ ~SdpContinues
    /\ Die("no_sdp")
    /\ UNCHANGED <<calls, method, ctx, request, sendLen, lines, cur, idx, reply,
                   content, streams, media, serverVars, issued, setups, short>>

(* rtsp_send_setup: the next stream.  lines and reply are those of the whole *)
(* loop: a later reply is appended to the earlier ones and parsed with them. *)
\* Seeded fault: the last stream is left out.
MoreStreamsLess == media + 1 < Len(streams)

MoreStreams == media < Len(streams)

SetupStream ==
    /\ pc = "setup"
    /\ MoreStreams
    /\ IF streams[media + 1] > 0
         THEN pc' = "encode" /\ UNCHANGED cause
         ELSE Die("no_attribute")          \* attributes[0] of no array
    /\ UNCHANGED <<calls, method, ctx, request, sendLen, lines, cur, idx, reply,
                   content, streams, media, serverVars, issued, setups, short>>

SetupDone ==
    /\ pc = "setup"
    /\ ~MoreStreams
    /\ Enter("PLAY")
    /\ pc' = "encode"
    /\ UNCHANGED <<calls, ctx, request, sendLen, cur, idx, content, streams,
                   media, serverVars, historyVars>>

-------------------------------------------------------------------------------
(* The server: it echoes the CSeq of the request it answers. *)
WithEol(s) == [i \in 1 .. 2 * Len(s) |->
                 IF i % 2 = 1 THEN s[(i + 1) \div 2] ELSE Eol]

ReplyTokens(req, r) ==
    WithEol(<<[t |-> "Status", v |-> 0], [t |-> "CSeq", v |-> req.seq]>> \o r.headers)
      \o <<Eol>> \o r.content

StreamCount(s) == Cardinality({i \in 1 .. Len(s) : s[i].t = "m"})

ServerReply ==
    /\ ~down
    /\ inbox # <<>>
    /\ \E r \in Replies[Head(inbox).method] :
         /\ stream' = stream \o ReplyTokens(Head(inbox), r)
         /\ described' = IF Head(inbox).method = "DESCRIBE"
                           THEN StreamCount(r.content) ELSE described
    /\ inbox' = Tail(inbox)
    /\ UNCHANGED <<clientVars, down, historyVars>>

\* The server goes away: in the middle of a reply, between two, or with a
\* reset that takes back what the client has not read.
ServerDies ==
    /\ ~down
    /\ down' = TRUE
    /\ \/ stream' \in {stream, <<>>}
       \/ /\ inbox # <<>>
          /\ \E r \in Replies[Head(inbox).method] :
               LET tokens == ReplyTokens(Head(inbox), r) IN
                 \E n \in 1 .. Len(tokens) - 1 :
                   stream' = stream \o SubSeq(tokens, 1, n)
    /\ UNCHANGED <<clientVars, inbox, described, historyVars>>

-------------------------------------------------------------------------------
Client ==
    \/ Encode \/ SendPart \/ SendFails
    \/ ReadText \/ ReadLine \/ ReadBlank \/ ReadLong \/ ReadDown
    \/ ParseLine \/ ReplyDone
    \/ RecvContent
    \/ SdpLine \/ SdpParsed \/ SdpRejected
    \/ SetupStream \/ SetupDone

Next ==
    \/ Connect
    \/ ConnectRefused
    \/ Client
    \/ RecvNothing
    \/ ServerReply
    \/ ServerDies

Spec == Init /\ [][Next]_vars

\* The thread of connect() runs whenever it is not blocked in a system call,
\* and the server answers what it has received as long as it is up.  recv() of
\* no bytes is not counted on.
FairSpec == Spec /\ WF_vars(Client) /\ WF_vars(ServerReply)

-------------------------------------------------------------------------------
(* What a server has to keep to for connect() to work as it should: the code *)
(* relies on it and checks none of it.                                       *)

\* Streams and attributes with the rest of their lines, and no stream without
\* an attribute line before the next one (attributes[0] is read).
StreamTypes == {"m", "a", "eol"} \cup RestTypes

EveryStreamHasAttribute(c) ==
    \A i \in DOMAIN c : c[i].t = "m" =>
        \E j \in i + 1 .. Len(c) : /\ c[j].t = "a"
                                   /\ \A l \in i + 1 .. j - 1 : c[l].t # "m"

Description(c) ==
    /\ c # <<>>
    /\ c[1].t = "v"
    /\ \E k \in 2 .. Len(c) :
         /\ c[k].t = "s"
         /\ \A i \in 2 .. k - 1 : c[i].t \in RestTypes \cup {"eol"}
         /\ \A i \in k + 1 .. Len(c) : c[i].t \in StreamTypes
    /\ EveryStreamHasAttribute(c)

\* One CSeq, no header without a value, content only behind a DESCRIBE, where
\* it is a description and its length is announced.
Honest(replies) ==
    \A m \in Methods : \A rep \in replies[m] :
        /\ \A i \in DOMAIN rep.headers :
             rep.headers[i].t \in HeaderTypes \ {"CSeq", "Empty"}
        /\ m # "DESCRIBE" => rep.content = <<>>
        /\ m = "DESCRIBE" =>
             /\ Description(rep.content)
             /\ \E i \in DOMAIN rep.headers : rep.headers[i].t = "Content-Length"
             /\ \A i \in DOMAIN rep.headers :
                  rep.headers[i].t = "Content-Length" => rep.headers[i].v = Len(rep.content)

InCall == pc \notin {"idle", "dead"}

\* The message read after the request issued last has been parsed.
Parsed == pc = "parse" /\ idx > Len(lines)

\* Requests and replies stay paired: unless a recv() of a description came
\* back short, the message that read_rtsp_message accepted after a request is
\* the reply to that very request.  rtsp_client.cpp compares no CSeq, so this
\* rests on every reply being consumed to its last byte.
PairedReply == Parsed /\ ~short => reply.seq = request.seq

\* At most one request is on its way, and none while a reply is being read.
LockStep ==
    InCall /\ ~down /\ ~short =>
        /\ Len(inbox) <= 1
        /\ inbox # <<>> => stream = <<>>

\* Every stream the server described has been set up before PLAY is sent,
\* again unless the description was cut off by a short recv().
AllStreamsSetUp ==
    InCall /\ issued = "PLAY" /\ ~short => setups = described

\* A server that answers as it should never brings the process down: what
\* kills it then is SIGPIPE or a description cut off by recv().
DeathExplained ==
    pc = "dead" => \/ cause = "sigpipe" /\ down
                   \/ cause \in {"no_sdp", "no_attribute"} /\ short

\* Whatever the server sends as a reply, read_rtsp_message waits for bytes
\* only while the server owes an answer, or has gone, which ends the wait.
ReadAwaitsAnswer ==
    pc = "read" /\ stream = <<>> /\ ~down => inbox # <<>>

\* If the server describes its streams and announces the length, neither does
\* recv() of the content: client and server never wait for each other.
NoMutualWait ==
    pc \in {"read", "content"} /\ stream = <<>> /\ ~down => inbox # <<>>

\* connect() comes back if the server answers or goes away.
ConnectReturns == InCall ~> ~InCall

\* The abstract state: a description is known once rtsp_send_setup is entered.
Known == method \in {"SETUP", "PLAY"}
Owed  == IF Known THEN Len(streams) - setups ELSE 0

Handshake == INSTANCE RtspHandshake WITH
    last <- issued, known <- Known, owed <- Owed, active <- InCall

\* The requests sent on one connection follow the order of RtspHandshake.
ImplementsHandshake == Handshake!Spec

=============================================================================
