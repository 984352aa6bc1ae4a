# Verification of the RTSP stream service

This directory holds TLA+ modules that model the RTSP stream service (`src/`),
TLC configurations that check them on small instances, and theorems about them
that TLAPS checks for every value of the constants. `PROJECT.json` relates every
definition to the lines it models, every property to a mutation of the code
model that breaks it, and every hazard to the properties that watch it.

## 1. Inventory

The program is a library with a thin `main`: it opens an RTSP session with a
camera (`RtspClient`), understands the description it gets back (`sdp_parser`),
and has the pieces for what would follow (Transport negotiation, credentials,
H.264 over RTP), which nothing in `src/` puts together yet.

| Component | State it keeps | Operations | Who calls it |
|---|---|---|---|
| RTSP client (`src/manager/rtsp_client.cpp`, `src/rtsp/rtsp.cpp`) | `m_ctx` (CSeq, session, credentials, methods supported), `m_info`, `m_client`; per request the lines read and an `RTSPMessage` | `connect`, the four request functions, `read_line`, `read_rtsp_message`, `parse_reply`, `rtsp_method_encode`, `rtsp_parse_line` | the application, on one thread |
| TCP sockets (`src/socket`) | `m_sockfd` | `connect`, `send` (loops), `recv` (one call), `close`; the server has `bind` and `listen` but no `close` | RTSP client |
| SDP (`src/rtsp/sdp.cpp`) | the parsed description, built by one pass of a cursor over the text | `sdp_parser`, `load_next_entry`, `sdp_format`, `sdp_destroy` | RTSP client, with what one `recv` returned |
| RTSP headers (`src/rtsp/parse.cpp`) | the `RTSPMessage` it fills | Transport, Range, `parse_timestr` | `rtsp_parse_line` |
| HTTP authentication (`parse.cpp:132-168`, `http_auth.cpp`, `crypto.cpp`) | `HTTPAuthState`: scheme, realm, nonce | `http_auth_handle_header`, `make_basic_auth`, `make_digest_auth`, `http_auth_create_response` | `rtsp_parse_line`, `rtsp_method_encode` |
| RTP and H.264 (`rtpdec.cpp`, `rtpdec_h264.cpp`, `rtp_utils.cpp`) | `rtp_h264_nalu_t`: the unit being put together, its type and size, whether it is finished | `parse_rtp_header`, `parse_nalu` (single unit, STAP-A, FU-A), `parse_nalu_stap`, `h264_decode_sps` with Exp-Golomb codes | an application |
| URL (`rtsp_url.cpp`, `urlcodec.cpp`) | none | `split_video_url`, `url_decode` | RTSP client |
| String helpers (`strutils.cpp`), memory, time | none (a clock) | `str_copy`, `str_lcat`, `snprint_lcatf`, `str_split`, `str_start_and_cut`, ... | everything above |
| `TcpServer`, `main.cpp`, `test/` | a listening socket; none | | |

How they interact. `connect()` is one blocking call: split the URL, open a TCP
connection, then OPTIONS, DESCRIBE, one SETUP per described stream, PLAY. After
each request it reads lines byte by byte up to an empty line, hands them to
`rtsp_parse_line`, which writes into `m_ctx` and into the `RTSPMessage` of that
function, and, after DESCRIBE only, reads a content with a single `recv` of
`content_length` bytes that goes to `sdp_parser`. There are no threads, locks or
callbacks inside `src/`: the concurrency is that of the client with the server
at the other end, the two byte streams between them, and the moment at which the
server goes away.

What is hard, and makes the properties worth checking:

- The two ends only stay in step because every reply is consumed to its last
  byte: no CSeq, status or length is ever compared (`rtsp_client.cpp:66`).
- Several waits have no timeout, so a byte too many asked for is a deadlock.
- `recv` returns what a segment happened to hold (`rtsp_client.cpp:110`), `send`
  takes what the kernel takes (`TcpClient.cpp:52`), the server may go away or
  reset between any two calls, and SIGPIPE is not masked.
- State outlives its use: the lines of the first SETUP reply are parsed again
  with the second, fields of a message are uninitialised until their header
  comes, realm and nonce keep the tail of a longer predecessor, `lower_transport`
  is carried from one transport to the next, the NALU being reassembled is kept
  when its end was lost.
- Boundaries of fixed buffers and small integers: realm and nonce buffers, the
  request and its authorization, the fields of a URL, string concatenation at the limit, the array
  for the Basic text, the bit reader, Exp-Golomb, emulation prevention.
- Numbers of descriptors outlive the descriptors: `m_sockfd` of a server whose
  `bind` failed, or of a client that connects twice.

### What makes each component correct

| Component | Properties |
|---|---|
| RTSP client | replies stay paired with requests; every described stream is set up before PLAY; it waits only while something is due; it returns; it follows the handshake; nothing of an earlier call is left in a later one |
| SDP | what is accepted is what was sent, each attribute with the stream it follows; formatting and parsing agree; one malformed line does not shift others |
| Headers | a field of one Transport does not leak into another; caps hold |
| Authentication | the scheme in force is the strongest offered; the realm and nonce used are the ones received last |
| RTP/H.264 | over TCP what comes out is what was sent, in order; over UDP a unit that arrives whole is handed on whole, and none that begins in its middle |
| URL, strings | splitting takes back what joining made; what fits its field stays in it; appending ends in its buffer; lengths returned are what the headers say |

## 2. Plan

Most important first; each module is written to be proved about (constants with
assumptions, one action per operation, recursive functions instead of RECURSIVE).

| # | Module | Models | Abstract specification | Runs | Theorems | State |
|---|---|---|---|---|---|---|
| 1 | `RtspHandshake`, `RtspClient`, `MCRtspClient`, `RtspClientProofs` | client, `TcpClient` send/recv, header dispatch, SDP line loop, server | `RtspHandshake` | 2 pass | type, reads never wait in vain, refinement; with an honest server: replies paired, lock step, all streams set up, deaths explained, no mutual wait | done |
| 2 | `HttpAuth`, `MCHttpAuth`, `HttpAuthProofs` | challenge, next nonce, response | | 1 pass, 2 violation | type, strongest scheme, latest values in front, response from the latest | done |
| 3 | `NaluDelivery`, `RtpH264`, `RtpH264Proofs` | `parse_nalu`, `parse_nalu_stap` behind a complete or a lossy, reordering channel | `NaluDelivery` | TCP refinement, UDP invariants | type, no headless unit, whole units taken, refinement over TCP | done |
| 4 | `SdpParser`, `MCSdpParser`, `SdpParserProofs` | `sdp_parser`, `sdp_format`, `sdp_destroy`, `load_next_entry`, `str_split_values` | the order of the lines, as conditions on any two of them (`Ordered`); the grammar of the README (`Conforms`) | 1 pass, 1 violation | type, nothing leaks, longest ordered beginning, every line kept, round trip | done |
| 5 | `RtspHeaders`, `MCRtspHeaders`, `RtspHeadersProofs` | `rtsp_parse_line`, Transport, Range, the lines parsed twice | what the last line of a kind says, read from its text | 1 pass | type, parsing again is harmless, sound lines are survived, ranges held, last transport, lower transport named | done |
| 6 | `RtspUrl`, `Connection`, `MCConnection`, `ConnectionProofs` | `split_video_url`; `connect`, `close`, `bind`, `listen` over the descriptors of one process | a URL as it is written; who owns a descriptor | 1 pass | type, own number, losses, closings, URLs split back | done |
| 7 | `BitReader`, `Codecs`, `RtspRequest`, `StrUtils`, `MCAlgorithms`, `AlgorithmsProofs` | the pure algorithms | writers by the standards | 1 pass | signed codes, MD5 blocks, credentials, URLs and escaped bytes read back, appending, the end of a request | done |

`SequenceLemmas` holds what `SdpParserProofs`, `RtspHeadersProofs` and `AlgorithmsProofs`
need to know of sequences. Runs that ask related questions of one module are merged. What is left: packets
with padding, a header extension or both marks of a fragment in `RtpH264`; the
rounds of MD5. Section 11 says what is proved and what only checked.

## 3. The client (module 1)

### Modules

- `RtspHandshake`: what the server sees of `connect()`: OPTIONS, DESCRIBE, one
  SETUP per stream of the description accepted, PLAY, giving up at any point.
- `RtspClient`: the client and its environment.
- `MCRtspClient`: two servers for TLC: one that announces what it sends
  (`HonestReplies`) and one that does everything the code does not expect
  (`WildReplies`).
- `RtspClientProofs`: first the theorems that hold for every server, then those
  that need a server that announces what it sends.

### State and actions

`pc` is where `connect()` stands: before `rtsp_method_encode` (`encode`), in
`TcpClient::send` (`send`), in `read_line` (`read`), in `parse_reply` (`parse`),
before the `recv` of the content (`content`), in `sdp_parser` (`sdp_v`, `sdp_s`,
`sdp_m`), at the head of the loop over the streams (`setup`), or back in the
caller (`idle`), or not anywhere any more (`dead`). The other variables are the
code's: `ctx` is `m_ctx`, `reply` the `RTSPMessage`, `lines` the vector, `cur` the
line in `buffer`, `idx` and `media` the two loop counters, `sendLen` the progress
of `send`, `content` what `recv` stored, `streams` the `medias` of the
description with their attribute counts. `inbox` and `stream` are the two
directions of the TCP connection, `down` says that the server has gone.
`issued`, `setups`, `described`, `short` and `cause` are history.

The stream to the client is a sequence of tokens, not bytes. A line is its
first token, named after what the code recognises it by, possibly further
tokens, and an end of line. That keeps everything the control depends on:
`read_line` may find the stream empty before every token, `recv` may stop
between any two, in the middle of an SDP line and just before its end (where
what is left reads as an empty line: the end of a reply). What it gives up:
cutting inside the first token of a line, which would make an unknown line of
it, and the carriage return, which `read_line` drops.

A line of one character is dropped by `read_rtsp_message` (`buflen > 1`) without
ending the message; the token `last` is there for it. An overlong line is the
token `Long`. A header with nothing behind its colon throws (`Empty`). Fields of
`new RTSPMessage` that no header has set are `Unset`, and the length then used
for the content is any value.

The server answers requests in order with one of the `Replies` for the method,
echoing the CSeq, and may at any moment go away, whole replies, half a reply or
nothing of what was sent being left to read. `send` on such a connection fails or
kills the process; one more `send` may succeed before that, as TCP has it.

### Runs

| Run | Shows |
|---|---|
| `client_honest` | `PairedReply`, `LockStep`, `AllStreamsSetUp`, `DeathExplained`, `NoMutualWait` and, under fairness, `ConnectReturns`, with the honest server, two calls of `connect()`, requests going out in up to two pieces, descriptions of one and of two streams, cut by `recv` anywhere |
| `client_wild` | `TypeOK`, `ReadAwaitsAnswer`, `ImplementsHandshake` with the wild server, two calls |

Bounds. `MaxCalls = 2`: `connect()` resets all it uses, so a second call sees
everything a first one can leave behind, and a third would see the same.
`RequestParts = 2`: enough for a `send` that takes part of a request and one that
takes the rest, with the server going away between. Two streams: the first goes
through the loop with nothing before it, the second with the lines of the first.
`MaxContent = 17` tokens is the length of the longer description; the buffer of
4096 bytes is taken to be enough for what a server announces
(`RepliesAssumption`).

Deadlock is not checked: `connect()` may end (`idle` with all calls made, `dead`)
or stand in a `recv` without a timeout when a server keeps silent. That the client
never stands there for a reason of its own is what `ReadAwaitsAnswer` and
`NoMutualWait` say.

The properties of the honest run carry the condition `~short`: the code reads
the content with one `recv`, and when TCP delivers less than the length announced
the description is cut and its rest taken for the next reply. This is a
behaviour of the code, explored by the run, under which pairing does get lost;
the conditions say that nothing else loses it.

### Fairness

`WF(Client)`: the thread of `connect()` goes on when it is not blocked; a blocked
`recv` is a disabled action. `WF(ServerReply)`: a server that is up answers what it
has received. No fairness for `ServerDies`, `Connect` or `RecvNothing` (a `recv` of
no bytes need not return before data comes).

### What README.md of the repository shows

README.md of the repository shows a complete exchange as its example of the protocol
(line 110), recorded with FFmpeg (its `User-Agent`, line 115), and so no statement
about this program. Three things in it the code does not do, by reading and without
a run: it does not repeat the `Session` of the first SETUP (line 183; `ctx->session_id`
is never set), it does not name the track in the SETUP URI (lines 165 and 178; the
path is computed at `rtsp_client.cpp:126` and not used at 127), and it does not send
the `Authorization` after a 401 (lines 117-124; nothing in `src/` sets `ctx->auth`).

### Proofs

`RtspClientProofs` assumes only `RepliesAssumption` (replies are made of tokens,
a length announced fits the buffer) and `BoundsAssumption` (the bounds are
numbers, a request has at least one part). `Replies` is otherwise arbitrary: the
theorems cover every server, every description and every number of streams.

- `TypeCorrect`: `Spec => []TypeOK`. Inductive as it stands; one step per action.
- `ReadNeverWaitsInVain`: `Spec => []ReadAwaitsAnswer`. Not inductive: that the
  stream is empty while an answer is missing depends on what is still in it. The
  strengthening `AnswerComing` says that while a message is being read on a live
  connection either a request is still in the server's hands or an end of a
  message (`BlankAhead`: two ends of line in a row, or one when the current line
  is empty) is still in the stream. Each token read keeps the end ahead or is it;
  a reply always ends its header with a blank line, whatever content follows.
- `ClientImplementsHandshake`: `Spec => ImplementsHandshake`. The invariant
  `Phases` relates `pc`, `method`, `issued`, `setups` and `streams`: in the loop of
  `rtsp_send_setup` as many SETUPs have been issued as streams have been passed.
  Every step is then a step of `RtspHandshake` or leaves the abstract state alone.

The second part of `RtspClientProofs` adds one assumption, `Honest(Replies)`, as the
hypothesis of its theorems: a reply has one CSeq and no header without a value, content comes
behind a DESCRIBE only, where it is a description in which every stream has an
attribute, and every Content-Length gives its length. `HonestAssumption` has TLC
evaluate it for the replies of `client_honest`. Status codes, the order and number
of headers, sessions, refusals and the number of streams stay open, and so does
when the server goes away and what is left of its last replies then.

The five properties of the run follow from one invariant, `Sync`, which says for
each place of `connect()` what is still on its way:

- `InRead`: either nothing of the reply has come and the request is still with the
  server, or what is in the stream is one reply from a position on (`Underway`: so
  many lines read, perhaps half of another, the rest of the tokens to come).
- `InParse`, `InContent`: the vector ends with the lines of that reply, the stream
  holds its content and nothing else, and once the CSeq or the Content-Length line
  is passed `reply` has its value. SETUP keeps the lines of earlier replies in front
  (`LastLines`), and the last CSeq is the one that counts.
- `Between`: from one reply to the next request the stream is empty and nothing is
  owed. Without it a left-over could be taken for the next reply.
- `InDescription`: the rest of the content always has the line the code looks for
  next, and the streams passed and those ahead add up to `described`; so `sdp_v`,
  `sdp_s` and `sdp_m` never fail, and `InSetup` has every stream with an attribute, the
  condition under which the loop over the streams does not read past an array.
- `Early`, `Late`, `NoEmptyHeader`: before the content nothing was cut short, the
  request in the server's hands is the one the code waits for, no line throws.

`Synchronised` is `Spec => [](Phases /\ Sync)`; `RepliesArePaired`,
`OneExchangeAtATime`, `EveryStreamIsSetUp`, `DeathIsExplained` and `NeverBothWait` are
its consequences. As in the run they speak of behaviours without a short `recv`, the
one way the code has of losing step with such a server.

Only model-checked: `ConnectReturns` (liveness).

## 4. HTTP authentication (module 2)

### Model

`HttpAuth` has `ctx->auth` (`auth`), the three fields of `ctx->auth_state`
(`auth_type`, `realm`, `nonce`), the lines of the reply that are still to be parsed
and the last response created. `HandleBasic`, `HandleDigest`, `HandleInfo` and
`HandleOther` are the branches of `http_auth_handle_header` on one line;
`SendRequest` is `http_auth_create_response` as `rtsp_method_encode` calls it;
`Reconnect` is the `memset` of `connect()`, which clears the credentials too.
The server (`ServerReply`) and the application (`SetAuth`) are the environment.

Realm and nonce are sequences of characters, the buffers functions on
`1 .. RealmSize` and `1 .. NonceSize` with 0 as the end of a string, because what matters
is which characters of an earlier value survive: `Overlay` is `strncpy` with the length of
the source, `Piece` what the split at commas leaves of a quoted value. Nothing bounds that
copy by the buffer (`parse.cpp:143`, `:152`): the nonce stands behind the realm in
`HTTPAuthState` (`http_auth.h:25-36`), and what does not fit the realm runs on into it
(`Beyond`), before or after the nonce of the same line is stored. What runs out of the
nonce lands in `base_uri` (`structs.h:27`), which nothing reads, and is lost to the model. What
Base64 and MD5 make of the values is left to section 9; a response shows which values
went into it and whether its buffer began empty (`clean`: a choice, since
`new char[512]` is not initialised). `offered`, `given` and `longest` are history:
the schemes offered and the values given since the context was cleared, and how
far each buffer has been written. A value is `Readable` if no comma cuts it, there is room for its end, and it
reaches as far as anything copied to its place before.

### Runs

| Run | Shows |
|---|---|
| `auth_replies` | `TypeOK`, `StrongestScheme`, `LatestLeads` and `AnswersLatest` across challenges of both schemes, new nonces and reconnections, with values that are shorter, longer, empty, cut by a comma or too long for the realm, the nonce or both: once the realm given last fits, the buffers begin with the values given last as far as they fit theirs, and a Digest response is made from exactly those that are readable, whatever ran over before |
| `auth_reads_back` | the realm or nonce does not read back as given: a shorter value keeps the tail of a longer one, a comma cuts it (`test/test_rtsp_parse/main.cpp:21-22`) |
| `auth_nothing_else` | the response is preceded by what the heap held (`test/test_rtsp/main.cpp:18-20` expects the bare request) |

Bounds: two replies of up to two lines put four challenges in a row, which is
one that stores, one that overwrites, one of the other scheme between and one
behind. With `RealmSize = 3` and `NonceSize = 4` (200 and 300 in the code) the five values have
every relation that matters to `Overlay`: equal length, shorter, longer, empty, cut,
and one of five characters that runs out of either, two of them into the nonce. No fairness is used. The deadlock check is on: `Reconnect` is enabled
whenever the client has nothing to parse.

### Proofs

`HttpAuthProofs` assumes `ValuesAssumption` (values are strings, of any length, and the sizes
of the buffers are numbers) and `BoundsAssumption`. `TypeCorrect` needs that the bound on
replies is checked before the request that uses it up. `StrongestInForce` is
inductive with the type. `LatestInFront` (`DigestInv`) rests on the lemma
`OverlayLeads`: the first characters are those of the value just copied, as far as the buffer
goes. It says so only while the realm given last fits: one that does not may have been
written over the nonce of its own line. A realm that fits leaves the nonce alone
(`OverlayNothing`), and the next challenge with one puts both right.
`AnswersWithLatest` needs to know what stands behind them: `AnswerInv` says that
every buffer, and the copy of it in a response on its way, holds nothing behind
the longest text copied, what ran over included, and begins with the last one; the lemma `CopyReads`
concludes that a readable value is then all a reader sees, by way of `BeforeLength`,
which computes where a string ends. All four hold for every set of values, every
size and any number of replies.

## 5. H.264 over RTP (module 3)

### Model

`RtpH264` has the structure `rtp_h264_nalu_t` (`nalu`: what is put together, and
`finish`), the units of an aggregation behind the offset `parse_nalu` returned
(`more`), and whether a call has left a unit to be taken (`ready`). `ParseSingle`,
`ParseStap`, `ParseFragment` and `ParseOther` are the branches of `parse_nalu`;
`ParseNaluStap` is the call of `parse_nalu_stap` at the offset. A unit is a sequence
of numbered pieces, the first of them its header byte, which is not in any
fragment and has to be restored by the start fragment (`Start`).

`parse_nalu` is called by nothing in `src/`; sender, network and the calling
application are the environment. The sender follows RFC 6184: units in one
packet, in `Parts` fragments, or one or two in an aggregation, and packets of
types the code does not know between them. With `Udp` the network loses any
packet, doubles some, and hands them over in any order; without it, it does
neither. The application takes a finished unit before it calls again and may or
may not clear the structure then. `progress` and `intact` are history: how far the
fragments of one unit have come in with nothing between them.

What the code leaves out is in the model as it is: no sequence number or
timestamp is compared, a finished unit that was not cleared is continued by
a fragment, a packet of another type drops what is there.

`NaluDelivery` is what a receiver behind TCP promises: units come out as they
went in, in order, each one once.

### Runs

| Run | Shows |
|---|---|
| `h264_tcp` | `RtpH264` implements `NaluDelivery` without loss: 4 units, up to 6 packets on their way, fragments behind aggregations and other packets |
| `h264_udp` | `TypeOK`, `IntactTaken`, `TakenFromStart` with loss, doubling and any order: 3 units of 3 fragments, 3 packets on their way |

Bounds: three fragments are a start, a middle and an end, the three branches of
the code; three units let one be left over, one be mixed with it and one be whole.
The channel has room for one unit's fragments at a time and, over TCP, for two.
No promise is made for what UDP leaves of a unit with a lost packet: such a unit
may come out short or mixed with another, and nothing in the repository says
otherwise.

### Proofs

`RtpH264Proofs` assumes only `SizesAssumption`, for any number of units, of
fragments and of packets on their way.

- `TypeCorrect`: inductive as it stands.
- `NoHeadlessUnit`: `Spec => []TakenFromStart`. The strengthening (`StartInv`) says
  that what is put together is empty or begins with a start, that `finish` implies
  it is not empty and that only something finished is taken.
- `IntactUnitsTaken`: `Spec => []IntactTaken`. `PartialInv` says that while some
  fragments of a unit have come in without a break, `nalu.data` is exactly
  the first pieces of that unit; `IntactInv` adds that a unit that came in whole is
  taken, is the one finished, or is behind the offset.
- `TcpDeliversInOrder`: without `Udp`, `Spec => DeliversInOrder`. The invariant
  `OrderInv` says that the packets on their way lead, each from where the one
  before ends, from what has come in to what has been sent (`Leads`, shown to be
  preserved by appending packets and by taking the first); every fragment is
  therefore in sequence, and each unit taken is the next one sent.

## 6. The session description (module 4)

### Model

`SdpParser` follows a caller of the library: it parses a text (`sdp_parser`),
writes the description out (`sdp_format`), destroys it (`sdp_destroy`) and parses
what it wrote. `doc` is what the cursor has not passed, `sdp` the description
built so far, `heap` the blocks allocated, `status` how the call stands; `source`
and `first` are history: the whole text, and the description of the first parse.

The code is one pass through a fixed sequence of `if` and `while` over the key of
the current line. Its only memory is where in that sequence it stands, which is
`open`, a place in `SessionOrder` or `MediaOrder`; a key read with `if` moves the
place on, one read with `while` leaves it. `ReadField` is a line with a place of its
own, `ReadRepeat` the inner loop behind `t=`, `ReadMedia` the head of the loop over
the streams; `Return` and `Reject` are the two ends, at the first line that does
not fit. In each, `Load` is `load_next_entry` together with the allocations of that
line, any of which may fail; the code then goes to `fail`, where all there is is
destroyed.

A value is a sequence of tokens between separators, a token a sequence of atoms
(numbers, a slash, a time unit, a letter), which is what `str_split_values` tells
apart: `l` takes a number off a token and leaves the rest for the next field, or
cuts the text off if there is none, `t` takes the unit too, `s` takes a token. A line
that ends in "\n" and is glued to what follows, because `load_next_entry` looks
for "\r\n" in the whole text first, has the atom `Newline`.

`DocumentsAssumption` says what the texts are: any sequences of lines, whose keys
are `Letters` and whose values sequences of tokens that are not empty. `Entry` and
`Format` write the description by sections; `Joined` puts the fields of a line together,
where an empty one leaves nothing; `KeysKept` are the keys of the lines read that
writing keeps, which is all but a `z=` with nothing behind it.

### Run

`sdp_parse` checks, over three families of texts in `MCSdpParser`:

- `LongestOrdered`: what is taken is the longest beginning of the text that
  keeps the order of the lines (README.md:17-55 of the repository), which `Ordered`
  states on its own, as conditions on any two lines, without the parser's
  places. It does not ask for lines to be there, except `v`, `o` and `s`. So no line is lost before the first misplaced one and none is read
  behind it.
- `EveryLineKept`: every line read stands in the description once, in its place and
  under its stream.
- `RoundTrip`: parsing what `sdp_format` wrote gives the same description, whatever
  the first text was like.
- `NothingLeaks`: a failed or rejected parse leaves no block, whichever allocation
  fails, and neither does a completed one once destroyed.

`sdp_conforms` is a violation: `TakenConforms` says that a text parsed to its end is a
description by the grammar of the README, which has "One or more time descriptions"
(README.md:31, repeated at `sdp.cpp:155`) and a connection for the session or for every
stream (README.md:29). The parser asks for neither; the run ends with `v=`, `o=`, `s=`.

Bounds. `ByKey` has every sequence of up to three keys behind a right beginning,
in the session and in a stream, which is every pair of places with something
between them; `ByValue` every value of up to three tokens out of six for each
line that is split, more tokens than `i`, `s` and `t` formats have before their
rest; `ByLineEnd` every mixture of the two line ends in a text of eight lines. A
text ends the model's behaviour, so deadlock is not checked.

Two conditions. `LongestOrdered` and `EveryLineKept` ask for texts whose lines
are not glued (`Uniform`); `RoundTrip` asks that `o=` and `m=` have their first field
(`Named`): an empty one is written as nothing, and a number behind it would be
read in its place. The texts outside the conditions are explored all the same,
for the other properties.

Left out: blank lines, numbers too large for an int, a blank behind the slash of
a port, lines longer than the 4095 characters of `str_format`, and the size of a
block: the list of formats grows by `sizeof(int)` bytes where it needs that many
per entry (line 273), recorded as a hazard.

### Proofs

`SdpParserProofs` assumes only `DocumentsAssumption`: the documents are sequences of
lines of any keys, with any values, of any length.

- `TypeCorrect`: `TypeOK` is not inductive: `ReadRepeat` writes into the last time of
  the description, so there has to be one. `Inv` has the description `WellFormed`
  (`i=`, `o=` and `m=` have as many fields as their formats ask for, no time is empty)
  and, at the place behind `t=`, at least one time.
- `NoLeaks`: also from `Inv`, which keeps every block of `heap` among those that
  `sdp_destroy` frees for the description as it stands (`Freed`), whichever allocation
  comes next. What a field or a stream just added needs is added to `Freed` in the
  same step; an allocation that fails leaves a description of which all is found.
- `LongestTaken`: `Along` ties the code's only memory, its place, to the text: `doc` is
  the rest of `source`; the lines taken are in order; and `open` is what their last key
  says (`Position`). `Joins` is what the order, stated on any two lines, says of
  one more line behind an ordered text, and `Fitting` what the code says; the proof
  is that the two agree at every place. A parse therefore ends exactly where the
  longest ordered beginning does.
- `LinesKept`: `Gathered` says that writing out the description as it is gives the
  lines read so far, and that nothing has been written into a section behind `open`
  (`Ahead`). Each new line then lands at the end of what is written, in spite of
  `sdp_format` writing by section and not in the order of reading.

`TakesAll` and `FoldsTo` stand for the folds of `str_split_values` and of the sections:
what a fold does to every sequence is shown by induction on its length. The
induction theorems of the library take an operator, so `SetInduction` of
`SequenceLemmas` derives each such induction from the existence of a least element in a
set of numbers (`WFMin`). That module has the other facts that several proofs share: what `FoldLeft` and `FlattenSeq` do at the last element,
the smallest and the largest number of a set, splitting a sequence in two.

- `RoundTripHolds`, for any text, glued lines and missing fields included, in three parts.
  First, `Reread`: the fields cut off a value are joined to a value that is cut into the
  same fields again. This is not so for any fields: an empty field is written as nothing,
  and a letter left behind a number begins the next one. So `Packed` says that in a line
  the missing fields are all at the end, and `MayReadAll` that a number is read again only
  where one was read. It is here that `o=` and `m=` need their first field
  (`Titled`, which is `Named` of a description still being read). Second, `Shaped`, an
  invariant of the first parse: what `sdp_format` would write now is itself a text in
  order (`InShape`) with one `o=` at most (`OneOrigin`), each of its lines is
  written again as it is (`Verbatim`), and putting its lines together from nothing gives
  the description (`Rebuilds`). Third, `Copied`, of the second parse: what it has built is
  written as the lines it has read, so `LongestOrdered` lets it read to the end.
  What it has then is written as the first description was, and lines put together
  one description only (`RebuiltAlike`).

## 7. The headers of a reply (module 5)

### Model

`RtspHeaders` is one function that sends requests and collects replies: a method,
the vector `lines`, one `RTSPMessage` (`reply`). `Receive` appends the lines of a
reply to the vector, `Parse` is one turn of the loop in `parse_reply` with all of
`rtsp_parse_line`, `Throw` the same turn when `std::stoi`, `std::stod` or `at()` throws, which
nothing catches. In SETUP there are two replies and the lines of the first are
parsed again with those of the second; the status line of the second is then an
unknown header. `parse_timestr` adds the time of day to the times of a range, and reads the
system clock for each (`timeutils.cpp:9`), which may show anything: it may have been set
back since, which `setBack` remembers of the last two readings.

A line is its key and its text, a sequence of tokens: names, separators, blanks
and numbers, which are the tokens of `Decimal` with their values. `std::stoi` throws where
there is none and beyond `MaxInt` (`IsInt`), `std::stod` only where there is none
(`IsNumber`). `StrUtils` has `str_split` and `str_cut_until_char` on
such sequences, so that empty pieces are dropped and rests are cut as in the code.
`NewMessage` has `Unset` where `new RTSPMessage` leaves memory as it was.

### Run

`headers` checks all properties over every line alone, in one reply and twice in
two, and over the pairs of lines that write the same fields. They are stated on
the lines, by position; of the parser they use only that a Transport is split at
line ends.

- `LastTransport`: the transports are those of the last Transport, and of none
  before it, up to as many as the array holds, and each has the ports and channels
  of the last field with that name, where a number or two and nothing else stands
  behind the name (`IsRange`, `EndsAt`).
- `LowerNamed`: the lower transport is what stands behind the profile (`Names`,
  `NamesTcp`), else what was named last before it in the same header, else UDP. That a
  transport inherits from its neighbour is the code's behaviour; the property says
  it inherits from nothing else, and that multicast changes UDP only, must where
  a field is that word and may only where the word occurs.
- `ReparseHarmless`: parsing old lines again leaves what parsing each line once
  would, except the times, which are put on the clock anew.
- `RangeHolds`: by the times that stand in the text, the start is at least as late as
  written, a closed range at least as long unless the clock was set back between its
  ends, an open one has no end even behind a closed one; `npt=-2` is taken
  for a start (line 122).
- `SoundSurvives`: the process ends at no other line than one that is not sound
  (`Sound`): a number that has to be there and fit an int is not, a transport over RTP
  ends with its profile, or a range has anything but numbers, `now` and dashes. RFC 2326
  allows more than that: a bare `RTP/AVP` (line 52), a `time=` behind a range, a number
  beyond an int all end the process. `SoundTransport` and `SoundRange` say of each
  position what has to stand behind it, without cutting anything.

Bounds: `MaxTransports = 2` (8 in the code) lets a header have one too many; clock up
to 2 lets the second reading be later, the same or earlier; `MaxInt` lies between the
numbers of the lines. Transports are separated by
line ends in `rtsp_parse_transport`, as `test/test_rtsp_parse/main.cpp:33` has them;
RFC 2326 has commas, which the code takes for a part of a field: `Joined` has both.
Left out: `destination` and `source`, stored as they are. The run ends after two
replies, so deadlock is not checked.

### Proofs

`RtspHeadersProofs` assumes `BoundsAssumption` and `MessagesAssumption` (replies are
sequences of lines, a number is none of the separators): any lines with any
texts, any array of transports, any largest int, any clock.

- `TypeCorrect`: `Spec => []TypeOK`, inductive as it stands. The work is in the folds:
  every field of every transport leaves a transport (`FieldsRead`, `TransportsRead`).
- `ReparseIsHarmless`: the second reply has the lines of the first parsed again, into
  the same message. `Overlaid` says that some number of lines has been read and that
  every place of `reply` holds what the lines before `idx` leave in a new message or
  what all the lines read leave (`Mixed`); at the end of the vector the two are the
  same. That one more line keeps this is `LineAlike`, which reads a line into two
  messages at once: each place is then the same in both or what it was in each,
  because what a line writes depends on its text alone, and the lower transport,
  which is carried along, begins anew with each header.
- `SoundIsSurvived`: `Proper` says of a text that names and dashes in it have their
  numbers, which fit an int. It is inherited by every piece of a split and by every rest behind a cut
  (`ProperPieces`, `ProperBehind`), so that where the code calls `stoi` there is a number.
  The state only adds that the process dies by the line at `idx` (`DeadByLine`).
- `RangesAreHeld`, `LastTransportIsHeld`, `LowerIsNamed`: one invariant for all three,
  `LastFits(K, R)`: among the lines parsed, the last of kind `K` stands in relation `R` to
  the message. It is kept whenever a line of the kind establishes the relation and
  no other line disturbs it (`Fitting`). For ranges the relation is `Timed`, shown by
  where the times of a text are among the pieces between its dashes
  (`TimesOfPieces`). For transports it is `Transported`: the code cuts the text down
  from its left end, the property looks at positions, and the lemmas say that the
  two find the same. `LeadingAt` does so for what stands in front of the fields,
  `FieldPlaces` for where each field begins, `RangesRead` and `LowerRead` for what the
  fields leave in one transport, and `HeldUpTo` is the induction over the transports
  of a header. `HeaderAlike` adds that a header which is readable into a new message
  (as `Readable` has it) is so into the message at hand.

## 8. From the URL to the descriptor (module 6)

### Model

`RtspUrl` is `split_video_url` on sequences of characters, with the sizes of the four fields
of `RTSPUrlInfo` (`rtsp_url.h:16-21`); `Write` is its inverse, the URL of given parts. The path
is cut to its field (line 23); scheme, authorization and host are copied with their own
length as the bound (lines 10, 28, 34, 39, 42), so a part that does not fit runs into the
fields behind it. What they hold then is left open (`Spoiled`), and `connect()` with such
fields may reach any address or none; that the text does not run out of `RTSPUrlInfo` as
a whole is assumed. `Connection` has, for each client, what its URL was written from
and the `m_info` that `connect()` makes of it, and for each client and server its
`m_sockfd`; `fds` says who opened each descriptor of the process. `Connect`,
`ClientClose`, `Bind` and `Listen` are the functions of `TcpClient` and `TcpServer`,
each with every way the kernel may answer, on whatever number `m_sockfd` holds;
`OtherOpens` and `OtherCloses` are the rest of the process, which may be given a
number that has just become free. `stale`, `reopened` and `robbed` are history: servers whose
last call failed, objects that asked for a second descriptor, objects whose
descriptor another one closed.

### Run

`connection`, with a client, a server, three descriptors and every form of URL:

- `SplitsBack`: if scheme, authorization and host fit their fields, splitting gives back
  the parts, also with `@` and `:` in the password or the path, the path cut to its room;
  if one of them does not, and never otherwise, a field is overrun. Its two conditions are the code's limits: a `/`, `?` or `#` in
  the credentials ends them (they have to be escaped in a URL), and an IPv6 literal
  without a port is left with port 0, which never connects.
- `HeldIsOwn`: a client's number is of its own descriptor or none, unless another
  object closed it.
- `LostByReopening`: a descriptor is lost only by calling `connect()` or `bind()`
  again without a close. After a failed handshake this is what a caller does:
  `RtspClient` has no way to close (line 170).
- `ClosesOwn`: no call closes somebody else's descriptor, except `listen()` after a
  failed call (`TcpServer.cpp:52` and `:61` close and keep the number) and a client that was
  robbed by one.

Bounds: three descriptors are one for each of client, server and rest; with none
free, `socket()` fails. All orders of calls are explored, without a bound on their
number. The fields hold 3, 4, 3 and 4 characters and the end of the string (15, 127, 15 and
511 in the code), and each is filled to the last and exceeded by one by some URL; longer
ones differ in how far they run, which is left open.

### Proofs

`ConnectionProofs`, for any number of objects and descriptors and any URLs, from
`ObjectsAssumption` alone: `TypeCorrect`, `ClientHoldsOwn`, `LostOnlyByReopening` and
`ClosesOnlyOwn`. The inductive invariant is `TypeOK`, `LostByReopening` and `Held`,
which adds to `HeldIsOwn` that a server whose last call did not fail holds its own
too: without it a server could close a client's descriptor in a step that starts
from a good state. The lemmas `OpenKeeps`, `WithoutOwn` and `CloseKeeps` say what an operation on
the table does to who owns what; there is then one lemma per action.

`UrlsSplitBack`: `Spec => []SplitsBack`, from `TokensAssumption` (delimiters are tokens,
a number is a token of its own below 65536), `SizesAssumption` (fields of any size but none)
and `TargetsAssumption` (every URL is
written from parts that RFC 3986 allows, `IsUrl`). What the state adds is only that
`m_info` comes from the client's own URL (`UrlInv`); the argument is `UrlReads`: cutting
the written URL gives back each part. The text is a concatenation of parts and the
code looks for a first or a last delimiter, so each cut needs that the delimiter is
in none of the parts on its side (`CutAtFirst`, `CutBehind`, `BehindLast`): the first
slash behind the authority, since neither credentials nor host have one; the last
`@` before it, whatever the password has; the last colon behind a bracket, if there
is one. `SchemeReads`, `AuthorityReads`, `HostReads` and `PathReads` are these cuts in
the order of the code; `RoomOf` compares the parts with their fields.

## 9. The pure algorithms (module 7)

### Model

- `BitReader`: `U`, `Ue`, `Se` and `de_emulation_prevention` on sequences of bytes; the
  interleaved frame, the RTP and the NALU header; `h264_decode_sps`, one operator for
  each part of its fields, as lists of names and codes that `Read` reads one behind
  the other; `h264_decode_pps`, which only recognises.
- `Codecs`: Base64 both ways with the bound on the output; MD5 as far as the blocks
  that `md5_transform` is called with; `url_decode`; `make_basic_auth`.
- `RtspRequest`: `rtsp_method_encode` and `http_auth_create_response` as texts in their
  two buffers. What the new buffer of the latter holds before is an input, as in
  `HttpAuth`.
- `StrUtils`: `str_copy`, `str_lcat`, `snprint_lcatf` and what they return.

### Run

`algorithms` chooses one input for one function in its only step; `MCAlgorithms` has
the other direction for each, written from the standards.

- `ReadsBack`: a writer of H.264 7.3.2.1.1 and E.1.1 (`SpsSyntax`, `Coded`) puts values
  into a parameter set, `Escape` adds the emulation prevention, and
  `DecodeSps` reads exactly those fields with those values; the same for the three
  headers. 816 combinations of profile, chroma format, picture order, cropping
  and VUI, each with three fillings (all 0, small, large).
- `DeEmulates`: every string of up to six bytes of 0, 1 and 3 comes back from its escaped
  form, also with an escape at its very end. Both properties except texts in
  which an escape is followed by one more zero and a 3 of the unit's own (`ClosesUp`): the
  code goes on scanning over bytes that have closed up and takes that 3 away, so three
  zeros and a 3 lose it. They also except units of less than two bytes, for which the
  unsigned bound of the scan (`rtp_utils.cpp:45`) is huge.
- `BasicReadsBack`: the Basic text decodes to the credentials for every length but 1;
  with 2 and 4 it has no end in its array (`http_auth.cpp:11`).
- `Md5Blocks`: for lengths 0 to 200, over three blocks and all their edges.
- `UrlDecodes`: texts of up to three characters with any of them escaped.
- `RequestEnds`: for all lengths around both limits (22 and 10 here, 4096 and 512 in
  the code), the request is complete and ends with its blank line exactly if
  everything fits. An authorization that does not fit loses its line end, so the
  blank line becomes its end and the request has none.
- `AppendBounded`: the results, and what the functions return as long as nothing is
  cut, the total length after appending (`strutils.h:39`, `:44`). Once something is,
  `snprint_lcatf` returns the length it would have taken, `str_lcat` that length without
  room and the length left with some, which is not what the comments say; no caller in
  `src/` looks at it, so it has no run.

Numbers stay below 2^31. Left out: scaling lists (`rtpdec_h264.cpp:148` reads their
flags and never the lists), the last four of the twelve flags of chroma format 3, and
the high profiles other than the four of line 138: what the code reads behind them is
not what was written. `Zeros` stops at the end of the buffer, where the code goes on as far
again for want of a 1 (`rtp_utils.cpp:17`); the units written end with one. `md5_encrypt`
refuses a length below that of its text (`crypto.cpp:222`), which none of its callers gives.

### Proofs

`AlgorithmsProofs` proves six properties of the run twice: for any input of the function,
and then for the inputs of the run, which states the property. It assumes
`SizesAssumption`: the buffer of a request holds at least a line end and the end of the
string, that of an authorization a character and its end (the code has 4096 and 512).

- `SignedReadsBack`, for every signed value: what `Se` makes of its code.
- `AppendFits`, `AppendCuts`, for any strings and any buffer. Both functions amount to
  `StrCopy` of the two strings one behind the other, which the next proof uses.
- `EndsOnlyWhole`, for texts of any length and any sizes. `Printed` unrolls the fold of
  `snprint_lcatf` over the parts: cutting at every step is cutting once (`RequestIs`). A
  text that is cut has lost its last character, and as no blank line stands in it
  earlier (`Unbroken`, and a line ends only with its last character), it has none at all.
- `UrlReadsBack`, for a text of any length, any set of escaped characters that has every
  percent sign, either case. `UrlFrom` is what is decoded from each place on. No escape
  reaches over the end of a character (`UrlCodes`, `StartsOf`), so at the place where a
  character begins that is the character and what follows it, back to the first.
- `BasicReadsAnyBack`, for any credentials of one character or more. `GroupReadsBack` is one
  group of Base64; `Encoded` and `PaddedIs` say where each group stands in a text of any
  length, and `DecodeIs` that the groups are read at the same places.
- `Md5Closes`, for any message below 2^29 bytes (`OneWord`), where the length in bits fits
  the first of its two words; `Bits` leaves the second one 0. `Taken` says that the
  blocks given on and what is kept are always the bytes given so far, and `Md5Takes`
  that it holds after every `Md5Update`, whichever pieces the bytes come in;
  `PaddingEndsBlock` says that message, padding and length fill whole blocks, so nothing
  is kept at the end.
- `DeEmulatesAny`, for any bytes, two or more. `Codes` is what `Escape` gives: where each
  byte stands in the escaped text, and where a 3 stands in front of it. The
  scan then keeps `LeftCoded`: all in front of its place is as it was before escaping,
  all behind it is still coded. A 3 that was not put in looks escaped only behind two
  zeros that the writer did not count as two, which is what `ClosesUp` excludes
  (`NoneLooksEscaped`).

`WritesPath`, `ScansPath` and their like unroll a fold into the sequence of its
intermediate results. `FoldLeft` takes an operator, so each fold needs its own; what
they have in common, for folds by functions, is `FoldExists` and `FoldUnrolled`.

## 10. Not modelled, and why

- Logging, `sdp_print`, `h264_print_info` and the hex dump: output only.
- The 64 rounds of `md5_transform`, and with them the digest: fixed arithmetic with
  published test vectors, for which a unit test says more than a model.
- The sizes of the text fields of `RTSPMessage`, which `snprintf` cuts to, and the 4095
  characters of `str_format`. What lies behind a buffer of the URL or of the
  authentication that is overrun is modelled as sections 4 and 8 say.
- Destructors: they are empty, so an object that goes away leaves what it has open.
- `main.cpp` and `test/`: callers; the tests are read for what they expect.
- Memory that is never freed (a message per request), and the overrun of the
  content buffer by a length above 4096, which `RepliesAssumption` excludes.

## 11. What is proved and what only checked

Every invariant of a passing run that is not in the second list is proved for
every value of the constants, from the assumptions its section names.

| Component | Proved | Only model-checked |
|---|---|---|
| RTSP client | `TypeOK`, `ReadAwaitsAnswer`, `ImplementsHandshake`; with an honest server `PairedReply`, `LockStep`, `AllStreamsSetUp`, `DeathExplained`, `NoMutualWait` | `ConnectReturns` |
| HTTP authentication | `TypeOK`, `StrongestScheme`, `LatestLeads`, `AnswersLatest` | |
| H.264 over RTP | `TypeOK`, `TakenFromStart`, `IntactTaken`, `DeliversInOrder` | |
| SDP | `TypeOK`, `NothingLeaks`, `LongestOrdered`, `EveryLineKept`, `RoundTrip` | |
| Headers | `TypeOK`, `ReparseHarmless`, `SoundSurvives`, `RangeHolds`, `LastTransport`, `LowerNamed` | |
| Descriptors, URL | `TypeOK`, `HeldIsOwn`, `LostByReopening`, `ClosesOwn`, `SplitsBack` | |
| Algorithms | `AppendBounded`, `RequestEnds`, `UrlDecodes`, `BasicReadsBack`, `Md5Blocks`, `DeEmulates`, and each of them for inputs of any size | `ReadsBack` |

What is not proved, and why:

- `ConnectReturns` is liveness under fairness, which the prover does not handle.
- `ReadsBack` of `MCAlgorithms`: a parameter set is some forty fields in a row, each with
  its own condition, and an Exp-Golomb code is as many bits as the logarithm of its
  value says. The proof would need powers of two with a variable exponent, which the
  solvers have no theory of. What is proved of it are signed codes and the removal
  of emulation prevention.
- The three violations are counterexamples, found by TLC on the instances given.
