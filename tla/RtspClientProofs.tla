--------------------------- MODULE RtspClientProofs ---------------------------
(***************************************************************************)
(* Proofs about RtspClient, for every way TCP cuts the bytes up and every  *)
(* number of calls: first for any server at all (Replies), then for one    *)
(* that keeps to what Honest says, whatever its replies and whenever it    *)
(* goes away.                                                              *)
(*                                                                         *)
(* The inductive invariant of the second part says for every place of      *)
(* connect() what is still on its way from the server: nothing, a reply    *)
(* from some position on, or what is left of a description.                *)
(***************************************************************************)
EXTENDS RtspClient, FiniteSetTheorems, SequenceTheorems, TLAPS

USE DEF Methods, Path

-------------------------------------------------------------------------------
LEMMA TokenType ==
    /\ Eol \in Token
    /\ \A n \in Nat : [t |-> "CSeq", v |-> n] \in Token
    /\ [t |-> "Status", v |-> 0] \in Token
BY DEF Token, Eol, HeaderTypes

\* Lines closed by their line ends are tokens.
LEMMA WithEolType ==
    ASSUME NEW s \in Seq(Token)
    PROVE  /\ WithEol(s) \in Seq(Token)
           /\ Len(WithEol(s)) = 2 * Len(s)
           /\ Len(s) > 0 => WithEol(s)[2 * Len(s)] = Eol
<1> DEFINE n == 2 * Len(s)
<1>1. n \in Nat
  OBVIOUS
<1>2. ASSUME NEW i \in 1 .. n
      PROVE  (IF i % 2 = 1 THEN s[(i + 1) \div 2] ELSE Eol) \in Token
  <2>1. CASE i % 2 = 1
    <3>1. (i + 1) \div 2 \in 1 .. Len(s)
      BY <2>1
    <3>2. s[(i + 1) \div 2] \in Token
      BY <3>1
    <3> QED
      BY <2>1, <3>2
  <2>2. CASE i % 2 # 1
    BY <2>2, TokenType
  <2> QED
    BY <2>1, <2>2
<1>3. WithEol(s) \in [1 .. n -> Token]
  BY <1>2 DEF WithEol
<1>4. WithEol(s) \in Seq(Token) /\ Len(WithEol(s)) = n
  BY <1>1, <1>3
<1>5. ASSUME Len(s) > 0 PROVE WithEol(s)[n] = Eol
  <2>1. n \in 1 .. n /\ n % 2 = 0
    BY <1>5
  <2> QED
    BY <2>1 DEF WithEol
<1> QED
  BY <1>4, <1>5

\* What the server sends for a request is made of tokens, and it contains the
\* end of a line directly followed by an empty one.
LEMMA ReplyTokensType ==
    ASSUME NEW req \in Request, NEW rep \in Reply
    PROVE  /\ ReplyTokens(req, rep) \in Seq(Token)
           /\ \E i \in 2 .. Len(ReplyTokens(req, rep)) :
                /\ ReplyTokens(req, rep)[i] = Eol
                /\ ReplyTokens(req, rep)[i - 1] = Eol
<1> DEFINE first == <<[t |-> "Status", v |-> 0], [t |-> "CSeq", v |-> req.seq]>>
           s     == first \o rep.headers
           body  == WithEol(s) \o <<Eol>>
           m     == 2 * Len(s)
<1>1. first \in Seq(Token) /\ Len(first) = 2
  BY TokenType DEF Request
<1>2. rep.headers \in Seq(Token) /\ rep.content \in Seq(Token)
  BY DEF Reply
<1>3. s \in Seq(Token) /\ Len(s) >= 2
  BY <1>1, <1>2
<1> HIDE DEF first, s
<1>4. /\ WithEol(s) \in Seq(Token)
      /\ Len(WithEol(s)) = m
      /\ WithEol(s)[m] = Eol
  BY <1>3, WithEolType
<1>5. m \in Nat /\ m >= 4
  BY <1>3
<1>6. /\ body \in Seq(Token)
      /\ Len(body) = m + 1
      /\ body[m + 1] = Eol
      /\ body[m] = Eol
  BY <1>4, <1>5
<1> HIDE DEF body, m
<1>7. ReplyTokens(req, rep) = body \o rep.content
  BY DEF ReplyTokens, body, s, first
<1>8. /\ body \o rep.content \in Seq(Token)
      /\ Len(body \o rep.content) >= m + 1
      /\ (body \o rep.content)[m + 1] = Eol
      /\ (body \o rep.content)[m] = Eol
  BY <1>2, <1>5, <1>6
<1>9. m + 1 \in 2 .. Len(body \o rep.content) /\ (m + 1) - 1 = m
  BY <1>2, <1>5, <1>6, <1>8
<1> QED
  BY <1>7, <1>8, <1>9

\* The streams of a description are counted by a natural number.
LEMMA StreamCountType ==
    ASSUME NEW s \in Seq(Token)
    PROVE  StreamCount(s) \in Nat
<1>1. IsFiniteSet(1 .. Len(s))
  BY FS_Interval
<1>2. IsFiniteSet({i \in 1 .. Len(s) : s[i].t = "m"})
  BY <1>1, FS_Subset
<1> QED
  BY <1>2, FS_CardinalityType DEF StreamCount

-------------------------------------------------------------------------------
\* The bounds as the steps use them.
USE DEF clientVars, serverVars, historyVars, vars

\* The values connect() starts with.
LEMMA NewType ==
    /\ NewContext \in Context
    /\ NewMessage \in Message
    /\ [method |-> "OPTIONS", seq |-> 0, uri |-> Path,
        session |-> 0, auth |-> 0] \in Request
BY DEF NewContext, NewMessage, Context, Message, Request

LEMMA EmptyType ==
    <<>> \in Seq(Token) /\ <<>> \in Seq(Request) /\ <<>> \in Seq(Nat)
BY EmptySeq

LEMMA InitTypeOK == Init => TypeOK
<1> SUFFICES ASSUME Init PROVE TypeOK
  OBVIOUS
<1>1. down \in BOOLEAN /\ short \in BOOLEAN
  BY DEF Init
<1> QED
  BY <1>1, BoundsAssumption, NewType, EmptyType DEF Init, TypeOK

LEMMA NextTypeOK == TypeOK /\ [Next]_vars => TypeOK'
<1> SUFFICES ASSUME TypeOK, [Next]_vars
             PROVE  TypeOK'
  OBVIOUS
<1> USE BoundsAssumption
<1>1. CASE Connect
  <2>1. down' \in BOOLEAN /\ short' \in BOOLEAN
    BY <1>1 DEF Connect
  <2> QED
    BY <1>1, <2>1, NewType, EmptyType DEF TypeOK, Connect, Enter
<1>2. CASE ConnectRefused
  BY <1>2 DEF TypeOK, ConnectRefused
<1>3. CASE Encode
  <2>1. method \in Methods /\ ctx \in Context
    BY DEF TypeOK
  <2>2. request' \in Request /\ ctx' \in Context
    BY <1>3, <2>1 DEF Encode, Request, Context
  <2> QED
    BY <1>3, <2>2 DEF TypeOK, Encode
<1>4. CASE SendPart
  <2>1. PICK n \in 1 .. Remaining : sendLen' = sendLen + n
    BY <1>4 DEF SendPart
  <2>2. sendLen' \in 0 .. RequestParts
    BY <2>1 DEF TypeOK, Remaining
  <2>3. request.method \in Methods
    BY DEF TypeOK, Request
  <2>4. /\ pc' \in {pc, "read"}
        /\ inbox' \in {inbox, Append(inbox, request)}
        /\ issued' \in {issued, request.method}
        /\ setups' \in {setups, setups + 1}
        /\ cur' \in {cur, None}
    BY <1>4 DEF SendPart
  <2>5. inbox' \in Seq(Request)
    <3>1. inbox \in Seq(Request) /\ request \in Request
      BY DEF TypeOK
    <3> QED
      BY <2>4, <3>1, AppendProperties
  <2> QED
    BY <1>4, <2>2, <2>3, <2>4, <2>5 DEF TypeOK, SendPart
<1>5. CASE SendFails
  BY <1>5 DEF TypeOK, SendFails, Fail, Die
<1>6. CASE ReadText
  BY <1>6 DEF TypeOK, ReadText, Reading
<1>7. CASE ReadLine
  BY <1>7 DEF TypeOK, ReadLine, Reading
<1>8. CASE ReadBlank
  BY <1>8 DEF TypeOK, ReadBlank, Reading
<1>9. CASE ReadLong
  BY <1>9 DEF TypeOK, ReadLong, Reading, Fail
<1>10. CASE ReadDown
  BY <1>10 DEF TypeOK, ReadDown, Fail
<1>11. CASE ParseLine
  <2>1. Parsing /\ Value \in Nat /\ idx' \in Nat \ {0}
    <3>1. Parsing
      BY <1>11 DEF ParseLine, ParseStored, ParseAuthenticate, ParsePublic,
                   ParseEmpty, ParseIgnored, Parse
    <3>2. lines[idx] \in Token
      BY <3>1 DEF TypeOK, Parsing
    <3> QED
      BY <3>1, <3>2 DEF TypeOK, Parsing, Value, Token
  <2>2. CASE ParseStored
    <3>1. reply' \in Message
      BY <2>1, <2>2 DEF TypeOK, ParseStored, Message
    <3> QED
      BY <2>1, <2>2, <3>1 DEF TypeOK, ParseStored, Parsing
  <2>3. CASE ParseAuthenticate
    <3>1. ctx' \in Context
      BY <2>1, <2>3 DEF TypeOK, ParseAuthenticate, Context
    <3> QED
      BY <2>1, <2>3, <3>1 DEF TypeOK, ParseAuthenticate, Parsing
  <2>4. CASE ParsePublic
    <3>1. ctx' \in Context
      BY <2>4 DEF TypeOK, ParsePublic, Context
    <3> QED
      BY <2>1, <2>4, <3>1 DEF TypeOK, ParsePublic, Parsing
  <2>5. CASE ParseEmpty
    BY <2>1, <2>5 DEF TypeOK, ParseEmpty, Parsing, Die
  <2>6. CASE ParseIgnored
    BY <2>1, <2>6 DEF TypeOK, ParseIgnored, Parsing
  <2> QED
    BY <1>11, <2>2, <2>3, <2>4, <2>5, <2>6 DEF ParseLine
<1>12. CASE ReplyDone
  <2>1. /\ pc' \in {"encode", "content", "setup", "idle"}
        /\ method' \in {method, "DESCRIBE"}
        /\ reply' \in {reply, NewMessage}
        /\ lines' \in {lines, <<>>}
        /\ media' \in {media, media + 1}
    BY <1>12 DEF ReplyDone, Enter, Fail
  <2>2. UNCHANGED <<calls, ctx, request, sendLen, cur, idx, content, streams,
                    serverVars, historyVars>>
    BY <1>12 DEF ReplyDone
  <2>3. /\ reply' \in Message
        /\ lines' \in Seq(Token)
        /\ media' \in Nat
        /\ method' \in Methods
    <3>1. reply \in Message /\ lines \in Seq(Token) /\ media \in Nat /\ method \in Methods
      BY DEF TypeOK
    <3>2. reply' \in Message
      BY <2>1, <3>1, NewType
    <3>3. lines' \in Seq(Token)
      BY <2>1, <3>1, EmptyType
    <3>4. media' \in Nat
      BY <2>1, <3>1
    <3> QED
      BY <2>1, <3>1, <3>2, <3>3, <3>4
  <2> QED
    BY <2>1, <2>2, <2>3 DEF TypeOK
<1>13. CASE RecvNothing
  BY <1>13 DEF TypeOK, RecvNothing, Fail
<1>14. CASE RecvContent
  BY <1>14 DEF TypeOK, RecvContent
<1>15. CASE SdpLine
  <2>1. content' \in Seq(Token)
    BY <1>15 DEF TypeOK, SdpLine, SdpContinues
  <2>2. /\ pc' \in {pc, "sdp_s", "sdp_m"}
        /\ streams' \in {streams, Append(streams, 0),
                         [streams EXCEPT ![Len(streams)] = @ + 1]}
    BY <1>15 DEF SdpLine
  <2>3. streams' \in Seq(Nat)
    <3>1. streams \in Seq(Nat)
      BY DEF TypeOK
    <3> QED
      BY <2>2, <3>1
  <2> QED
    BY <1>15, <2>1, <2>2, <2>3 DEF TypeOK, SdpLine
<1>16. CASE SdpParsed
  BY <1>16, NewType, EmptyType DEF TypeOK, SdpParsed, Enter
<1>17. CASE SdpRejected
  BY <1>17 DEF TypeOK, SdpRejected, Die
<1>18. CASE SetupStream
  BY <1>18 DEF TypeOK, SetupStream, Die
<1>19. CASE SetupDone
  BY <1>19, NewType, EmptyType DEF TypeOK, SetupDone, Enter
<1>20. CASE ServerReply
  <2>1. PICK rep \in Replies[Head(inbox).method] :
          /\ stream' = stream \o ReplyTokens(Head(inbox), rep)
          /\ described' = IF Head(inbox).method = "DESCRIBE"
                            THEN StreamCount(rep.content) ELSE described
    BY <1>20 DEF ServerReply
  <2>2. Head(inbox) \in Request /\ Tail(inbox) \in Seq(Request)
    BY <1>20 DEF TypeOK, ServerReply
  <2>3. rep \in Reply
    BY <2>1, <2>2, RepliesAssumption DEF Request
  <2>4. stream' \in Seq(Token)
    <3>1. ReplyTokens(Head(inbox), rep) \in Seq(Token)
      BY <2>2, <2>3, ReplyTokensType
    <3>2. stream \in Seq(Token)
      BY DEF TypeOK
    <3> QED
      BY <2>1, <3>1, <3>2
  <2>5. described' \in Nat
    BY <2>1, <2>3, StreamCountType DEF TypeOK, Reply
  <2> QED
    BY <1>20, <2>2, <2>4, <2>5 DEF TypeOK, ServerReply
<1>21. CASE ServerDies
  <2>1. stream' \in Seq(Token)
    <3>1. CASE stream' \in {stream, <<>>}
      BY <3>1, EmptyType DEF TypeOK
    <3>2. ASSUME inbox # <<>>,
                 NEW rep \in Replies[Head(inbox).method],
                 NEW n \in 1 .. Len(ReplyTokens(Head(inbox), rep)) - 1,
                 stream' = stream \o SubSeq(ReplyTokens(Head(inbox), rep), 1, n)
          PROVE  stream' \in Seq(Token)
      <4>1. Head(inbox) \in Request
        BY <3>2 DEF TypeOK
      <4>2. rep \in Reply
        BY <4>1, RepliesAssumption DEF Request
      <4>3. ReplyTokens(Head(inbox), rep) \in Seq(Token)
        BY <4>1, <4>2, ReplyTokensType
      <4>4. SubSeq(ReplyTokens(Head(inbox), rep), 1, n) \in Seq(Token)
        BY <4>3
      <4> QED
        BY <3>2, <4>4 DEF TypeOK
    <3> QED
      BY <1>21, <3>1, <3>2 DEF ServerDies
  <2> QED
    BY <1>21, <2>1 DEF TypeOK, ServerDies
<1>22. CASE UNCHANGED vars
  BY <1>22 DEF TypeOK
<1> QED
  BY <1>1, <1>2, <1>3, <1>4, <1>5, <1>6, <1>7, <1>8, <1>9, <1>10, <1>11, <1>12,
     <1>13, <1>14, <1>15, <1>16, <1>17, <1>18, <1>19, <1>20, <1>21, <1>22
     DEF Next, Client

\* Type correctness: every field of the client, of its messages and of the
\* connection keeps its type, whatever the server answers.
THEOREM TypeCorrect == Spec => []TypeOK
<1>1. Init => TypeOK
  BY InitTypeOK
<1>2. TypeOK /\ [Next]_vars => TypeOK'
  BY NextTypeOK
<1> QED
  BY <1>1, <1>2, PTL DEF Spec

-------------------------------------------------------------------------------
(* read_rtsp_message does not wait for a server that has nothing to say.     *)

\* An empty line comes: at the head of the stream, or after a line end in it.
BlankAhead ==
    \/ stream # <<>> /\ Head(stream) = Eol /\ cur = None
    \/ \E i \in 2 .. Len(stream) : stream[i] = Eol /\ stream[i - 1] = Eol

AnswerComing == pc = "read" => down \/ inbox # <<>> \/ BlankAhead

LEMMA NextAnswerComing ==
    TypeOK /\ AnswerComing /\ [Next]_vars => AnswerComing'
<1> SUFFICES ASSUME TypeOK, AnswerComing, [Next]_vars, pc' = "read", ~down'
             PROVE  inbox' # <<>> \/ BlankAhead'
  BY DEF AnswerComing
<1> USE DEF AnswerComing
<1>0. /\ stream \in Seq(Token)
      /\ inbox \in Seq(Request)
      /\ request \in Request
  BY DEF TypeOK
\* The first token of the stream is consumed without ending the message.
<1>a. ASSUME stream # <<>>, stream' = Tail(stream), pc = "read",
             UNCHANGED <<inbox, down>>,
             \/ Head(stream) # Eol
             \/ cur # None /\ cur' = None
      PROVE  inbox' # <<>> \/ BlankAhead'
  <2>1. CASE inbox # <<>>
    BY <1>a, <2>1
  <2>2. CASE inbox = <<>>
    <3>1. BlankAhead
      BY <1>a, <2>2
    <3>2. PICK i \in 2 .. Len(stream) : stream[i] = Eol /\ stream[i - 1] = Eol
      BY <3>1, <1>a DEF BlankAhead
    <3>3. /\ Len(stream') = Len(stream) - 1
          /\ \A j \in 1 .. Len(stream') : stream'[j] = stream[j + 1]
      BY <1>0, <1>a, HeadTailProperties
    <3>4. Head(stream) = stream[1]
      BY <1>0, <1>a
    <3>5. CASE i = 2
      <4>1. Head(stream) = Eol
        BY <3>2, <3>4, <3>5
      <4>2. cur' = None
        BY <4>1, <1>a
      <4>3. stream' # <<>> /\ Head(stream') = Eol
        <5>1. stream' \in Seq(Token)
          BY <1>0, <1>a, HeadTailProperties
        <5>2. Len(stream') >= 1 /\ stream'[1] = Eol
          BY <1>0, <3>2, <3>3, <3>5
        <5> QED
          BY <5>1, <5>2
      <4> QED
        BY <4>2, <4>3 DEF BlankAhead
    <3>6. CASE i > 2
      <4>1. /\ i - 1 \in 2 .. Len(stream')
            /\ (i - 1) - 1 \in 1 .. Len(stream')
        BY <1>0, <3>3, <3>6
      <4>2. stream'[i - 1] = Eol /\ stream'[(i - 1) - 1] = Eol
        BY <4>1, <1>0, <3>2, <3>3, SMTT(60)
      <4> QED
        BY <4>1, <4>2 DEF BlankAhead
    <3> QED
      BY <3>5, <3>6
  <2> QED
    BY <2>1, <2>2
<1>1. CASE SendPart
  <2>1. pc = "send"
    BY <1>1 DEF SendPart
  <2>2. inbox' = Append(inbox, request)
    BY <1>1, <2>1 DEF SendPart
  <2> QED
    BY <2>2, <1>0, AppendProperties
<1>2. CASE ReadText
  <2>1. Head(stream) # Eol
    BY <1>2 DEF ReadText, Eol
  <2> QED
    BY <1>2, <2>1, <1>a DEF ReadText, Reading
<1>3. CASE ReadLine
  BY <1>3, <1>a DEF ReadLine, Reading
<1>4. CASE ServerReply
  <2>1. PICK rep \in Replies[Head(inbox).method] :
          stream' = stream \o ReplyTokens(Head(inbox), rep)
    BY <1>4 DEF ServerReply
  <2>2. Head(inbox) \in Request
    BY <1>0, <1>4 DEF ServerReply
  <2>3. rep \in Reply
    BY <2>1, <2>2, RepliesAssumption DEF Request
  <2> DEFINE tokens == ReplyTokens(Head(inbox), rep)
  <2>4. tokens \in Seq(Token)
    BY <2>2, <2>3, ReplyTokensType
  <2>5. PICK i \in 2 .. Len(tokens) : tokens[i] = Eol /\ tokens[i - 1] = Eol
    BY <2>2, <2>3, ReplyTokensType
  <2> HIDE DEF tokens
  <2>6. stream' = stream \o tokens
    BY <2>1 DEF tokens
  <2>7. /\ Len(stream) + i \in 2 .. Len(stream')
        /\ stream'[Len(stream) + i] = tokens[i]
        /\ stream'[(Len(stream) + i) - 1] = tokens[i - 1]
    BY <1>0, <2>4, <2>5, <2>6
  <2> QED
    BY <2>5, <2>7 DEF BlankAhead
<1>5. CASE ServerDies
  BY <1>5 DEF ServerDies
\* The other actions leave "read" or have nothing to do with it.
<1>6. CASE ParseLine
  BY <1>6 DEF ParseLine, ParseStored, ParseAuthenticate, ParsePublic, ParseEmpty,
              ParseIgnored, Parse, Parsing, Die
<1>7. CASE Connect \/ Encode \/ SendFails \/ ReadBlank \/ ReadLong \/ ReadDown
  BY <1>7 DEF Connect, Encode, SendFails, ReadBlank, ReadLong, ReadDown, Fail, Die
<1>8. CASE ConnectRefused
  BY <1>8 DEF ConnectRefused
<1>9. CASE ReplyDone
  BY <1>9 DEF ReplyDone, Fail
<1>10. CASE RecvNothing \/ RecvContent
  BY <1>10 DEF RecvNothing, RecvContent, Fail
<1>11. CASE SdpLine \/ SdpParsed \/ SdpRejected
  BY <1>11 DEF SdpLine, SdpParsed, SdpRejected, Die
<1>12. CASE SetupStream \/ SetupDone
  BY <1>12 DEF SetupStream, SetupDone, Die
<1>13. CASE UNCHANGED vars
  BY <1>13 DEF BlankAhead
<1> QED
  BY <1>1, <1>2, <1>3, <1>4, <1>5, <1>6, <1>7, <1>8, <1>9, <1>10, <1>11, <1>12, <1>13
     DEF Next, Client

\* While read_rtsp_message waits for bytes of a live connection, the server
\* owes an answer, whatever it has answered before: the reading of a message
\* cannot be what makes client and server wait for each other.
THEOREM ReadNeverWaitsInVain == Spec => []ReadAwaitsAnswer
<1>1. Init => AnswerComing
  BY DEF Init, AnswerComing
<1>2. TypeOK /\ AnswerComing => ReadAwaitsAnswer
  <2> SUFFICES ASSUME TypeOK, AnswerComing, pc = "read", stream = <<>>, ~down
               PROVE  inbox # <<>>
    BY DEF ReadAwaitsAnswer
  <2>1. ~BlankAhead
    BY DEF BlankAhead
  <2> QED
    BY <2>1 DEF AnswerComing
<1> QED
  BY <1>1, <1>2, TypeCorrect, NextAnswerComing, PTL DEF Spec

-------------------------------------------------------------------------------
(* The client implements RtspHandshake.                                      *)

\* Where connect() stands decides which requests have gone out.
Preparing ==
    pc \in {"encode", "send"} =>
        /\ method = "OPTIONS"  => issued = "none" /\ setups = 0
        /\ method = "DESCRIBE" => issued = "OPTIONS" /\ setups = 0
        /\ method \in {"SETUP", "PLAY"} => issued \in {"DESCRIBE", "SETUP"}
        /\ method = "SETUP"    => setups = media /\ media < Len(streams)
        /\ method = "PLAY"     => setups = Len(streams)

Sending == pc = "send" => request.method = method

Answering ==
    pc \in {"read", "parse"} =>
        /\ issued = method
        /\ method \in {"OPTIONS", "DESCRIBE"} => setups = 0
        /\ method = "SETUP" => setups = media + 1 /\ media < Len(streams)

Describing ==
    pc \in {"content", "sdp_v", "sdp_s", "sdp_m"} =>
        method = "DESCRIBE" /\ issued = "DESCRIBE" /\ setups = 0

SettingUp ==
    pc = "setup" =>
        /\ method = "SETUP"
        /\ issued \in {"DESCRIBE", "SETUP"}
        /\ setups = media
        /\ media <= Len(streams)

Phases == Preparing /\ Sending /\ Answering /\ Describing /\ SettingUp

USE DEF Preparing, Sending, Answering, Describing, SettingUp

LEMMA NextPhases ==
    TypeOK /\ Phases /\ [Next]_vars => Phases'
<1> SUFFICES ASSUME TypeOK, Phases, [Next]_vars
             PROVE  Phases'
  OBVIOUS
<1> USE DEF Phases
<1>0. /\ media \in Nat
      /\ streams \in Seq(Nat)
      /\ method \in Methods
      /\ Len(streams) \in Nat
  BY DEF TypeOK
<1>1. CASE Connect
  BY <1>1 DEF Connect, Enter
<1>2. CASE ConnectRefused
  BY <1>2 DEF ConnectRefused
<1>3. CASE Encode
  BY <1>3 DEF Encode
<1>4. CASE SendPart
  BY <1>0, <1>4 DEF SendPart
<1>5. CASE SendFails \/ ReadDown \/ ReadLong \/ RecvNothing
  BY <1>5 DEF SendFails, ReadDown, ReadLong, RecvNothing, Reading, Fail, Die
<1>6. CASE ReadText \/ ReadLine \/ ReadBlank
  BY <1>6 DEF ReadText, ReadLine, ReadBlank, Reading
<1>7. CASE ParseLine
  BY <1>7 DEF ParseLine, ParseStored, ParseAuthenticate, ParsePublic, ParseEmpty,
              ParseIgnored, Parse, Parsing, Die
<1>8. CASE ReplyDone
  BY <1>0, <1>8 DEF ReplyDone, Enter, Fail
<1>9. CASE RecvContent
  BY <1>9 DEF RecvContent
<1>10. CASE SdpLine
  <2>1. pc' \in {"sdp_v", "sdp_s", "sdp_m"}
    BY <1>10 DEF SdpLine
  <2> QED
    BY <1>10, <2>1 DEF SdpLine
<1>11. CASE SdpParsed \/ SdpRejected
  BY <1>0, <1>11 DEF SdpParsed, SdpRejected, Enter, Die
<1>12. CASE SetupStream \/ SetupDone
  BY <1>0, <1>12 DEF SetupStream, SetupDone, MoreStreams, Enter, Die
<1>13. CASE ServerReply \/ ServerDies
  BY <1>13 DEF ServerReply, ServerDies
<1>14. CASE UNCHANGED vars
  BY <1>14
<1> QED
  BY <1>1, <1>2, <1>3, <1>4, <1>5, <1>6, <1>7, <1>8, <1>9, <1>10, <1>11, <1>12,
     <1>13, <1>14 DEF Next, Client

LEMMA NextHandshake ==
    TypeOK /\ Phases /\ [Next]_vars => [Handshake!Next]_(Handshake!vars)
<1> SUFFICES ASSUME TypeOK, Phases, [Next]_vars
             PROVE  [Handshake!Next]_(Handshake!vars)
  OBVIOUS
<1> USE DEF Phases, Handshake!vars, Known, Owed, InCall
<1>0. /\ media \in Nat
      /\ setups \in Nat
      /\ Len(streams) \in Nat
      /\ method \in Methods
  BY DEF TypeOK
\* A step that ends connect(), and one that leaves all of it as it is.
<1>a. ASSUME pc \notin {"idle", "dead"}, pc' \in {"idle", "dead"},
             UNCHANGED <<issued, method, streams, setups>>
      PROVE  Handshake!Return
  BY <1>a DEF Handshake!Return
<1>b. ASSUME pc \notin {"idle", "dead"}, pc' \notin {"idle", "dead"},
             UNCHANGED <<issued, method, streams, setups>>
      PROVE  UNCHANGED Handshake!vars
  BY <1>b
<1> USE DEF Handshake!Next
<1>1. CASE Connect
  BY <1>1 DEF Connect, Enter, Handshake!Call
<1>2. CASE ConnectRefused
  BY <1>2 DEF ConnectRefused
<1>3. CASE Encode
  BY <1>3, <1>b DEF Encode
<1>4. CASE SendPart
  <2>1. CASE sendLen' < RequestParts
    BY <1>4, <2>1, <1>b DEF SendPart
  <2>2. CASE ~(sendLen' < RequestParts)
    <3>1. /\ pc = "send" /\ pc' = "read"
          /\ issued' = method
          /\ setups' = IF method = "SETUP" THEN setups + 1 ELSE setups
          /\ UNCHANGED <<method, streams, media>>
      BY <1>4, <2>2 DEF SendPart
    <3>2. CASE method = "OPTIONS"
      BY <3>1, <3>2 DEF Handshake!IssueOptions
    <3>3. CASE method = "DESCRIBE"
      BY <3>1, <3>3 DEF Handshake!IssueDescribe
    <3>4. CASE method = "SETUP"
      BY <1>0, <3>1, <3>4 DEF Handshake!IssueSetup
    <3>5. CASE method = "PLAY"
      BY <1>0, <3>1, <3>5 DEF Handshake!IssuePlay
    <3> QED
      BY <1>0, <3>2, <3>3, <3>4, <3>5
  <2> QED
    BY <2>1, <2>2
<1>5. CASE SendFails \/ ReadDown \/ ReadLong \/ RecvNothing
  BY <1>5, <1>a DEF SendFails, ReadDown, ReadLong, RecvNothing, Reading, Fail, Die
<1>6. CASE ReadText \/ ReadLine \/ ReadBlank
  BY <1>6, <1>b DEF ReadText, ReadLine, ReadBlank, Reading
<1>7. CASE ParseLine
  BY <1>7, <1>a, <1>b
     DEF ParseLine, ParseStored, ParseAuthenticate, ParsePublic, ParseEmpty,
         ParseIgnored, Parse, Parsing, Die
<1>8. CASE ReplyDone
  BY <1>8, <1>a, <1>b DEF ReplyDone, Enter, Fail
<1>9. CASE RecvContent
  BY <1>9, <1>b DEF RecvContent
<1>10. CASE SdpLine
  BY <1>10 DEF SdpLine
<1>11. CASE SdpParsed
  BY <1>0, <1>11 DEF SdpParsed, Enter, Handshake!AcceptDescription
<1>12. CASE SdpRejected
  BY <1>12, <1>a DEF SdpRejected, Die
<1>13. CASE SetupStream
  BY <1>13, <1>a, <1>b DEF SetupStream, Die
<1>14. CASE SetupDone
  BY <1>14 DEF SetupDone, Enter
<1>15. CASE ServerReply \/ ServerDies
  BY <1>15 DEF ServerReply, ServerDies
<1>16. CASE UNCHANGED vars
  BY <1>16
<1> QED
  BY <1>1, <1>2, <1>3, <1>4, <1>5, <1>6, <1>7, <1>8, <1>9, <1>10, <1>11, <1>12,
     <1>13, <1>14, <1>15, <1>16 DEF Next, Client

\* Whatever the server answers and however the bytes arrive, the requests of
\* one connection are OPTIONS, DESCRIBE, a SETUP for each stream found, PLAY.
THEOREM ClientImplementsHandshake == Spec => ImplementsHandshake
<1>1. Init => Phases /\ Handshake!Init
  BY DEF Init, Phases, Handshake!Init, Known, Owed, InCall
<1>2. TypeOK /\ Phases /\ [Next]_vars => Phases'
  BY NextPhases
<1>3. TypeOK /\ Phases /\ [Next]_vars => [Handshake!Next]_(Handshake!vars)
  BY NextHandshake
<1> QED
  BY <1>1, <1>2, <1>3, TypeCorrect, PTL DEF Spec, ImplementsHandshake, Handshake!Spec

-------------------------------------------------------------------------------
(* Replies *)

\* The lines of a reply as read_rtsp_message keeps them.
HeaderLines(req, rep) ==
    <<[t |-> "Status", v |-> 0], [t |-> "CSeq", v |-> req.seq]>> \o rep.headers

\* The beginning of a token sequence.
Begins(s, t) ==
    /\ Len(s) <= Len(t)
    /\ \A i \in 1 .. Len(s) : s[i] = t[i]

\* The last n of the lines.
LastLines(n, hdr) ==
    /\ n <= Len(lines)
    /\ \A i \in 1 .. n : lines[Len(lines) - n + i] = hdr[i]

-------------------------------------------------------------------------------
(* The invariant *)

NothingOwed == inbox = <<>> \/ down

\* Nothing of the reply has come yet.
Waiting ==
    /\ stream = <<>>
    /\ inbox = <<request>> \/ down
    /\ cur = None
    /\ method = "DESCRIBE" => lines = <<>>

\* j lines have been read, half of the next one (its text without its end),
\* and the tokens up to the n-th of the reply have been sent.
Underway(rep, j, half, n) ==
    LET hdr    == HeaderLines(request, rep)
        tokens == ReplyTokens(request, rep)
    IN /\ half = 1 => j < Len(hdr)
       /\ n >= 2 * j + half
       /\ Len(stream) = n - (2 * j + half)
       /\ \A i \in 1 .. Len(stream) : stream[i] = tokens[2 * j + half + i]
       /\ n = Len(tokens) \/ down
       /\ method = "DESCRIBE" /\ n = Len(tokens) => described = StreamCount(rep.content)
       /\ cur = IF half = 1 THEN hdr[j + 1] ELSE None
       /\ LastLines(j, hdr)
       /\ method = "DESCRIBE" => Len(lines) = j

InRead ==
    pc = "read" /\ ~short =>
        \/ Waiting
        \/ /\ NothingOwed
           /\ \E rep \in Replies[method] :
              \E j \in 0 .. Len(HeaderLines(request, rep)), half \in {0, 1},
                 n \in 0 .. Len(ReplyTokens(request, rep)) :
                   Underway(rep, j, half, n)

\* The content of a reply, or the part of it a server sent that went away.
ContentOf(rep) ==
    /\ Begins(stream, rep.content)
    /\ Len(stream) = Len(rep.content) \/ down
    /\ method = "DESCRIBE" /\ Len(stream) = Len(rep.content)
         => described = StreamCount(rep.content)

\* The lines up to idx of the reply have been parsed.
ParsedUpToIdx(rep) ==
    LET hdr == HeaderLines(request, rep)
    IN /\ LastLines(Len(hdr), hdr)
       /\ method = "DESCRIBE" => Len(lines) = Len(hdr)
       /\ idx > Len(lines) - Len(hdr) + 2 => reply.seq = request.seq
       /\ method = "DESCRIBE" =>
            \A i \in 1 .. Len(lines) :
              i < idx /\ lines[i].t = "Content-Length" =>
                reply.content_length = Len(rep.content)

InParse ==
    pc = "parse" /\ ~short =>
        /\ NothingOwed
        /\ \E rep \in Replies[method] : ContentOf(rep) /\ ParsedUpToIdx(rep)

InContent ==
    pc = "content" /\ ~short =>
        /\ NothingOwed
        /\ \E rep \in Replies["DESCRIBE"] :
             ContentOf(rep) /\ reply.content_length = Len(rep.content)

\* Between a reply and the next request everything has been read.
Between ==
    pc \in {"encode", "send", "sdp_v", "sdp_s", "sdp_m", "setup"} /\ ~short =>
        stream = <<>> /\ NothingOwed

\* What is left of a description in front of its s line.
NameAhead(c) ==
    \E k \in 1 .. Len(c) :
        /\ c[k].t = "s"
        /\ \A i \in 1 .. k - 1 : c[i].t \in RestTypes \cup {"eol"}
        /\ \A i \in k + 1 .. Len(c) : c[i].t \in StreamTypes

OnlyStreams(c) == \A i \in 1 .. Len(c) : c[i].t \in StreamTypes

\* An attribute comes before the next stream.
AttributeAhead(c) ==
    \E j \in 1 .. Len(c) : c[j].t = "a" /\ \A l \in 1 .. j - 1 : c[l].t # "m"

InDescription ==
    /\ pc = "sdp_v" /\ ~short => Description(content)
    /\ pc = "sdp_s" /\ ~short => NameAhead(content) /\ EveryStreamHasAttribute(content)
    /\ pc = "sdp_m" /\ ~short =>
         /\ OnlyStreams(content)
         /\ EveryStreamHasAttribute(content)
         /\ \A i \in 1 .. Len(streams) :
              streams[i] = 0 => i = Len(streams) /\ AttributeAhead(content)
    /\ pc \in {"sdp_v", "sdp_s", "sdp_m"} /\ ~short =>
         Len(streams) + StreamCount(content) = described

\* Behind the description every stream is known and has an attribute.
InSetup ==
    InCall /\ method \in {"SETUP", "PLAY"} /\ ~short =>
        /\ Len(streams) = described
        /\ \A i \in 1 .. Len(streams) : streams[i] > 0

\* Up to the content, nothing has been cut off and no stream is known.
Early ==
    /\ pc \in {"encode", "send", "read", "parse", "content"}
         /\ method \in {"OPTIONS", "DESCRIBE"} => ~short
    /\ InCall /\ method \in {"OPTIONS", "DESCRIBE"} /\ pc # "sdp_m" => streams = <<>>
    /\ pc \in {"encode", "send"} /\ method = "DESCRIBE" => lines = <<>>

Late ==
    /\ pc \in {"read", "parse"} => request.method = method
    /\ pc \in {"read", "parse"} /\ method = "PLAY" => setups = Len(streams)

\* No header without a value is on its way or has been read.
NoEmptyHeader ==
    /\ \A i \in 1 .. Len(stream) : stream[i].t # "Empty"
    /\ \A i \in 1 .. Len(lines) : lines[i].t # "Empty"
    /\ cur.t # "Empty"

Sync ==
    /\ InRead /\ InParse /\ InContent
    /\ Between /\ InDescription /\ InSetup
    /\ Early /\ Late
    /\ NoEmptyHeader /\ DeathExplained

USE DEF Methods, Path, clientVars, serverVars, historyVars, vars

\* Everything a step of the proof assumes.
Assumed == Honest(Replies) /\ TypeOK /\ Phases /\ Sync /\ [Next]_vars

-------------------------------------------------------------------------------
(* What a reply is made of *)

LEMMA HonestReply ==
    ASSUME Honest(Replies), NEW m \in Methods, NEW rep \in Replies[m]
    PROVE  /\ rep \in Reply
           /\ \A i \in 1 .. Len(rep.headers) :
                /\ rep.headers[i].t \in HeaderTypes \ {"CSeq", "Empty"}
                /\ m = "DESCRIBE" /\ rep.headers[i].t = "Content-Length"
                     => rep.headers[i].v = Len(rep.content)
           /\ m # "DESCRIBE" => rep.content = <<>>
           /\ m = "DESCRIBE" =>
                /\ Description(rep.content)
                /\ \E i \in 1 .. Len(rep.headers) : rep.headers[i].t = "Content-Length"
<1>1. rep \in Reply
  BY RepliesAssumption
<1>2. DOMAIN rep.headers = 1 .. Len(rep.headers)
  BY <1>1 DEF Reply
<1> QED
  BY <1>1, <1>2 DEF Honest

LEMMA ConcatAt ==
    ASSUME NEW s \in Seq(Token), NEW t \in Seq(Token)
    PROVE  /\ s \o t \in Seq(Token)
           /\ Len(s \o t) = Len(s) + Len(t)
           /\ \A i \in 1 .. Len(s) : (s \o t)[i] = s[i]
           /\ \A i \in 1 .. Len(t) : (s \o t)[Len(s) + i] = t[i]
<1>1. /\ s \o t \in Seq(Token)
      /\ Len(s \o t) = Len(s) + Len(t)
      /\ \A i \in 1 .. Len(s) + Len(t) :
           (s \o t)[i] = IF i <= Len(s) THEN s[i] ELSE t[i - Len(s)]
  BY ConcatProperties
<1>2. Len(s) \in Nat /\ Len(t) \in Nat
  OBVIOUS
<1> QED
  BY <1>1, <1>2

LEMMA HeaderLinesAre ==
    ASSUME NEW req \in Request, NEW rep \in Reply
    PROVE  /\ HeaderLines(req, rep) \in Seq(Token)
           /\ Len(HeaderLines(req, rep)) = Len(rep.headers) + 2
           /\ HeaderLines(req, rep)[1] = [t |-> "Status", v |-> 0]
           /\ HeaderLines(req, rep)[2] = [t |-> "CSeq", v |-> req.seq]
           /\ \A i \in 3 .. Len(rep.headers) + 2 :
                HeaderLines(req, rep)[i] = rep.headers[i - 2]
<1> DEFINE first == <<[t |-> "Status", v |-> 0], [t |-> "CSeq", v |-> req.seq]>>
<1>1. /\ first \in Seq(Token) /\ Len(first) = 2
      /\ first[1] = [t |-> "Status", v |-> 0]
      /\ first[2] = [t |-> "CSeq", v |-> req.seq]
  BY TokenType DEF Request
<1>2. rep.headers \in Seq(Token)
  BY DEF Reply
<1>3. HeaderLines(req, rep) = first \o rep.headers
  BY DEF HeaderLines
<1> DEFINE all == HeaderLines(req, rep)
<1> HIDE DEF first, all
<1>a. all = first \o rep.headers
  BY <1>3 DEF all
<1>b. /\ all \in Seq(Token)
      /\ Len(all) = Len(first) + Len(rep.headers)
      /\ \A i \in 1 .. Len(first) : all[i] = first[i]
      /\ \A i \in 1 .. Len(rep.headers) : all[Len(first) + i] = rep.headers[i]
  BY <1>1, <1>2, <1>a, ConcatAt, ZenonT(60)
<1>4. /\ all \in Seq(Token)
      /\ Len(all) = 2 + Len(rep.headers)
      /\ \A i \in 1 .. 2 : all[i] = first[i]
      /\ \A i \in 1 .. Len(rep.headers) : all[2 + i] = rep.headers[i]
  BY <1>1, <1>b
<1>5. Len(rep.headers) \in Nat
  BY <1>2
<1>6. \A i \in 3 .. Len(rep.headers) + 2 : all[i] = rep.headers[i - 2]
  <2> SUFFICES ASSUME NEW i \in 3 .. Len(rep.headers) + 2
               PROVE  all[i] = rep.headers[i - 2]
    OBVIOUS
  <2>1. i - 2 \in 1 .. Len(rep.headers) /\ 2 + (i - 2) = i
    BY <1>5
  <2> QED
    BY <1>4, <2>1
<1> QED
  BY <1>1, <1>4, <1>5, <1>6 DEF all

\* The tokens of a reply by their positions.
LEMMA ReplyTokensAre ==
    ASSUME NEW req \in Request, NEW rep \in Reply
    PROVE  LET hdr == HeaderLines(req, rep)
               tokens == ReplyTokens(req, rep)
           IN /\ tokens \in Seq(Token)
              /\ Len(tokens) = 2 * Len(hdr) + 1 + Len(rep.content)
              /\ \A i \in 1 .. Len(hdr) : tokens[2 * i - 1] = hdr[i] /\ tokens[2 * i] = Eol
              /\ tokens[2 * Len(hdr) + 1] = Eol
              /\ \A i \in 1 .. Len(rep.content) :
                   tokens[2 * Len(hdr) + 1 + i] = rep.content[i]
<1> DEFINE hdr == HeaderLines(req, rep)
           w   == WithEol(hdr)
<1>1. hdr \in Seq(Token) /\ rep.content \in Seq(Token)
  BY HeaderLinesAre DEF Reply
<1>2. ReplyTokens(req, rep) = (w \o <<Eol>>) \o rep.content
  BY DEF ReplyTokens, HeaderLines
<1> HIDE DEF hdr
<1>3. w \in Seq(Token) /\ Len(w) = 2 * Len(hdr)
  BY <1>1, WithEolType
<1>4. \A i \in 1 .. Len(hdr) : w[2 * i - 1] = hdr[i] /\ w[2 * i] = Eol
  <2> SUFFICES ASSUME NEW i \in 1 .. Len(hdr)
               PROVE  w[2 * i - 1] = hdr[i] /\ w[2 * i] = Eol
    OBVIOUS
  <2>1. /\ 2 * i - 1 \in 1 .. 2 * Len(hdr) /\ (2 * i - 1) % 2 = 1
        /\ ((2 * i - 1) + 1) \div 2 = i
        /\ 2 * i \in 1 .. 2 * Len(hdr) /\ (2 * i) % 2 # 1
    BY <1>1
  <2> QED
    BY <2>1 DEF WithEol
<1> HIDE DEF w
<1>5. <<Eol>> \in Seq(Token) /\ Len(<<Eol>>) = 1 /\ <<Eol>>[1] = Eol
  BY TokenType
<1> DEFINE body == w \o <<Eol>>
<1>6. /\ body \in Seq(Token) /\ Len(body) = 2 * Len(hdr) + 1
      /\ \A i \in 1 .. 2 * Len(hdr) : body[i] = w[i]
      /\ body[2 * Len(hdr) + 1] = Eol
  BY <1>1, <1>3, <1>5, ConcatAt
<1> HIDE DEF body
<1> DEFINE tokens == ReplyTokens(req, rep)
<1>7. tokens = body \o rep.content
  BY <1>2 DEF body
<1> HIDE DEF tokens
<1>8. /\ tokens \in Seq(Token)
      /\ Len(tokens) = Len(body) + Len(rep.content)
      /\ \A i \in 1 .. Len(body) : tokens[i] = body[i]
      /\ \A i \in 1 .. Len(rep.content) : tokens[Len(body) + i] = rep.content[i]
  BY <1>1, <1>6, <1>7, ConcatAt
<1>9. \A i \in 1 .. Len(hdr) : tokens[2 * i - 1] = hdr[i] /\ tokens[2 * i] = Eol
  <2> SUFFICES ASSUME NEW i \in 1 .. Len(hdr)
               PROVE  tokens[2 * i - 1] = hdr[i] /\ tokens[2 * i] = Eol
    OBVIOUS
  <2>1. 2 * i - 1 \in 1 .. 2 * Len(hdr) /\ 2 * i \in 1 .. 2 * Len(hdr)
    BY <1>1
  <2>2. body[2 * i - 1] = w[2 * i - 1] /\ body[2 * i] = w[2 * i]
    BY <1>6, <2>1
  <2>3. tokens[2 * i - 1] = body[2 * i - 1] /\ tokens[2 * i] = body[2 * i]
    <3>1. 2 * i - 1 \in 1 .. Len(body) /\ 2 * i \in 1 .. Len(body)
      BY <1>1, <1>6, <2>1
    <3> QED
      BY <1>8, <3>1
  <2> QED
    BY <1>4, <2>2, <2>3
<1>10. /\ tokens[2 * Len(hdr) + 1] = Eol
       /\ Len(tokens) = 2 * Len(hdr) + 1 + Len(rep.content)
       /\ \A i \in 1 .. Len(rep.content) : tokens[2 * Len(hdr) + 1 + i] = rep.content[i]
  <2>1. Len(body) \in 1 .. Len(body)
    BY <1>1, <1>6
  <2> QED
    BY <1>6, <1>8, <2>1
<1> QED
  BY <1>8, <1>9, <1>10 DEF hdr, tokens

-------------------------------------------------------------------------------
(* The simple parts of the invariant *)

LEMMA NextEarly == Assumed => Early'
<1> SUFFICES ASSUME Assumed PROVE Early'
  OBVIOUS
<1> USE DEF Assumed, Sync, Early, InCall, Phases, Preparing, Sending, Answering,
            Describing, SettingUp
<1>1. CASE Connect
  BY <1>1 DEF Connect, Enter
<1>2. CASE SendPart \/ Encode \/ SendFails \/ ReadDown \/ ReadLong \/ RecvNothing
  BY <1>2 DEF SendPart, Encode, SendFails, ReadDown, ReadLong, RecvNothing, Reading, Fail, Die
<1>3. CASE ReadText \/ ReadLine \/ ReadBlank
  BY <1>3 DEF ReadText, ReadLine, ReadBlank, Reading
<1>4. CASE ParseLine
  BY <1>4 DEF ParseLine, ParseStored, ParseAuthenticate, ParsePublic, ParseEmpty,
              ParseIgnored, Parse, Parsing, Die
<1>5. CASE ReplyDone
  BY <1>5 DEF ReplyDone, Enter, Fail
<1>6. CASE RecvContent
  BY <1>6 DEF RecvContent
<1>7. CASE SdpLine
  <2>1. pc' \in {"sdp_v", "sdp_s", "sdp_m"}
    BY <1>7 DEF SdpLine
  <2>2. pc \in {"sdp_v", "sdp_s"} => Head(content).t # "m" /\ Head(content).t # "a"
    BY <1>7 DEF SdpLine, SdpContinues, SdpExpected, RestTypes
  <2>3. pc = "sdp_m" => pc' = "sdp_m"
    BY <1>7 DEF SdpLine, SdpContinues, SdpExpected, RestTypes
  <2> QED
    BY <1>7, <2>1, <2>2, <2>3 DEF SdpLine
<1>8. CASE SdpParsed \/ SdpRejected \/ SetupStream \/ SetupDone
  BY <1>8 DEF SdpParsed, SdpRejected, SetupStream, SetupDone, Enter, Die
<1>9. CASE ConnectRefused \/ ServerReply \/ ServerDies \/ UNCHANGED vars
  BY <1>9 DEF ConnectRefused, ServerReply, ServerDies
<1> QED
  BY <1>1, <1>2, <1>3, <1>4, <1>5, <1>6, <1>7, <1>8, <1>9 DEF Next, Client

LEMMA NextLate == Assumed => Late'
<1> SUFFICES ASSUME Assumed PROVE Late'
  OBVIOUS
<1> USE DEF Assumed, Sync, Late, Phases, Preparing, Sending, Answering,
            Describing, SettingUp
<1>1. CASE Connect
  BY <1>1 DEF Connect, Enter
<1>2. CASE SendPart
  BY <1>2 DEF SendPart
<1>3. CASE Encode \/ SendFails \/ ReadDown \/ ReadLong \/ RecvNothing
  BY <1>3 DEF Encode, SendFails, ReadDown, ReadLong, RecvNothing, Reading, Fail, Die
<1>4. CASE ReadText \/ ReadLine \/ ReadBlank
  BY <1>4 DEF ReadText, ReadLine, ReadBlank, Reading
<1>5. CASE ParseLine
  BY <1>5 DEF ParseLine, ParseStored, ParseAuthenticate, ParsePublic, ParseEmpty,
              ParseIgnored, Parse, Parsing, Die
<1>6. CASE ReplyDone
  BY <1>6 DEF ReplyDone, Enter, Fail
<1>7. CASE RecvContent \/ SdpParsed \/ SdpRejected \/ SetupStream \/ SetupDone
  BY <1>7 DEF RecvContent, SdpParsed, SdpRejected, SetupStream, SetupDone, Enter, Die
<1>8. CASE SdpLine
  BY <1>8 DEF SdpLine
<1>9. CASE ConnectRefused \/ ServerReply \/ ServerDies \/ UNCHANGED vars
  BY <1>9 DEF ConnectRefused, ServerReply, ServerDies
<1> QED
  BY <1>1, <1>2, <1>3, <1>4, <1>5, <1>6, <1>7, <1>8, <1>9 DEF Next, Client

-------------------------------------------------------------------------------
(* Headers without a value *)

LEMMA DescriptionTypes ==
    ASSUME NEW c \in Seq(Token), Description(c), NEW i \in 1 .. Len(c)
    PROVE  c[i].t \in SdpTypes \cup StreamTypes
<1>1. PICK k \in 2 .. Len(c) :
        /\ c[k].t = "s"
        /\ \A j \in 2 .. k - 1 : c[j].t \in RestTypes \cup {"eol"}
        /\ \A j \in k + 1 .. Len(c) : c[j].t \in StreamTypes
  BY DEF Description
<1>2. i = 1 \/ i \in 2 .. k - 1 \/ i = k \/ i \in k + 1 .. Len(c)
  OBVIOUS
<1> QED
  BY <1>1, <1>2 DEF Description, SdpTypes, StreamTypes

LEMMA NoEmptyToken ==
    ASSUME Honest(Replies), NEW req \in Request, NEW rep \in Replies[req.method]
    PROVE  /\ rep \in Reply
           /\ \A i \in 1 .. Len(ReplyTokens(req, rep)) : ReplyTokens(req, rep)[i].t # "Empty"
<1> DEFINE hdr    == HeaderLines(req, rep)
           tokens == ReplyTokens(req, rep)
<1>1. req.method \in Methods
  BY DEF Request
<1>2. rep \in Reply
  BY <1>1, HonestReply
<1>3. \A i \in 1 .. Len(hdr) : hdr[i].t # "Empty"
  <2>1. Len(rep.headers) \in Nat
    BY <1>2 DEF Reply
  <2>2. /\ Len(hdr) = Len(rep.headers) + 2
        /\ hdr[1] = [t |-> "Status", v |-> 0]
        /\ hdr[2] = [t |-> "CSeq", v |-> req.seq]
        /\ \A i \in 3 .. Len(rep.headers) + 2 : hdr[i] = rep.headers[i - 2]
    BY <1>2, HeaderLinesAre
  <2>3. \A i \in 1 .. Len(rep.headers) : rep.headers[i].t # "Empty"
    BY <1>1, HonestReply
  <2> HIDE DEF hdr
  <2> SUFFICES ASSUME NEW i \in 1 .. Len(hdr) PROVE hdr[i].t # "Empty"
    OBVIOUS
  <2>4. \/ i = 1 \/ i = 2
        \/ i \in 3 .. Len(rep.headers) + 2 /\ i - 2 \in 1 .. Len(rep.headers)
    BY <2>1, <2>2
  <2> QED
    BY <2>2, <2>3, <2>4
<1>4. \A i \in 1 .. Len(rep.content) : rep.content[i].t # "Empty"
  <2> SUFFICES ASSUME NEW i \in 1 .. Len(rep.content) PROVE rep.content[i].t # "Empty"
    OBVIOUS
  <2>1. rep.content \in Seq(Token)
    BY <1>2 DEF Reply
  <2>2. Description(rep.content)
    BY <1>1, <2>1, HonestReply
  <2>3. rep.content[i].t \in SdpTypes \cup StreamTypes
    BY <2>1, <2>2, DescriptionTypes
  <2> QED
    BY <2>3 DEF SdpTypes, StreamTypes, RestTypes
<1>5. /\ hdr \in Seq(Token) /\ rep.content \in Seq(Token)
      /\ Len(tokens) = 2 * Len(hdr) + 1 + Len(rep.content)
      /\ \A i \in 1 .. Len(hdr) : tokens[2 * i - 1] = hdr[i] /\ tokens[2 * i] = Eol
      /\ tokens[2 * Len(hdr) + 1] = Eol
      /\ \A i \in 1 .. Len(rep.content) : tokens[2 * Len(hdr) + 1 + i] = rep.content[i]
  BY <1>2, ReplyTokensAre, HeaderLinesAre DEF Reply
<1> HIDE DEF hdr, tokens
<1>6. \A i \in 1 .. Len(tokens) : tokens[i].t # "Empty"
  <2> SUFFICES ASSUME NEW i \in 1 .. Len(tokens) PROVE tokens[i].t # "Empty"
    OBVIOUS
  <2>1. Eol.t # "Empty" /\ Len(hdr) \in Nat /\ Len(rep.content) \in Nat
    BY <1>5 DEF Eol
  <2>2. CASE i <= 2 * Len(hdr)
    <3>1. PICK k \in 1 .. Len(hdr) : i = 2 * k - 1 \/ i = 2 * k
      <4>1. \/ (i + 1) \div 2 \in 1 .. Len(hdr) /\ i = 2 * ((i + 1) \div 2) - 1
            \/ i \div 2 \in 1 .. Len(hdr) /\ i = 2 * (i \div 2)
        BY <1>5, <2>1, <2>2
      <4> QED
        BY <4>1
    <3> QED
      BY <1>3, <1>5, <2>1, <3>1
  <2>3. CASE i = 2 * Len(hdr) + 1
    BY <1>5, <2>1, <2>3
  <2>4. CASE i > 2 * Len(hdr) + 1
    <3> DEFINE n == 2 * Len(hdr) + 1
               m == Len(rep.content)
    <3> HIDE DEF tokens
    <3>a. Len(tokens) = n + m
      BY <1>5
    <3>b. n \in Nat /\ m \in Nat
      BY <2>1
    <3>c. i > n
      BY <2>4
    <3> HIDE DEF n, m
    <3>1. n \in Nat /\ m \in Nat /\ i \in 1 .. n + m /\ i > n
      BY <3>a, <3>b, <3>c
    <3> HIDE DEF n, m
    <3>2. i - n \in 1 .. m /\ n + (i - n) = i
      BY <3>1
    <3>3. \A k \in 1 .. m : tokens[n + k] = rep.content[k]
      BY <1>5 DEF n, m
    <3>4. tokens[n + (i - n)] = rep.content[i - n]
      BY <3>2, <3>3
    <3> QED
      BY <1>4, <3>2, <3>4 DEF m
  <2> QED
    BY <1>5, <2>1, <2>2, <2>3, <2>4
<1> QED
  BY <1>2, <1>6 DEF tokens

LEMMA NextNoEmptyHeader == Assumed => NoEmptyHeader'
<1> SUFFICES ASSUME Assumed PROVE NoEmptyHeader'
  OBVIOUS
<1> USE DEF Assumed, Sync, NoEmptyHeader
<1>0. /\ stream \in Seq(Token) /\ lines \in Seq(Token)
      /\ inbox \in Seq(Request)
  BY DEF TypeOK
<1>1. CASE Connect
  BY <1>1 DEF Connect, Enter, None
<1>2. CASE ReadText \/ ReadLine \/ ReadBlank \/ ReadLong
  <2>1. stream' = Tail(stream) /\ stream # <<>>
    BY <1>2 DEF ReadText, ReadLine, ReadBlank, ReadLong, Reading
  <2>2. /\ Len(stream') = Len(stream) - 1 /\ Len(stream) \in Nat \ {0}
        /\ \A i \in 1 .. Len(stream') : stream'[i] = stream[i + 1]
        /\ Head(stream) = stream[1]
    BY <1>0, <2>1, HeadTailProperties
  <2>3. \A i \in 1 .. Len(stream') : stream'[i].t # "Empty"
    <3> SUFFICES ASSUME NEW i \in 1 .. Len(stream') PROVE stream'[i].t # "Empty"
      OBVIOUS
    <3>1. i + 1 \in 1 .. Len(stream)
      BY <2>2
    <3> QED
      BY <2>2, <3>1
  <2>4. Head(stream).t # "Empty"
    BY <2>2
  <2>5. cur' \in {cur, Head(stream), None}
    BY <1>2 DEF ReadText, ReadLine, ReadBlank, ReadLong
  <2>6. \/ lines' = lines
        \/ ReadLine /\ lines' = Append(lines, cur)
    <3>1. ReadLine => lines' = lines \/ lines' = Append(lines, cur)
      BY DEF ReadLine
    <3>2. ReadText \/ ReadBlank \/ ReadLong => lines' = lines
      BY DEF ReadText, ReadBlank, ReadLong
    <3> QED
      BY <1>2, <3>1, <3>2
  <2>7. \A i \in 1 .. Len(lines') : lines'[i].t # "Empty"
    <3>1. CASE lines' = lines
      BY <3>1
    <3>2. CASE ReadLine /\ lines' = Append(lines, cur)
      <4>1. cur \in Token
        BY <3>2 DEF ReadLine, TypeOK
      <4>2. /\ Len(lines') = Len(lines) + 1
            /\ \A i \in 1 .. Len(lines) : lines'[i] = lines[i]
            /\ lines'[Len(lines) + 1] = cur
        BY <1>0, <3>2, <4>1, AppendProperties
      <4> QED
        BY <1>0, <4>2
    <3> QED
      BY <2>6, <3>1, <3>2
  <2> QED
    BY <2>3, <2>4, <2>5, <2>7 DEF None
<1>3. CASE ServerReply
  <2>1. PICK rep \in Replies[Head(inbox).method] :
          stream' = stream \o ReplyTokens(Head(inbox), rep)
    BY <1>3 DEF ServerReply
  <2>2. Head(inbox) \in Request
    BY <1>0, <1>3 DEF ServerReply
  <2> DEFINE tokens == ReplyTokens(Head(inbox), rep)
  <2>3. tokens \in Seq(Token) /\ \A i \in 1 .. Len(tokens) : tokens[i].t # "Empty"
    BY <2>2, NoEmptyToken, ReplyTokensType
  <2> HIDE DEF tokens
  <2>4. /\ Len(stream') = Len(stream) + Len(tokens)
        /\ \A i \in 1 .. Len(stream) : stream'[i] = stream[i]
        /\ \A i \in 1 .. Len(tokens) : stream'[Len(stream) + i] = tokens[i]
    BY <1>0, <2>1, <2>3, ConcatAt DEF tokens
  <2>5. \A i \in 1 .. Len(stream') : stream'[i].t # "Empty"
    <3> SUFFICES ASSUME NEW i \in 1 .. Len(stream') PROVE stream'[i].t # "Empty"
      OBVIOUS
    <3>1. \/ i \in 1 .. Len(stream)
          \/ i - Len(stream) \in 1 .. Len(tokens) /\ Len(stream) + (i - Len(stream)) = i
      BY <1>0, <2>3, <2>4
    <3> QED
      BY <2>3, <2>4, <3>1
  <2> QED
    BY <1>3, <2>5 DEF ServerReply
<1>4. CASE ServerDies
  <2>1. CASE stream' \in {stream, <<>>}
    BY <1>4, <2>1 DEF ServerDies
  <2>2. ASSUME inbox # <<>>,
               NEW rep \in Replies[Head(inbox).method],
               NEW n \in 1 .. Len(ReplyTokens(Head(inbox), rep)) - 1,
               stream' = stream \o SubSeq(ReplyTokens(Head(inbox), rep), 1, n)
        PROVE  NoEmptyHeader'
    <3>1. Head(inbox) \in Request
      BY <1>0, <2>2
    <3> DEFINE tokens == ReplyTokens(Head(inbox), rep)
               part   == SubSeq(tokens, 1, n)
    <3>2. tokens \in Seq(Token) /\ \A i \in 1 .. Len(tokens) : tokens[i].t # "Empty"
      BY <3>1, NoEmptyToken, ReplyTokensType
    <3>3. n \in 1 .. Len(tokens) - 1
      OBVIOUS
    <3> HIDE DEF tokens
    <3>4. part \in Seq(Token) /\ Len(part) = n /\ \A i \in 1 .. n : part[i] = tokens[i]
      BY <3>2, <3>3
    <3>5. stream' = stream \o part
      BY <2>2 DEF tokens
    <3> HIDE DEF part
    <3>6. /\ Len(stream') = Len(stream) + Len(part)
          /\ \A i \in 1 .. Len(stream) : stream'[i] = stream[i]
          /\ \A i \in 1 .. Len(part) : stream'[Len(stream) + i] = part[i]
      BY <1>0, <3>4, <3>5, ConcatAt
    <3>7. \A i \in 1 .. Len(stream') : stream'[i].t # "Empty"
      <4> SUFFICES ASSUME NEW i \in 1 .. Len(stream') PROVE stream'[i].t # "Empty"
        OBVIOUS
      <4>1. \/ i \in 1 .. Len(stream)
            \/ i - Len(stream) \in 1 .. n /\ Len(stream) + (i - Len(stream)) = i
        BY <1>0, <3>3, <3>4, <3>6
      <4>2. \A k \in 1 .. n : part[k].t # "Empty"
        BY <3>2, <3>3, <3>4
      <4> QED
        BY <3>4, <3>6, <4>1, <4>2, ZenonT(60)
    <3> QED
      BY <1>4, <3>7 DEF ServerDies
  <2> QED
    BY <1>4, <2>1, <2>2 DEF ServerDies
<1>5. CASE RecvContent
  <2>1. PICK n \in 1 .. Len(stream) : stream' = SubSeq(stream, n + 1, Len(stream))
    BY <1>5 DEF RecvContent
  <2>2. /\ Len(stream') = Len(stream) - n
        /\ \A i \in 1 .. Len(stream') : stream'[i] = stream[n + i]
    BY <1>0, <2>1
  <2>3. \A i \in 1 .. Len(stream') : stream'[i].t # "Empty"
    <3> SUFFICES ASSUME NEW i \in 1 .. Len(stream') PROVE stream'[i].t # "Empty"
      OBVIOUS
    <3>1. n + i \in 1 .. Len(stream)
      BY <1>0, <2>2
    <3> QED
      BY <2>2, <3>1
  <2> QED
    BY <1>5, <2>3 DEF RecvContent
<1>6. CASE SendPart
  BY <1>6 DEF SendPart, None
<1>7. CASE ConnectRefused \/ Encode \/ SendFails \/ ReadDown \/ RecvNothing
  BY <1>7 DEF ConnectRefused, Encode, SendFails, ReadDown, RecvNothing
<1>8. CASE ParseLine
  BY <1>8 DEF ParseLine, ParseStored, ParseAuthenticate, ParsePublic, ParseEmpty,
              ParseIgnored, Parse, Parsing
<1>9. CASE ReplyDone \/ SdpParsed \/ SetupDone
  BY <1>9 DEF ReplyDone, SdpParsed, SetupDone, Enter
<1>10. CASE SdpLine \/ SdpRejected \/ SetupStream \/ UNCHANGED vars
  BY <1>10 DEF SdpLine, SdpRejected, SetupStream
<1> QED
  BY <1>1, <1>2, <1>3, <1>4, <1>5, <1>6, <1>7, <1>8, <1>9, <1>10 DEF Next, Client

-------------------------------------------------------------------------------
(* Nothing is on its way between a reply and the next request *)

\* A live server has something to answer only before the reply has begun.
LEMMA OnlyWaiting ==
    ASSUME TypeOK, Phases, Sync, InCall, ~short, ~down, inbox # <<>>
    PROVE  pc = "read" /\ Waiting
<1>1. ~NothingOwed
  BY DEF NothingOwed
<1>2. pc \in {"encode", "send", "read", "parse", "content",
              "sdp_v", "sdp_s", "sdp_m", "setup"}
  BY DEF TypeOK, InCall
<1> QED
  BY <1>1, <1>2 DEF Sync, InRead, InParse, InContent, Between

\* A reply without content leaves nothing to be read.
LEMMA NoContentLeft ==
    ASSUME Honest(Replies), TypeOK, NEW m \in Methods \ {"DESCRIBE"},
           NEW rep \in Replies[m], ContentOf(rep)
    PROVE  stream = <<>>
<1>1. rep.content = <<>>
  BY HonestReply
<1>2. Len(stream) <= 0
  BY <1>1 DEF ContentOf, Begins
<1> QED
  BY <1>2 DEF TypeOK

\* RecvContent without a short read: the whole description, and all of it.
LEMMA WholeContent ==
    ASSUME Honest(Replies), TypeOK, Phases, Sync, RecvContent, ~short'
    PROVE  /\ ~short /\ NothingOwed
           /\ \E rep \in Replies["DESCRIBE"] :
                /\ content' = rep.content
                /\ stream' = <<>>
                /\ described = StreamCount(rep.content)
<1>1. pc = "content" /\ ~short /\ method = "DESCRIBE"
  BY DEF RecvContent, Phases, Describing
<1>2. NothingOwed
  BY <1>1 DEF Sync, InContent
<1>3. PICK rep \in Replies["DESCRIBE"] :
        ContentOf(rep) /\ reply.content_length = Len(rep.content)
  BY <1>1 DEF Sync, InContent
<1>4. rep.content \in Seq(Token) /\ stream \in Seq(Token)
  <2>1. rep \in Reply
    BY HonestReply
  <2> QED
    BY <2>1 DEF Reply, TypeOK
<1>5. Wanted = {Len(rep.content)}
  BY <1>3, <1>4 DEF Wanted, Unset
<1>6. PICK n \in 1 .. Len(stream) :
        /\ n <= Len(rep.content)
        /\ content' = SubSeq(stream, 1, n)
        /\ stream' = SubSeq(stream, n + 1, Len(stream))
        /\ short' = (short \/ n < Len(rep.content))
  BY <1>5 DEF RecvContent
<1>7. n = Len(rep.content) /\ Len(stream) = n /\ \A i \in 1 .. n : stream[i] = rep.content[i]
  <2>1. ~(n < Len(rep.content))
    BY <1>6
  <2>2. Len(stream) <= Len(rep.content) /\ \A i \in 1 .. Len(stream) : stream[i] = rep.content[i]
    BY <1>3 DEF ContentOf, Begins
  <2>3. Len(rep.content) \in Nat /\ Len(stream) \in Nat
    BY <1>4
  <2> QED
    BY <1>6, <2>1, <2>2, <2>3
<1>8. stream = rep.content
  BY <1>4, <1>7, SeqEqual
<1>9. content' = rep.content /\ stream' = <<>>
  BY <1>4, <1>6, <1>7, <1>8
<1>10. described = StreamCount(rep.content)
  BY <1>1, <1>3, <1>7 DEF ContentOf
<1> QED
  BY <1>1, <1>2, <1>9, <1>10

LEMMA NextBetween == Assumed => Between'
<1> SUFFICES ASSUME Assumed, ~short',
                    pc' \in {"encode", "send", "sdp_v", "sdp_s", "sdp_m", "setup"}
             PROVE  stream' = <<>> /\ NothingOwed'
  BY DEF Between
<1> USE DEF Assumed
<1>0. Between
  BY DEF Sync
<1>1. CASE Connect
  BY <1>1 DEF Connect, NothingOwed
<1>2. CASE Encode \/ SendPart
  BY <1>0, <1>2 DEF Encode, SendPart, Between, NothingOwed
<1>3. CASE SendFails \/ ReadDown \/ ReadLong \/ RecvNothing
  BY <1>3 DEF SendFails, ReadDown, ReadLong, RecvNothing, Fail, Die
<1>4. CASE ReadText \/ ReadLine \/ ReadBlank
  BY <1>4 DEF ReadText, ReadLine, ReadBlank, Reading
<1>5. CASE ParseLine
  BY <1>5 DEF ParseLine, ParseStored, ParseAuthenticate, ParsePublic, ParseEmpty,
              ParseIgnored, Parse, Parsing, Die
<1>6. CASE ReplyDone
  <2>1. pc = "parse" /\ ~short /\ method \in Methods \ {"DESCRIBE", "PLAY"}
    BY <1>6 DEF ReplyDone, Fail, TypeOK
  <2>2. NothingOwed /\ \E rep \in Replies[method] : ContentOf(rep)
    BY <2>1 DEF Sync, InParse
  <2>3. stream = <<>>
    BY <2>1, <2>2, NoContentLeft
  <2> QED
    BY <1>6, <2>2, <2>3 DEF ReplyDone, NothingOwed
<1>7. CASE RecvContent
  BY <1>7, WholeContent DEF RecvContent, NothingOwed
<1>8. CASE SdpLine
  BY <1>0, <1>8 DEF SdpLine, Between, NothingOwed
<1>9. CASE SdpParsed \/ SdpRejected \/ SetupStream \/ SetupDone
  BY <1>0, <1>9 DEF SdpParsed, SdpRejected, SetupStream, SetupDone, Between,
                    NothingOwed, Enter, Die
<1>10. CASE ServerReply
  BY <1>0, <1>10 DEF ServerReply, Between, NothingOwed
<1>11. CASE ServerDies
  BY <1>0, <1>11 DEF ServerDies, Between, NothingOwed
<1>12. CASE ConnectRefused \/ UNCHANGED vars
  BY <1>0, <1>12 DEF ConnectRefused, Between, NothingOwed
<1> QED
  BY <1>1, <1>2, <1>3, <1>4, <1>5, <1>6, <1>7, <1>8, <1>9, <1>10, <1>11, <1>12
     DEF Next, Client

-------------------------------------------------------------------------------
(* Set-up of the streams, and why the process dies *)

\* The description has been read to its end.
LEMMA NothingBehindStreams ==
    ASSUME TypeOK, Sync, pc = "sdp_m", ~short, ~SdpContinues
    PROVE  content = <<>>
<1> SUFFICES ASSUME content # <<>> PROVE FALSE
  OBVIOUS
<1>1. content \in Seq(Token)
  BY DEF TypeOK
<1>2. 1 \in 1 .. Len(content) /\ Head(content) = content[1]
  BY <1>1
<1>3. Head(content).t \in StreamTypes
  BY <1>2 DEF Sync, InDescription, OnlyStreams
<1> QED
  BY <1>3 DEF SdpContinues, SdpExpected, StreamTypes

LEMMA NoStreams == StreamCount(<<>>) = 0
<1>1. {i \in 1 .. Len(<<>>) : <<>>[i].t = "m"} = {}
  OBVIOUS
<1> QED
  BY <1>1, FS_EmptySet DEF StreamCount

LEMMA NextInSetup == Assumed => InSetup'
<1> SUFFICES ASSUME Assumed, ~short', InCall', method' \in {"SETUP", "PLAY"}
             PROVE  /\ Len(streams') = described'
                    /\ \A i \in 1 .. Len(streams') : streams'[i] > 0
  BY DEF InSetup
<1> USE DEF Assumed
<1>0. InSetup /\ streams \in Seq(Nat)
  BY DEF Sync, TypeOK
<1>a. ASSUME method' = method, InCall, ~short, UNCHANGED <<streams, described>>
      PROVE  /\ Len(streams') = described'
             /\ \A i \in 1 .. Len(streams') : streams'[i] > 0
  BY <1>0, <1>a DEF InSetup
<1>1. CASE Connect
  BY <1>1 DEF Connect, Enter
<1>2. CASE Encode \/ SendPart \/ SendFails \/ ReadDown \/ ReadLong \/ RecvNothing
  BY <1>2, <1>a DEF Encode, SendPart, SendFails, ReadDown, ReadLong, RecvNothing,
                    Reading, Fail, Die, InCall
<1>3. CASE ReadText \/ ReadLine \/ ReadBlank
  BY <1>3, <1>a DEF ReadText, ReadLine, ReadBlank, Reading, InCall
<1>4. CASE ParseLine
  BY <1>4, <1>a DEF ParseLine, ParseStored, ParseAuthenticate, ParsePublic, ParseEmpty,
                    ParseIgnored, Parse, Parsing, Die, InCall
<1>5. CASE ReplyDone
  BY <1>5, <1>a DEF ReplyDone, Enter, Fail, InCall
<1>6. CASE RecvContent \/ SdpLine \/ SdpRejected
  BY <1>6 DEF RecvContent, SdpLine, SdpRejected, Phases, Describing
<1>7. CASE SdpParsed
  <2>1. /\ pc = "sdp_m" /\ ~short /\ ~SdpContinues
        /\ UNCHANGED <<streams, described>>
    BY <1>7 DEF SdpParsed
  <2>2. content = <<>>
    BY <2>1, NothingBehindStreams
  <2>3. /\ \A i \in 1 .. Len(streams) :
             streams[i] = 0 => i = Len(streams) /\ AttributeAhead(content)
        /\ Len(streams) + StreamCount(content) = described
    BY <2>1 DEF Sync, InDescription
  <2>4. ~AttributeAhead(content)
    BY <2>2 DEF AttributeAhead
  <2>5. Len(streams) = described
    BY <1>0, <2>2, <2>3, NoStreams
  <2> QED
    BY <1>0, <2>1, <2>3, <2>4, <2>5
<1>8. CASE SetupStream
  BY <1>8, <1>a DEF SetupStream, InCall
<1>9. CASE SetupDone
  <2>1. method = "SETUP" /\ InCall /\ ~short
    BY <1>9 DEF SetupDone, Phases, SettingUp, InCall
  <2> QED
    BY <1>0, <1>9, <2>1 DEF SetupDone, InSetup
<1>10. CASE ServerReply
  <2>1. ~down /\ inbox # <<>> /\ UNCHANGED <<pc, method, streams, short, request>>
    BY <1>10 DEF ServerReply
  <2>2. InCall /\ ~short
    BY <2>1 DEF InCall
  <2>3. pc = "read" /\ Waiting
    BY <2>1, <2>2, OnlyWaiting
  <2>4. inbox = <<request>> /\ request.method = method
    BY <2>1, <2>3 DEF Waiting, Sync, Late
  <2>5. Head(inbox).method # "DESCRIBE"
    BY <2>1, <2>4
  <2>6. described' = described
    BY <1>10, <2>5 DEF ServerReply
  <2> QED
    BY <2>1, <2>2, <2>6, <1>a
<1>11. CASE ServerDies
  BY <1>11, <1>a DEF ServerDies, InCall
<1>12. CASE ConnectRefused \/ UNCHANGED vars
  BY <1>12, <1>a DEF ConnectRefused, InCall
<1> QED
  BY <1>1, <1>2, <1>3, <1>4, <1>5, <1>6, <1>7, <1>8, <1>9, <1>10, <1>11, <1>12
     DEF Next, Client

LEMMA NextDeathExplained == Assumed => DeathExplained'
<1> SUFFICES ASSUME Assumed, pc' = "dead" PROVE DeathExplained'
  BY DEF DeathExplained
<1> USE DEF Assumed
<1>1. CASE pc = "dead"
  <2>1. UNCHANGED <<pc, cause, short>> /\ (down => down')
    BY <1>1 DEF Next, Client, Connect, ConnectRefused, Encode, SendPart, SendFails,
         ReadText, ReadLine, ReadBlank, ReadLong, ReadDown, Reading, ParseLine,
         ParseStored, ParseAuthenticate, ParsePublic, ParseEmpty, ParseIgnored,
         Parse, Parsing, ReplyDone, RecvContent, RecvNothing, SdpLine, SdpParsed,
         SdpRejected, SetupStream, SetupDone, ServerReply, ServerDies
  <2> QED
    BY <1>1, <2>1 DEF Sync, DeathExplained
<1>2. CASE pc # "dead"
  <2>1. SendFails \/ ParseEmpty \/ SdpRejected \/ SetupStream
    BY <1>2 DEF Next, Client, Connect, ConnectRefused, Encode, SendPart,
         ReadText, ReadLine, ReadBlank, ReadLong, ReadDown, Reading, Fail, ParseLine,
         ParseStored, ParseAuthenticate, ParsePublic, ParseIgnored,
         Parse, Parsing, ReplyDone, RecvContent, RecvNothing, SdpLine, SdpParsed,
         SetupDone, ServerReply, ServerDies
  <2>2. CASE SendFails
    BY <2>2 DEF SendFails, Die, Fail, DeathExplained
  <2>3. CASE ParseEmpty
    <3>1. lines[idx].t = "Empty" /\ idx \in 1 .. Len(lines)
      BY <2>3 DEF ParseEmpty, Parse, Parsing, Header, TypeOK
    <3> QED
      BY <3>1 DEF Sync, NoEmptyHeader
  <2>4. CASE SdpRejected
    <3>1. pc \in {"sdp_v", "sdp_s"} /\ ~SdpContinues /\ cause' = "no_sdp" /\ short' = short
      BY <2>4 DEF SdpRejected, Die
    <3>2. content \in Seq(Token)
      BY DEF TypeOK
    <3>3. ASSUME ~short PROVE FALSE
      <4>1. CASE pc = "sdp_v"
        <5>1. Description(content)
          BY <3>3, <4>1 DEF Sync, InDescription
        <5>2. content # <<>> /\ Head(content).t = "v"
          BY <3>2, <5>1 DEF Description
        <5> QED
          BY <3>1, <4>1, <5>2 DEF SdpContinues, SdpExpected
      <4>2. CASE pc = "sdp_s"
        <5>1. NameAhead(content)
          BY <3>3, <4>2 DEF Sync, InDescription
        <5>2. content # <<>> /\ Head(content).t \in {"s", "eol"} \cup RestTypes
          <6>1. PICK k \in 1 .. Len(content) :
                  /\ content[k].t = "s"
                  /\ \A i \in 1 .. k - 1 : content[i].t \in RestTypes \cup {"eol"}
            BY <5>1 DEF NameAhead
          <6>2. content # <<>> /\ Head(content) = content[1]
            BY <3>2, <6>1
          <6>3. k = 1 \/ 1 \in 1 .. k - 1
            BY <3>2
          <6> QED
            BY <6>1, <6>2, <6>3
        <5> QED
          BY <3>1, <4>2, <5>2 DEF SdpContinues, SdpExpected
      <4> QED
        BY <3>1, <4>1, <4>2
    <3> QED
      BY <3>1, <3>3 DEF DeathExplained
  <2>5. CASE SetupStream
    <3>1. /\ pc = "setup" /\ media < Len(streams) /\ ~(streams[media + 1] > 0)
          /\ cause' = "no_attribute" /\ short' = short
      BY <2>5 DEF SetupStream, Die, MoreStreams
    <3>2. short
      <4> SUFFICES ASSUME ~short PROVE FALSE
        OBVIOUS
      <4>1. \A i \in 1 .. Len(streams) : streams[i] > 0
        BY <3>1 DEF Sync, InSetup, InCall, Phases, SettingUp
      <4>2. media + 1 \in 1 .. Len(streams)
        BY <3>1 DEF TypeOK
      <4> QED
        BY <3>1, <4>1, <4>2
    <3> QED
      BY <3>1, <3>2 DEF DeathExplained
  <2> QED
    BY <2>1, <2>2, <2>3, <2>4, <2>5
<1> QED
  BY <1>1, <1>2

-------------------------------------------------------------------------------
(* The description, line by line *)

\* A description without its first token has the same streams but for that one.
LEMMA StreamCountTail ==
    ASSUME NEW c \in Seq(Token), c # <<>>
    PROVE  StreamCount(c) = StreamCount(Tail(c)) + (IF Head(c).t = "m" THEN 1 ELSE 0)
<1> DEFINE S == {i \in 1 .. Len(c) : c[i].t = "m"}
           T == {i \in 1 .. Len(Tail(c)) : Tail(c)[i].t = "m"}
           f == [i \in T |-> i + 1]
<1>1. /\ Len(c) \in Nat \ {0} /\ Len(Tail(c)) = Len(c) - 1 /\ Head(c) = c[1]
      /\ \A i \in 1 .. Len(Tail(c)) : Tail(c)[i] = c[i + 1]
  BY HeadTailProperties
<1>2. IsFiniteSet(S) /\ IsFiniteSet(T)
  <2>1. IsFiniteSet(1 .. Len(c)) /\ IsFiniteSet(1 .. Len(Tail(c)))
    BY <1>1, FS_Interval
  <2> QED
    BY <2>1, FS_Subset
<1>3. ExistsBijection(T, S \ {1})
  <2>1. f \in [T -> S \ {1}]
    <3> SUFFICES ASSUME NEW i \in T PROVE i + 1 \in S \ {1}
      OBVIOUS
    <3> QED
      BY <1>1
  <2>2. \A i, j \in T : f[i] = f[j] => i = j
    BY <1>1
  <2>3. \A k \in S \ {1} : \E i \in T : f[i] = k
    <3> SUFFICES ASSUME NEW k \in S \ {1} PROVE \E i \in T : f[i] = k
      OBVIOUS
    <3>1. k - 1 \in T /\ f[k - 1] = k
      BY <1>1
    <3> QED
      BY <3>1
  <2>4. f \in Bijection(T, S \ {1})
    BY <2>1, <2>2, <2>3 DEF Bijection, Injection, Surjection, IsInjective
  <2> QED
    BY <2>4 DEF ExistsBijection
<1>4. Cardinality(S \ {1}) = Cardinality(T)
  BY <1>2, <1>3, FS_Bijection
<1>5. Cardinality(T) \in Nat /\ Cardinality(S) \in Nat
  BY <1>2, FS_CardinalityType
<1>6. 1 \in S <=> Head(c).t = "m"
  BY <1>1
<1>7. Cardinality(S \ {1}) = IF 1 \in S THEN Cardinality(S) - 1 ELSE Cardinality(S)
  BY <1>2, FS_RemoveElement
<1>8. StreamCount(c) = Cardinality(S) /\ StreamCount(Tail(c)) = Cardinality(T)
  BY DEF StreamCount
<1> HIDE DEF S, T, f
<1> QED
  BY <1>4, <1>5, <1>6, <1>7, <1>8

\* What is said of a description, of what is left behind its first token.
LEMMA TailOfDescription ==
    ASSUME NEW c \in Seq(Token), c # <<>>
    PROVE  /\ Description(c) => NameAhead(Tail(c))
           /\ NameAhead(c) => IF Head(c).t = "s" THEN OnlyStreams(Tail(c))
                              ELSE NameAhead(Tail(c))
           /\ OnlyStreams(c) => OnlyStreams(Tail(c))
           /\ EveryStreamHasAttribute(c) => EveryStreamHasAttribute(Tail(c))
           /\ EveryStreamHasAttribute(c) /\ Head(c).t = "m" => AttributeAhead(Tail(c))
           /\ AttributeAhead(c) => /\ Head(c).t # "m"
                                   /\ Head(c).t # "a" => AttributeAhead(Tail(c))
<1> DEFINE d == Tail(c)
           n == Len(c)
<1>1. /\ n \in Nat \ {0} /\ Len(d) = n - 1 /\ Head(c) = c[1]
      /\ \A i \in 1 .. n - 1 : d[i] = c[i + 1]
      /\ DOMAIN c = 1 .. n /\ DOMAIN d = 1 .. n - 1
  BY HeadTailProperties
<1> HIDE DEF d, n
<1>2. \A i \in 2 .. n : d[i - 1] = c[i] /\ i - 1 \in 1 .. n - 1
  <2> SUFFICES ASSUME NEW i \in 2 .. n PROVE d[i - 1] = c[i] /\ i - 1 \in 1 .. n - 1
    OBVIOUS
  <2>1. i - 1 \in 1 .. n - 1 /\ (i - 1) + 1 = i
    BY <1>1
  <2> QED
    BY <1>1, <2>1
<1>3. ASSUME Description(c) PROVE NameAhead(d)
  <2>1. PICK k \in 2 .. n : /\ c[k].t = "s"
                            /\ \A i \in 2 .. k - 1 : c[i].t \in RestTypes \cup {"eol"}
                            /\ \A i \in k + 1 .. n : c[i].t \in StreamTypes
    BY <1>3 DEF Description, n
  <2>2. /\ k - 1 \in 1 .. Len(d) /\ d[k - 1].t = "s"
        /\ \A i \in 1 .. (k - 1) - 1 : d[i].t \in RestTypes \cup {"eol"}
        /\ \A i \in (k - 1) + 1 .. Len(d) : d[i].t \in StreamTypes
    BY <1>1, <1>2, <2>1
  <2> QED
    BY <2>2 DEF NameAhead
<1>4. ASSUME NameAhead(c)
      PROVE  IF Head(c).t = "s" THEN OnlyStreams(d) ELSE NameAhead(d)
  <2>1. PICK k \in 1 .. n : /\ c[k].t = "s"
                            /\ \A i \in 1 .. k - 1 : c[i].t \in RestTypes \cup {"eol"}
                            /\ \A i \in k + 1 .. n : c[i].t \in StreamTypes
    BY <1>4 DEF NameAhead, n
  <2>2. CASE k = 1
    <3>1. \A i \in 1 .. Len(d) : d[i].t \in StreamTypes
      BY <1>1, <2>1, <2>2
    <3> QED
      BY <1>1, <2>1, <2>2, <3>1 DEF OnlyStreams
  <2>3. CASE k # 1
    <3>1. Head(c).t # "s"
      BY <1>1, <2>1, <2>3 DEF RestTypes
    <3>2. /\ k - 1 \in 1 .. Len(d) /\ d[k - 1].t = "s"
          /\ \A i \in 1 .. (k - 1) - 1 : d[i].t \in RestTypes \cup {"eol"}
          /\ \A i \in (k - 1) + 1 .. Len(d) : d[i].t \in StreamTypes
      BY <1>1, <1>2, <2>1, <2>3
    <3> QED
      BY <3>1, <3>2 DEF NameAhead
  <2> QED
    BY <2>2, <2>3
<1>5. ASSUME OnlyStreams(c) PROVE OnlyStreams(d)
  BY <1>1, <1>5 DEF OnlyStreams, n
<1>6. ASSUME EveryStreamHasAttribute(c) PROVE EveryStreamHasAttribute(d)
  <2> SUFFICES ASSUME NEW i \in 1 .. n - 1, d[i].t = "m"
               PROVE  \E j \in i + 1 .. Len(d) : /\ d[j].t = "a"
                                                 /\ \A l \in i + 1 .. j - 1 : d[l].t # "m"
    BY <1>1 DEF EveryStreamHasAttribute
  <2>1. i + 1 \in 1 .. n /\ c[i + 1].t = "m"
    BY <1>1
  <2>2. PICK j \in (i + 1) + 1 .. n : /\ c[j].t = "a"
                                      /\ \A l \in (i + 1) + 1 .. j - 1 : c[l].t # "m"
    BY <1>1, <1>6, <2>1 DEF EveryStreamHasAttribute, n
  <2>3. j - 1 \in i + 1 .. Len(d) /\ d[j - 1].t = "a"
    BY <1>1, <1>2, <2>2
  <2>4. \A l \in i + 1 .. (j - 1) - 1 : d[l].t # "m"
    BY <1>1, <2>2
  <2> QED
    BY <2>3, <2>4
<1>7. ASSUME EveryStreamHasAttribute(c), Head(c).t = "m" PROVE AttributeAhead(d)
  <2>1. PICK j \in 2 .. n : c[j].t = "a" /\ \A l \in 2 .. j - 1 : c[l].t # "m"
    BY <1>1, <1>7 DEF EveryStreamHasAttribute, n
  <2>2. j - 1 \in 1 .. Len(d) /\ d[j - 1].t = "a"
    BY <1>1, <1>2, <2>1
  <2>3. \A l \in 1 .. (j - 1) - 1 : d[l].t # "m"
    BY <1>1, <2>1
  <2> QED
    BY <2>2, <2>3 DEF AttributeAhead
<1>8. ASSUME AttributeAhead(c)
      PROVE  Head(c).t # "m" /\ (Head(c).t # "a" => AttributeAhead(d))
  <2>1. PICK j \in 1 .. n : c[j].t = "a" /\ \A l \in 1 .. j - 1 : c[l].t # "m"
    BY <1>8 DEF AttributeAhead, n
  <2>2. CASE j = 1
    BY <1>1, <2>1, <2>2
  <2>3. CASE j # 1
    <3>1. Head(c).t # "m"
      BY <1>1, <2>1, <2>3
    <3>2. j - 1 \in 1 .. Len(d) /\ d[j - 1].t = "a"
      BY <1>1, <1>2, <2>1, <2>3
    <3>3. \A l \in 1 .. (j - 1) - 1 : d[l].t # "m"
      BY <1>1, <2>1
    <3> QED
      BY <3>1, <3>2, <3>3 DEF AttributeAhead
  <2> QED
    BY <2>2, <2>3
<1> QED
  BY <1>3, <1>4, <1>5, <1>6, <1>7, <1>8 DEF d

LEMMA SdpLineInDescription ==
    ASSUME TypeOK, Phases, Sync, SdpLine, ~short
    PROVE  InDescription'
<1> USE DEF Sync, InDescription
<1>1. /\ pc \in {"sdp_v", "sdp_s", "sdp_m"} /\ content # <<>>
      /\ content \in Seq(Token) /\ streams \in Seq(Nat)
      /\ content' = Tail(content)
      /\ Head(content).t \in SdpExpected
      /\ UNCHANGED <<short, described>>
  BY DEF SdpLine, SdpContinues, TypeOK
<1>2. /\ StreamCount(content) =
           StreamCount(content') + (IF Head(content).t = "m" THEN 1 ELSE 0)
      /\ StreamCount(content') \in Nat
      /\ Len(streams) + StreamCount(content) = described
  BY <1>1, StreamCountTail, StreamCountType, HeadTailProperties
<1>3. CASE pc = "sdp_v"
  <2>1. Head(content).t = "v"
    BY <1>1, <1>3 DEF SdpExpected
  <2>2. pc' = "sdp_s" /\ streams' = streams
    BY <2>1 DEF SdpLine
  <2>3. NameAhead(content') /\ EveryStreamHasAttribute(content')
    BY <1>1, <1>3, TailOfDescription DEF Description
  <2> QED
    BY <1>1, <1>2, <2>1, <2>2, <2>3
<1>4. CASE pc = "sdp_s"
  <2>1. Head(content).t \in {"s", "eol"} \cup RestTypes
    BY <1>1, <1>4 DEF SdpExpected
  <2>2. EveryStreamHasAttribute(content')
    BY <1>1, <1>4, TailOfDescription
  <2>3. streams = <<>>
    <3>1. method = "DESCRIBE"
      BY <1>4 DEF Phases, Describing
    <3> QED
      BY <1>4, <3>1 DEF Early, InCall
  <2>4. streams' = streams /\ pc' = IF Head(content).t = "s" THEN "sdp_m" ELSE pc
    BY <2>1 DEF SdpLine, RestTypes
  <2>5. CASE Head(content).t = "s"
    <3>1. OnlyStreams(content')
      BY <1>1, <1>4, <2>5, TailOfDescription
    <3> QED
      BY <1>1, <1>2, <2>2, <2>3, <2>4, <2>5, <3>1
  <2>6. CASE Head(content).t # "s"
    <3>1. NameAhead(content')
      BY <1>1, <1>4, <2>6, TailOfDescription
    <3> QED
      BY <1>1, <1>2, <1>4, <2>1, <2>2, <2>4, <2>6, <3>1 DEF RestTypes
  <2> QED
    BY <2>5, <2>6
<1>5. CASE pc = "sdp_m"
  <2>1. Head(content).t \in {"m", "a", "eol"} \cup RestTypes
    BY <1>1, <1>5 DEF SdpExpected
  <2>2. /\ OnlyStreams(content') /\ EveryStreamHasAttribute(content')
        /\ \A i \in 1 .. Len(streams) :
             streams[i] = 0 => i = Len(streams) /\ AttributeAhead(content)
    BY <1>1, <1>5, TailOfDescription
  <2>3. pc' = "sdp_m"
    BY <1>5, <2>1 DEF SdpLine, RestTypes
  <2>4. CASE Head(content).t = "m"
    <3>1. streams' = Append(streams, 0)
      BY <2>4 DEF SdpLine
    <3>2. /\ Len(streams') = Len(streams) + 1
          /\ \A i \in 1 .. Len(streams) : streams'[i] = streams[i]
      BY <1>1, <3>1, AppendProperties
    <3>3. ~AttributeAhead(content) /\ AttributeAhead(content')
      BY <1>1, <1>5, <2>4, TailOfDescription
    <3>4. \A i \in 1 .. Len(streams') :
            streams'[i] = 0 => i = Len(streams') /\ AttributeAhead(content')
      BY <1>1, <2>2, <3>2, <3>3
    <3>5. Len(streams') + StreamCount(content') = described'
      BY <1>1, <1>2, <2>4, <3>2
    <3> QED
      BY <1>1, <2>2, <2>3, <3>4, <3>5
  <2>5. CASE Head(content).t = "a" /\ streams # <<>>
    <3>1. streams' = [streams EXCEPT ![Len(streams)] = @ + 1]
      BY <2>5 DEF SdpLine
    <3>2. /\ Len(streams) \in 1 .. Len(streams) /\ streams[Len(streams)] \in Nat
          /\ Len(streams') = Len(streams)
          /\ \A i \in 1 .. Len(streams) :
               streams'[i] = IF i = Len(streams) THEN streams[i] + 1 ELSE streams[i]
      BY <1>1, <2>5, <3>1
    <3>3. \A i \in 1 .. Len(streams') : streams'[i] # 0
      BY <2>2, <3>2
    <3> QED
      BY <1>1, <1>2, <2>2, <2>3, <2>5, <3>2, <3>3
  <2>6. CASE Head(content).t \notin {"m", "a"} \/ (Head(content).t = "a" /\ streams = <<>>)
    <3>1. streams' = streams
      BY <2>1, <2>6 DEF SdpLine, RestTypes
    <3>2. AttributeAhead(content) => AttributeAhead(content') \/ streams = <<>>
      BY <1>1, <2>6, TailOfDescription
    <3>3. \A i \in 1 .. Len(streams') :
            streams'[i] = 0 => i = Len(streams') /\ AttributeAhead(content')
      BY <2>2, <3>1, <3>2
    <3> QED
      BY <1>1, <1>2, <2>2, <2>3, <2>6, <3>1, <3>3
  <2> QED
    BY <2>4, <2>5, <2>6
<1> QED
  BY <1>1, <1>3, <1>4, <1>5

LEMMA NextInDescription == Assumed => InDescription'
<1> SUFFICES ASSUME Assumed, ~short', pc' \in {"sdp_v", "sdp_s", "sdp_m"}
             PROVE  InDescription'
  BY DEF InDescription
<1> USE DEF Assumed
<1>0. InDescription /\ Early
  BY DEF Sync
<1>a. ASSUME UNCHANGED <<pc, short, content, streams, described>>
      PROVE  InDescription'
  BY <1>0, <1>a DEF InDescription
<1>1. CASE Connect \/ Encode \/ SendPart \/ SendFails \/ ReadDown \/ ReadLong \/ RecvNothing
  BY <1>1 DEF Connect, Encode, SendPart, SendFails, ReadDown, ReadLong, RecvNothing,
              Reading, Fail, Die
<1>2. CASE ReadText \/ ReadLine \/ ReadBlank
  BY <1>2 DEF ReadText, ReadLine, ReadBlank, Reading
<1>3. CASE ParseLine
  BY <1>3 DEF ParseLine, ParseStored, ParseAuthenticate, ParsePublic, ParseEmpty,
              ParseIgnored, Parse, Parsing, Die
<1>4. CASE ReplyDone
  BY <1>4 DEF ReplyDone, Enter, Fail
<1>5. CASE RecvContent
  <2>1. PICK rep \in Replies["DESCRIBE"] :
          content' = rep.content /\ described = StreamCount(rep.content)
    BY <1>5, WholeContent
  <2>2. rep \in Reply /\ Description(rep.content)
    BY HonestReply
  <2>3. /\ pc = "content" /\ method = "DESCRIBE" /\ pc' = "sdp_v"
        /\ UNCHANGED <<streams, described>>
    BY <1>5 DEF RecvContent, Phases, Describing
  <2>4. streams = <<>>
    BY <1>0, <2>3 DEF Early, InCall
  <2>5. StreamCount(rep.content) \in Nat
    BY <2>2, StreamCountType DEF Reply
  <2> QED
    BY <2>1, <2>2, <2>3, <2>4, <2>5 DEF InDescription
<1>6. CASE SdpLine
  BY <1>6, SdpLineInDescription DEF SdpLine
<1>7. CASE SdpParsed \/ SdpRejected \/ SetupStream \/ SetupDone
  BY <1>7 DEF SdpParsed, SdpRejected, SetupStream, SetupDone, Enter, Die
<1>8. CASE ServerReply
  <2>1. ~down /\ inbox # <<>> /\ UNCHANGED <<pc, short>>
    BY <1>8 DEF ServerReply
  <2>2. pc = "read"
    BY <2>1, OnlyWaiting DEF InCall
  <2> QED
    BY <2>1, <2>2
<1>9. CASE ServerDies
  BY <1>9, <1>a DEF ServerDies
<1>10. CASE ConnectRefused \/ UNCHANGED vars
  BY <1>10, <1>a DEF ConnectRefused
<1> QED
  BY <1>1, <1>2, <1>3, <1>4, <1>5, <1>6, <1>7, <1>8, <1>9, <1>10 DEF Next, Client

-------------------------------------------------------------------------------
(* Reading a reply, token by token *)

\* No header line ends a message or is taken for the rest of another.
LEMMA HeaderLineTypes ==
    ASSUME Honest(Replies), NEW req \in Request, NEW m \in Methods,
           NEW rep \in Replies[m], NEW i \in 1 .. Len(HeaderLines(req, rep))
    PROVE  /\ HeaderLines(req, rep)[i].t \in HeaderTypes
           /\ HeaderLines(req, rep)[i] \in Token
<1> DEFINE hdr == HeaderLines(req, rep)
           k   == Len(rep.headers)
<1>1. rep \in Reply /\ \A l \in 1 .. k : rep.headers[l].t \in HeaderTypes
  BY HonestReply
<1>2. k \in Nat
  BY <1>1 DEF Reply
<1>3. /\ hdr \in Seq(Token) /\ Len(hdr) = k + 2
      /\ hdr[1] = [t |-> "Status", v |-> 0]
      /\ hdr[2] = [t |-> "CSeq", v |-> req.seq]
      /\ \A l \in 3 .. k + 2 : hdr[l] = rep.headers[l - 2]
  BY <1>1, HeaderLinesAre
<1>4. i \in 1 .. Len(hdr)
  OBVIOUS
<1> HIDE DEF hdr, k
<1>5. i = 1 \/ i = 2 \/ (i \in 3 .. k + 2 /\ i - 2 \in 1 .. k)
  BY <1>2, <1>3, <1>4
<1>6. hdr[i].t \in HeaderTypes
  BY <1>1, <1>3, <1>5 DEF HeaderTypes
<1>7. hdr[i] \in Token
  BY <1>3, <1>4
<1> QED
  BY <1>6, <1>7 DEF hdr

\* The token behind j lines and, if half is 1, the text of the next one.
LEMMA NextToken ==
    ASSUME TypeOK, NEW rep \in Reply, NEW j \in 0 .. Len(HeaderLines(request, rep)),
           NEW half \in {0, 1}, NEW n \in 0 .. Len(ReplyTokens(request, rep)),
           Underway(rep, j, half, n), stream # <<>>
    PROVE  LET hdr == HeaderLines(request, rep)
               tokens == ReplyTokens(request, rep)
           IN /\ n >= 2 * j + half + 1
              /\ Len(Tail(stream)) = n - (2 * j + half + 1)
              /\ \A i \in 1 .. Len(Tail(stream)) :
                   Tail(stream)[i] = tokens[2 * j + half + 1 + i]
              /\ half = 1 => Head(stream) = Eol
              /\ half = 0 /\ j < Len(hdr) => Head(stream) = hdr[j + 1]
              /\ half = 0 /\ j = Len(hdr) => Head(stream) = Eol
<1> DEFINE hdr    == HeaderLines(request, rep)
           tokens == ReplyTokens(request, rep)
           p      == 2 * j + half
<1>1. request \in Request /\ stream \in Seq(Token)
  BY DEF TypeOK
<1>2. /\ hdr \in Seq(Token)
      /\ \A i \in 1 .. Len(hdr) : tokens[2 * i - 1] = hdr[i] /\ tokens[2 * i] = Eol
      /\ tokens[2 * Len(hdr) + 1] = Eol
  BY <1>1, ReplyTokensAre, HeaderLinesAre
<1>3. /\ half = 1 => j < Len(hdr)
      /\ Len(stream) = n - p
      /\ \A i \in 1 .. Len(stream) : stream[i] = tokens[p + i]
  BY DEF Underway
<1>4. j \in 0 .. Len(hdr) /\ n \in Nat
  <2>1. tokens \in Seq(Token)
    BY <1>1, ReplyTokensAre
  <2> QED
    BY <2>1
<1>p. p = 2 * j + half /\ p \in Nat
  BY <1>4
<1> HIDE DEF hdr, tokens, p
<1>5. /\ Len(stream) \in Nat \ {0} /\ Head(stream) = stream[1]
      /\ Len(Tail(stream)) = Len(stream) - 1
      /\ \A i \in 1 .. Len(Tail(stream)) : Tail(stream)[i] = stream[i + 1]
  BY <1>1, HeadTailProperties
<1>6. Head(stream) = tokens[p + 1]
  BY <1>3, <1>5
<1>7. n >= p + 1 /\ Len(Tail(stream)) = n - (p + 1)
  BY <1>3, <1>4, <1>5, <1>p
<1>8. \A i \in 1 .. Len(Tail(stream)) : Tail(stream)[i] = tokens[p + 1 + i]
  <2> SUFFICES ASSUME NEW i \in 1 .. Len(Tail(stream))
               PROVE  Tail(stream)[i] = tokens[p + 1 + i]
    OBVIOUS
  <2>1. i + 1 \in 1 .. Len(stream) /\ p + (i + 1) = p + 1 + i
    BY <1>5, <1>p
  <2> QED
    BY <1>3, <1>5, <2>1
<1>9. half = 1 => Head(stream) = Eol
  <2> SUFFICES ASSUME half = 1 PROVE Head(stream) = Eol
    OBVIOUS
  <2>1. j + 1 \in 1 .. Len(hdr) /\ 2 * (j + 1) = p + 1
    BY <1>2, <1>3, <1>4, <1>p
  <2> QED
    BY <1>2, <1>6, <2>1
<1>10. half = 0 /\ j < Len(hdr) => Head(stream) = hdr[j + 1]
  <2> SUFFICES ASSUME half = 0, j < Len(hdr) PROVE Head(stream) = hdr[j + 1]
    OBVIOUS
  <2>1. j + 1 \in 1 .. Len(hdr) /\ 2 * (j + 1) - 1 = p + 1
    BY <1>2, <1>4, <1>p
  <2> QED
    BY <1>2, <1>6, <2>1
<1>11. half = 0 /\ j = Len(hdr) => Head(stream) = Eol
  <2> SUFFICES ASSUME half = 0, j = Len(hdr) PROVE Head(stream) = Eol
    OBVIOUS
  <2>1. 2 * Len(hdr) + 1 = p + 1
    BY <1>2, <1>4, <1>p
  <2> QED
    BY <1>2, <1>6, <2>1
<1> QED
  BY <1>7, <1>8, <1>9, <1>10, <1>11, <1>p DEF hdr, tokens, p

\* What a read leaves of the reply is the reply from the next token on.
LEMMA ReadTextInRead ==
    ASSUME Honest(Replies), TypeOK, ReadText, NEW rep \in Replies[method],
           NEW j \in 0 .. Len(HeaderLines(request, rep)),
           NEW half \in {0, 1}, NEW n \in 0 .. Len(ReplyTokens(request, rep)),
           Underway(rep, j, half, n)
    PROVE  Underway(rep, j, 1, n)'
<1> DEFINE hdr    == HeaderLines(request, rep)
           tokens == ReplyTokens(request, rep)
<1>1. method \in Methods /\ rep \in Reply
  BY HonestReply DEF TypeOK
<1>2. /\ stream # <<>> /\ Head(stream).t # "eol"
      /\ stream' = Tail(stream)
      /\ cur' = IF cur = None THEN Head(stream) ELSE cur
      /\ UNCHANGED <<method, request, lines, down, described>>
  BY DEF ReadText, Reading
<1>3. Head(stream) # Eol
  BY <1>2 DEF Eol
<1>4. j \in 0 .. Len(hdr) /\ half \in {0, 1}
  OBVIOUS
<1>5. hdr \in Seq(Token)
  BY <1>1, HeaderLinesAre DEF TypeOK
<1>6. /\ n >= 2 * j + half + 1
      /\ Len(Tail(stream)) = n - (2 * j + half + 1)
      /\ \A i \in 1 .. Len(Tail(stream)) :
           Tail(stream)[i] = tokens[2 * j + half + 1 + i]
      /\ half = 1 => Head(stream) = Eol
      /\ half = 0 /\ j < Len(hdr) => Head(stream) = hdr[j + 1]
      /\ half = 0 /\ j = Len(hdr) => Head(stream) = Eol
  BY <1>1, <1>2, NextToken
<1>7. half = 0 /\ j < Len(hdr)
  BY <1>3, <1>4, <1>5, <1>6
<1>8. /\ cur = None
      /\ n = Len(tokens) \/ down
      /\ method = "DESCRIBE" /\ n = Len(tokens) => described = StreamCount(rep.content)
      /\ LastLines(j, hdr)
      /\ method = "DESCRIBE" => Len(lines) = j
  BY <1>7 DEF Underway
<1>9. cur' = hdr[j + 1]
  BY <1>2, <1>6, <1>7, <1>8
<1>10. LastLines(j, hdr)'
  BY <1>2, <1>8 DEF LastLines
<1>11. /\ n >= 2 * j + 1
       /\ Len(stream') = n - (2 * j + 1)
       /\ \A i \in 1 .. Len(stream') : stream'[i] = tokens[2 * j + 1 + i]
  BY <1>2, <1>6, <1>7
<1> QED
  BY <1>2, <1>7, <1>8, <1>9, <1>10, <1>11 DEF Underway

LEMMA ReadLineInRead ==
    ASSUME Honest(Replies), TypeOK, ReadLine, NEW rep \in Replies[method],
           NEW j \in 0 .. Len(HeaderLines(request, rep)),
           NEW half \in {0, 1}, NEW n \in 0 .. Len(ReplyTokens(request, rep)),
           Underway(rep, j, half, n)
    PROVE  j + 1 \in 0 .. Len(HeaderLines(request, rep)) /\ Underway(rep, j + 1, 0, n)'
<1> DEFINE hdr    == HeaderLines(request, rep)
           tokens == ReplyTokens(request, rep)
<1>1. method \in Methods /\ rep \in Reply /\ request \in Request /\ lines \in Seq(Token)
  BY HonestReply DEF TypeOK
<1>2. /\ stream # <<>> /\ cur # None
      /\ stream' = Tail(stream) /\ cur' = None
      /\ lines' = IF cur.t = "last" THEN lines ELSE Append(lines, cur)
      /\ UNCHANGED <<method, request, down, described>>
  BY DEF ReadLine, Reading
<1>3. half = 1 /\ j < Len(hdr) /\ cur = hdr[j + 1] /\ LastLines(j, hdr)
  BY <1>2 DEF Underway
<1>4. hdr \in Seq(Token) /\ j \in Nat /\ j + 1 \in 1 .. Len(hdr)
  <2>1. hdr \in Seq(Token)
    BY <1>1, HeaderLinesAre
  <2> QED
    BY <1>3, <2>1
<1>5. cur \in Token /\ cur.t \in HeaderTypes
  BY <1>1, <1>3, <1>4, HeaderLineTypes
<1>6. /\ Len(lines) \in Nat
      /\ Len(lines') = Len(lines) + 1
      /\ \A i \in 1 .. Len(lines) : lines'[i] = lines[i]
      /\ lines'[Len(lines) + 1] = cur
  <2>1. lines' = Append(lines, cur)
    BY <1>2, <1>5 DEF HeaderTypes
  <2> QED
    BY <1>1, <1>5, <2>1, AppendProperties
<1>7. /\ n >= 2 * j + 2
      /\ Len(stream') = n - (2 * j + 2)
      /\ \A i \in 1 .. Len(stream') : stream'[i] = tokens[2 * j + 2 + i]
  BY <1>1, <1>2, <1>3, NextToken
<1>8. LastLines(j + 1, hdr)'
  <2>1. j <= Len(lines) /\ \A i \in 1 .. j : lines[Len(lines) - j + i] = hdr[i]
    BY <1>3 DEF LastLines
  <2>2. ASSUME NEW i \in 1 .. j + 1
        PROVE  lines'[Len(lines') - (j + 1) + i] = hdr[i]
    <3>1. Len(lines') - (j + 1) + i = Len(lines) - j + i
      BY <1>4, <1>6
    <3>2. CASE i = j + 1
      <4>1. Len(lines) - j + i = Len(lines) + 1
        BY <1>4, <1>6, <3>2
      <4> QED
        BY <1>3, <1>6, <3>1, <3>2, <4>1
    <3>3. CASE i # j + 1
      <4>1. i \in 1 .. j /\ Len(lines) - j + i \in 1 .. Len(lines)
        BY <1>4, <1>6, <2>1, <3>3
      <4> QED
        BY <1>6, <2>1, <3>1, <4>1
    <3> QED
      BY <3>2, <3>3
  <2>3. j + 1 <= Len(lines')
    BY <1>4, <1>6, <2>1
  <2> QED
    BY <1>2, <2>2, <2>3 DEF LastLines
<1>9. /\ n = Len(tokens) \/ down
      /\ method = "DESCRIBE" /\ n = Len(tokens) => described = StreamCount(rep.content)
      /\ method = "DESCRIBE" => Len(lines') = j + 1
  BY <1>6 DEF Underway
<1>10. 2 * (j + 1) + 0 = 2 * j + 2
  BY <1>4
<1> QED
  BY <1>2, <1>4, <1>7, <1>8, <1>9, <1>10, SMTT(60) DEF Underway

\* The reply of a server that is up, or the part of it sent before it went.
LEMMA ReplyUnderway ==
    ASSUME TypeOK, stream = <<>>, cur = None, method = "DESCRIBE" => lines = <<>>,
           UNCHANGED <<method, request, lines, cur>>,
           NEW rep \in Reply, NEW n \in 0 .. Len(ReplyTokens(request, rep)),
           stream' = stream \o SubSeq(ReplyTokens(request, rep), 1, n),
           n = Len(ReplyTokens(request, rep)) \/ down',
           method = "DESCRIBE" /\ n = Len(ReplyTokens(request, rep))
             => described' = StreamCount(rep.content)
    PROVE  0 \in 0 .. Len(HeaderLines(request, rep)) /\ Underway(rep, 0, 0, n)'
<1> DEFINE hdr    == HeaderLines(request, rep)
           tokens == ReplyTokens(request, rep)
           part   == SubSeq(tokens, 1, n)
<1>1. request \in Request /\ lines \in Seq(Token)
  BY DEF TypeOK
<1>2. tokens \in Seq(Token) /\ hdr \in Seq(Token)
  BY <1>1, ReplyTokensAre, HeaderLinesAre
<1>3. n \in 0 .. Len(tokens)
  OBVIOUS
<1>a. stream' = <<>> \o part
  OBVIOUS
<1> HIDE DEF tokens
<1>4. part \in Seq(Token) /\ Len(part) = n /\ \A i \in 1 .. n : part[i] = tokens[i]
  BY <1>2, <1>3
<1> HIDE DEF part
<1>5. stream' = part
  BY <1>4, <1>a
<1>6. /\ n >= 2 * 0 + 0
      /\ Len(stream') = n - (2 * 0 + 0)
      /\ \A i \in 1 .. Len(stream') : stream'[i] = tokens[2 * 0 + 0 + i]
  BY <1>2, <1>3, <1>4, <1>5
<1>7. LastLines(0, hdr)'
  BY <1>1 DEF LastLines
<1>8. method = "DESCRIBE" => Len(lines) = 0
  OBVIOUS
<1>9. 0 \in 0 .. Len(hdr)
  BY <1>2
<1> QED
  BY <1>6, <1>7, <1>8, <1>9 DEF Underway, tokens

LEMMA NextInRead == Assumed => InRead'
<1> SUFFICES ASSUME Assumed, pc' = "read", ~short'
             PROVE  \/ Waiting'
                    \/ /\ NothingOwed'
                       /\ \E rep \in Replies[method'] :
                          \E j \in 0 .. Len(HeaderLines(request', rep)), half \in {0, 1},
                             n \in 0 .. Len(ReplyTokens(request', rep)) :
                               Underway(rep, j, half, n)'
  BY DEF InRead
<1> USE DEF Assumed
<1>0. InRead /\ Between /\ Early /\ Late
  BY DEF Sync
<1>a. ASSUME pc = "read", ~short, NEW rep \in Replies[method],
             NEW j \in 0 .. Len(HeaderLines(request, rep)), NEW half \in {0, 1},
             NEW n \in 0 .. Len(ReplyTokens(request, rep)), Underway(rep, j, half, n)
      PROVE  /\ method \in Methods /\ request \in Request
             /\ rep \in Reply /\ HeaderLines(request, rep) \in Seq(Token)
             /\ n \in Nat /\ 2 * j + half \in 0 .. n
             /\ 2 * j + half < Len(ReplyTokens(request, rep))
  <2>1. method \in Methods /\ request \in Request
    BY DEF TypeOK
  <2>2. rep \in Reply
    BY <2>1, HonestReply
  <2>3. /\ HeaderLines(request, rep) \in Seq(Token)
        /\ ReplyTokens(request, rep) \in Seq(Token)
        /\ Len(ReplyTokens(request, rep)) =
             2 * Len(HeaderLines(request, rep)) + 1 + Len(rep.content)
    BY <2>1, <2>2, HeaderLinesAre, ReplyTokensAre
  <2>4. Len(rep.content) \in Nat
    BY <2>2 DEF Reply
  <2>5. n >= 2 * j + half /\ (half = 1 => j < Len(HeaderLines(request, rep)))
    BY <1>a DEF Underway
  <2> DEFINE h == Len(HeaderLines(request, rep))
             t == Len(ReplyTokens(request, rep))
             c == Len(rep.content)
  <2>6. /\ j \in 0 .. h /\ n \in 0 .. t /\ h \in Nat /\ t \in Nat /\ c \in Nat
        /\ t = 2 * h + 1 + c /\ n >= 2 * j + half /\ (half = 1 => j < h)
    <3>a. h \in Nat
      BY <2>3, LenProperties
    <3>b. t \in Nat
      BY <2>3, LenProperties
    <3>1. h \in Nat /\ t \in Nat /\ c \in Nat
      BY <2>4, <3>a, <3>b
    <3>2. t = 2 * h + 1 + c
      BY <2>3
    <3>3. j \in 0 .. h /\ n \in 0 .. t
      OBVIOUS
    <3> QED
      BY <2>5, <3>1, <3>2, <3>3
  <2> HIDE DEF h, t, c
  <2>7. n \in Nat /\ 2 * j + half \in 0 .. n /\ 2 * j + half < t
    BY <2>6
  <2> QED
    BY <2>1, <2>2, <2>3, <2>7 DEF t
<1>1. CASE SendPart
  <2>1. pc = "send" /\ ~short /\ cur' = None /\ inbox' = Append(inbox, request)
        /\ UNCHANGED <<request, stream, down, method, lines>>
    BY <1>1 DEF SendPart
  <2>2. stream = <<>> /\ (inbox = <<>> \/ down)
    BY <1>0, <2>1 DEF Between, NothingOwed
  <2>3. method = "DESCRIBE" => lines = <<>>
    BY <1>0, <2>1 DEF Early
  <2>4. inbox = <<>> => inbox' = <<request>>
    BY <2>1
  <2> QED
    BY <2>1, <2>2, <2>3, <2>4 DEF Waiting
<1>2. CASE ReadText \/ ReadLine
  <2>1. /\ pc = "read" /\ stream # <<>>
        /\ UNCHANGED <<method, request, inbox, down, short>>
    BY <1>2 DEF ReadText, ReadLine, Reading
  <2>2. ~short
    BY <2>1
  <2>3. NothingOwed
    BY <1>0, <2>1, <2>2 DEF InRead, Waiting
  <2>4. PICK rep \in Replies[method] :
          \E j \in 0 .. Len(HeaderLines(request, rep)), half \in {0, 1},
             n \in 0 .. Len(ReplyTokens(request, rep)) : Underway(rep, j, half, n)
    BY <1>0, <2>1, <2>2 DEF InRead, Waiting
  <2>5. PICK j \in 0 .. Len(HeaderLines(request, rep)), half \in {0, 1},
             n \in 0 .. Len(ReplyTokens(request, rep)) : Underway(rep, j, half, n)
    BY <2>4
  <2>6. ReadText => Underway(rep, j, 1, n)'
    BY <2>5, ReadTextInRead
  <2>7. ReadLine => /\ j + 1 \in 0 .. Len(HeaderLines(request, rep))
                    /\ Underway(rep, j + 1, 0, n)'
    BY <2>5, ReadLineInRead
  <2>8. NothingOwed'
    BY <2>1, <2>3 DEF NothingOwed
  <2> QED
    BY <1>2, <2>1, <2>6, <2>7, <2>8
<1>3. CASE ServerReply
  <2>1. /\ ~down /\ inbox # <<>> /\ inbox' = Tail(inbox)
        /\ UNCHANGED <<pc, short, method, request, lines, cur>>
    BY <1>3 DEF ServerReply
  <2>2. pc = "read" /\ Waiting
    BY <2>1, OnlyWaiting DEF InCall
  <2>3. /\ stream = <<>> /\ inbox = <<request>> /\ cur = None
        /\ method = "DESCRIBE" => lines = <<>>
        /\ request.method = method
    BY <1>0, <2>1, <2>2 DEF Waiting, Late
  <2>4. Head(inbox) = request /\ inbox' = <<>>
    BY <2>1, <2>3
  <2>5. PICK rep \in Replies[method] :
          /\ stream' = stream \o ReplyTokens(request, rep)
          /\ described' = IF method = "DESCRIBE" THEN StreamCount(rep.content)
                          ELSE described
    BY <1>3, <2>3, <2>4 DEF ServerReply
  <2>6. rep \in Reply /\ request \in Request
    BY HonestReply DEF TypeOK
  <2>7. ReplyTokens(request, rep) \in Seq(Token)
    BY <2>6, ReplyTokensAre
  <2> DEFINE n == Len(ReplyTokens(request, rep))
  <2>8. /\ n \in 0 .. n
        /\ SubSeq(ReplyTokens(request, rep), 1, n) = ReplyTokens(request, rep)
    BY <2>7
  <2>9. 0 \in 0 .. Len(HeaderLines(request, rep)) /\ Underway(rep, 0, 0, n)'
    BY <2>1, <2>3, <2>5, <2>6, <2>8, ReplyUnderway, ZenonT(60)
  <2> QED
    BY <2>1, <2>4, <2>8, <2>9 DEF NothingOwed
<1>4. CASE ServerDies
  <2>1. ~down /\ down' /\ UNCHANGED <<pc, short, method, request, lines, cur, inbox, described>>
    BY <1>4 DEF ServerDies
  <2>2. CASE Waiting /\ stream' \in {stream, <<>>}
    BY <2>1, <2>2 DEF Waiting
  <2>3. CASE ~Waiting /\ stream' \in {stream, <<>>}
    <3>1. PICK rep \in Replies[method] :
            \E j \in 0 .. Len(HeaderLines(request, rep)), half \in {0, 1},
               n \in 0 .. Len(ReplyTokens(request, rep)) : Underway(rep, j, half, n)
      BY <1>0, <2>1, <2>3 DEF InRead
    <3>2. PICK j \in 0 .. Len(HeaderLines(request, rep)), half \in {0, 1},
               n \in 0 .. Len(ReplyTokens(request, rep)) : Underway(rep, j, half, n)
      BY <3>1
    <3>3. /\ n \in Nat /\ 2 * j + half \in 0 .. n
          /\ 2 * j + half < Len(ReplyTokens(request, rep))
      BY <1>a, <2>1, <3>2
    <3>4. NothingOwed'
      BY <2>1 DEF NothingOwed
    <3>5. CASE stream' = stream
      <4>1. Underway(rep, j, half, n)'
        BY <2>1, <3>2, <3>5 DEF Underway, LastLines
      <4> QED
        BY <2>1, <3>4, <4>1
    <3>6. CASE stream' = <<>>
      <4> DEFINE k == 2 * j + half
      <4>0. k = 2 * j + half
        OBVIOUS
      <4>1. k >= 2 * j + half /\ Len(stream') = k - (2 * j + half)
        BY <3>3, <3>6
      <4>2. k # Len(ReplyTokens(request, rep)) /\ k \in 0 .. Len(ReplyTokens(request, rep))
        BY <3>3
      <4> HIDE DEF k
      <4>3. /\ half = 1 => j < Len(HeaderLines(request, rep))
            /\ cur = IF half = 1 THEN HeaderLines(request, rep)[j + 1] ELSE None
            /\ LastLines(j, HeaderLines(request, rep))
            /\ method = "DESCRIBE" => Len(lines) = j
        BY <3>2 DEF Underway
      <4>4. \A i \in 1 .. Len(stream') :
              stream'[i] = ReplyTokens(request, rep)[2 * j + half + i]
        BY <3>6
      <4>5. Underway(rep, j, half, k)'
        BY <2>1, <4>1, <4>2, <4>3, <4>4 DEF Underway, LastLines
      <4> QED
        BY <2>1, <3>4, <4>2, <4>5
    <3> QED
      BY <2>3, <3>5, <3>6
  <2>4. ASSUME inbox # <<>>,
               NEW rep \in Replies[Head(inbox).method],
               NEW n \in 1 .. Len(ReplyTokens(Head(inbox), rep)) - 1,
               stream' = stream \o SubSeq(ReplyTokens(Head(inbox), rep), 1, n)
        PROVE  /\ NothingOwed'
               /\ \E r \in Replies[method'] :
                  \E j \in 0 .. Len(HeaderLines(request', r)), half \in {0, 1},
                     m \in 0 .. Len(ReplyTokens(request', r)) : Underway(r, j, half, m)'
    <3>1. pc = "read" /\ Waiting
      BY <2>1, <2>4, OnlyWaiting DEF InCall
    <3>2. /\ stream = <<>> /\ inbox = <<request>> /\ cur = None
          /\ method = "DESCRIBE" => lines = <<>>
          /\ request.method = method
      BY <1>0, <2>1, <3>1 DEF Waiting, Late
    <3>3. Head(inbox) = request
      BY <3>2
    <3>4. rep \in Replies[method] /\ rep \in Reply /\ request \in Request
      BY <3>2, <3>3, HonestReply DEF TypeOK
    <3>5. ReplyTokens(request, rep) \in Seq(Token)
      BY <3>4, ReplyTokensAre
    <3>6. n \in 0 .. Len(ReplyTokens(request, rep)) /\ n # Len(ReplyTokens(request, rep))
      BY <3>3, <3>5
    <3>7. stream' = stream \o SubSeq(ReplyTokens(request, rep), 1, n)
      BY <2>4, <3>3
    <3>8. 0 \in 0 .. Len(HeaderLines(request, rep)) /\ Underway(rep, 0, 0, n)'
      BY <2>1, <3>2, <3>4, <3>6, <3>7, ReplyUnderway
    <3> QED
      BY <2>1, <3>4, <3>6, <3>8 DEF NothingOwed
  <2> QED
    BY <1>4, <2>2, <2>3, <2>4 DEF ServerDies
<1>5. CASE Connect \/ Encode \/ SendFails \/ ReadDown \/ ReadLong \/ RecvNothing
  BY <1>5 DEF Connect, Encode, SendFails, ReadDown, ReadLong, RecvNothing, Reading, Fail, Die
<1>6. CASE ReadBlank \/ ReplyDone \/ RecvContent \/ SdpParsed \/ SdpRejected
           \/ SetupStream \/ SetupDone
  BY <1>6 DEF ReadBlank, ReplyDone, RecvContent, SdpParsed, SdpRejected,
              SetupStream, SetupDone, Enter, Fail, Die
<1>7. CASE ParseLine
  BY <1>7 DEF ParseLine, ParseStored, ParseAuthenticate, ParsePublic, ParseEmpty,
              ParseIgnored, Parse, Parsing, Die
<1>8. CASE SdpLine
  BY <1>8 DEF SdpLine
<1>9. CASE ConnectRefused
  BY <1>9 DEF ConnectRefused
<1>10. CASE UNCHANGED vars
  <2>1. UNCHANGED <<pc, short, stream, inbox, down, cur, method, lines, request, described>>
    BY <1>10
  <2>2. (Waiting => Waiting') /\ (NothingOwed => NothingOwed')
    BY <2>1 DEF Waiting, NothingOwed
  <2>3. ASSUME NEW rep \in Replies[method],
               NEW j \in 0 .. Len(HeaderLines(request, rep)), NEW half \in {0, 1},
               NEW n \in 0 .. Len(ReplyTokens(request, rep)), Underway(rep, j, half, n)
        PROVE  Underway(rep, j, half, n)'
    BY <2>1, <2>3 DEF Underway, LastLines
  <2> QED
    BY <1>0, <2>1, <2>2, <2>3 DEF InRead
<1> QED
  BY <1>1, <1>2, <1>3, <1>4, <1>5, <1>6, <1>7, <1>8, <1>9, <1>10 DEF Next, Client

-------------------------------------------------------------------------------
(* Parsing a reply *)

\* The headers of a reply as they are found in lines.
LEMMA LinesOfReply ==
    ASSUME Honest(Replies), TypeOK, NEW rep \in Replies[method],
           LastLines(Len(HeaderLines(request, rep)), HeaderLines(request, rep))
    PROVE  LET first == Len(lines) - Len(HeaderLines(request, rep))
           IN /\ first \in Nat /\ Len(lines) >= first + 2
              /\ lines[first + 1].t = "Status"
              /\ lines[first + 2] = [t |-> "CSeq", v |-> request.seq]
              /\ \A i \in first + 3 .. Len(lines) :
                   /\ i - first - 2 \in 1 .. Len(rep.headers)
                   /\ lines[i] = rep.headers[i - first - 2]
              /\ \A i \in 1 .. Len(rep.headers) :
                   /\ first + 2 + i \in first + 3 .. Len(lines)
                   /\ lines[first + 2 + i] = rep.headers[i]
<1> DEFINE hdr   == HeaderLines(request, rep)
           first == Len(lines) - Len(hdr)
           k     == Len(rep.headers)
<1>1. rep \in Reply /\ request \in Request /\ lines \in Seq(Token)
  BY HonestReply DEF TypeOK
<1>2. /\ hdr \in Seq(Token) /\ Len(hdr) = k + 2
      /\ hdr[1] = [t |-> "Status", v |-> 0]
      /\ hdr[2] = [t |-> "CSeq", v |-> request.seq]
      /\ \A i \in 3 .. k + 2 : hdr[i] = rep.headers[i - 2]
  BY <1>1, HeaderLinesAre
<1>3. /\ Len(hdr) <= Len(lines)
      /\ \A i \in 1 .. Len(hdr) : lines[Len(lines) - Len(hdr) + i] = hdr[i]
  BY DEF LastLines
<1>4. k \in Nat /\ Len(lines) \in Nat
  BY <1>1 DEF Reply
<1> HIDE DEF hdr, k
<1>5. /\ first \in Nat /\ Len(lines) = first + k + 2
      /\ \A i \in 1 .. k + 2 : lines[first + i] = hdr[i]
  BY <1>2, <1>3, <1>4
<1> HIDE DEF first
<1>6. lines[first + 1].t = "Status" /\ lines[first + 2] = [t |-> "CSeq", v |-> request.seq]
  BY <1>2, <1>4, <1>5
<1>7. ASSUME NEW i \in 1 .. k
      PROVE  first + 2 + i \in first + 3 .. Len(lines) /\ lines[first + 2 + i] = rep.headers[i]
  <2>1. i + 2 \in 3 .. k + 2 /\ i + 2 \in 1 .. k + 2 /\ (i + 2) - 2 = i
    BY <1>4
  <2>2. first + 2 + i = first + (i + 2) /\ first + 2 + i \in first + 3 .. Len(lines)
    BY <1>4, <1>5
  <2> QED
    BY <1>2, <1>5, <2>1, <2>2
<1>8. ASSUME NEW i \in first + 3 .. Len(lines)
      PROVE  i - first - 2 \in 1 .. k /\ lines[i] = rep.headers[i - first - 2]
  <2>1. i - first - 2 \in 1 .. k /\ first + 2 + (i - first - 2) = i
    BY <1>4, <1>5
  <2> QED
    BY <1>7, <2>1
<1>9. Len(lines) >= first + 2
  BY <1>4, <1>5
<1> QED
  BY <1>5, <1>6, <1>7, <1>8, <1>9 DEF first, hdr, k

\* A server that goes leaves what it sent of the content, or nothing.
LEMMA DyingContent ==
    ASSUME Assumed, ServerDies, pc \in {"parse", "content"}, ~short,
           NEW rep \in Replies[method], ContentOf(rep)
    PROVE  NothingOwed' /\ ContentOf(rep)'
<1> USE DEF Assumed
<1>1. /\ ~down /\ down'
      /\ UNCHANGED <<clientVars, inbox, described, historyVars>>
  BY DEF ServerDies
<1>2. inbox = <<>>
  BY <1>1, OnlyWaiting DEF InCall
<1>3. stream' \in {stream, <<>>}
  BY <1>2 DEF ServerDies
<1>4. NothingOwed'
  BY <1>1 DEF NothingOwed
<1>5. method' = method
  BY <1>1
<1>6. CASE stream' = stream
  BY <1>1, <1>4, <1>5, <1>6 DEF ContentOf, Begins
<1>7. CASE stream' = <<>>
  <2>1. method \in Methods
    BY DEF TypeOK
  <2>2. rep \in Reply /\ (method = "DESCRIBE" => Description(rep.content))
    BY <2>1, HonestReply
  <2>3. rep.content \in Seq(Token) /\ (method = "DESCRIBE" => rep.content # <<>>)
    BY <2>2 DEF Reply, Description
  <2>4. Len(rep.content) \in Nat /\ (method = "DESCRIBE" => Len(rep.content) # 0)
    BY <2>3
  <2>5. Len(stream') = 0
    BY <1>7
  <2> QED
    BY <1>1, <1>4, <1>5, <2>4, <2>5 DEF ContentOf, Begins
<1> QED
  BY <1>3, <1>4, <1>6, <1>7

\* Between the end of its headers and the next request a server owes nothing.
LEMMA NoReplyWhileParsing ==
    ASSUME Assumed, ServerReply, InCall, ~short
    PROVE  pc = "read"
<1>1. ~down /\ inbox # <<>>
  BY DEF ServerReply
<1> QED
  BY <1>1, OnlyWaiting DEF Assumed

LEMMA ReadBlankInParse == Assumed /\ ReadBlank => InParse'
<1> SUFFICES ASSUME Assumed, ReadBlank, ~short'
             PROVE  /\ NothingOwed'
                    /\ \E rep \in Replies[method'] : ContentOf(rep)' /\ ParsedUpToIdx(rep)'
  BY DEF InParse
<1> USE DEF Assumed
<1>1. /\ pc = "read" /\ ~short /\ stream # <<>> /\ stream' = Tail(stream)
      /\ Head(stream).t = "eol" /\ cur = None /\ idx' = 1
      /\ UNCHANGED <<method, request, reply, inbox, down, described, lines>>
  BY DEF ReadBlank, Reading
<1>2. InRead
  BY DEF Sync
<1>3. NothingOwed
  BY <1>1, <1>2 DEF InRead, Waiting
<1>4. PICK rep \in Replies[method] :
        \E j \in 0 .. Len(HeaderLines(request, rep)), half \in {0, 1},
           n \in 0 .. Len(ReplyTokens(request, rep)) : Underway(rep, j, half, n)
  BY <1>1, <1>2 DEF InRead, Waiting
<1> DEFINE hdr    == HeaderLines(request, rep)
           tokens == ReplyTokens(request, rep)
<1>5. PICK j \in 0 .. Len(hdr), half \in {0, 1}, n \in 0 .. Len(tokens) :
        Underway(rep, j, half, n)
  BY <1>4
<1>6. method \in Methods /\ rep \in Reply /\ request \in Request /\ lines \in Seq(Token)
  BY HonestReply DEF TypeOK
<1>7. /\ hdr \in Seq(Token) /\ tokens \in Seq(Token)
      /\ Len(tokens) = 2 * Len(hdr) + 1 + Len(rep.content)
      /\ \A i \in 1 .. Len(rep.content) : tokens[2 * Len(hdr) + 1 + i] = rep.content[i]
      /\ Len(hdr) = Len(rep.headers) + 2
  BY <1>6, HeaderLinesAre, ReplyTokensAre
<1>8. rep.content \in Seq(Token) /\ rep.headers \in Seq(Token)
  BY <1>6 DEF Reply
<1>9. /\ n >= 2 * j + half + 1
      /\ Len(stream') = n - (2 * j + half + 1)
      /\ \A i \in 1 .. Len(stream') : stream'[i] = tokens[2 * j + half + 1 + i]
      /\ half = 0 /\ j < Len(hdr) => Head(stream) = hdr[j + 1]
  BY <1>1, <1>5, <1>6, NextToken
<1>10. /\ cur = IF half = 1 THEN hdr[j + 1] ELSE None
       /\ half = 1 => j < Len(hdr)
       /\ LastLines(j, hdr)
       /\ n = Len(tokens) \/ down
       /\ method = "DESCRIBE" /\ n = Len(tokens) => described = StreamCount(rep.content)
       /\ method = "DESCRIBE" => Len(lines) = j
  BY <1>5 DEF Underway
<1>11. j < Len(hdr) => hdr[j + 1].t \in HeaderTypes
  <2> SUFFICES ASSUME j < Len(hdr) PROVE hdr[j + 1].t \in HeaderTypes
    OBVIOUS
  <2>1. j + 1 \in 1 .. Len(hdr)
    BY <1>7
  <2> QED
    BY <1>6, <2>1, HeaderLineTypes
<1>12. half = 0 /\ j = Len(hdr)
  <2>1. half # 1
    BY <1>1, <1>10, <1>11 DEF None, HeaderTypes
  <2>2. ~(j < Len(hdr))
    BY <1>1, <1>9, <1>11, <2>1 DEF HeaderTypes
  <2>3. Len(hdr) \in Nat
    BY <1>7
  <2> QED
    BY <2>1, <2>2, <2>3
<1> DEFINE h == Len(hdr)
           c == Len(rep.content)
<1>13. h \in Nat /\ c \in Nat /\ n \in 0 .. 2 * h + 1 + c /\ h >= 2
  <2>1. h \in Nat /\ c \in Nat
    BY <1>7, <1>8, LenProperties
  <2>2. h = Len(rep.headers) + 2 /\ Len(rep.headers) \in Nat
    BY <1>7, <1>8, LenProperties
  <2>3. n \in 0 .. Len(tokens) /\ Len(tokens) = 2 * h + 1 + c
    BY <1>7
  <2> HIDE DEF h, c, tokens
  <2> QED
    BY <2>1, <2>2, <2>3
<1>14. /\ n >= 2 * h + 1
       /\ Len(stream') = n - (2 * h + 1)
       /\ \A i \in 1 .. Len(stream') : stream'[i] = tokens[2 * h + 1 + i]
  BY <1>9, <1>12
<1>15. \A i \in 1 .. c : tokens[2 * h + 1 + i] = rep.content[i]
  BY <1>7
<1>16. Len(tokens) = 2 * h + 1 + c
  BY <1>7
<1>17. LastLines(h, hdr) /\ (method = "DESCRIBE" => Len(lines) = h) /\ h <= Len(lines)
  BY <1>10, <1>12 DEF LastLines
<1> HIDE DEF hdr, tokens, h, c
<1>18. Len(stream') <= c /\ (Len(stream') = c <=> n = Len(tokens))
  BY <1>13, <1>14, <1>16
<1>19. \A i \in 1 .. Len(stream') : stream'[i] = rep.content[i]
  BY <1>13, <1>14, <1>15, <1>18
<1>20. ContentOf(rep)'
  BY <1>1, <1>10, <1>18, <1>19 DEF ContentOf, Begins, c
<1>21. ParsedUpToIdx(rep)'
  <2>1. LastLines(h, hdr)'
    BY <1>1, <1>17 DEF LastLines, h, hdr
  <2>2. ~(1 > Len(lines) - h + 2)
    BY <1>6, <1>13, <1>17
  <2>3. \A i \in 1 .. Len(lines) : ~(i < 1)
    BY <1>6
  <2> QED
    BY <1>1, <1>17, <2>1, <2>2, <2>3 DEF ParsedUpToIdx, h, hdr
<1> QED
  BY <1>1, <1>3, <1>20, <1>21 DEF NothingOwed

\* One header line parsed: what it says of the sequence number and the length.
LEMMA ParseLineEffect ==
    ASSUME TypeOK, ParseLine, pc' = "parse"
    PROVE  /\ pc = "parse" /\ idx <= Len(lines) /\ idx' = idx + 1
           /\ UNCHANGED <<method, request, lines, stream, inbox, down, described, short>>
           /\ reply'.seq = IF idx > 1 /\ lines[idx].t = "CSeq" THEN lines[idx].v
                           ELSE reply.seq
           /\ reply'.content_length =
                IF idx > 1 /\ lines[idx].t = "Content-Length" THEN lines[idx].v
                ELSE reply.content_length
<1> USE DEF Parse, Header, Value
<1>0. reply \in Message
  BY DEF TypeOK
<1>1. /\ pc = "parse" /\ idx <= Len(lines) /\ idx' = idx + 1
      /\ UNCHANGED <<method, request, lines, stream, inbox, down, described, short>>
  BY DEF ParseLine, ParseStored, ParseAuthenticate, ParsePublic, ParseEmpty,
         ParseIgnored, Parsing
<1>2. CASE ParseStored
  <2>1. idx > 1
    BY <1>2 DEF ParseStored
  <2>2. CASE lines[idx].t = "CSeq"
    <3>1. reply' = [reply EXCEPT !.seq = lines[idx].v]
      BY <1>2, <2>2 DEF ParseStored
    <3> QED
      BY <1>0, <1>1, <2>1, <2>2, <3>1 DEF Message
  <2>3. CASE lines[idx].t = "Content-Length"
    <3>1. reply' = [reply EXCEPT !.content_length = lines[idx].v]
      BY <1>2, <2>3 DEF ParseStored
    <3> QED
      BY <1>0, <1>1, <2>1, <2>3, <3>1 DEF Message
  <2>4. CASE lines[idx].t = "Session"
    <3>1. reply' = [reply EXCEPT !.session_id = lines[idx].v]
      BY <1>2, <2>4 DEF ParseStored
    <3> QED
      BY <1>0, <1>1, <2>1, <2>4, <3>1 DEF Message
  <2> QED
    BY <1>2, <2>2, <2>3, <2>4 DEF ParseStored
<1>3. CASE ParseAuthenticate \/ ParsePublic
  BY <1>1, <1>3 DEF ParseAuthenticate, ParsePublic
<1>4. CASE ParseEmpty
  BY <1>4 DEF ParseEmpty, Die
<1>5. CASE ParseIgnored
  <2>1. idx \in Nat \ {0}
    BY DEF TypeOK
  <2>2. reply' = reply
    BY <1>5 DEF ParseIgnored
  <2>3. ~(idx > 1) \/ lines[idx].t \notin {"CSeq", "Content-Length"}
    BY <1>5, <2>1 DEF ParseIgnored
  <2> QED
    BY <1>1, <2>2, <2>3
<1> QED
  BY <1>2, <1>3, <1>4, <1>5 DEF ParseLine

LEMMA ParseLineInParse == Assumed /\ ParseLine => InParse'
<1> SUFFICES ASSUME Assumed, ParseLine, ~short', pc' = "parse"
             PROVE  /\ NothingOwed'
                    /\ \E rep \in Replies[method'] : ContentOf(rep)' /\ ParsedUpToIdx(rep)'
  BY DEF InParse
<1> USE DEF Assumed
<1>1. /\ pc = "parse" /\ idx <= Len(lines) /\ idx' = idx + 1 /\ ~short
      /\ UNCHANGED <<method, request, lines, stream, inbox, down, described>>
      /\ reply'.seq = IF idx > 1 /\ lines[idx].t = "CSeq" THEN lines[idx].v
                      ELSE reply.seq
      /\ reply'.content_length =
           IF idx > 1 /\ lines[idx].t = "Content-Length" THEN lines[idx].v
           ELSE reply.content_length
  BY ParseLineEffect
<1>2. NothingOwed /\ \E rep \in Replies[method] : ContentOf(rep) /\ ParsedUpToIdx(rep)
  BY <1>1 DEF Sync, InParse
<1>3. PICK rep \in Replies[method] : ContentOf(rep) /\ ParsedUpToIdx(rep)
  BY <1>2
<1> DEFINE hdr   == HeaderLines(request, rep)
           first == Len(lines) - Len(hdr)
           k     == Len(rep.headers)
<1>4. /\ LastLines(Len(hdr), hdr)
      /\ method = "DESCRIBE" => Len(lines) = Len(hdr)
      /\ idx > first + 2 => reply.seq = request.seq
      /\ method = "DESCRIBE" =>
           \A i \in 1 .. Len(lines) :
             i < idx /\ lines[i].t = "Content-Length" =>
               reply.content_length = Len(rep.content)
  BY <1>3 DEF ParsedUpToIdx
<1>5. /\ first \in Nat /\ Len(lines) >= first + 2
      /\ lines[first + 1].t = "Status"
      /\ lines[first + 2] = [t |-> "CSeq", v |-> request.seq]
      /\ \A i \in first + 3 .. Len(lines) :
           /\ i - first - 2 \in 1 .. k
           /\ lines[i] = rep.headers[i - first - 2]
  BY <1>4, LinesOfReply
<1>6. /\ \A i \in 1 .. k :
           /\ rep.headers[i].t # "CSeq"
           /\ method = "DESCRIBE" /\ rep.headers[i].t = "Content-Length"
                => rep.headers[i].v = Len(rep.content)
      /\ idx \in Nat \ {0} /\ Len(lines) \in Nat
  BY HonestReply DEF TypeOK
<1>7. method = "DESCRIBE" => first = 0
  BY <1>4, <1>6
<1>8. LastLines(Len(hdr), hdr)'
  BY <1>1, <1>4 DEF LastLines
<1>a. method = "DESCRIBE" => Len(lines) = Len(hdr)
  BY <1>4
<1>b. ContentOf(rep)' /\ NothingOwed'
  BY <1>1, <1>2, <1>3 DEF ContentOf, Begins, NothingOwed
<1> HIDE DEF first, k
<1>9. idx + 1 > first + 2 => reply'.seq = request.seq
  <2> SUFFICES ASSUME idx + 1 > first + 2 PROVE reply'.seq = request.seq
    OBVIOUS
  <2>1. CASE idx = first + 2
    BY <1>1, <1>5, <2>1
  <2>2. CASE idx # first + 2
    <3>1. idx \in first + 3 .. Len(lines) /\ idx > first + 2
      BY <1>1, <1>5, <1>6, <2>2
    <3>2. lines[idx].t # "CSeq"
      BY <1>5, <1>6, <3>1
    <3> QED
      BY <1>1, <1>4, <3>1, <3>2
  <2> QED
    BY <2>1, <2>2
<1>10. ASSUME method = "DESCRIBE", NEW i \in 1 .. Len(lines), i < idx + 1,
              lines[i].t = "Content-Length"
       PROVE  reply'.content_length = Len(rep.content)
  <2>1. CASE lines[idx].t = "Content-Length"
    <3>1. idx \in 1 .. Len(lines) /\ idx # 1 /\ idx # 2
      BY <1>1, <1>5, <1>6, <1>7, <1>10, <2>1
    <3>2. idx \in first + 3 .. Len(lines) /\ idx > 1
      BY <1>6, <1>7, <1>10, <3>1
    <3>3. idx - first - 2 \in 1 .. k /\ lines[idx] = rep.headers[idx - first - 2]
      BY <1>5, <3>2
    <3>4. lines[idx].v = Len(rep.content)
      BY <1>6, <1>10, <2>1, <3>3
    <3> QED
      BY <1>1, <2>1, <3>2, <3>4
  <2>2. CASE lines[idx].t # "Content-Length"
    <3>1. i < idx
      BY <1>6, <1>10, <2>2
    <3> QED
      BY <1>1, <1>4, <1>10, <2>2, <3>1
  <2> QED
    BY <2>1, <2>2
<1>11. ParsedUpToIdx(rep)'
  <2>1. idx' > Len(lines') - Len(hdr) + 2 => reply'.seq = request'.seq
    BY <1>1, <1>9 DEF first
  <2> HIDE DEF hdr
  <2>2. method' = "DESCRIBE" => Len(lines') = Len(hdr)
    BY <1>1, <1>a
  <2>3. method' = "DESCRIBE" =>
          \A i \in 1 .. Len(lines') :
            i < idx' /\ lines'[i].t = "Content-Length" =>
              reply'.content_length = Len(rep.content)
    BY <1>1, <1>10
  <2> QED
    BY <1>1, <1>8, <2>1, <2>2, <2>3 DEF ParsedUpToIdx, hdr
<1> QED
  BY <1>1, <1>b, <1>11

LEMMA NextInParse == Assumed => InParse'
<1> SUFFICES ASSUME Assumed, ~short', pc' = "parse" PROVE InParse'
  BY DEF InParse
<1> USE DEF Assumed
<1>0. InParse
  BY DEF Sync
<1>1. CASE Connect \/ Encode \/ SendFails \/ ReadDown \/ ReadLong \/ RecvNothing
  BY <1>1 DEF Connect, Encode, SendFails, ReadDown, ReadLong, RecvNothing, Reading, Fail, Die
<1>2. CASE SendPart \/ ReadText \/ ReadLine
  BY <1>2 DEF SendPart, ReadText, ReadLine, Reading
<1>3. CASE ReadBlank
  BY <1>3, ReadBlankInParse
<1>4. CASE ParseLine
  BY <1>4, ParseLineInParse
<1>5. CASE ReplyDone \/ RecvContent \/ SdpParsed \/ SdpRejected \/ SetupStream \/ SetupDone
  BY <1>5 DEF ReplyDone, RecvContent, SdpParsed, SdpRejected, SetupStream, SetupDone,
              Enter, Fail, Die
<1>6. CASE SdpLine
  BY <1>6 DEF SdpLine
<1>7. CASE ServerReply
  <2>1. pc = "parse" /\ ~short
    BY <1>7 DEF ServerReply
  <2> QED
    BY <1>7, <2>1, NoReplyWhileParsing DEF InCall
<1>8. CASE ServerDies
  <2>1. pc = "parse" /\ ~short /\ UNCHANGED <<method, request, lines, idx, reply>>
    BY <1>8 DEF ServerDies
  <2>2. PICK rep \in Replies[method] : ContentOf(rep) /\ ParsedUpToIdx(rep)
    BY <1>0, <2>1 DEF InParse
  <2>3. NothingOwed' /\ ContentOf(rep)'
    BY <1>8, <2>1, <2>2, DyingContent
  <2>4. ParsedUpToIdx(rep)'
    BY <2>1, <2>2 DEF ParsedUpToIdx, LastLines
  <2> QED
    BY <2>1, <2>3, <2>4 DEF InParse
<1>9. CASE ConnectRefused
  BY <1>9 DEF ConnectRefused
<1>10. CASE UNCHANGED vars
  <2>1. UNCHANGED <<pc, short, stream, inbox, down, method, lines, request, described, idx, reply>>
    BY <1>10
  <2>2. PICK rep \in Replies[method] : ContentOf(rep) /\ ParsedUpToIdx(rep)
    BY <1>0, <2>1 DEF InParse
  <2>3. ContentOf(rep)' /\ ParsedUpToIdx(rep)'
    BY <2>1, <2>2 DEF ContentOf, Begins, ParsedUpToIdx, LastLines
  <2>4. NothingOwed'
    BY <1>0, <2>1 DEF InParse, NothingOwed
  <2> QED
    BY <2>1, <2>3, <2>4 DEF InParse
<1> QED
  BY <1>1, <1>2, <1>3, <1>4, <1>5, <1>6, <1>7, <1>8, <1>9, <1>10 DEF Next, Client

LEMMA ReplyDoneInContent == Assumed /\ ReplyDone => InContent'
<1> SUFFICES ASSUME Assumed, ReplyDone, ~short', pc' = "content"
             PROVE  /\ NothingOwed'
                    /\ \E rep \in Replies["DESCRIBE"] :
                         ContentOf(rep)' /\ reply'.content_length = Len(rep.content)
  BY DEF InContent
<1> USE DEF Assumed
<1>1. /\ pc = "parse" /\ idx > Len(lines) /\ method = "DESCRIBE" /\ ~short
      /\ UNCHANGED <<method, reply, lines, stream, inbox, down, described>>
  BY DEF ReplyDone, Enter, Fail
<1>2. NothingOwed /\ \E rep \in Replies[method] : ContentOf(rep) /\ ParsedUpToIdx(rep)
  BY <1>1 DEF Sync, InParse
<1>3. PICK rep \in Replies[method] : ContentOf(rep) /\ ParsedUpToIdx(rep)
  BY <1>2
<1> DEFINE first == Len(lines) - Len(HeaderLines(request, rep))
<1>4. /\ LastLines(Len(HeaderLines(request, rep)), HeaderLines(request, rep))
      /\ \A i \in 1 .. Len(lines) :
           i < idx /\ lines[i].t = "Content-Length" =>
             reply.content_length = Len(rep.content)
  BY <1>1, <1>3 DEF ParsedUpToIdx
<1>5. /\ first \in Nat
      /\ \A i \in 1 .. Len(rep.headers) :
           /\ first + 2 + i \in first + 3 .. Len(lines)
           /\ lines[first + 2 + i] = rep.headers[i]
  BY <1>4, LinesOfReply
<1>6. PICK i \in 1 .. Len(rep.headers) : rep.headers[i].t = "Content-Length"
  BY <1>1, HonestReply
<1> HIDE DEF first
<1>7. Len(lines) \in Nat /\ idx \in Nat
  BY DEF TypeOK
<1>8. first + 2 + i \in 1 .. Len(lines) /\ first + 2 + i < idx
  BY <1>1, <1>5, <1>7
<1>9. reply.content_length = Len(rep.content)
  BY <1>4, <1>5, <1>6, <1>8
<1>10. ContentOf(rep)' /\ NothingOwed'
  BY <1>1, <1>2, <1>3 DEF ContentOf, Begins, NothingOwed
<1> QED
  BY <1>1, <1>9, <1>10

LEMMA NextInContent == Assumed => InContent'
<1> SUFFICES ASSUME Assumed, ~short', pc' = "content" PROVE InContent'
  BY DEF InContent
<1> USE DEF Assumed
<1>0. InContent
  BY DEF Sync
<1>1. CASE Connect \/ Encode \/ SendFails \/ ReadDown \/ ReadLong \/ RecvNothing
  BY <1>1 DEF Connect, Encode, SendFails, ReadDown, ReadLong, RecvNothing, Reading, Fail, Die
<1>2. CASE SendPart \/ ReadText \/ ReadLine \/ ReadBlank
  BY <1>2 DEF SendPart, ReadText, ReadLine, ReadBlank, Reading
<1>3. CASE ParseLine
  BY <1>3 DEF ParseLine, ParseStored, ParseAuthenticate, ParsePublic, ParseEmpty,
              ParseIgnored, Parse, Parsing, Die
<1>4. CASE ReplyDone
  BY <1>4, ReplyDoneInContent
<1>5. CASE RecvContent \/ SdpParsed \/ SdpRejected \/ SetupStream \/ SetupDone
  BY <1>5 DEF RecvContent, SdpParsed, SdpRejected, SetupStream, SetupDone, Enter, Die
<1>6. CASE SdpLine
  BY <1>6 DEF SdpLine
<1>7. CASE ServerReply
  <2>1. pc = "content" /\ ~short
    BY <1>7 DEF ServerReply
  <2> QED
    BY <1>7, <2>1, NoReplyWhileParsing DEF InCall
<1>8. CASE ServerDies
  <2>1. pc = "content" /\ ~short /\ method = "DESCRIBE" /\ UNCHANGED <<method, reply>>
    BY <1>8 DEF ServerDies, Phases, Describing
  <2>2. PICK rep \in Replies["DESCRIBE"] :
          ContentOf(rep) /\ reply.content_length = Len(rep.content)
    BY <1>0, <2>1 DEF InContent
  <2>3. NothingOwed' /\ ContentOf(rep)'
    BY <1>8, <2>1, <2>2, DyingContent
  <2> QED
    BY <2>1, <2>2, <2>3 DEF InContent
<1>9. CASE ConnectRefused
  BY <1>9 DEF ConnectRefused
<1>10. CASE UNCHANGED vars
  <2>1. UNCHANGED <<pc, short, stream, inbox, down, method, described, reply>>
    BY <1>10
  <2>2. PICK rep \in Replies["DESCRIBE"] :
          ContentOf(rep) /\ reply.content_length = Len(rep.content)
    BY <1>0, <2>1 DEF InContent
  <2>3. ContentOf(rep)' /\ NothingOwed'
    BY <1>0, <2>1, <2>2 DEF InContent, ContentOf, Begins, NothingOwed
  <2> QED
    BY <2>1, <2>2, <2>3 DEF InContent
<1> QED
  BY <1>1, <1>2, <1>3, <1>4, <1>5, <1>6, <1>7, <1>8, <1>9, <1>10 DEF Next, Client

-------------------------------------------------------------------------------
LEMMA InitSync == Init => Sync
<1> SUFFICES ASSUME Init PROVE Sync
  OBVIOUS
<1> USE DEF Init
<1>1. InRead /\ InParse /\ InContent /\ Between /\ InDescription
  BY DEF InRead, InParse, InContent, Between, InDescription
<1>2. InSetup /\ Early /\ Late
  BY DEF InSetup, InCall, Early, Late
<1>3. NoEmptyHeader /\ DeathExplained
  BY DEF NoEmptyHeader, DeathExplained, None
<1> QED
  BY <1>1, <1>2, <1>3 DEF Sync

LEMMA NextSync ==
    Honest(Replies) /\ TypeOK /\ Phases /\ Sync /\ [Next]_vars => Sync'
<1> SUFFICES ASSUME Assumed PROVE Sync'
  BY DEF Assumed
<1> QED
  BY NextInRead, NextInParse, NextInContent, NextBetween, NextInDescription,
     NextInSetup, NextEarly, NextLate, NextNoEmptyHeader, NextDeathExplained DEF Sync

\* With a server that keeps to Honest, Sync holds in every state: whatever it
\* replies, however the bytes are cut up and whenever it goes away.
THEOREM Synchronised == ASSUME Honest(Replies) PROVE Spec => [](Phases /\ Sync)
<1>1. Init => Phases
  BY DEF Init, Phases, Preparing, Sending, Answering, Describing, SettingUp
<1>2. Init => Sync
  BY InitSync
<1>3. TypeOK /\ Phases /\ [Next]_vars => Phases'
  BY NextPhases
<1>4. TypeOK /\ Phases /\ Sync /\ [Next]_vars => Sync'
  BY NextSync
<1> QED
  BY <1>1, <1>2, <1>3, <1>4, TypeCorrect, PTL DEF Spec

\* Requests and replies stay paired: the message parsed after a request is the
\* reply to that very request, although rtsp_client.cpp compares no CSeq.
THEOREM RepliesArePaired == ASSUME Honest(Replies) PROVE Spec => []PairedReply
<1>1. ASSUME Sync, TypeOK, Parsed, ~short PROVE reply.seq = request.seq
  <2>1. PICK rep \in Replies[method] : ParsedUpToIdx(rep)
    BY <1>1 DEF Parsed, Sync, InParse
  <2>2. /\ LastLines(Len(HeaderLines(request, rep)), HeaderLines(request, rep))
        /\ idx > Len(lines) - Len(HeaderLines(request, rep)) + 2 => reply.seq = request.seq
    BY <2>1 DEF ParsedUpToIdx
  <2>3. /\ Len(lines) - Len(HeaderLines(request, rep)) \in Nat
        /\ Len(lines) >= Len(lines) - Len(HeaderLines(request, rep)) + 2
    BY <1>1, <2>2, LinesOfReply
  <2> QED
    BY <1>1, <2>2, <2>3 DEF Parsed, TypeOK
<1>2. Sync /\ TypeOK => PairedReply
  BY <1>1 DEF PairedReply
<1> QED
  BY <1>2, Synchronised, TypeCorrect, PTL

\* The socket carries one exchange at a time: a second request is never sent
\* before the reply to the first one has been read to its last byte.
THEOREM OneExchangeAtATime == ASSUME Honest(Replies) PROVE Spec => []LockStep
<1>1. TypeOK /\ Phases /\ Sync => LockStep
  <2> SUFFICES ASSUME TypeOK, Phases, Sync, InCall, ~down, ~short, inbox # <<>>
               PROVE  Len(inbox) <= 1 /\ stream = <<>>
    BY DEF LockStep
  <2>1. inbox = <<request>> /\ stream = <<>>
    BY OnlyWaiting DEF Waiting
  <2> QED
    BY <2>1
<1> QED
  BY <1>1, Synchronised, TypeCorrect, PTL

\* PLAY is sent only when every stream of the description the server sent has
\* been set up: sdp_parser finds them all, and rtsp_send_setup skips none.
THEOREM EveryStreamIsSetUp == ASSUME Honest(Replies) PROVE Spec => []AllStreamsSetUp
<1>1. TypeOK /\ Phases /\ Sync => AllStreamsSetUp
  <2> SUFFICES ASSUME TypeOK, Phases, Sync, InCall, issued = "PLAY", ~short
               PROVE  setups = described
    BY DEF AllStreamsSetUp
  <2>1. pc \in {"read", "parse"} /\ method = "PLAY"
    BY DEF TypeOK, InCall, Phases, Preparing, Answering, Describing, SettingUp
  <2> QED
    BY <2>1 DEF Sync, Late, InSetup
<1> QED
  BY <1>1, Synchronised, TypeCorrect, PTL

\* Such a server never brings the process down: what ends it is SIGPIPE, or a
\* description that the single recv() of the content has cut off.
THEOREM DeathIsExplained == ASSUME Honest(Replies) PROVE Spec => []DeathExplained
<1>1. Sync => DeathExplained
  BY DEF Sync
<1> QED
  BY <1>1, Synchronised, PTL

\* Client and server never wait for each other, neither for a reply nor for
\* its content.
THEOREM NeverBothWait == ASSUME Honest(Replies) PROVE Spec => []NoMutualWait
<1>1. TypeOK /\ Phases /\ Sync /\ ReadAwaitsAnswer => NoMutualWait
  <2> SUFFICES ASSUME TypeOK, Phases, Sync, pc = "content", stream = <<>>, ~down
               PROVE  FALSE
    BY DEF NoMutualWait, ReadAwaitsAnswer
  <2>1. ~short
    BY DEF Sync, Early, Phases, Describing
  <2>2. PICK rep \in Replies["DESCRIBE"] : Len(stream) = Len(rep.content)
    BY <2>1 DEF Sync, InContent, ContentOf
  <2>3. Description(rep.content) /\ rep.content \in Seq(Token)
    BY HonestReply DEF Reply
  <2> QED
    BY <2>2, <2>3 DEF Description
<1> QED
  BY <1>1, Synchronised, TypeCorrect, ReadNeverWaitsInVain, PTL
===============================================================================
