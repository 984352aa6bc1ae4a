------------------------------- MODULE HttpAuth -------------------------------
(***************************************************************************)
(* HTTP authentication of RTSP requests: http_auth_handle_header of        *)
(* src/rtsp/parse.cpp keeps what a server asks for in ctx->auth_state, and *)
(* http_auth_create_response of src/rtsp/http_auth.cpp answers with the    *)
(* next request.  The server is the environment: it challenges, or hands   *)
(* out a new nonce, in any reply it likes.                                 *)
(*                                                                         *)
(* A value between quotes is a sequence of characters; realm and nonce are *)
(* the buffers of HTTPAuthState, one behind the other, 0 being the         *)
(* character that ends a C string.  What runs out of the nonce is lost to  *)
(* the model.  What Base64 and MD5 make of the values is left out: a       *)
(* response shows which values went into it.                               *)
(***************************************************************************)
EXTENDS Integers, Sequences, FiniteSets

CONSTANTS
    Values,         \* realms and nonces the servers use
    RealmSize,      \* characters there is room for
    NonceSize,
    MaxLines,       \* lines about authentication in one reply
    MaxReplies      \* bound: replies read on one connection

\* The character str_split cuts the header at, quoted or not.
Comma == 44

\* What an application may put into ctx->auth, which is empty before.
Credentials == {"name", "name:password"}
NoAuth == ""

ASSUME ValuesAssumption ==
    /\ RealmSize \in Nat /\ NonceSize \in Nat
    /\ Values \subseteq Seq(Nat \ {0})

ASSUME BoundsAssumption ==
    /\ MaxLines \in Nat
    /\ MaxReplies \in Nat

\* HTTPAuthType, from weak to strong.
NONE   == 0
BASIC  == 1
DIGEST == 2

\* A header line: a challenge with its scheme, or Authentication-Info, which
\* has a nonce only.  A scheme the code does not know counts as "other".
Lines ==
    [kind : {"Basic"}, realm : Values]
      \cup [kind : {"Digest"}, realm : Values, nonce : Values]
      \cup [kind : {"Info"}, nonce : Values]
      \cup {[kind |-> "other"]}

VARIABLES
    auth,           \* ctx->auth
    auth_type, realm, nonce,    \* ctx->auth_state
    lines,          \* lines of the reply not parsed yet
    turn,           \* who goes on: the "client" or the "server"
    response,       \* the Authorization created for the last request
    replies,        \* replies of this connection
    \* ---- history, since ctx was cleared
    offered,        \* schemes the server has offered
    given,          \* realm and nonce the server gave last for Digest
    longest         \* how far each buffer has been written

state == <<auth_type, realm, nonce>>
vars  == <<auth, state, lines, turn, response, replies, offered, given, longest>>

Buffer(size) == [1 .. size -> Nat]

\* clean: the response starts where the buffer for it starts.
Response == [scheme : NONE .. DIGEST, realm : Buffer(RealmSize),
             nonce : Buffer(NonceSize), clean : BOOLEAN]

TypeOK ==
    /\ auth \in Credentials \cup {NoAuth}
    /\ auth_type \in NONE .. DIGEST
    /\ realm \in Buffer(RealmSize)
    /\ nonce \in Buffer(NonceSize)
    /\ lines \in Seq(Lines)
    /\ turn \in {"client", "server"}
    /\ response \in Response
    /\ replies \in 0 .. MaxReplies
    /\ offered \in SUBSET (NONE .. DIGEST)
    /\ given \in [realm : Values \cup {<<>>}, nonce : Values \cup {<<>>}]
    /\ longest \in [realm : Nat, nonce : Nat]

-------------------------------------------------------------------------------
Zeros(size) == [i \in 1 .. size |-> 0]

\* The part of s before the first c.
Before(s, c) ==
    SubSeq(s, 1, Cardinality({i \in 1 .. Len(s) : \A j \in 1 .. i : s[j] # c}))

\* Seeded faults: the value is appended; its last character is not copied.
OverlayAppended(buf, s) == Before(buf, 0) \o s

OverlayShort(buf, s) == [i \in DOMAIN buf |-> IF i < Len(s) THEN s[i] ELSE buf[i]]

\* strncpy(buf, s, s.length()): no terminating character is written.  What of
\* it stays in the buffer.
Overlay(buf, s) == [i \in DOMAIN buf |-> IF i <= Len(s) THEN s[i] ELSE buf[i]]

\* What of a realm runs on into the nonce: nothing bounds the copy.
Beyond(s) == SubSeq(s, RealmSize + 1, Len(s))

\* The value as the split at commas leaves it.
Piece(v) == Before(v, Comma)

\* How far a buffer written up to n is written once s is copied into it.
Reach(n, s) == IF Len(s) > n THEN Len(s) ELSE n

\* memset(ctx, 0), as connect() and the tests begin.
Init ==
    /\ auth = NoAuth
    /\ auth_type = NONE
    /\ realm = Zeros(RealmSize)
    /\ nonce = Zeros(NonceSize)
    /\ lines = <<>>
    /\ turn = "client"
    /\ response = [scheme |-> NONE, realm |-> Zeros(RealmSize),
                   nonce |-> Zeros(NonceSize), clean |-> TRUE]
    /\ replies = 0
    /\ offered = {}
    /\ given = [realm |-> <<>>, nonce |-> <<>>]
    /\ longest = [realm |-> 0, nonce |-> 0]

\* connect() on the same object: the context is cleared, credentials included.
Reconnect ==
    /\ turn = "client"
    /\ lines = <<>>
    /\ auth' = NoAuth
    /\ auth_type' = NONE
    /\ realm' = Zeros(RealmSize)
    /\ nonce' = Zeros(NonceSize)
    /\ replies' = 0
    /\ offered' = {}
    /\ given' = [realm |-> <<>>, nonce |-> <<>>]
    /\ longest' = [realm |-> 0, nonce |-> 0]
    /\ UNCHANGED <<lines, turn, response>>

\* The application provides its credentials, as the tests do.
SetAuth ==
    /\ turn = "client"
    /\ lines = <<>>
    /\ \E c \in Credentials : auth' = c
    /\ UNCHANGED <<state, lines, turn, response, replies, offered, given, longest>>

-------------------------------------------------------------------------------
(* http_auth_create_response *)

\* What is written: nothing for NONE, nor for Digest without a password.
Written == IF auth_type = DIGEST /\ auth = "name" THEN NONE ELSE auth_type

\* rtsp_method_encode asks for a response only if there are credentials.  The
\* 512 bytes the response is put together in are not cleared, and every
\* snprint_lcatf appends behind what it takes for a string.
SendRequest ==
    /\ turn = "client"
    /\ lines = <<>>
    /\ replies < MaxReplies
    /\ \E clean \in (IF auth = NoAuth THEN {TRUE} ELSE BOOLEAN) :
         response' =
           [scheme |-> IF auth = NoAuth THEN NONE ELSE Written,
            realm  |-> realm,
            nonce  |-> nonce,
            clean  |-> clean]
    /\ turn' = "server"
    /\ UNCHANGED <<auth, state, lines, replies, offered, given, longest>>

\* The server replies, with lines about authentication or without.
ServerReply ==
    /\ turn = "server"
    /\ \E n \in 0 .. MaxLines : lines' \in [1 .. n -> Lines]
    /\ replies' = replies + 1
    /\ turn' = "client"
    /\ UNCHANGED <<auth, state, response, offered, given, longest>>

-------------------------------------------------------------------------------
(* http_auth_handle_header, on one line of the reply *)
Handle(kind) ==
    /\ turn = "client"
    /\ lines # <<>>
    /\ Head(lines).kind = kind
    /\ lines' = Tail(lines)
    /\ UNCHANGED <<auth, turn, response, replies>>

\* Seeded fault: a Basic challenge is taken whatever came before it.
BasicWelcomeAlways == TRUE

\* A weaker scheme does not replace a stronger one.
BasicWelcome == auth_type <= BASIC

HandleBasic ==
    LET r == Piece(Head(lines).realm)
    IN /\ Handle("Basic")
       /\ IF BasicWelcome
            THEN /\ auth_type' = BASIC
                 /\ realm' = Overlay(realm, r)
                 /\ nonce' = Overlay(nonce, Beyond(r))
                 /\ longest' = [realm |-> Reach(longest.realm, r),
                                nonce |-> Reach(longest.nonce, Beyond(r))]
            ELSE UNCHANGED <<state, longest>>
       /\ offered' = offered \cup {BASIC}
       /\ UNCHANGED given

\* auth_type <= HTTP_AUTH_DIGEST always holds.  Realm and nonce stand in the
\* line in either order.
HandleDigest ==
    LET r == Piece(Head(lines).realm)
        n == Piece(Head(lines).nonce)
    IN /\ Handle("Digest")
       /\ auth_type' = DIGEST
       /\ realm' = Overlay(realm, r)
       /\ \/ nonce' = Overlay(Overlay(nonce, Beyond(r)), n)
          \/ nonce' = Overlay(Overlay(nonce, n), Beyond(r))
       /\ offered' = offered \cup {DIGEST}
       /\ given' = [realm |-> Head(lines).realm, nonce |-> Head(lines).nonce]
       /\ longest' = [realm |-> Reach(longest.realm, r),
                      nonce |-> Reach(Reach(longest.nonce, Beyond(r)), n)]

\* Seeded fault: nextnonce is not looked at.
HandleInfoIgnored ==
    /\ Handle("Info")
    /\ given' = [given EXCEPT !.nonce = Head(lines).nonce]
    /\ longest' = [longest EXCEPT !.nonce = Reach(@, Piece(Head(lines).nonce))]
    /\ UNCHANGED <<state, offered>>

\* Authentication-Info: nextnonce.
HandleInfo ==
    /\ Handle("Info")
    /\ nonce' = Overlay(nonce, Piece(Head(lines).nonce))
    /\ given' = [given EXCEPT !.nonce = Head(lines).nonce]
    /\ longest' = [longest EXCEPT !.nonce = Reach(@, Piece(Head(lines).nonce))]
    /\ UNCHANGED <<auth_type, realm, offered>>

HandleOther ==
    /\ Handle("other")
    /\ UNCHANGED <<state, offered, given, longest>>

Next ==
    \/ Reconnect
    \/ SetAuth
    \/ SendRequest
    \/ ServerReply
    \/ HandleBasic
    \/ HandleDigest
    \/ HandleInfo
    \/ HandleOther

Spec == Init /\ [][Next]_vars

-------------------------------------------------------------------------------
\* A buffer read as a C string, as far as the buffer goes.
CString(buf) == Before(buf, 0)

\* Whatever order the challenges come in, and whatever comes between them, the
\* scheme in force is the strongest the server has offered since the context
\* was cleared ("由弱到强", http_auth.h:14).
StrongestScheme ==
    /\ auth_type \in offered \cup {NONE}
    /\ \A scheme \in offered : scheme <= auth_type

\* Overwriting in place leaves the latest value in front: under Digest the
\* buffers begin with what the server gave last, whatever came earlier, if that
\* fits them (http_auth_handle_header).
Leads(buf, v) == \A i \in 1 .. Len(v) : buf[i] = v[i]

LatestLeads ==
    auth_type = DIGEST /\ Len(given.realm) <= RealmSize =>
        /\ Leads(realm, Piece(given.realm))
        /\ Len(given.nonce) <= NonceSize => Leads(nonce, Piece(given.nonce))

\* A value that can be read back: not cut at a comma, with room for the end of
\* the string, and at least as long as anything copied to the same place before,
\* as with servers whose realms and nonces all have one length.
Readable(v, n, size) ==
    /\ n <= Len(v) /\ Len(v) < size
    /\ \A i \in 1 .. Len(v) : v[i] # Comma

\* A Digest request in the server's hands was made from the very realm and
\* nonce it gave last, through challenges of both schemes, new nonces, new
\* connections and realms that ran into the nonce before, as far as those it
\* gave last can be read back.
AnswersLatest ==
    turn = "server" /\ response.scheme = DIGEST /\ Len(given.realm) <= RealmSize =>
        /\ Readable(given.realm, longest.realm, RealmSize)
             => CString(response.realm) = given.realm
        /\ Readable(given.nonce, longest.nonce, NonceSize)
             => CString(response.nonce) = given.nonce

-------------------------------------------------------------------------------
(* What the tests of the repository expect. *)

\* Realm and nonce read back as the header gave them
\* (test/test_rtsp_parse/main.cpp:21-22).
ReadsBack ==
    auth_type = DIGEST => /\ CString(realm) = given.realm
                          /\ CString(nonce) = given.nonce

\* Nothing but the Authorization line is added to a request
\* (test/test_rtsp/main.cpp:20-36).
NothingElse == response.clean
===============================================================================
