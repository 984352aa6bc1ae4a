---------------------------- MODULE HttpAuthProofs ----------------------------
(***************************************************************************)
(* Proofs about HttpAuth, for every set of values a server may use, every  *)
(* size of the two buffers, and any number of challenges.                  *)
(***************************************************************************)
EXTENDS HttpAuth, FiniteSetTheorems, TLAPS

USE DEF NONE, BASIC, DIGEST

\* The part before a character is a string of the same characters.
LEMMA BeforeType ==
    ASSUME NEW s \in Seq(Nat), NEW c
    PROVE  /\ Before(s, c) \in Seq(Nat)
           /\ Len(Before(s, c)) <= Len(s)
           /\ \A i \in 1 .. Len(Before(s, c)) : Before(s, c)[i] = s[i]
<1> DEFINE S == {i \in 1 .. Len(s) : \A j \in 1 .. i : s[j] # c}
           n == Cardinality(S)
<1>1. /\ IsFiniteSet(1 .. Len(s))
      /\ Cardinality(1 .. Len(s)) = Len(s)
  <2>1. Len(s) \in Nat
    OBVIOUS
  <2>2. ASSUME NEW k \in Nat
        PROVE  IsFiniteSet(1 .. k) /\ Cardinality(1 .. k) = k
    BY FS_Interval
  <2> QED
    BY <2>1, <2>2
<1>2. S \in SUBSET (1 .. Len(s))
  OBVIOUS
<1>3. IsFiniteSet(S) /\ n <= Len(s)
  <2> HIDE DEF S
  <2> QED
    BY <1>1, <1>2, FS_Subset
<1>4. n \in Nat
  <2> HIDE DEF S
  <2> QED
    BY <1>3, FS_CardinalityType
<1>5. Before(s, c) = SubSeq(s, 1, n)
  BY DEF Before
<1> HIDE DEF n
<1>6. /\ SubSeq(s, 1, n) \in Seq(Nat)
      /\ Len(SubSeq(s, 1, n)) = n
      /\ \A i \in 1 .. n : SubSeq(s, 1, n)[i] = s[i]
  BY <1>3, <1>4
<1> QED
  BY <1>3, <1>5, <1>6

\* If c comes first at position n + 1, the part before it has n characters.
LEMMA BeforeLength ==
    ASSUME NEW s \in Seq(Nat), NEW c, NEW n \in 0 .. Len(s),
           \A i \in 1 .. n : s[i] # c,
           n < Len(s) => s[n + 1] = c
    PROVE  /\ Len(Before(s, c)) = n
           /\ Before(s, c) = SubSeq(s, 1, n)
<1>1. {i \in 1 .. Len(s) : \A j \in 1 .. i : s[j] # c} = 1 .. n
  <2>1. ASSUME NEW i \in 1 .. Len(s), \A j \in 1 .. i : s[j] # c
        PROVE  i <= n
    <3>1. CASE n + 1 <= i
      <4>1. n + 1 \in 1 .. i /\ n < Len(s)
        BY <3>1
      <4> QED
        BY <2>1, <4>1
    <3> QED
      BY <3>1
  <2> QED
    BY <2>1
<1>2. Cardinality(1 .. n) = n
  BY FS_Interval
<1>3. Before(s, c) = SubSeq(s, 1, n)
  BY <1>1, <1>2, Zenon DEF Before
<1>4. Len(SubSeq(s, 1, n)) = n
  OBVIOUS
<1> QED
  BY <1>3, <1>4

LEMMA ValueType ==
    ASSUME NEW v \in Values
    PROVE  /\ v \in Seq(Nat)
           /\ Piece(v) \in Seq(Nat)
           /\ Len(Piece(v)) <= Len(v)
<1>1. v \in Seq(Nat \ {0})
  BY ValuesAssumption
<1>2. v \in Seq(Nat)
  BY <1>1
<1> QED
  BY <1>2, BeforeType DEF Piece

LEMMA OverlayType ==
    ASSUME NEW size \in Nat, NEW buf \in Buffer(size), NEW s \in Seq(Nat)
    PROVE  Overlay(buf, s) \in Buffer(size)
BY DEF Overlay, Buffer

\* What runs out of the realm is a string, and none if the realm fits.
LEMMA BeyondType ==
    ASSUME NEW s \in Seq(Nat)
    PROVE  /\ Beyond(s) \in Seq(Nat)
           /\ Len(s) <= RealmSize => Len(Beyond(s)) = 0
<1>1. RealmSize \in Nat
  BY ValuesAssumption
<1> QED
  BY <1>1 DEF Beyond

LEMMA ReachType ==
    ASSUME NEW n \in Nat, NEW s \in Seq(Nat)
    PROVE  Reach(n, s) \in Nat
BY DEF Reach

LEMMA ZerosType == \A size : Zeros(size) \in Buffer(size)
BY DEF Zeros, Buffer

-------------------------------------------------------------------------------
\* What the next line to be parsed is.
LEMMA NextLine ==
    ASSUME TypeOK, NEW kind, Handle(kind)
    PROVE  /\ Head(lines) \in Lines
           /\ Tail(lines) \in Seq(Lines)
           /\ kind = "Basic" => Head(lines).realm \in Values
           /\ kind = "Digest" => /\ Head(lines).realm \in Values
                                 /\ Head(lines).nonce \in Values
           /\ kind = "Info" => Head(lines).nonce \in Values
<1>1. lines \in Seq(Lines) /\ lines # <<>>
  BY DEF TypeOK, Handle
<1>2. Head(lines) \in Lines /\ Tail(lines) \in Seq(Lines)
  BY <1>1
<1>3. Head(lines).kind = kind
  BY DEF Handle
<1> HIDE DEF Handle, TypeOK
<1> QED
  BY <1>2, <1>3 DEF Lines

\* The response made of the state is of its type.
LEMMA ResponseType ==
    ASSUME TypeOK, SendRequest
    PROVE  response' \in Response
<1>1. PICK clean \in BOOLEAN :
         response' = [scheme |-> IF auth = NoAuth THEN NONE ELSE Written,
                      realm  |-> realm,
                      nonce  |-> nonce,
                      clean  |-> clean]
  BY DEF SendRequest
<1>2. Written \in NONE .. DIGEST
  BY DEF TypeOK, Written
<1>4. realm \in Buffer(RealmSize) /\ nonce \in Buffer(NonceSize)
  BY DEF TypeOK
<1> HIDE DEF TypeOK, SendRequest
<1> QED
  BY <1>1, <1>2, <1>4 DEF Response

-------------------------------------------------------------------------------
\* The bound on replies is checked before the request that asks for one.
TypeInv == TypeOK /\ (turn = "server" => replies < MaxReplies)

LEMMA TypeInit == Init => TypeInv
<1> SUFFICES ASSUME Init PROVE TypeInv
  OBVIOUS
<1>1. lines \in Seq(Lines)
  BY DEF Init
<1>2. response \in Response
  BY ZerosType DEF Init, Response
<1>3. replies \in 0 .. MaxReplies
  BY BoundsAssumption DEF Init
<1>4. turn = "client"
  BY DEF Init
<1> QED
  BY <1>1, <1>2, <1>3, <1>4, ZerosType DEF Init, TypeOK, TypeInv

LEMMA TypeNext == TypeInv /\ [Next]_vars => TypeInv'
<1> SUFFICES ASSUME TypeInv, [Next]_vars PROVE TypeInv'
  OBVIOUS
<1> USE DEF TypeInv
<1>1. CASE UNCHANGED vars
  BY <1>1 DEF TypeOK, vars, state
<1>2. CASE Reconnect
  <2>1. replies' \in 0 .. MaxReplies /\ turn' = "client"
    BY <1>2, BoundsAssumption DEF Reconnect
  <2> QED
    BY <1>2, <2>1, ZerosType DEF TypeOK, Reconnect
<1>3. CASE SetAuth
  BY <1>3 DEF TypeOK, SetAuth, state
<1>4. CASE SendRequest
  <2>1. response' \in Response
    BY <1>4, ResponseType
  <2>2. replies' < MaxReplies
    BY <1>4 DEF SendRequest
  <2> QED
    BY <1>4, <2>1, <2>2 DEF TypeOK, SendRequest, state
<1>5. CASE ServerReply
  <2>1. lines' \in Seq(Lines)
    <3>1. PICK n \in 0 .. MaxLines : lines' \in [1 .. n -> Lines]
      BY <1>5 DEF ServerReply
    <3>2. n \in Nat
      BY <3>1, BoundsAssumption
    <3> QED
      BY <3>1, <3>2
  <2>2. replies' \in 0 .. MaxReplies
    BY <1>5, BoundsAssumption DEF TypeOK, ServerReply
  <2>3. turn' = "client"
    BY <1>5 DEF ServerReply
  <2> QED
    BY <1>5, <2>1, <2>2, <2>3 DEF TypeOK, ServerReply, state
<1>6. CASE HandleBasic
  <2> DEFINE r == Piece(Head(lines).realm)
  <2>1. Handle("Basic")
    BY <1>6 DEF HandleBasic
  <2>2. Tail(lines) \in Seq(Lines) /\ r \in Seq(Nat) /\ Beyond(r) \in Seq(Nat)
    BY <2>1, NextLine, ValueType, BeyondType
  <2>3. ASSUME BasicWelcome
        PROVE  /\ auth_type' \in NONE .. DIGEST
               /\ realm' \in Buffer(RealmSize) /\ nonce' \in Buffer(NonceSize)
               /\ longest' \in [realm : Nat, nonce : Nat]
    <3>1. /\ auth_type' = BASIC
          /\ realm' = Overlay(realm, r)
          /\ nonce' = Overlay(nonce, Beyond(r))
          /\ longest' = [realm |-> Reach(longest.realm, r),
                         nonce |-> Reach(longest.nonce, Beyond(r))]
      BY <1>6, <2>3 DEF HandleBasic
    <3> HIDE DEF r
    <3>2. realm' \in Buffer(RealmSize) /\ nonce' \in Buffer(NonceSize)
      BY <2>2, <3>1, OverlayType, ValuesAssumption DEF TypeOK
    <3>3. longest' \in [realm : Nat, nonce : Nat]
      <4>1. Reach(longest.realm, r) \in Nat /\ Reach(longest.nonce, Beyond(r)) \in Nat
        BY <2>2, ReachType DEF TypeOK
      <4> QED
        BY <3>1, <4>1
    <3> QED
      BY <3>1, <3>2, <3>3
  <2>4. ~BasicWelcome => UNCHANGED <<auth_type, realm, nonce, longest>>
    BY <1>6 DEF HandleBasic, state
  <2>5. /\ auth_type' \in NONE .. DIGEST
        /\ realm' \in Buffer(RealmSize) /\ nonce' \in Buffer(NonceSize)
        /\ longest' \in [realm : Nat, nonce : Nat]
    BY <2>3, <2>4 DEF TypeOK
  <2>6. offered' \in SUBSET (NONE .. DIGEST) /\ UNCHANGED given
    BY <1>6 DEF HandleBasic, TypeOK
  <2> HIDE DEF r
  <2> QED
    BY <2>1, <2>2, <2>5, <2>6 DEF TypeOK, Handle
<1>7. CASE HandleDigest
  <2> DEFINE r == Piece(Head(lines).realm)
             n == Piece(Head(lines).nonce)
  <2>1. Handle("Digest")
    BY <1>7 DEF HandleDigest
  <2>2. /\ Tail(lines) \in Seq(Lines)
        /\ Head(lines).realm \in Values
        /\ Head(lines).nonce \in Values
    BY <2>1, NextLine
  <2>3. r \in Seq(Nat) /\ n \in Seq(Nat) /\ Beyond(r) \in Seq(Nat)
    BY <2>2, ValueType, BeyondType
  <2>4. /\ realm' = Overlay(realm, r)
        /\ \/ nonce' = Overlay(Overlay(nonce, Beyond(r)), n)
           \/ nonce' = Overlay(Overlay(nonce, n), Beyond(r))
        /\ longest' = [realm |-> Reach(longest.realm, r),
                       nonce |-> Reach(Reach(longest.nonce, Beyond(r)), n)]
    BY <1>7 DEF HandleDigest
  <2>5. /\ offered' \in SUBSET (NONE .. DIGEST) /\ auth_type' \in NONE .. DIGEST
        /\ given' = [realm |-> Head(lines).realm, nonce |-> Head(lines).nonce]
    BY <1>7 DEF HandleDigest, TypeOK
  <2> HIDE DEF r, n
  <2>6. realm' \in Buffer(RealmSize)
    BY <2>3, <2>4, OverlayType, ValuesAssumption DEF TypeOK
  <2>7. nonce' \in Buffer(NonceSize)
    <3>1. /\ Overlay(nonce, Beyond(r)) \in Buffer(NonceSize)
          /\ Overlay(nonce, n) \in Buffer(NonceSize)
      BY <2>3, OverlayType, ValuesAssumption DEF TypeOK
    <3> QED
      BY <2>3, <2>4, <3>1, OverlayType, ValuesAssumption
  <2>8. longest' \in [realm : Nat, nonce : Nat]
    <3>1. Reach(longest.realm, r) \in Nat /\ Reach(longest.nonce, Beyond(r)) \in Nat
      BY <2>3, ReachType DEF TypeOK
    <3>2. Reach(Reach(longest.nonce, Beyond(r)), n) \in Nat
      BY <2>3, <3>1, ReachType
    <3> QED
      BY <2>4, <3>1, <3>2
  <2> QED
    BY <2>1, <2>2, <2>5, <2>6, <2>7, <2>8 DEF TypeOK, Handle
<1>8. CASE HandleInfo
  <2>1. Handle("Info")
    BY <1>8 DEF HandleInfo
  <2>2. Tail(lines) \in Seq(Lines) /\ Head(lines).nonce \in Values
    BY <2>1, NextLine
  <2>3. nonce' \in Buffer(NonceSize)
    BY <1>8, <2>2, ValueType, OverlayType, ValuesAssumption DEF TypeOK, HandleInfo
  <2>4. longest' \in [realm : Nat, nonce : Nat]
    <3>1. Reach(longest.nonce, Piece(Head(lines).nonce)) \in Nat
      BY <2>2, ValueType, ReachType DEF TypeOK
    <3> QED
      BY <1>8, <3>1 DEF HandleInfo, TypeOK
  <2> QED
    BY <1>8, <2>1, <2>2, <2>3, <2>4 DEF TypeOK, HandleInfo, Handle
<1>9. CASE HandleOther
  <2>1. Tail(lines) \in Seq(Lines) /\ Handle("other")
    BY <1>9, NextLine DEF HandleOther
  <2> QED
    BY <1>9, <2>1 DEF TypeOK, HandleOther, Handle, state
<1> QED
  BY <1>1, <1>2, <1>3, <1>4, <1>5, <1>6, <1>7, <1>8, <1>9 DEF Next

LEMMA TypeAlways == Spec => []TypeInv
<1> QED
  BY TypeInit, TypeNext, PTL DEF Spec

\* Every field keeps its type, whatever the server sends and however long it is:
\* auth_type stays one of the three, and every response is made of the buffers
\* (http_auth_handle_header, http_auth_create_response).
THEOREM TypeCorrect == Spec => []TypeOK
<1>1. TypeInv => TypeOK
  BY DEF TypeInv
<1> QED
  BY <1>1, TypeAlways, PTL

-------------------------------------------------------------------------------
\* The scheme in force is the strongest one offered, in whatever order the
\* challenges came.
THEOREM StrongestInForce == Spec => []StrongestScheme
<1>1. Init => StrongestScheme
  BY DEF Init, StrongestScheme
<1>2. TypeInv /\ StrongestScheme /\ [Next]_vars => StrongestScheme'
  <2> SUFFICES ASSUME TypeInv, StrongestScheme, [Next]_vars
               PROVE  StrongestScheme'
    OBVIOUS
  <2>1. auth_type \in NONE .. DIGEST /\ offered \in SUBSET (NONE .. DIGEST)
    BY DEF TypeInv, TypeOK
  <2>2. CASE UNCHANGED <<auth_type, offered>>
    BY <2>2 DEF StrongestScheme
  <2>3. CASE Reconnect
    BY <2>3 DEF Reconnect, StrongestScheme
  <2>4. CASE HandleBasic
    <3>1. CASE auth_type <= BASIC
      BY <2>1, <2>4, <3>1 DEF HandleBasic, BasicWelcome, StrongestScheme
    <3>2. CASE ~(auth_type <= BASIC)
      BY <2>1, <2>4, <3>2 DEF HandleBasic, BasicWelcome, StrongestScheme, state
    <3> QED
      BY <3>1, <3>2
  <2>5. CASE HandleDigest
    BY <2>1, <2>5 DEF HandleDigest, StrongestScheme
  <2> QED
    BY <2>2, <2>3, <2>4, <2>5
       DEF Next, vars, state, SetAuth, SendRequest, ServerReply, HandleInfo,
           HandleOther
<1> QED
  BY <1>1, <1>2, TypeAlways, PTL DEF Spec

-------------------------------------------------------------------------------
\* Copying over a buffer leaves the copy in front.
LEMMA OverlayLeads ==
    ASSUME NEW size \in Nat, NEW buf \in Buffer(size), NEW s \in Seq(Nat),
           Len(s) <= size
    PROVE  Leads(Overlay(buf, s), s)
BY DEF Leads, Overlay, Buffer

\* Copying nothing changes nothing.
LEMMA OverlayNothing ==
    ASSUME NEW size \in Nat, NEW buf \in Buffer(size), NEW s \in Seq(Nat),
           Len(s) = 0
    PROVE  Overlay(buf, s) = buf
BY DEF Overlay, Buffer

\* LatestLeads, and that the values it speaks of are values of the server.
DigestInv ==
    /\ LatestLeads
    /\ auth_type = DIGEST => given.realm \in Values /\ given.nonce \in Values

LEMMA DigestInit == Init => DigestInv
BY DEF Init, LatestLeads, DigestInv

LEMMA DigestNext == TypeInv /\ DigestInv /\ [Next]_vars => DigestInv'
<1> SUFFICES ASSUME TypeInv, DigestInv, [Next]_vars PROVE DigestInv'
  OBVIOUS
<1>1. /\ TypeOK /\ realm \in Buffer(RealmSize) /\ nonce \in Buffer(NonceSize)
      /\ RealmSize \in Nat /\ NonceSize \in Nat
  BY ValuesAssumption DEF TypeInv, TypeOK
<1>2. CASE UNCHANGED <<state, given>>
  BY <1>2 DEF LatestLeads, DigestInv, state
<1>3. CASE Reconnect
  BY <1>3 DEF Reconnect, LatestLeads, DigestInv
<1>4. CASE HandleBasic
  <2>1. CASE BasicWelcome
    <3>1. auth_type' = BASIC
      BY <1>4, <2>1 DEF HandleBasic
    <3> QED
      BY <3>1 DEF LatestLeads, DigestInv
  <2>2. CASE ~BasicWelcome
    BY <1>4, <2>2 DEF HandleBasic, LatestLeads, DigestInv, state
  <2> QED
    BY <2>1, <2>2
<1>5. CASE HandleDigest
  <2> DEFINE r == Piece(Head(lines).realm)
             n == Piece(Head(lines).nonce)
  <2>1. Head(lines).realm \in Values /\ Head(lines).nonce \in Values
    BY <1>1, <1>5, NextLine DEF HandleDigest
  <2>2. /\ r \in Seq(Nat) /\ Len(r) <= Len(Head(lines).realm)
        /\ n \in Seq(Nat) /\ Len(n) <= Len(Head(lines).nonce)
        /\ Len(Head(lines).realm) \in Nat /\ Len(Head(lines).nonce) \in Nat
    BY <2>1, ValueType
  <2>3. /\ realm' = Overlay(realm, r)
        /\ \/ nonce' = Overlay(Overlay(nonce, Beyond(r)), n)
           \/ nonce' = Overlay(Overlay(nonce, n), Beyond(r))
        /\ given'.realm = Head(lines).realm
        /\ given'.nonce = Head(lines).nonce
    BY <1>5 DEF HandleDigest
  <2> HIDE DEF r, n
  <2>4. ASSUME Len(given'.realm) <= RealmSize
        PROVE  /\ Leads(realm', r)
               /\ nonce' = Overlay(nonce, n)
    <3>1. Len(r) <= RealmSize
      BY <1>1, <2>2, <2>3, <2>4
    <3>2. Beyond(r) \in Seq(Nat) /\ Len(Beyond(r)) = 0
      BY <2>2, <3>1, BeyondType
    <3>3. Overlay(nonce, n) \in Buffer(NonceSize)
      BY <1>1, <2>2, OverlayType
    <3>4. /\ Overlay(nonce, Beyond(r)) = nonce
          /\ Overlay(Overlay(nonce, n), Beyond(r)) = Overlay(nonce, n)
      BY <1>1, <3>2, <3>3, OverlayNothing
    <3>5. Leads(realm', r)
      BY <1>1, <2>2, <2>3, <3>1, OverlayLeads
    <3> QED
      BY <2>3, <3>4, <3>5
  <2>5. ASSUME Len(given'.realm) <= RealmSize, Len(given'.nonce) <= NonceSize
        PROVE  Leads(nonce', n)
    <3>1. Len(n) <= NonceSize
      BY <1>1, <2>2, <2>3, <2>5
    <3> QED
      BY <1>1, <2>2, <2>4, <2>5, <3>1, OverlayLeads
  <2> QED
    BY <2>1, <2>3, <2>4, <2>5 DEF LatestLeads, DigestInv, r, n
<1>6. CASE HandleInfo
  <2> DEFINE n == Piece(Head(lines).nonce)
  <2>1. Head(lines).nonce \in Values
    BY <1>1, <1>6, NextLine DEF HandleInfo
  <2>2. /\ n \in Seq(Nat) /\ Len(n) <= Len(Head(lines).nonce)
        /\ Len(Head(lines).nonce) \in Nat
    BY <2>1, ValueType
  <2>3. /\ given'.realm = given.realm
        /\ given'.nonce = Head(lines).nonce
    BY <1>1, <1>6 DEF HandleInfo, TypeOK
  <2>4. /\ nonce' = Overlay(nonce, n)
        /\ UNCHANGED <<auth_type, realm>>
    BY <1>6 DEF HandleInfo
  <2> HIDE DEF n
  <2>5. ASSUME Len(given'.nonce) <= NonceSize PROVE Leads(nonce', n)
    <3>1. Len(n) <= NonceSize
      BY <1>1, <2>2, <2>3, <2>5
    <3> QED
      BY <1>1, <2>2, <2>4, <3>1, OverlayLeads
  <2> QED
    BY <2>1, <2>3, <2>4, <2>5 DEF LatestLeads, DigestInv, n
<1> QED
  BY <1>2, <1>3, <1>4, <1>5, <1>6
     DEF Next, vars, SetAuth, SendRequest, ServerReply, HandleOther

LEMMA DigestAlways == Spec => []DigestInv
<1> QED
  BY DigestInit, DigestNext, TypeAlways, PTL DEF Spec

\* Whatever stood in the buffers before, however long, they begin with what the
\* server gave last: the realm if it has room, the nonce if both do.
THEOREM LatestInFront == Spec => []LatestLeads
<1>1. DigestInv => LatestLeads
  BY DEF DigestInv
<1> QED
  BY <1>1, DigestAlways, PTL

-------------------------------------------------------------------------------
\* Nothing stands behind what has been written to a buffer.
Clear(buf, n) == \A i \in DOMAIN buf : i > n => buf[i] = 0

\* The strengthening of AnswersLatest: state and response are clear behind the
\* longest values copied, and begin with those copied last.
AnswerInv ==
    /\ Clear(realm, longest.realm)
    /\ Clear(nonce, longest.nonce)
    /\ turn = "server" /\ response.scheme = DIGEST =>
         /\ Clear(response.realm, longest.realm)
         /\ Clear(response.nonce, longest.nonce)
         /\ Len(given.realm) <= RealmSize =>
              /\ Leads(response.realm, Piece(given.realm))
              /\ Len(given.nonce) <= NonceSize => Leads(response.nonce, Piece(given.nonce))
         /\ given.realm \in Values
         /\ given.nonce \in Values


LEMMA OverlayClear ==
    ASSUME NEW size \in Nat, NEW buf \in Buffer(size), NEW n \in Nat, Clear(buf, n), NEW s \in Seq(Nat)
    PROVE  Clear(Overlay(buf, s), Reach(n, s)) /\ Reach(n, s) \in Nat
BY DEF Clear, Overlay, Reach, Buffer

\* A value that is not cut and reaches as far as anything before it is all
\* there is in the buffer.
LEMMA CopyReads ==
    ASSUME NEW size \in Nat, NEW buf \in Buffer(size), NEW n \in Nat, NEW v \in Values,
           Clear(buf, n), Leads(buf, Piece(v)), Readable(v, n, size)
    PROVE  CString(buf) = v
<1>1. v \in Seq(Nat \ {0}) /\ v \in Seq(Nat) /\ Len(v) < size
  BY ValuesAssumption, ValueType DEF Readable
<1>2. Piece(v) = v
  <2>0. \A i \in 1 .. Len(v) : v[i] # Comma
    BY DEF Readable
  <2>1. Before(v, Comma) = SubSeq(v, 1, Len(v))
    <3>1. Len(v) \in 0 .. Len(v) /\ ~(Len(v) < Len(v))
      BY <1>1
    <3> QED
      BY <1>1, <2>0, <3>1, BeforeLength
  <2>2. SubSeq(v, 1, Len(v)) = v
    BY <1>1
  <2> QED
    BY <2>1, <2>2 DEF Piece
<1>3. buf \in Seq(Nat) /\ Len(buf) = size
  BY <1>1 DEF Buffer
<1>4. \A i \in 1 .. Len(v) : buf[i] = v[i] /\ v[i] # 0
  BY <1>1, <1>2 DEF Leads
<1>5. buf[Len(v) + 1] = 0
  BY <1>1 DEF Clear, Readable, Buffer
<1>6. Before(buf, 0) = SubSeq(buf, 1, Len(v))
  <2>1. Len(v) \in 0 .. Len(buf)
    BY <1>1, <1>3
  <2>2. \A i \in 1 .. Len(v) : buf[i] # 0
    BY <1>4
  <2>3. Len(v) < Len(buf) => buf[Len(v) + 1] = 0
    BY <1>5
  <2> QED
    BY <1>3, <2>1, <2>2, <2>3, BeforeLength
<1>7. SubSeq(buf, 1, Len(v)) = v
  BY <1>1, <1>3, <1>4
<1> QED
  BY <1>6, <1>7 DEF CString

LEMMA AnswerInit == Init => AnswerInv
BY DEF Init, AnswerInv, Clear, Zeros

LEMMA AnswerNext == TypeInv /\ DigestInv /\ AnswerInv /\ [Next]_vars => AnswerInv'
<1> SUFFICES ASSUME TypeInv, DigestInv, AnswerInv, [Next]_vars PROVE AnswerInv'
  OBVIOUS
<1> DEFINE Held == Clear(realm, longest.realm) /\ Clear(nonce, longest.nonce)
           Sent == turn = "server" /\ response.scheme = DIGEST =>
                     /\ Clear(response.realm, longest.realm)
                     /\ Clear(response.nonce, longest.nonce)
                     /\ Len(given.realm) <= RealmSize =>
                          /\ Leads(response.realm, Piece(given.realm))
                          /\ Len(given.nonce) <= NonceSize => Leads(response.nonce, Piece(given.nonce))
                     /\ given.realm \in Values
                     /\ given.nonce \in Values
<1>1. /\ TypeOK /\ realm \in Buffer(RealmSize) /\ nonce \in Buffer(NonceSize)
      /\ RealmSize \in Nat /\ NonceSize \in Nat
      /\ longest \in [realm : Nat, nonce : Nat]
      /\ Held /\ Sent
  BY ValuesAssumption DEF TypeInv, TypeOK, AnswerInv
<1>2. SUFFICES Held' /\ Sent'
  BY DEF AnswerInv
<1>3. CASE UNCHANGED <<state, given, turn, response, longest>>
  <2>1. Held'
    BY <1>1, <1>3 DEF state
  <2>2. Sent'
    BY <1>1, <1>3
  <2> QED
    BY <2>1, <2>2
<1>4. CASE Reconnect
  <2>1. Held'
    BY <1>4 DEF Reconnect, Clear, Zeros
  <2> QED
    BY <1>4, <2>1 DEF Reconnect
<1>5. CASE SendRequest
  <2>1. /\ response'.realm = realm
        /\ response'.nonce = nonce
        /\ response'.scheme = DIGEST => auth_type = DIGEST
    BY <1>5 DEF SendRequest, Written
  <2>2. UNCHANGED <<auth_type, realm, nonce, given, longest>>
    BY <1>5 DEF SendRequest, state
  <2>3. Held'
    BY <1>1, <2>2
  <2>4. Sent'
    BY <1>1, <2>1, <2>2 DEF DigestInv, LatestLeads
  <2> QED
    BY <2>3, <2>4
<1>6. CASE ServerReply
  <2>1. Held'
    BY <1>1, <1>6 DEF ServerReply, state
  <2> QED
    BY <1>6, <2>1 DEF ServerReply
<1>7. ASSUME NEW kind, Handle(kind) PROVE turn' = "client"
  BY <1>7 DEF Handle
<1>8. CASE HandleBasic
  <2>1. Handle("Basic")
    BY <1>8 DEF HandleBasic
  <2>2. CASE BasicWelcome
    <3> DEFINE r == Piece(Head(lines).realm)
    <3>1. r \in Seq(Nat) /\ Beyond(r) \in Seq(Nat)
      BY <1>1, <2>1, NextLine, ValueType, BeyondType
    <3>2. /\ realm' = Overlay(realm, r)
          /\ nonce' = Overlay(nonce, Beyond(r))
          /\ longest'.realm = Reach(longest.realm, r)
          /\ longest'.nonce = Reach(longest.nonce, Beyond(r))
      BY <1>8, <2>2 DEF HandleBasic
    <3> HIDE DEF r
    <3>3. longest.realm \in Nat /\ longest.nonce \in Nat
      BY <1>1
    <3>4. Clear(realm', longest'.realm) /\ Clear(nonce', longest'.nonce)
      BY <1>1, <3>1, <3>2, <3>3, OverlayClear
    <3> QED
      BY <1>7, <2>1, <3>4
  <2>3. CASE ~BasicWelcome
    <3>1. UNCHANGED <<realm, nonce, longest>>
      BY <1>8, <2>3 DEF HandleBasic, state
    <3> QED
      BY <1>1, <1>7, <2>1, <3>1
  <2> QED
    BY <2>2, <2>3
<1>9. CASE HandleDigest
  <2>1. Handle("Digest")
    BY <1>9 DEF HandleDigest
  <2> DEFINE r == Piece(Head(lines).realm)
             n == Piece(Head(lines).nonce)
  <2>2. r \in Seq(Nat) /\ n \in Seq(Nat) /\ Beyond(r) \in Seq(Nat)
    BY <1>1, <2>1, NextLine, ValueType, BeyondType
  <2>3. /\ realm' = Overlay(realm, r)
        /\ \/ nonce' = Overlay(Overlay(nonce, Beyond(r)), n)
           \/ nonce' = Overlay(Overlay(nonce, n), Beyond(r))
        /\ longest'.realm = Reach(longest.realm, r)
        /\ longest'.nonce = Reach(Reach(longest.nonce, Beyond(r)), n)
    BY <1>9 DEF HandleDigest
  <2> HIDE DEF r, n
  <2>4. longest.realm \in Nat /\ longest.nonce \in Nat
    BY <1>1
  <2>5. Clear(realm', longest'.realm)
    BY <1>1, <2>2, <2>3, <2>4, OverlayClear
  <2>6. CASE nonce' = Overlay(Overlay(nonce, Beyond(r)), n)
    <3> DEFINE b == Overlay(nonce, Beyond(r))
               k == Reach(longest.nonce, Beyond(r))
    <3>0. Clear(nonce, longest.nonce)
      BY <1>1
    <3>1. b \in Buffer(NonceSize)
      BY <1>1, <2>2, OverlayType
    <3>2. Clear(b, k) /\ k \in Nat
      BY <1>1, <2>2, <2>4, <3>0, OverlayClear
    <3>3. nonce' = Overlay(b, n) /\ longest'.nonce = Reach(k, n)
      BY <2>3, <2>6
    <3> HIDE DEF b, k
    <3>4. Clear(nonce', longest'.nonce)
      BY <1>1, <2>2, <3>1, <3>2, <3>3, OverlayClear
    <3> QED
      BY <1>7, <2>1, <2>5, <3>4
  <2>7. CASE nonce' = Overlay(Overlay(nonce, n), Beyond(r))
    <3> DEFINE b == Overlay(nonce, n)
               k == Reach(longest.nonce, n)
    <3>0. Clear(nonce, longest.nonce)
      BY <1>1
    <3>1. b \in Buffer(NonceSize)
      BY <1>1, <2>2, OverlayType
    <3>2. Clear(b, k) /\ k \in Nat
      BY <1>1, <2>2, <2>4, <3>0, OverlayClear
    <3>3. nonce' = Overlay(b, Beyond(r)) /\ longest'.nonce = Reach(k, Beyond(r))
      BY <2>2, <2>3, <2>4, <2>7 DEF Reach
    <3> HIDE DEF b, k
    <3>4. Clear(nonce', longest'.nonce)
      BY <1>1, <2>2, <3>1, <3>2, <3>3, OverlayClear
    <3> QED
      BY <1>7, <2>1, <2>5, <3>4
  <2> QED
    BY <2>3, <2>6, <2>7
<1>10. CASE HandleInfo
  <2>1. Handle("Info")
    BY <1>10 DEF HandleInfo
  <2> DEFINE n == Piece(Head(lines).nonce)
  <2>2. n \in Seq(Nat)
    BY <1>1, <2>1, NextLine, ValueType
  <2>3. /\ nonce' = Overlay(nonce, n)
        /\ longest' = [longest EXCEPT !.nonce = Reach(@, n)]
        /\ UNCHANGED realm
    BY <1>10 DEF HandleInfo
  <2> HIDE DEF n
  <2>4. /\ longest'.nonce = Reach(longest.nonce, n)
        /\ longest'.realm = longest.realm
    BY <1>1, <2>3
  <2>5. Clear(realm', longest'.realm) /\ Clear(nonce', longest'.nonce)
    BY <1>1, <2>2, <2>3, <2>4, OverlayClear
  <2> QED
    BY <1>7, <2>1, <2>5
<1>11. CASE HandleOther
  <2>1. UNCHANGED <<realm, nonce, longest>> /\ turn' = "client"
    BY <1>7, <1>11 DEF HandleOther, state
  <2> QED
    BY <1>1, <2>1
<1> QED
  BY <1>3, <1>4, <1>5, <1>6, <1>8, <1>9, <1>10, <1>11
     DEF Next, vars, SetAuth

\* A Digest response in the server's hands was made from the realm and nonce
\* it gave last, as far as they can be read back.
THEOREM AnswersWithLatest == Spec => []AnswersLatest
<1>1. TypeInv /\ AnswerInv => AnswersLatest
  <2> SUFFICES ASSUME TypeInv, AnswerInv, turn = "server", response.scheme = DIGEST,
                      Len(given.realm) <= RealmSize
               PROVE  /\ Readable(given.realm, longest.realm, RealmSize) =>
                           CString(response.realm) = given.realm
                      /\ Readable(given.nonce, longest.nonce, NonceSize) =>
                           CString(response.nonce) = given.nonce
    BY DEF AnswersLatest
  <2>1. response.realm \in Buffer(RealmSize) /\ response.nonce \in Buffer(NonceSize)
    BY DEF TypeInv, TypeOK, Response
  <2>2. longest.realm \in Nat /\ longest.nonce \in Nat
    BY DEF TypeInv, TypeOK
  <2>3. RealmSize \in Nat /\ NonceSize \in Nat
    BY ValuesAssumption
  <2>4. given.nonce \in Seq(Nat)
    BY ValueType DEF AnswerInv
  <2>5. Readable(given.nonce, longest.nonce, NonceSize) => Len(given.nonce) <= NonceSize
    BY <2>3, <2>4 DEF Readable
  <2> QED
    BY <2>1, <2>2, <2>3, <2>5, CopyReads DEF AnswerInv
<1> QED
  BY <1>1, TypeAlways, DigestAlways, AnswerInit, AnswerNext, PTL DEF Spec
===============================================================================
