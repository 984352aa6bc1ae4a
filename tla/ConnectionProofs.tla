-------------------------- MODULE ConnectionProofs ---------------------------
(* Proofs about Connection: for any number of objects and descriptors, and   *)
(* whatever fails in the kernel, who holds which descriptor; and for every   *)
(* URL and every size of the fields, which parts are read back.              *)
EXTENDS Connection, SequenceTheorems, FiniteSetTheorems, TLAPS

Owners == Objects \cup {Other}

\* An object that was not robbed, and a server whose last call did not fail,
\* has the number of a descriptor of its own, or none.
HoldsOwn(o) == m_sockfd[o] \in Own(o) \cup {INVALID_SOCKET}

Held ==
    /\ \A c \in Clients \ robbed : HoldsOwn(c)
    /\ \A s \in Servers \ (stale \cup robbed) : HoldsOwn(s)

Inv == TypeOK /\ Held /\ LostByReopening

\* No number of a descriptor is INVALID_SOCKET.
LEMMA NumbersAssumption == INVALID_SOCKET \notin Fds
  BY ObjectsAssumption DEF INVALID_SOCKET

LEMMA InitInv == Init => Inv
  BY DEF Init, Inv, TypeOK, Held, HoldsOwn, LostByReopening, Own, INVALID_SOCKET, Objects

\* What the operations on the table do to who owns what.
LEMMA OpenKeeps ==
  ASSUME TypeOK, NEW n \in Free, NEW x \in Owners, fds' = Opened(n, x)
  PROVE  /\ DOMAIN fds \subseteq DOMAIN fds'
         /\ DOMAIN fds' \subseteq Fds
         /\ \A f \in DOMAIN fds' : fds'[f] \in Owners
         /\ n \in Fds
         /\ Own(x)' = Own(x) \cup {n}
         /\ \A o : o # x => Own(o)' = Own(o)
<1>1. /\ DOMAIN fds' = DOMAIN fds \cup {n}
      /\ \A f \in DOMAIN fds' : fds'[f] = IF f = n THEN x ELSE fds[f]
  BY DEF Opened
<1>2. n \in Fds /\ n \notin DOMAIN fds
  BY DEF Free
<1>3. QED BY <1>1, <1>2 DEF TypeOK, Own, Owners

LEMMA WithoutOwn ==
  ASSUME NEW n
  PROVE  /\ DOMAIN Without(n) = DOMAIN fds \ {n}
         /\ \A f \in DOMAIN fds \ {n} : Without(n)[f] = fds[f]
  BY DEF Without

\* A call of connect(): the number is none, or that of a new descriptor.
LEMMA ConnectStep ==
  ASSUME Inv, NEW c \in Clients, Connect(c)
  PROVE  Inv'
<1> USE DEF Inv
<1>0. c \in Objects /\ \A o \in Objects : o \in Owners
  BY DEF Objects, Owners
<1>1. UNCHANGED <<stale, robbed>> /\ Reopen(c)
  BY DEF Connect
<1>2. CASE fds' = fds /\ m_sockfd' = [m_sockfd EXCEPT ![c] = INVALID_SOCKET]
  <2>1. TypeOK'
    BY <1>0, <1>1, <1>2 DEF TypeOK, Reopen
  <2>2. Held'
    BY <1>0, <1>1, <1>2, ObjectsAssumption DEF Held, HoldsOwn, Own, TypeOK, Objects
  <2>3. LostByReopening'
    BY <1>0, <1>1, <1>2 DEF LostByReopening, Reopen, Own, TypeOK
  <2> QED BY <2>1, <2>2, <2>3
<1>3. CASE \E n \in Free : fds' = Opened(n, c) /\ m_sockfd' = [m_sockfd EXCEPT ![c] = n]
  <2> PICK n \in Free : fds' = Opened(n, c) /\ m_sockfd' = [m_sockfd EXCEPT ![c] = n]
    BY <1>3
  <2>1. TypeOK'
    BY <1>0, <1>1, OpenKeeps DEF TypeOK, Reopen, Owners
  <2>2. Held'
    BY <1>0, <1>1, OpenKeeps, ObjectsAssumption DEF Held, HoldsOwn, Own, TypeOK, Objects
  <2>3. LostByReopening'
    BY <1>0, <1>1, OpenKeeps DEF LostByReopening, Reopen, Own, TypeOK
  <2> QED BY <2>1, <2>2, <2>3
<1>4. ConnectFails(c) \/ \E info : ConnectSucceeds(c, info)
  BY DEF Connect
<1>5. QED
  BY <1>2, <1>3, <1>4 DEF ConnectFails, ConnectSucceeds, AfterFailed, FailedFds

\* A close of m_sockfd takes a descriptor from its owner, who is robbed unless
\* it is the object itself.
LEMMA CloseKeeps ==
  ASSUME TypeOK, NEW o \in Objects, Close(o)
  PROVE  /\ DOMAIN fds' \subseteq Fds
         /\ \A f \in DOMAIN fds' : fds'[f] \in Owners
         /\ robbed' \subseteq Objects \cup {Other}
         /\ robbed \subseteq robbed'
         /\ \A p \in Objects \ (robbed' \cup {o}) : Own(p)' = Own(p)
         /\ \A p \in Objects : Own(p)' \subseteq Own(p)
         /\ Own(o)' = Own(o) \ {m_sockfd[o]}
<1>1. fds' = Without(m_sockfd[o])
  BY DEF Close
<1>2. /\ DOMAIN fds' = DOMAIN fds \ {m_sockfd[o]}
      /\ \A f \in DOMAIN fds' : fds'[f] = fds[f]
  BY <1>1, WithoutOwn
<1>3. robbed' = IF m_sockfd[o] \in DOMAIN fds THEN robbed \cup ({fds[m_sockfd[o]]} \ {o}) ELSE robbed
  BY DEF Close
<1>4. QED
  BY <1>2, <1>3 DEF TypeOK, Own, Owners

LEMMA ClientCloseStep ==
  ASSUME Inv, NEW c \in Clients, ClientClose(c)
  PROVE  Inv'
<1> USE DEF Inv
<1>0. c \in Objects /\ c \notin Servers
  BY ObjectsAssumption DEF Objects
<1>1. Close(c) /\ m_sockfd' = [m_sockfd EXCEPT ![c] = INVALID_SOCKET] /\ UNCHANGED <<stale, reopened>>
  BY DEF ClientClose, AfterClose
<1>2. TypeOK'
  BY <1>0, <1>1, CloseKeeps DEF TypeOK, Owners
<1>3. Held'
  BY <1>0, <1>1, CloseKeeps, ObjectsAssumption DEF Held, HoldsOwn, TypeOK, Objects
<1>4. LostByReopening'
  BY <1>0, <1>1, CloseKeeps DEF LostByReopening, TypeOK
<1>5. QED BY <1>2, <1>3, <1>4

LEMMA BindStep ==
  ASSUME Inv, NEW s \in Servers, Bind(s)
  PROVE  Inv'
<1> USE DEF Inv
<1>0. s \in Objects /\ s \notin Clients /\ s \in Owners
  BY ObjectsAssumption DEF Objects, Owners
<1>1. UNCHANGED robbed /\ Reopen(s)
  BY DEF Bind
<1>2. CASE /\ \E n \in Free \cup {INVALID_SOCKET} : m_sockfd' = [m_sockfd EXCEPT ![s] = n]
           /\ stale' = stale \cup {s} /\ fds' = fds
  <2> PICK n \in Free \cup {INVALID_SOCKET} : m_sockfd' = [m_sockfd EXCEPT ![s] = n]
    BY <1>2
  <2>1. TypeOK'
    BY <1>0, <1>1, <1>2 DEF TypeOK, Reopen, Free
  <2>2. Held'
    BY <1>0, <1>1, <1>2 DEF Held, HoldsOwn, Own, TypeOK, Objects
  <2>3. LostByReopening'
    BY <1>0, <1>1, <1>2 DEF LostByReopening, Reopen, Own, TypeOK
  <2> QED BY <2>1, <2>2, <2>3
<1>3. CASE \E n \in Free : /\ m_sockfd' = [m_sockfd EXCEPT ![s] = n]
                           /\ fds' = Opened(n, s) /\ stale' = stale \ {s}
  <2> PICK n \in Free : /\ m_sockfd' = [m_sockfd EXCEPT ![s] = n]
                        /\ fds' = Opened(n, s) /\ stale' = stale \ {s}
    BY <1>3
  <2>1. TypeOK'
    BY <1>0, <1>1, OpenKeeps DEF TypeOK, Reopen, Owners
  <2>2. Held'
    BY <1>0, <1>1, OpenKeeps DEF Held, HoldsOwn, Own, TypeOK, Objects
  <2>3. LostByReopening'
    BY <1>0, <1>1, OpenKeeps DEF LostByReopening, Reopen, Own, TypeOK
  <2> QED BY <2>1, <2>2, <2>3
<1>4. QED
  BY <1>2, <1>3 DEF Bind

LEMMA ListenStep ==
  ASSUME Inv, NEW s \in Servers, Listen(s)
  PROVE  Inv'
<1> USE DEF Inv
<1>0. s \in Objects /\ s \notin Clients /\ s \in Owners
  BY ObjectsAssumption DEF Objects, Owners
<1>1. UNCHANGED <<m_sockfd, reopened>>
  BY DEF Listen
<1>2. CASE UNCHANGED <<fds, stale, robbed>>
  BY <1>1, <1>2 DEF TypeOK, Held, HoldsOwn, LostByReopening, Own
<1>3. CASE Close(s) /\ stale' = stale \cup {s}
  <2>1. TypeOK'
    BY <1>0, <1>1, <1>3, CloseKeeps DEF TypeOK, Owners
  <2>2. Held'
    BY <1>0, <1>1, <1>3, CloseKeeps DEF Held, HoldsOwn, Objects
  <2>3. LostByReopening'
    BY <1>0, <1>1, <1>3, CloseKeeps DEF LostByReopening
  <2> QED BY <2>1, <2>2, <2>3
<1>4. QED
  BY <1>2, <1>3 DEF Listen

LEMMA OtherStep ==
  ASSUME Inv, OtherOpens \/ OtherCloses
  PROVE  Inv'
<1> USE DEF Inv
<1>0. UNCHANGED <<m_sockfd, stale, reopened, robbed>> /\ Other \notin Objects /\ Other \in Owners
  BY ObjectsAssumption DEF OtherOpens, OtherCloses, Objects, Owners
<1>1. CASE \E n \in Free : fds' = Opened(n, Other)
  <2> PICK n \in Free : fds' = Opened(n, Other)
    BY <1>1
  <2>1. TypeOK'
    BY <1>0, OpenKeeps DEF TypeOK, Owners
  <2>2. \A o \in Objects : Own(o)' = Own(o)
    BY <1>0, OpenKeeps
  <2> QED
    BY <1>0, <2>1, <2>2 DEF Held, HoldsOwn, LostByReopening, Objects
<1>2. CASE \E n \in Own(Other) : fds' = Without(n)
  <2> PICK n \in Own(Other) : fds' = Without(n)
    BY <1>2
  <2>1. TypeOK'
    BY <1>0, WithoutOwn, ZenonT(60) DEF TypeOK
  <2>2. \A o \in Objects : Own(o)' = Own(o)
    BY <1>0, WithoutOwn DEF Own
  <2> QED
    BY <1>0, <2>1, <2>2 DEF Held, HoldsOwn, LostByReopening, Objects
<1>3. QED
  BY <1>1, <1>2 DEF OtherOpens, OtherCloses

LEMMA NextInv == Inv /\ [Next]_vars => Inv'
<1> SUFFICES ASSUME Inv, [Next]_vars PROVE Inv'
  OBVIOUS
<1>1. CASE UNCHANGED vars
  BY <1>1 DEF vars, Inv, TypeOK, Held, HoldsOwn, LostByReopening, Own
<1>2. CASE Next
  BY <1>2, ConnectStep, ClientCloseStep, BindStep, ListenStep, OtherStep DEF Next
<1>3. QED BY <1>1, <1>2

LEMMA Inductive == Spec => []Inv
  BY InitInv, NextInv, PTL DEF Spec

\* Every open descriptor has an owner and every object a number or none, for
\* any number of objects (TcpClient, TcpServer).
THEOREM TypeCorrect == Spec => []TypeOK
  BY Inductive, PTL DEF Inv

\* A client's number is of its own descriptor or of none, unless another object
\* closed that descriptor (TcpClient::connect, close).
THEOREM ClientHoldsOwn == Spec => []HeldIsOwn
<1>1. Inv => HeldIsOwn
  BY DEF Inv, Held, HoldsOwn, HeldIsOwn
<1>2. QED BY Inductive, <1>1, PTL

\* A descriptor is lost only by a second connect() or bind() without a close.
THEOREM LostOnlyByReopening == Spec => []LostByReopening
  BY Inductive, PTL DEF Inv

\* No call closes a descriptor of another, except where an object uses the
\* number of one that was closed behind it.
THEOREM ClosesOnlyOwn == Spec => ClosesOwn
<1> DEFINE Step == \A f \in DOMAIN fds \ DOMAIN fds' :
                     \/ fds[f] = last'.obj
                     \/ last'.op = "listen" /\ last'.obj \in stale \cup robbed
                     \/ last'.op = "close" /\ last'.obj \in robbed
<1>1. ASSUME Inv, Next PROVE Step
  <2>1. ASSUME NEW c \in Clients, Connect(c) PROVE Step
    BY <2>1 DEF Connect, ConnectFails, ConnectSucceeds, FailedFds, Opened
  <2>2. ASSUME NEW c \in Clients, ClientClose(c) PROVE Step
    <3>1. DOMAIN fds \ DOMAIN fds' \subseteq {m_sockfd[c]} /\ last'.op = "close" /\ last'.obj = c
      BY <2>2, WithoutOwn DEF ClientClose, Close, Call
    <3>2. c \in robbed \/ HoldsOwn(c)
      BY <1>1 DEF Inv, Held
    <3>3. INVALID_SOCKET \notin DOMAIN fds
      BY <1>1, NumbersAssumption DEF Inv, TypeOK
    <3>4. QED BY <3>1, <3>2, <3>3 DEF HoldsOwn, Own
  <2>3. ASSUME NEW s \in Servers, Bind(s) PROVE Step
    BY <2>3 DEF Bind, Opened
  <2>4. ASSUME NEW s \in Servers, Listen(s) PROVE Step
    <3>1. DOMAIN fds \ DOMAIN fds' \subseteq {m_sockfd[s]} /\ last'.op = "listen" /\ last'.obj = s
      BY <2>4, WithoutOwn DEF Listen, Close, Call
    <3>2. s \in stale \cup robbed \/ HoldsOwn(s)
      BY <1>1 DEF Inv, Held
    <3>3. INVALID_SOCKET \notin DOMAIN fds
      BY <1>1, NumbersAssumption DEF Inv, TypeOK
    <3>4. QED BY <3>1, <3>2, <3>3 DEF HoldsOwn, Own
  <2>5. ASSUME OtherOpens PROVE Step
    BY <2>5 DEF OtherOpens, Opened
  <2>6. ASSUME OtherCloses PROVE Step
    BY <2>6, WithoutOwn DEF OtherCloses, Own, Call
  <2>7. QED
    BY <1>1, <2>1, <2>2, <2>3, <2>4, <2>5, <2>6 DEF Next
<1>2. UNCHANGED vars => Step
  BY DEF vars
<1>3. QED
  BY <1>1, <1>2, Inductive, PTL DEF Spec, ClosesOwn
-------------------------------------------------------------------------------
(* Reading a URL back: the texts between the delimiters are put together by  *)
(* Write and cut apart again by SplitVideoUrl, part by part.                 *)

\* The parts as Write puts them down, with the delimiters that go with them.
Opening(t)  == IF t.authorization = <<>> THEN <<>> ELSE t.authorization \o <<"@">>
Named(t)    == IF t.v6 THEN <<"[">> \o t.hostname \o <<"]">> ELSE t.hostname
Numbered(t) == IF t.port = <<>> THEN <<>> ELSE <<":">> \o t.port
PortOf(t)   == IF t.port = <<>> THEN RTSP_DEFAULT_PORT ELSE Decimal[t.port[1]]

Info(p, a, h, n, q) ==
    [proto |-> p, authorization |-> a, hostname |-> h, port |-> n, path |-> q,
     overrun |-> FALSE]

\* The parts of a concatenation.
LEMMA PartsOfConcat ==
  ASSUME NEW T, NEW p \in Seq(T), NEW r \in Seq(T)
  PROVE  /\ p \o r \in Seq(T)
         /\ Len(p \o r) = Len(p) + Len(r)
         /\ \A i \in 1 .. Len(p) : (p \o r)[i] = p[i]
         /\ \A i \in 1 .. Len(r) : (p \o r)[Len(p) + i] = r[i]
         /\ SubSeq(p \o r, 1, Len(p)) = p
         /\ SubSeq(p \o r, Len(p) + 1, Len(p \o r)) = r
<1>1. Len(p) \in Nat /\ Len(r) \in Nat
  BY LenProperties
<1>2. p \o r \in Seq(T) /\ Len(p \o r) = Len(p) + Len(r)
  BY ConcatProperties
<1>3. \A i \in 1 .. Len(p) : (p \o r)[i] = p[i]
  BY <1>1, ConcatProperties
<1>4. \A i \in 1 .. Len(r) : (p \o r)[Len(p) + i] = r[i]
  BY <1>1, ConcatProperties
<1>5. SubSeq(p \o r, 1, Len(p)) = p
  BY <1>1, <1>2, <1>3
<1>6. SubSeq(p \o r, Len(p) + 1, Len(p \o r)) = r
  BY <1>1, <1>2, <1>4
<1>7. QED BY <1>2, <1>3, <1>4, <1>5, <1>6

\* Two texts without certain characters have none of them together.
LEMMA BothPlain ==
  ASSUME NEW T, NEW p \in Seq(T), NEW r \in Seq(T), NEW B,
         \A i \in 1 .. Len(p) : p[i] \notin B,
         \A i \in 1 .. Len(r) : r[i] \notin B
  PROVE  p \o r \in Seq(T) /\ \A i \in 1 .. Len(p \o r) : (p \o r)[i] \notin B
<1>1. Len(p) \in Nat /\ Len(r) \in Nat
  BY LenProperties
<1> SUFFICES ASSUME NEW i \in 1 .. Len(p \o r) PROVE (p \o r)[i] \notin B
  BY PartsOfConcat
<1>2. CASE i <= Len(p)
  BY <1>1, <1>2, PartsOfConcat
<1>3. CASE ~(i <= Len(p))
  <2>1. i - Len(p) \in 1 .. Len(r) /\ Len(p) + (i - Len(p)) = i
    BY <1>1, <1>3, PartsOfConcat
  <2>2. (p \o r)[Len(p) + (i - Len(p))] = r[i - Len(p)]
    BY <2>1, PartsOfConcat
  <2>3. QED BY <2>1, <2>2
<1>4. QED BY <1>2, <1>3

\* The stretch behind one place is the tail of the stretch from it.
LEMMA DropOne ==
  ASSUME NEW T, NEW u \in Seq(T), NEW k \in 1 .. Len(u)
  PROVE  /\ Tail(SubSeq(u, k, Len(u))) = SubSeq(u, k + 1, Len(u))
         /\ SubSeq(u, k, Len(u))[1] = u[k]
<1>1. Len(u) \in Nat
  OBVIOUS
<1> DEFINE v == SubSeq(u, k, Len(u))
<1>2. v \in Seq(T) /\ Len(v) = Len(u) - k + 1 /\ \A i \in 1 .. Len(u) - k + 1 : v[i] = u[k + i - 1]
  BY <1>1
<1> HIDE DEF v
<1>3. Tail(v) \in Seq(T) /\ Len(Tail(v)) = Len(u) - k /\ \A i \in 1 .. Len(u) - k : Tail(v)[i] = v[i + 1]
  BY <1>1, <1>2
<1>4. \A i \in 1 .. Len(u) - k : v[i + 1] = u[k + i]
  BY <1>1, <1>2
<1>5. Tail(v) = SubSeq(u, k + 1, Len(u))
  BY <1>1, <1>3, <1>4, SMTT(60)
<1>6. QED BY <1>1, <1>2, <1>5, SMTT(60) DEF v

\* The least of a set is the one below all of them; the greatest, above.
LEMMA FirstOne ==
  ASSUME NEW I \in SUBSET Nat, NEW n \in I, \A i \in I : n <= i
  PROVE  Min(I) = n
<1> DEFINE Q(x) == \A y \in I : x <= y
<1>1. Q(n)
  OBVIOUS
<1>2. \A x \in I : Q(x) => x = n
  OBVIOUS
<1>3. Min(I) = CHOOSE x \in I : Q(x)
  BY DEF Min
<1> HIDE DEF Q
<1>4. \E x \in I : Q(x)
  BY <1>1
<1>5. (CHOOSE x \in I : Q(x)) \in I /\ Q(CHOOSE x \in I : Q(x))
  BY <1>4, Zenon
<1>6. QED BY <1>2, <1>3, <1>5

LEMMA LastOne ==
  ASSUME NEW I \in SUBSET Nat, NEW n \in I, \A i \in I : i <= n
  PROVE  Max(I) = n
<1> DEFINE Q(x) == \A y \in I : x >= y
<1>1. Q(n)
  OBVIOUS
<1>2. \A x \in I : Q(x) => x = n
  OBVIOUS
<1>3. Max(I) = CHOOSE x \in I : Q(x)
  BY DEF Max
<1> HIDE DEF Q
<1>4. \E x \in I : Q(x)
  BY <1>1
<1>5. (CHOOSE x \in I : Q(x)) \in I /\ Q(CHOOSE x \in I : Q(x))
  BY <1>4, Zenon
<1>6. QED BY <1>2, <1>3, <1>5

\* Cutting a text without a separator gives the whole text.
LEMMA CutNowhere ==
  ASSUME NEW p, NEW seps, NEW keepSep, \A i \in 1 .. Len(p) : p[i] \notin seps
  PROVE  CutUntilChar(p, seps, keepSep) = [head |-> p, rest |-> <<>>]
  BY DEF CutUntilChar, SelectInSeq

\* Cutting goes by the first separator.
LEMMA CutHead ==
  ASSUME NEW u, NEW seps, NEW keepSep
  PROVE LET I == {i \in 1 .. Len(u) : u[i] \in seps}
        IN I # {} /\ Min(I) # 0 =>
     CutUntilChar(u, seps, keepSep) =
        [head |-> SubSeq(u, 1, Min(I)-1),
         rest |-> SubSeq(u, IF keepSep THEN Min(I) ELSE Min(I) + 1, Len(u))]
  BY Zenon DEF CutUntilChar, SelectInSeq

\* Two texts of which the second starts with a separator and the first has
\* none are cut apart.
LEMMA CutAtFirst ==
  ASSUME NEW T, NEW p \in Seq(T), NEW r \in Seq(T), NEW seps, NEW keepSep \in BOOLEAN,
         r # <<>>, r[1] \in seps, \A i \in 1 .. Len(p) : p[i] \notin seps
  PROVE  CutUntilChar(p \o r, seps, keepSep) =
           [head |-> p, rest |-> IF keepSep THEN r ELSE Tail(r)]
<1> DEFINE u == p \o r
<1> DEFINE I == {i \in 1 .. Len(u) : u[i] \in seps}
<1>1. /\ Len(p) \in Nat /\ Len(r) \in Nat /\ Len(r) > 0
      /\ Len(u) = Len(p) + Len(r)
      /\ \A i \in 1 .. Len(p) : u[i] = p[i]
      /\ u[Len(p) + 1] = r[1]
      /\ SubSeq(u, 1, Len(p)) = p
      /\ SubSeq(u, Len(p) + 1, Len(u)) = r
  BY PartsOfConcat, LenProperties, EmptySeq
<1>2. SubSeq(u, Len(p) + 2, Len(u)) = Tail(r)
  BY PartsOfConcat, <1>1, SMTT(60)
<1> HIDE DEF u
<1>3. Min(I) = Len(p) + 1 /\ I # {}
  <2>1. I \in SUBSET Nat /\ Len(p) + 1 \in I
    BY <1>1
  <2>2. \A i \in I : Len(p) + 1 <= i
    BY <1>1
  <2>3. QED BY <2>1, <2>2, FirstOne
<1>3a. Min(I) # 0
  BY <1>1, <1>3
<1>3b. CutUntilChar(u, seps, keepSep) =
         [head |-> SubSeq(u, 1, Min(I) - 1),
          rest |-> SubSeq(u, IF keepSep THEN Min(I) ELSE Min(I) + 1, Len(u))]
  BY <1>3, <1>3a, CutHead, ZenonT(60)
<1> HIDE DEF I
<1>4. CutUntilChar(u, seps, keepSep) =
        [head |-> SubSeq(u, 1, Len(p) + 1 - 1),
         rest |-> SubSeq(u, IF keepSep THEN Len(p) + 1 ELSE Len(p) + 1 + 1, Len(u))]
  BY <1>3, <1>3b
<1>5. Len(p) + 1 - 1 = Len(p) /\ Len(p) + 1 + 1 = Len(p) + 2
  BY <1>1
<1>6. CutUntilChar(u, seps, keepSep) = [head |-> p, rest |-> IF keepSep THEN r ELSE Tail(r)]
  BY <1>1, <1>2, <1>4, <1>5
<1>7. QED BY <1>6 DEF u

LEMMA CutBehind ==
  ASSUME NEW T, NEW p \in Seq(T), NEW r \in Seq(T), NEW seps,
         r # <<>>, r[1] \in seps, \A i \in 1 .. Len(p) : p[i] \notin seps
  PROVE  CutUntilChar(p \o r, seps, FALSE) = [head |-> p, rest |-> Tail(r)]
<1>1. CutUntilChar(p \o r, seps, FALSE) = [head |-> p, rest |-> IF FALSE THEN r ELSE Tail(r)]
  BY CutAtFirst, Zenon
<1>2. QED BY <1>1

LEMMA CutBefore ==
  ASSUME NEW T, NEW p \in Seq(T), NEW r \in Seq(T), NEW seps,
         r # <<>>, r[1] \in seps, \A i \in 1 .. Len(p) : p[i] \notin seps
  PROVE  CutUntilChar(p \o r, seps, TRUE) = [head |-> p, rest |-> r]
<1>1. CutUntilChar(p \o r, seps, TRUE) = [head |-> p, rest |-> IF TRUE THEN r ELSE Tail(r)]
  BY CutAtFirst, Zenon
<1>2. QED BY <1>1

\* The first place of a character that does not stand in p.
LEMMA FirstBehind ==
  ASSUME NEW T, NEW p \in Seq(T), NEW r \in Seq(T),
         r # <<>>, \A i \in 1 .. Len(p) : p[i] # r[1]
  PROVE  LET I == {i \in 1 .. Len(p \o r) : (p \o r)[i] = r[1]}
         IN I # {} /\ Min(I) = Len(p) + 1
<1> DEFINE u == p \o r
           I == {i \in 1 .. Len(u) : u[i] = r[1]}
<1>1. /\ Len(p) \in Nat /\ Len(r) \in Nat /\ Len(r) > 0
      /\ Len(u) = Len(p) + Len(r)
      /\ \A i \in 1 .. Len(p) : u[i] = p[i]
      /\ u[Len(p) + 1] = r[1]
  BY PartsOfConcat, LenProperties, EmptySeq
<1> HIDE DEF u
<1>2. I \in SUBSET Nat /\ Len(p) + 1 \in I
  BY <1>1
<1>3. \A i \in I : Len(p) + 1 <= i
  BY <1>1
<1>4. Min(I) = Len(p) + 1
  BY <1>2, <1>3, FirstOne
<1>5. QED BY <1>2, <1>4 DEF u

\* A number of a port is no delimiter and fits the uint16_t.
LEMMA Numerals ==
  ASSUME NEW n \in DOMAIN Decimal
  PROVE  n \in Token \ Delimiters /\ Decimal[n] % 65536 = Decimal[n]
<1>1. Decimal[n] \in Nat /\ Decimal[n] < 65536
  BY TokensAssumption
<1>2. Decimal[n] % 65536 = Decimal[n]
  BY <1>1
<1>3. QED BY <1>2, TokensAssumption

\* Atoi reads the port back.
LEMMA PortReads == ASSUME NEW t, IsUrl(t), t.proto # <<>>, t.port # <<>>
  PROVE  /\ Atoi(t.port) = PortOf(t) /\ Len(t.port) = 1
         /\ t.port[1] \in Token \ Delimiters
<1>1. \E n \in DOMAIN Decimal : t.port = <<n>>
  BY DEF IsUrl
<1>2. PICK n \in DOMAIN Decimal : t.port = <<n>>
  BY <1>1
<1>3. Len(t.port) = 1 /\ t.port[1] = n
  BY <1>2
<1>4. Atoi(t.port) = Decimal[n] % 65536 
  BY <1>3, t.port # <<>> DEF Atoi
<1>5. QED BY <1>3, <1>4, Numerals DEF PortOf

\* The delimiters are characters of URLs.
LEMMA Separators ==
  /\ {":", "/", "?", "#", "[", "]", "@"} \subseteq Token
  /\ \A d \in {":", "/", "?", "#", "[", "]", "@"} : <<d>> \in Seq(Token)
<1>1. {":", "/", "?", "#", "[", "]", "@"} \subseteq Token
  BY TokensAssumption DEF Delimiters
<1>2. QED BY <1>1

\* The parts of a URL are texts.
LEMMA Types ==
  ASSUME NEW t, IsUrl(t), t.proto # <<>>
  PROVE  /\ t.proto \in Seq(Token) /\ t.authorization \in Seq(Token)
         /\ t.hostname \in Seq(Token) /\ t.port \in Seq(Token) /\ t.path \in Seq(Token)
         /\ Opening(t) \in Seq(Token) /\ Named(t) \in Seq(Token) /\ Numbered(t) \in Seq(Token)
<1>1. /\ t.proto \in Seq(Token) /\ t.authorization \in Seq(Token)
      /\ t.hostname \in Seq(Token) /\ t.port \in Seq(Token) /\ t.path \in Seq(Token)
  BY DEF IsUrl
<1>4. <<"[">> \in Seq(Token) /\ <<"]">> \in Seq(Token) /\ <<":">> \in Seq(Token) /\ <<"@">> \in Seq(Token)
  BY Separators
<1>5. Opening(t) \in Seq(Token) /\ Named(t) \in Seq(Token) /\ Numbered(t) \in Seq(Token)
  BY <1>1, <1>4 DEF Opening, Named, Numbered
<1>6. QED BY <1>1, <1>5

\* An IPv6 literal between its brackets, and what follows it.
LEMMA Bracketed ==
  ASSUME NEW h \in Seq(Token), NEW r \in Seq(Token),
         \A i \in 1 .. Len(h) : h[i] # "]"
  PROVE  LET u == (<<"[">> \o h \o <<"]">>) \o r
         IN /\ u[1] = "[" /\ u # <<>>
            /\ LET I == {i \in 1 .. Len(u) : u[i] = "]"}
               IN I # {} /\ Min(I) = Len(h) + 2
            /\ Len(u) = Len(h) + 2 + Len(r)
            /\ SubSeq(u, 2, Len(h) + 1) = h
            /\ SubSeq(u, Len(h) + 3, Len(u)) = r
<1> DEFINE v == <<"[">> \o h
           w == <<"]">> \o r
           u == v \o w
<1>1. <<"[">> \in Seq(Token) /\ <<"]">> \in Seq(Token)
  BY Separators
<1>2. (<<"[">> \o h \o <<"]">>) \o r = u
  BY <1>1, ConcatAssociative, ConcatProperties
<1>3. /\ v \in Seq(Token) /\ Len(v) = Len(h) + 1 /\ Len(h) \in Nat /\ v[1] = "["
      /\ \A i \in 1 .. Len(h) : v[1 + i] = h[i]
  BY <1>1, PartsOfConcat, LenProperties
<1>4. /\ w \in Seq(Token) /\ Len(w) = Len(r) + 1 /\ Len(r) \in Nat /\ w[1] = "]" /\ w # <<>>
      /\ Tail(w) = r
  BY <1>1, PartsOfConcat, LenProperties, EmptySeq
<1> HIDE DEF v, w
<1>5. /\ u \in Seq(Token) /\ Len(u) = Len(v) + Len(w)
      /\ \A i \in 1 .. Len(v) : u[i] = v[i]
      /\ SubSeq(u, 1, Len(v)) = v
      /\ SubSeq(u, Len(v) + 1, Len(u)) = w
  <2>1. v \in Seq(Token) /\ w \in Seq(Token)
    BY <1>3, <1>4
  <2>2. QED BY <2>1, PartsOfConcat
<1>6. \A i \in 1 .. Len(v) : v[i] # "]"
  <2> SUFFICES ASSUME NEW i \in 1 .. Len(v), v[i] = "]" PROVE FALSE
    OBVIOUS
  <2>1. CASE i = 1
    BY <2>1, <1>3
  <2>2. CASE i # 1
    <3>1. i - 1 \in 1 .. Len(h) /\ 1 + (i - 1) = i
      BY <2>2, <1>3
    <3>2. h[i - 1] = v[i]
      BY <3>1, <1>3
    <3>3. QED BY <3>1, <3>2
  <2>3. QED BY <2>1, <2>2
<1> DEFINE I == {i \in 1 .. Len(u) : u[i] = w[1]}
<1>7. I # {} /\ Min(I) = Len(v) + 1
  <2>1. v \in Seq(Token) /\ w \in Seq(Token) /\ w # <<>>
    BY <1>3, <1>4
  <2>2. \A i \in 1 .. Len(v) : v[i] # w[1]
    BY <1>4, <1>6
  <2>3. QED BY <2>1, <2>2, FirstBehind
<1> HIDE DEF I
<1>8. SubSeq(u, Len(v) + 2, Len(u)) = Tail(w)
  <2>1. Len(v) \in Nat /\ Len(w) \in Nat
    BY <1>3, <1>4
  <2> HIDE DEF u
  <2>2. Tail(w) = SubSeq(w, 2, Len(w))
    BY <1>4
  <2>3. SubSeq(SubSeq(u, Len(v) + 1, Len(u)), 2, Len(w)) = SubSeq(u, Len(v) + 2, Len(u))
    BY <2>1, <1>4, <1>5
  <2>4. QED BY <2>2, <2>3, <1>5
<1>9. SubSeq(u, 2, Len(v)) = Tail(v)
  <2> HIDE DEF u
  <2>1. QED BY <1>3, <1>4, <1>5, SMTT(60)
<1>10. Tail(v) = h
  BY <1>1, PartsOfConcat DEF v
<1>11. u[1] = "[" /\ u # <<>> /\ Len(u) = Len(h) + 2 + Len(r)
  <2> HIDE DEF u
  <2>1. QED BY <1>3, <1>4, <1>5, EmptySeq
<1>13. Len(v) + 1 = Len(h) + 2 /\ Len(v) + 2 = Len(h) + 3 /\ Len(v) = Len(h) + 1
  BY <1>3
<1> HIDE DEF u
<1>14. /\ SubSeq(u, 2, Len(h) + 1) = h
       /\ SubSeq(u, Len(h) + 3, Len(u)) = r
  BY <1>4, <1>8, <1>9, <1>10, <1>13
<1>15. I = {i \in 1 .. Len(u) : u[i] = "]"}
  BY <1>4 DEF I
<1>16. QED BY <1>2, <1>7, <1>11, <1>13, <1>14, <1>15

\* What does not stand in a host.
LEMMA HostCharacters ==
  ASSUME NEW t, IsUrl(t), t.proto # <<>>, NEW i \in 1 .. Len(t.hostname)
  PROVE  /\ t.hostname[i] \notin {"]", "[", "@", "/", "?", "#"}
         /\ ~t.v6 => t.hostname[i] # ":"
<1>1. t.hostname[i] \in ToSet(t.hostname)
  BY Types DEF ToSet
<1>2. t.v6 \in BOOLEAN
  BY DEF IsUrl
<1>3. ToSet(t.hostname) \cap Delimiters \subseteq IF t.v6 THEN {":"} ELSE {}
  BY DEF IsUrl
<1>4. QED BY <1>1, <1>2, <1>3 DEF Delimiters

\* Host reads an IPv6 literal and its port back,
LEMMA LiteralReads ==
  ASSUME NEW t, IsUrl(t), t.proto # <<>>, t.v6, t.port # <<>>, NEW p, NEW a, NEW q
  PROVE  Host(Info(p, a, <<>>, 0, q), Named(t) \o Numbered(t)) =
           Info(p, a, t.hostname, PortOf(t), q)
<1> DEFINE h == t.hostname
           r == Numbered(t)
           u == (<<"[">> \o h \o <<"]">>) \o r
           I == {i \in 1 .. Len(u) : u[i] = "]"}
<1>1. h \in Seq(Token) /\ r \in Seq(Token) /\ Len(h) \in Nat
  BY Types, LenProperties
<1>2. \A i \in 1 .. Len(h) : h[i] # "]"
  BY HostCharacters
<1>3. r[1] = ":" /\ Len(r) = Len(t.port) + 1 /\ Tail(r) = t.port /\ Len(t.port) \in Nat
  BY Types, Separators DEF Numbered
<1>4. Named(t) \o Numbered(t) = u
  BY DEF Named
<1> HIDE DEF h, r
<1>5. /\ u[1] = "[" /\ u # <<>>
      /\ I # {} /\ Min(I) = Len(h) + 2
      /\ Len(u) = Len(h) + 2 + Len(r)
      /\ SubSeq(u, 2, Len(h) + 1) = h
      /\ SubSeq(u, Len(h) + 3, Len(u)) = r
  BY <1>1, <1>2, Bracketed
<1>6. u \in Seq(Token)
  BY <1>1, Separators
<1> HIDE DEF u
<1>7. SelectInSeq(u, LAMBDA c : c = "]") = Len(h) + 2
  BY <1>5 DEF SelectInSeq
<1> HIDE DEF I
<1> DEFINE n == Len(h)
           m == Len(t.port)
<1>8. n \in Nat /\ m \in Nat /\ Len(u) = n + 2 + (m + 1) /\ Len(r) = m + 1
  BY <1>1, <1>3, <1>5
<1>9. u[n + 3] = ":" /\ SubSeq(u, n + 4, Len(u)) = t.port
  <2>1. SubSeq(u, n + 3, Len(u)) = r
    BY <1>5
  <2> HIDE DEF n, m
  <2>2. n + 3 \in 1 .. Len(u) /\ (n + 3) + 1 = n + 4
    BY <1>8
  <2>3. u[n + 3] = r[1] /\ SubSeq(u, n + 4, Len(u)) = Tail(r)
    BY <2>1, <2>2, <1>6, DropOne
  <2>4. QED BY <2>3, <1>3
<1>9a. /\ n + 2 > 0 /\ n + 2 < Len(u)
      /\ (n + 2) - 1 = n + 1 /\ (n + 2) + 1 = n + 3
      /\ (n + 2) + 2 = n + 4
  <2> HIDE DEF n, m
  <2> QED BY <1>8
<1>10. Host(Info(p, a, <<>>, 0, q), u) =
         [Info(p, a, <<>>, 0, q) EXCEPT !.hostname = h, !.port = Atoi(t.port)]
  BY <1>5, <1>7, <1>9, <1>9a DEF Host
<1>11. Atoi(t.port) = PortOf(t)
  BY PortReads
<1>12. QED BY <1>4, <1>10, <1>11 DEF Info, h

\* Host, for a text that is not a literal and has a colon.
LEMMA WithPort ==
  ASSUME NEW p, NEW a, NEW q, NEW u, u[1] # "[", Contains(u, ":")
  PROVE  Host(Info(p, a, <<>>, 0, q), u) =
           Info(p, a, CutUntilChar(u, {":"}, FALSE).head,
                Atoi(CutUntilChar(u, {":"}, FALSE).rest), q)
  BY DEF Host, Info

\* Authority, for a text with an authorization.
LEMMA BehindLast ==
  ASSUME NEW info, NEW u, NEW ats, u # <<>>, ats # {}, ats = {i \in DOMAIN u : u[i] = "@"}
  PROVE  Authority(info, u) =
           Host([info EXCEPT !.authorization = SubSeq(u, 1, LastAt(ats) - 1)],
                SubSeq(u, LastAt(ats) + 1, Len(u)))
  BY DEF Authority

\* and a name, with a port or without.
LEMMA NameReads ==
  ASSUME NEW t, IsUrl(t), t.proto # <<>>, ~t.v6, NEW p, NEW a, NEW q
  PROVE  Host(Info(p, a, <<>>, 0, q), Named(t) \o Numbered(t)) =
           Info(p, a, t.hostname, PortOf(t), q)
<1> DEFINE h == t.hostname
           r == Numbered(t)
<1>1. /\ h \in Seq(Token) /\ r \in Seq(Token) /\ h # <<>> /\ Len(h) \in Nat
      /\ Named(t) = h
  BY Types DEF IsUrl, Named
<1>2. \A i \in 1 .. Len(h) : h[i] \notin {":"} /\ h[i] # "["
  BY HostCharacters
<1>3. CASE t.port = <<>>
  <2>1. Named(t) \o Numbered(t) = h
    BY <1>1, <1>3 DEF Numbered
  <2>2. h[1] # "[" /\ ~Contains(h, ":")
    BY <1>1, <1>2, EmptySeq DEF Contains
  <2>3. Host(Info(p, a, <<>>, 0, q), h) = HostDefault(Info(p, a, <<>>, 0, q), h)
    BY <2>2 DEF Host
  <2>4. QED BY <2>1, <2>3, <1>3 DEF HostDefault, Info, PortOf
<1>4. CASE t.port # <<>>
  <2>1. r # <<>> /\ r[1] = ":" /\ Tail(r) = t.port
    BY <1>4, Types, Separators DEF Numbered
  <2> HIDE DEF r, h
  <2>2. CutUntilChar(h \o r, {":"}, FALSE) = [head |-> h, rest |-> t.port]
    <3>1. r \in Seq(Token) /\ h \in Seq(Token) /\ r # <<>>
      BY <1>1, <2>1
    <3>2. r[1] \in {":"} /\ \A i \in 1 .. Len(h) : h[i] \notin {":"}
      BY <1>2, <2>1
    <3>3. CutUntilChar(h \o r, {":"}, FALSE) = [head |-> h, rest |-> Tail(r)]
      BY <3>1, <3>2, CutBehind
    <3>4. QED BY <3>3, <2>1
  <2>3. /\ Len(h \o r) = Len(h) + Len(r) /\ Len(r) > 0 /\ Len(h) > 0
        /\ Len(h) \in Nat /\ Len(r) \in Nat
        /\ (h \o r)[1] = h[1] /\ (h \o r)[Len(h) + 1] = r[1]
    <3>1. Len(h) \in Nat /\ Len(r) \in Nat /\ Len(r) > 0 /\ Len(h) > 0
      BY <1>1, <2>1, LenProperties, EmptySeq
    <3>2. 1 \in 1 .. Len(h) /\ 1 \in 1 .. Len(r)
      BY <3>1
    <3>3. QED BY <1>1, <3>1, <3>2, PartsOfConcat
  <2>4. (h \o r)[1] # "["
    BY <1>2, <2>3
  <2>5. Len(h) + 1 \in 1 .. Len(h \o r)
    BY <2>3
  <2>6. Contains(h \o r, ":")
    BY <2>1, <2>3, <2>5 DEF Contains
  <2>7. Host(Info(p, a, <<>>, 0, q), h \o r) = Info(p, a, h, Atoi(t.port), q)
    <3> DEFINE u == h \o r
               cut == CutUntilChar(u, {":"}, FALSE)
    <3>1. u[1] # "[" /\ Contains(u, ":")
      BY <2>4, <2>6
    <3>2. cut = [head |-> h, rest |-> t.port]
      BY <2>2
    <3> HIDE DEF u
    <3>3. Host(Info(p, a, <<>>, 0, q), u) = Info(p, a, cut.head, Atoi(cut.rest), q)
      BY <3>1, WithPort
    <3> HIDE DEF cut
    <3>4. cut.head = h /\ cut.rest = t.port
      BY ONLY <3>2
    <3>5. QED BY <3>3, <3>4 DEF u
  <2>8. Atoi(t.port) = PortOf(t)
    BY <1>4, PortReads
  <2>9. QED BY <1>1, <2>7, <2>8 DEF Info, h, r
<1>5. QED BY <1>3, <1>4

\* So what Authority has left of a URL gives its host and port.
LEMMA HostReads ==
  ASSUME NEW t, IsUrl(t), t.proto # <<>>, t.v6 => t.port # <<>>, NEW p, NEW a, NEW q
  PROVE  Host(Info(p, a, <<>>, 0, q), Named(t) \o Numbered(t)) =
           Info(p, a, t.hostname, PortOf(t), q)
  BY LiteralReads, NameReads

\* Nothing in the host and its port ends the authority or the authorization.
LEMMA HostPlain ==
  ASSUME NEW t, IsUrl(t), t.proto # <<>>
  PROVE  LET u == Named(t) \o Numbered(t)
         IN /\ u \in Seq(Token) /\ u # <<>>
            /\ \A i \in 1 .. Len(u) : u[i] \notin {"/", "?", "#", "@"}
<1> DEFINE v == Named(t)
           r == Numbered(t)
           Bad == {"/", "?", "#", "@"}
<1>1. v \in Seq(Token) /\ r \in Seq(Token)
  BY Types
<1>2. v # <<>> /\ \A i \in 1 .. Len(v) : v[i] \notin Bad
  <2>1. CASE t.v6
    <3> DEFINE h == t.hostname
               b == <<"[">>
               c == <<"]">>
    <3>1. /\ b \in Seq(Token) /\ c \in Seq(Token) /\ h \in Seq(Token)
          /\ Len(b) = 1 /\ b[1] = "[" /\ Len(c) = 1 /\ c[1] = "]"
      BY Types, Separators
    <3>2. v = (b \o h) \o c
      BY <2>1 DEF Named
    <3>3. \A i \in 1 .. Len(h) : h[i] \notin Bad
      BY HostCharacters
    <3>3a. \A i \in 1 .. Len(b) : b[i] \notin Bad
      BY <3>1
    <3>3b. \A i \in 1 .. Len(c) : c[i] \notin Bad
      BY <3>1
    <3> HIDE DEF b, c, h, v, Bad
    <3>4. /\ b \o h \in Seq(Token)
          /\ \A i \in 1 .. Len(b \o h) : (b \o h)[i] \notin Bad
      BY <3>1, <3>3, <3>3a, BothPlain
    <3>5. (b \o h) \o c \in Seq(Token) /\ \A i \in 1 .. Len(v) : v[i] \notin Bad
      BY <3>1, <3>2, <3>3b, <3>4, BothPlain
    <3>6. Len(v) # 0
      BY <3>1, <3>2, <3>4, PartsOfConcat, LenProperties
    <3>7. QED BY <3>5, <3>6, EmptySeq
  <2>2. CASE ~t.v6
    BY <2>2, HostCharacters DEF Named, IsUrl
  <2>3. QED BY <2>1, <2>2
<1>3. \A i \in 1 .. Len(r) : r[i] \notin Bad
  <2>1. CASE t.port = <<>>
    BY <2>1 DEF Numbered
  <2>2. CASE t.port # <<>>
    <3>1. Len(t.port) = 1 /\ t.port[1] \notin Bad
      <4>1. Len(t.port) = 1 /\ t.port[1] \notin Delimiters
        BY <2>2, PortReads
      <4>2. QED BY <4>1 DEF Delimiters
    <3>2. Len(r) = 2 /\ r[1] = ":" /\ r[2] = t.port[1]
      <4>1. r = <<":">> \o t.port
        BY <2>2 DEF Numbered
      <4>2. t.port \in Seq(Token) /\ <<":">> \in Seq(Token)
        BY Types, Separators
      <4>3. QED BY <4>1, <4>2, <3>1
    <3>3. QED BY <3>1, <3>2
  <2>3. QED BY <2>1, <2>2
<1> HIDE DEF v, r, Bad
<1>4. v \o r \in Seq(Token) /\ \A i \in 1 .. Len(v \o r) : (v \o r)[i] \notin Bad
  BY <1>1, <1>2, <1>3, BothPlain
<1>5. v \o r # <<>>
  BY <1>1, <1>2, EmptySeq, LenProperties, PartsOfConcat
<1>6. QED BY <1>4, <1>5 DEF v, r, Bad

\* Behind the authorization, whatever characters it has.
LEMMA AuthorityReads ==
  ASSUME NEW t, IsUrl(t), t.proto # <<>>, t.v6 => t.port # <<>>, NEW p, NEW q
  PROVE  Authority(Info(p, <<>>, <<>>, 0, q), Opening(t) \o (Named(t) \o Numbered(t))) =
           Info(p, t.authorization, t.hostname, PortOf(t), q)
<1> DEFINE a == t.authorization
           H == Named(t) \o Numbered(t)
           at == <<"@">>
           info == Info(p, <<>>, <<>>, 0, q)
<1>1. /\ H \in Seq(Token) /\ H # <<>>
      /\ \A i \in 1 .. Len(H) : H[i] \notin {"/", "?", "#", "@"}
  BY HostPlain
<1>2. a \in Seq(Token) /\ at \in Seq(Token) /\ Len(at) = 1 /\ at[1] = "@"
  BY Types, Separators
<1>3. CASE a = <<>>
  <2>1. Opening(t) \o H = H
    BY <1>1, <1>3 DEF Opening
  <2> HIDE DEF H
  <2>2. {i \in DOMAIN H : H[i] = "@"} = {}
    BY <1>1
  <2>3. Authority(info, H) = Host(info, H)
    BY <1>1, <2>2 DEF Authority
  <2>4. Host(info, H) = Info(p, <<>>, t.hostname, PortOf(t), q)
    <3>1. \A e : Host(Info(p, e, <<>>, 0, q), H) = Info(p, e, t.hostname, PortOf(t), q)
      BY HostReads DEF H
    <3>2. QED BY <3>1, Zenon
  <2>5. QED BY <2>1, <2>3, <2>4, <1>3, Zenon DEF H
<1>4. CASE a # <<>>
  <2> DEFINE b == a \o at
             u == b \o H
             ats == {i \in DOMAIN u : u[i] = "@"}
  <2>1. Opening(t) \o H = u
    BY <1>4 DEF Opening
  <2> HIDE DEF H, a, at
  <2>2. /\ b \in Seq(Token) /\ Len(b) = Len(a) + 1 /\ Len(a) \in Nat
        /\ b[Len(a) + 1] = "@" /\ SubSeq(b, 1, Len(a)) = a
    BY <1>2, PartsOfConcat, LenProperties
  <2> HIDE DEF b
  <2>3. /\ u \in Seq(Token) /\ Len(u) = Len(b) + Len(H) /\ Len(H) \in Nat
        /\ \A i \in 1 .. Len(b) : u[i] = b[i]
        /\ \A i \in 1 .. Len(H) : u[Len(b) + i] = H[i]
        /\ SubSeq(u, 1, Len(b)) = b
        /\ SubSeq(u, Len(b) + 1, Len(u)) = H
    <3>1. H \in Seq(Token) /\ b \in Seq(Token)
      BY <1>1, <2>2
    <3>2. QED BY <3>1, PartsOfConcat, LenProperties
  <2> HIDE DEF u
  <2>4. Len(a) + 1 \in ats /\ ats \in SUBSET Nat
    BY <2>2, <2>3
  <2>5. \A i \in ats : i <= Len(a) + 1
    <3> SUFFICES ASSUME NEW i \in 1 .. Len(u), u[i] = "@", ~(i <= Len(b)) PROVE FALSE
      BY <2>2, <2>3
    <3>1. i - Len(b) \in 1 .. Len(H) /\ Len(b) + (i - Len(b)) = i
      BY <2>2, <2>3
    <3>2. u[i] = H[i - Len(b)]
      BY <3>1, <2>3
    <3>3. QED BY <3>1, <3>2, <1>1
  <2>6. LastAt(ats) = Len(a) + 1
    BY <2>4, <2>5, LastOne DEF LastAt
  <2>7. ats # {}
    BY <2>4
  <2> HIDE DEF ats
  <2>8. u # <<>>
    BY <2>2, <2>3, EmptySeq
  <2>9. SubSeq(u, 1, (Len(a) + 1) - 1) = a
    <3>1. (Len(a) + 1) - 1 = Len(a)
      BY <2>2
    <3>2. SubSeq(u, 1, Len(a)) = SubSeq(SubSeq(u, 1, Len(b)), 1, Len(a))
      BY <2>2, <2>3
    <3>3. QED BY <3>1, <3>2, <2>2, <2>3
  <2>10. SubSeq(u, (Len(a) + 1) + 1, Len(u)) = H
    BY <2>2, <2>3
  <2>11. Authority(info, u) = Host(Info(p, a, <<>>, 0, q), H)
    <3> HIDE DEF info
    <3>1. Authority(info, u) =
            Host([info EXCEPT !.authorization = SubSeq(u, 1, LastAt(ats) - 1)],
                 SubSeq(u, LastAt(ats) + 1, Len(u)))
      BY <2>7, <2>8, BehindLast DEF ats
    <3>2. [info EXCEPT !.authorization = a] = Info(p, a, <<>>, 0, q)
      <4> DEFINE R(x, f) == [proto |-> p, authorization |-> x, hostname |-> <<>>,
                             port |-> 0, path |-> q, overrun |-> f]
      <4>1. \A f : [R(<<>>, f) EXCEPT !.authorization = a] = R(a, f)
        OBVIOUS
      <4>2. info = R(<<>>, FALSE) /\ Info(p, a, <<>>, 0, q) = R(a, FALSE)
        BY DEF Info, info
      <4> HIDE DEF R
      <4>3. QED BY <4>1, <4>2, Zenon
    <3>3. QED BY <3>1, <3>2, <2>6, <2>9, <2>10
  <2>12. Host(Info(p, a, <<>>, 0, q), H) = Info(p, a, t.hostname, PortOf(t), q)
    BY HostReads DEF H
  <2>13. QED BY <2>1, <2>11, <2>12 DEF H, a
<1>5. QED BY <1>3, <1>4

\* Nothing before the path ends the authority.
LEMMA AuthorityPlain ==
  ASSUME NEW t, IsUrl(t), t.proto # <<>>,
         ToSet(t.authorization) \cap {"/", "?", "#"} = {}
  PROVE  LET u == Opening(t) \o (Named(t) \o Numbered(t))
         IN u \in Seq(Token) /\ \A i \in 1 .. Len(u) : u[i] \notin {"/", "?", "#"}
<1> DEFINE a == t.authorization
           O == Opening(t)
           H == Named(t) \o Numbered(t)
           Ends == {"/", "?", "#"}
<1>1. H \in Seq(Token) /\ \A i \in 1 .. Len(H) : H[i] \notin Ends
  BY HostPlain
<1>2. O \in Seq(Token) /\ a \in Seq(Token)
  BY Types
<1>3. \A i \in 1 .. Len(a) : a[i] \notin Ends
  BY <1>2, SMTT(60) DEF ToSet
<1>4. \A i \in 1 .. Len(O) : O[i] \notin Ends
  <2>1. CASE a = <<>>
    BY <2>1 DEF Opening
  <2>2. CASE a # <<>>
    <3> DEFINE at == <<"@">>
    <3>1. at \in Seq(Token) /\ Len(at) = 1 /\ at[1] = "@"
      BY Separators
    <3>2. O = a \o at
      BY <2>2 DEF Opening
    <3>3. \A i \in 1 .. Len(at) : at[i] \notin Ends
      BY <3>1
    <3> HIDE DEF a, at, Ends, O
    <3>4. QED BY <1>2, <1>3, <3>1, <3>2, <3>3, BothPlain
  <2>3. QED BY <2>1, <2>2
<1> HIDE DEF O, H, Ends
<1>5. O \o H \in Seq(Token) /\ \A i \in 1 .. Len(O \o H) : (O \o H)[i] \notin Ends
  BY <1>1, <1>2, <1>4, BothPlain
<1>6. QED BY <1>5 DEF O, H, Ends

\* Two slashes are all that is counted.
LEMMA TwoSlashes ==
  ASSUME NEW r \in Seq(Token)
  PROVE  LET u == <<"/", "/">> \o r
         IN /\ Cardinality({i \in 1 .. 2 : \A j \in 1 .. i : j \in DOMAIN u /\ u[j] = "/"}) = 2
            /\ SubSeq(u, 3, Len(u)) = r
<1> DEFINE s == <<"/", "/">>
           u == s \o r
           I == {i \in 1 .. 2 : \A j \in 1 .. i : j \in DOMAIN u /\ u[j] = "/"}
<1>1. s \in Seq(Token) /\ Len(s) = 2 /\ s[1] = "/" /\ s[2] = "/"
  BY Separators
<1> HIDE DEF s
<1>2. /\ u \in Seq(Token) /\ Len(u) = 2 + Len(r) /\ Len(r) \in Nat
      /\ u[1] = "/" /\ u[2] = "/" /\ SubSeq(u, 3, Len(u)) = r
  <2>0. s \in Seq(Token)
    BY <1>1
  <2>1. /\ u \in Seq(Token) /\ Len(u) = Len(s) + Len(r)
        /\ \A i \in 1 .. Len(s) : u[i] = s[i]
        /\ SubSeq(u, Len(s) + 1, Len(u)) = r
    BY <2>0, PartsOfConcat
  <2>2. Len(r) \in Nat
    BY LenProperties
  <2> HIDE DEF u
  <2>3. QED BY <1>1, <2>1, <2>2
<1> HIDE DEF u
<1>3. I = {1} \cup {2}
  BY <1>2
<1>4. Cardinality({1} \cup {2}) = 2
  <2>1. IsFiniteSet({1}) /\ Cardinality({1}) = 1
    BY FS_Singleton, Zenon
  <2>2. Cardinality({1} \cup {2}) = IF 2 \in {1} THEN Cardinality({1}) ELSE Cardinality({1}) + 1
    BY <2>1, FS_AddElement, Zenon
  <2> HIDE DEF u
  <2>3. 2 \notin {1}
    OBVIOUS
  <2>4. Cardinality({1} \cup {2}) = 1 + 1
    BY <2>1, <2>2, <2>3, Zenon
  <2>5. 1 + 1 = 2
    OBVIOUS
  <2>6. QED BY <2>4, <2>5, Zenon
<1>5. QED BY <1>2, <1>3, <1>4 DEF u, s

\* Copied, in terms of what each cut gives.
LEMMA SchemeReads ==
  ASSUME NEW url, NEW p, NEW w, NEW v, NEW A, NEW q,
         Contains(url, ":"),
         CutUntilChar(url, {":"}, FALSE) = [head |-> p, rest |-> w],
         Cardinality({i \in 1 .. 2 : \A j \in 1 .. i : j \in DOMAIN w /\ w[j] = "/"}) = 2,
         SubSeq(w, 3, Len(w)) = v,
         CutUntilChar(v, {"/", "?", "#"}, TRUE) = [head |-> A, rest |-> q]
  PROVE  Copied(url) = Authority(Info(p, <<>>, <<>>, 0, StrCopy(q, PathSize)), A)
<1> DEFINE k == StrCopy(q, PathSize)
           scheme == CutUntilChar(url, {":"}, FALSE)
           N(x) == Cardinality({i \in 1 .. 2 : \A j \in 1 .. i : j \in DOMAIN x /\ x[j] = "/"})
           Cut(x, n) == CutUntilChar(SubSeq(x, n + 1, Len(x)), {"/", "?", "#"}, TRUE)
           G(x, y) == Authority([Cleared EXCEPT !.proto = x, !.path = StrCopy(y.rest, PathSize)], y.head)
<1>1. Copied(url) = G(scheme.head, Cut(scheme.rest, N(scheme.rest)))
  BY DEF Copied
<1>2. scheme = [head |-> p, rest |-> w]
  OBVIOUS
<1>3. N(w) = 2
  OBVIOUS
<1>4. Cut(w, 2) = [head |-> A, rest |-> q]
  <2>1. 2 + 1 = 3
    OBVIOUS
  <2>2. QED BY <2>1
<1>5. G(p, [head |-> A, rest |-> q]) = Authority([Cleared EXCEPT !.proto = p, !.path = k], A)
  OBVIOUS
<1>6. [Cleared EXCEPT !.proto = p, !.path = k] = Info(p, <<>>, <<>>, 0, k)
  <2> DEFINE R(x, y, f) == [proto |-> x, authorization |-> <<>>, hostname |-> <<>>,
                            port |-> 0, path |-> y, overrun |-> f]
  <2>1. \A f : [R(<<>>, <<>>, f) EXCEPT !.proto = p, !.path = k] = R(p, k, f)
    <3> SUFFICES ASSUME NEW f
                 PROVE  [R(<<>>, <<>>, f) EXCEPT !.proto = p, !.path = k] = R(p, k, f)
      OBVIOUS
    <3> HIDE DEF k
    <3>1. [R(<<>>, <<>>, f) EXCEPT !.proto = p] = R(p, <<>>, f)
      OBVIOUS
    <3>2. [R(p, <<>>, f) EXCEPT !.path = k] = R(p, k, f)
      OBVIOUS
    <3>3. QED BY <3>1, <3>2, Zenon
  <2>2. Cleared = R(<<>>, <<>>, FALSE) /\ Info(p, <<>>, <<>>, 0, k) = R(p, k, FALSE)
    BY DEF Cleared, Info
  <2> HIDE DEF R, k
  <2>3. QED BY <2>1, <2>2, Zenon
<1> HIDE DEF scheme, N, Cut, G
<1>7. scheme.head = p /\ scheme.rest = w
  BY ONLY <1>2
<1>8. QED BY <1>1, <1>3, <1>4, <1>5, <1>6, <1>7

\* The parts of the whole URL are what is copied, the path as far as it has room.
LEMMA UrlReads ==
  ASSUME NEW t, IsUrl(t), t.proto # <<>>, t.v6 => t.port # <<>>,
         ToSet(t.authorization) \cap {"/", "?", "#"} = {}
  PROVE  Copied(Write(t)) = Info(t.proto, t.authorization, t.hostname, PortOf(t),
                                   StrCopy(t.path, PathSize))
<1> DEFINE A == Opening(t) \o (Named(t) \o Numbered(t))
           S == <<":", "/", "/">>
           v == A \o t.path
           w == <<"/", "/">> \o v
           r == S \o v
           url == t.proto \o r
<1>1. A \in Seq(Token) /\ \A i \in 1 .. Len(A) : A[i] \notin {"/", "?", "#"}
  BY AuthorityPlain
<1>2. S \in Seq(Token) /\ t.proto \in Seq(Token) /\ t.path \in Seq(Token)
  BY Types, Separators
<1>3. v \in Seq(Token)
  BY <1>1, <1>2, ConcatProperties
<1>4. Write(t) = url
  <2> DEFINE a == t.proto
             c == Opening(t)
             d == Named(t)
             e == Numbered(t)
             f == t.path
             z == a \o S
             x == z \o c
             y == d \o e
             u == c \o y
  <2>1. Write(t) = ((x \o d) \o e) \o f
    BY DEF Write, Opening, Named, Numbered
  <2>2. a \in Seq(Token) /\ c \in Seq(Token) /\ d \in Seq(Token) /\ e \in Seq(Token) /\ f \in Seq(Token)
    BY Types
  <2> HIDE DEF a, c, d, e, f, S
  <2>3. z \in Seq(Token) /\ y \in Seq(Token)
    BY <1>2, <2>2
  <2>4. x \in Seq(Token) /\ u \in Seq(Token)
    <3> HIDE DEF z, y
    <3> QED BY <2>2, <2>3
  <2>5. (x \o d) \o e = x \o y
    <3>1. x \in Seq(Token)
      BY <2>4
    <3> HIDE DEF x
    <3> QED BY <2>2, <3>1
  <2>6. x \o y = z \o u
    <3>1. z \in Seq(Token)
      BY <2>3
    <3>2. y \in Seq(Token)
      BY <2>3
    <3> HIDE DEF y, z
    <3> QED BY <2>2, <3>1, <3>2, SMTT(60)
  <2>7. (z \o u) \o f = z \o (u \o f)
    <3>1. z \in Seq(Token)
      BY <2>3
    <3>2. u \in Seq(Token)
      BY <2>4
    <3> HIDE DEF u, z
    <3> QED BY <2>2, <3>1, <3>2
  <2>8. z \o (u \o f) = a \o (S \o (u \o f))
    <3>1. S \in Seq(Token)
      BY <1>2
    <3>2. u \in Seq(Token)
      BY <2>4
    <3> HIDE DEF u
    <3> QED BY <2>2, <3>1, <3>2, SMTT(60)
  <2>9. Write(t) = a \o (S \o (u \o f))
    BY <2>1, <2>5, <2>6, <2>7, <2>8, Zenon
  <2>10. QED BY <2>9 DEF a, c, d, e, f
<1> HIDE DEF A, v
<1>5. r \in Seq(Token) /\ r # <<>> /\ r[1] = ":" /\ Tail(r) = w
  BY <1>2, <1>3, Separators
<1> HIDE DEF r, S
<1>6. \A i \in 1 .. Len(t.proto) : t.proto[i] # ":"
  <2>1. \A i \in 1 .. Len(t.proto) : t.proto[i] \in ToSet(t.proto)
    BY <1>2 DEF ToSet
  <2>2. ToSet(t.proto) \cap Delimiters = {}
    BY DEF IsUrl
  <2>3. QED BY <2>1, <2>2 DEF Delimiters
<1>7. CutUntilChar(url, {":"}, FALSE) = [head |-> t.proto, rest |-> w]
  BY <1>2, <1>5, <1>6, CutBehind
<1>8. Contains(url, ":")
  <2>1. Len(t.proto) \in Nat /\ Len(r) \in Nat /\ Len(r) > 0
    BY <1>2, <1>5, LenProperties, EmptySeq
  <2>2. Len(url) = Len(t.proto) + Len(r) /\ url[Len(t.proto) + 1] = r[1]
    BY <1>2, <1>5, <2>1, PartsOfConcat
  <2> HIDE DEF url
  <2>3. QED BY <1>5, <2>1, <2>2 DEF Contains
<1>9. /\ Cardinality({i \in 1 .. 2 : \A j \in 1 .. i : j \in DOMAIN w /\ w[j] = "/"}) = 2
      /\ SubSeq(w, 3, Len(w)) = v
  BY <1>3, TwoSlashes
<1>10. CutUntilChar(v, {"/", "?", "#"}, TRUE) = [head |-> A, rest |-> t.path]
  <2>1. CASE t.path = <<>>
    <3>1. v = A
      BY <1>1, <2>1 DEF v
    <3>2. QED BY <1>1, <2>1, <3>1, CutNowhere
  <2>2. CASE t.path # <<>>
    <3>1. t.path[1] \in {"/", "?", "#"}
      BY <2>2 DEF IsUrl
    <3>2. QED BY <1>1, <1>2, <2>2, <3>1, CutBefore DEF v
  <2>3. QED BY <2>1, <2>2
<1> HIDE DEF url, w
<1>12. Copied(url) = Authority(Info(t.proto, <<>>, <<>>, 0, StrCopy(t.path, PathSize)), A)
  BY <1>7, <1>8, <1>9, <1>10, SchemeReads
<1>13. \A q : Authority(Info(t.proto, <<>>, <<>>, 0, q), A) =
              Info(t.proto, t.authorization, t.hostname, PortOf(t), q)
  BY AuthorityReads DEF A
<1>14. QED BY <1>4, <1>12, <1>13

\* A URL without a scheme is a path.
LEMMA PathReads ==
  ASSUME NEW t, IsUrl(t), t.proto = <<>>
  PROVE  Copied(Write(t)) = Info(<<>>, t.authorization, t.hostname, 0, StrCopy(t.path, PathSize))
<1>1. Write(t) = t.path /\ t.authorization = <<>> /\ t.hostname = <<>> /\ ":" \notin ToSet(t.path)
  BY DEF Write, IsUrl
<1>2. ~Contains(t.path, ":")
  BY <1>1 DEF Contains, ToSet
<1>3. Copied(t.path) = [Cleared EXCEPT !.path = StrCopy(t.path, PathSize)]
  BY <1>2 DEF Copied
<1>4. QED BY <1>1, <1>3 DEF Cleared, Info

\* What a client has is what was split from its own URL.
UrlInv ==
    /\ target \in [Clients -> Targets]
    /\ DOMAIN m_info = Clients
    /\ \A c \in Clients : m_info[c] \in {Cleared, SplitVideoUrl(Write(target[c]))}

LEMMA UrlInductive == Spec => []UrlInv
<1>1. Init => UrlInv
  BY DEF Init, UrlInv
<1>2. UrlInv /\ [Next]_vars => UrlInv'
  <2> SUFFICES ASSUME UrlInv, [Next]_vars PROVE UrlInv'
    OBVIOUS
  <2>1. ASSUME NEW c \in Clients, Connect(c) PROVE UrlInv'
    <3> DEFINE info == SplitVideoUrl(Write(target[c]))
    <3>1. m_info' = [m_info EXCEPT ![c] = info] /\ target' = target
      BY <2>1 DEF Connect
    <3>2. \A d \in Clients : d # c => m_info'[d] = m_info[d]
      BY <3>1 DEF UrlInv
    <3>3. m_info'[c] = info /\ DOMAIN m_info' = Clients
      BY <3>1 DEF UrlInv
    <3>4. QED BY <3>1, <3>2, <3>3 DEF UrlInv
  <2>2. ASSUME UNCHANGED <<target, m_info>> PROVE UrlInv'
    BY <2>2 DEF UrlInv
  <2>3. QED
    BY <2>1, <2>2 DEF Next, vars, ClientClose, Bind, Listen, OtherOpens, OtherCloses
<1>3. QED BY <1>1, <1>2, PTL DEF Spec

\* What overruns a field, and what of the path is copied.
LEMMA RoomOf ==
  ASSUME NEW t, IsUrl(t), NEW n, NEW q
  PROVE  LET info == Info(t.proto, t.authorization, t.hostname, n, q)
         IN /\ Overruns(info) <=> \/ Len(t.proto) + 1 > ProtoSize
                                 \/ Len(t.authorization) + 1 > AuthorizationSize
                                 \/ Len(t.hostname) + 1 > HostnameSize
            /\ StrCopy(t.path, PathSize) = SubSeq(t.path, 1, Least(Len(t.path), PathSize - 1))
<1> DEFINE info == Info(t.proto, t.authorization, t.hostname, n, q)
<1>1. /\ Len(t.proto) \in Nat /\ Len(t.authorization) \in Nat /\ Len(t.hostname) \in Nat
      /\ ProtoSize \in Nat /\ AuthorizationSize \in Nat /\ HostnameSize \in Nat
  BY SizesAssumption, LenProperties DEF IsUrl
<1>2. /\ info.proto = t.proto /\ info.authorization = t.authorization
      /\ info.hostname = t.hostname
  BY DEF Info
<1> HIDE DEF info
<1>3. Overruns(info) <=> \/ ~(Len(t.proto) < ProtoSize)
                        \/ ~(Len(t.authorization) < AuthorizationSize)
                        \/ ~(Len(t.hostname) < HostnameSize)
  BY <1>2 DEF Overruns, Fits
<1>4. Overruns(info) <=> \/ Len(t.proto) + 1 > ProtoSize
                        \/ Len(t.authorization) + 1 > AuthorizationSize
                        \/ Len(t.hostname) + 1 > HostnameSize
  BY <1>1, <1>3
<1>5. QED BY <1>4 DEF info, StrCopy

\* Splitting gives back what the URL was written from, the path as far as it has
\* room, if the other parts fit their fields; a part that does not overruns its
\* field, and nothing else does (split_video_url, RtspClient::connect).
THEOREM UrlsSplitBack == Spec => []SplitsBack
<1>1. UrlInv => SplitsBack
  <2> SUFFICES ASSUME UrlInv, NEW c \in Clients, m_info[c] # Cleared,
                      ToSet(target[c].authorization) \cap {"/", "?", "#"} = {},
                      target[c].v6 => target[c].port # <<>>
               PROVE  LET t == target[c]
                      IN IF \/ Len(t.proto) + 1 > ProtoSize
                            \/ Len(t.authorization) + 1 > AuthorizationSize
                            \/ Len(t.hostname) + 1 > HostnameSize
                           THEN m_info[c].overrun
                         ELSE m_info[c] =
                                [proto |-> t.proto, authorization |-> t.authorization,
                                 hostname |-> t.hostname,
                                 path |-> SubSeq(t.path, 1, Least(Len(t.path), PathSize - 1)),
                                 port |-> IF t.proto = <<>> THEN 0
                                          ELSE IF t.port = <<>> THEN RTSP_DEFAULT_PORT
                                          ELSE Decimal[t.port[1]],
                                 overrun |-> FALSE]
    BY Zenon DEF SplitsBack
  <2> DEFINE t == target[c]
             q == SubSeq(t.path, 1, Least(Len(t.path), PathSize - 1))
             n == IF t.proto = <<>> THEN 0 ELSE PortOf(t)
             info == Info(t.proto, t.authorization, t.hostname, n, q)
  <2>1. IsUrl(t) /\ m_info[c] = SplitVideoUrl(Write(t))
    BY TargetsAssumption DEF UrlInv
  <2>2. StrCopy(t.path, PathSize) = q
    BY <2>1, RoomOf
  <2>3. Copied(Write(t)) = info
    <3>1. CASE t.proto = <<>>
      BY <2>1, <2>2, <3>1, PathReads
    <3>2. CASE t.proto # <<>>
      BY <2>1, <2>2, <3>2, UrlReads
    <3>3. QED BY <3>1, <3>2
  <2>4. m_info[c] = IF Overruns(info) THEN Spoiled ELSE info
    BY <2>1, <2>3 DEF SplitVideoUrl
  <2>5. Overruns(info) <=> \/ Len(t.proto) + 1 > ProtoSize
                          \/ Len(t.authorization) + 1 > AuthorizationSize
                          \/ Len(t.hostname) + 1 > HostnameSize
    <3> HIDE DEF q, n
    <3>1. QED BY <2>1, RoomOf
  <2>6. Spoiled.overrun
    BY DEF Spoiled, Cleared
  <2>7. info = [proto |-> t.proto, authorization |-> t.authorization,
                hostname |-> t.hostname, path |-> q,
                port |-> IF t.proto = <<>> THEN 0
                         ELSE IF t.port = <<>> THEN RTSP_DEFAULT_PORT
                         ELSE Decimal[t.port[1]],
                overrun |-> FALSE]
    BY DEF Info, PortOf
  <2> HIDE DEF info
  <2>8. QED BY <2>4, <2>5, <2>6, <2>7
<1>2. QED BY UrlInductive, <1>1, PTL
===============================================================================
