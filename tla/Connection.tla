----------------------------- MODULE Connection ------------------------------
(***************************************************************************)
(* From the URL to the descriptor: RtspClient::connect up to the handshake *)
(* (rtsp_client.cpp:166-173), TcpClient and TcpServer (src/socket), which  *)
(* draw their descriptors from the table of one process.                   *)
(*                                                                         *)
(* Every call is one step: an object is used by one thread.  What fails in *)
(* the kernel, and the number it gives, are choices.                       *)
(***************************************************************************)
EXTENDS RtspUrl

CONSTANTS
    Clients, Servers,   \* RtspClient and TcpServer objects
    Other,              \* whatever else opens descriptors in the process
    Targets,            \* what the URLs are written from
    Addresses,          \* host names that inet_addr takes
    Fds                 \* bound: numbers of descriptors of the process

ASSUME ObjectsAssumption ==
    /\ Clients \cap Servers = {} /\ Other \notin Clients \cup Servers
    /\ Fds \subseteq Nat

ASSUME TokensAssumption ==
    /\ Delimiters \subseteq Token
    /\ \A n \in DOMAIN Decimal :
         /\ n \in Token \ Delimiters
         /\ Decimal[n] \in Nat /\ Decimal[n] < 65536

ASSUME TargetsAssumption == \A t \in Targets : IsUrl(t)

Objects == Clients \cup Servers

INVALID_SOCKET == -1

VARIABLES
    target,     \* of each client, what its m_rtspurl was written from
    m_info,     \* of each client
    fds,        \* the owners of the open descriptors
    m_sockfd,   \* of each object
    last,       \* the last call: [op, obj]
    stale,      \* history: servers whose last bind() or listen() failed
    reopened,   \* history: objects that called connect() or bind() once more
                \* while their descriptor was open
    robbed      \* history: objects whose descriptor another one closed

vars == <<target, m_info, fds, m_sockfd, last, stale, reopened, robbed>>

Init ==
    /\ target \in [Clients -> Targets]
    /\ m_info = [c \in Clients |-> Cleared]
    /\ fds = <<>>
    /\ m_sockfd = [o \in Objects |-> INVALID_SOCKET]
    /\ last = [op |-> "none", obj |-> Other]
    /\ stale = {} /\ reopened = {} /\ robbed = {}

Free == Fds \ DOMAIN fds

Opened(n, obj) == [f \in DOMAIN fds \cup {n} |-> IF f = n THEN obj ELSE fds[f]]

Without(n) == [f \in DOMAIN fds \ {n} |-> fds[f]]

Own(obj) == {f \in DOMAIN fds : fds[f] = obj}

Call(op, obj) == last' = [op |-> op, obj |-> obj]

\* connect() and bind() ask for a descriptor whatever m_sockfd holds.
Reopen(obj) == reopened' = IF m_sockfd[obj] \in Own(obj) THEN reopened \cup {obj} ELSE reopened

\* ::close of m_sockfd; a number that is not open is an error nobody looks at.
Close(obj) ==
    LET n == m_sockfd[obj]
    IN /\ fds' = Without(n)
       /\ robbed' = IF n \in DOMAIN fds THEN robbed \cup ({fds[n]} \ {obj}) ELSE robbed

-------------------------------------------------------------------------------
(* TcpClient *)

\* Seeded fault: a failed ::connect leaves m_sockfd as it is.
AfterFailedKept(n) == n

\* Seeded fault: the number of the error takes the place of the descriptor's.
AfterFailedErrno(n) == -111

\* What the close() of a failed ::connect leaves in m_sockfd.
AfterFailed(n) == INVALID_SOCKET

\* Seeded fault: the descriptor stays open.
FailedFdsOpen(n, c) == IF n = INVALID_SOCKET THEN fds ELSE Opened(n, c)

FailedFds(n, c) == fds

\* Seeded fault: TcpClient::close forgets to reset it.
AfterCloseKept(n) == n

AfterClose(n) == INVALID_SOCKET

\* socket() fails, or ::connect does and the new descriptor is closed again.
ConnectFails(c) ==
    \E n \in Free \cup {INVALID_SOCKET} :
      /\ m_sockfd' = [m_sockfd EXCEPT ![c] = AfterFailed(n)]
      /\ fds' = FailedFds(n, c)

\* inet_addr is not looked at: a name leads to the broadcast address.
ConnectSucceeds(c, info) ==
    \E n \in Free :
      /\ ~info.overrun => info.hostname \in Addresses /\ info.port # 0
      /\ m_sockfd' = [m_sockfd EXCEPT ![c] = n]
      /\ fds' = Opened(n, c)

\* RtspClient::connect; the handshake that follows never closes.
Connect(c) ==
    LET info == SplitVideoUrl(Write(target[c]))
    IN /\ m_info' = [m_info EXCEPT ![c] = info]
       /\ ConnectFails(c) \/ ConnectSucceeds(c, info)
       /\ Reopen(c)
       /\ Call("connect", c)
       /\ UNCHANGED <<target, stale, robbed>>

\* TcpClient::close
ClientClose(c) ==
    /\ Close(c)
    /\ m_sockfd' = [m_sockfd EXCEPT ![c] = AfterClose(@)]
    /\ Call("close", c)
    /\ UNCHANGED <<target, m_info, stale, reopened>>

-------------------------------------------------------------------------------
(* TcpServer *)

\* socket() fails; or ::bind does, and the number of the descriptor closed again
\* stays in m_sockfd; or neither.
Bind(s) ==
    /\ \/ /\ \E n \in Free \cup {INVALID_SOCKET} : m_sockfd' = [m_sockfd EXCEPT ![s] = n]
          /\ stale' = stale \cup {s}
          /\ UNCHANGED fds
       \/ \E n \in Free :
            /\ m_sockfd' = [m_sockfd EXCEPT ![s] = n]
            /\ fds' = Opened(n, s)
            /\ stale' = stale \ {s}
    /\ Reopen(s)
    /\ Call("bind", s)
    /\ UNCHANGED <<target, m_info, robbed>>

\* ::listen succeeds on the socket of a server, whichever; otherwise m_sockfd is
\* closed and kept.
Listen(s) ==
    /\ \/ /\ \E o \in Servers : m_sockfd[s] \in Own(o)
          /\ UNCHANGED <<fds, stale, robbed>>
       \/ /\ Close(s)
          /\ stale' = stale \cup {s}
    /\ Call("listen", s)
    /\ UNCHANGED <<target, m_info, m_sockfd, reopened>>

-------------------------------------------------------------------------------
(* The rest of the process *)

OtherOpens ==
    /\ \E n \in Free : fds' = Opened(n, Other)
    /\ Call("open", Other)
    /\ UNCHANGED <<target, m_info, m_sockfd, stale, reopened, robbed>>

OtherCloses ==
    /\ \E n \in Own(Other) : fds' = Without(n)
    /\ Call("close", Other)
    /\ UNCHANGED <<target, m_info, m_sockfd, stale, reopened, robbed>>

Next ==
    \/ \E c \in Clients : Connect(c) \/ ClientClose(c)
    \/ \E s \in Servers : Bind(s) \/ Listen(s)
    \/ OtherOpens \/ OtherCloses

Spec == Init /\ [][Next]_vars

-------------------------------------------------------------------------------
(* Properties *)

\* Every open descriptor has an owner, every object a number or none.
TypeOK ==
    /\ DOMAIN fds \subseteq Fds
    /\ \A f \in DOMAIN fds : fds[f] \in Objects \cup {Other}
    /\ m_sockfd \in [Objects -> Fds \cup {INVALID_SOCKET}]
    /\ stale \subseteq Servers
    /\ reopened \subseteq Objects
    /\ robbed \subseteq Objects \cup {Other}

\* Splitting gives back what the URL was written from, the path up to what its
\* field holds, for every authorization without a character that ends it, and
\* for every IPv6 literal with a port; README.md:5 gives the port where there is
\* none.  A field is overrun when its part and the end of the string do not fit,
\* and at no other time (split_video_url).
SplitsBack ==
    \A c \in Clients :
      LET t == target[c]
      IN /\ m_info[c] # Cleared
         /\ ToSet(t.authorization) \cap {"/", "?", "#"} = {}
         /\ t.v6 => t.port # <<>>
         => IF \/ Len(t.proto) + 1 > ProtoSize
               \/ Len(t.authorization) + 1 > AuthorizationSize
               \/ Len(t.hostname) + 1 > HostnameSize
              THEN m_info[c].overrun
            ELSE m_info[c] = [proto |-> t.proto, authorization |-> t.authorization,
                              hostname |-> t.hostname,
                              path |-> SubSeq(t.path, 1, Least(Len(t.path), PathSize - 1)),
                              port |-> IF t.proto = <<>> THEN 0
                                       ELSE IF t.port = <<>> THEN RTSP_DEFAULT_PORT
                                       ELSE Decimal[t.port[1]],
                              overrun |-> FALSE]

\* A client's number is of a descriptor it opened itself, or of none, unless
\* another object closed that descriptor (TcpClient.cpp:26-50).
HeldIsOwn ==
    \A c \in Clients \ robbed : m_sockfd[c] \in Own(c) \cup {INVALID_SOCKET}

\* No object has a descriptor open that it has lost the number of, except by
\* calling connect() or bind() again without a close (rtsp_client.cpp:170).
LostByReopening ==
    \A o \in Objects \ reopened : Own(o) \subseteq {m_sockfd[o]}

\* A call closes what its object opened; only listen() of a server whose last
\* bind() or listen() failed, and a client that was robbed, close what another
\* opened (TcpServer.cpp:51-64).
ClosesOwn ==
    [][\A f \in DOMAIN fds \ DOMAIN fds' :
         \/ fds[f] = last'.obj
         \/ last'.op = "listen" /\ last'.obj \in stale \cup robbed
         \/ last'.op = "close" /\ last'.obj \in robbed]_vars
===============================================================================
