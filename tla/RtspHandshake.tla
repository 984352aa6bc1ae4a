---------------------------- MODULE RtspHandshake ----------------------------
(***************************************************************************)
(* What RtspClient::connect promises to the RTSP server it talks to: the   *)
(* requests of one connection are OPTIONS, DESCRIBE, one SETUP for every   *)
(* stream of the description that came back, then PLAY, in that order,     *)
(* each at most once per stream; the client may give up between any two.   *)
(* How a request travels and how its reply is read is not visible here.    *)
(***************************************************************************)
EXTENDS Naturals

VARIABLES
    last,       \* method of the last request issued, "none" before the first
    known,      \* a description has been accepted
    owed,       \* streams of it that still lack their SETUP
    active      \* connect() is running

vars == <<last, known, owed, active>>

Methods == {"OPTIONS", "DESCRIBE", "SETUP", "PLAY"}

Init ==
    /\ last = "none"
    /\ known = FALSE
    /\ owed = 0
    /\ active = FALSE

\* connect() is called: nothing of an earlier call is left.
Call ==
    /\ ~active
    /\ active' = TRUE
    /\ last' = "none"
    /\ known' = FALSE
    /\ owed' = 0

IssueOptions ==
    /\ active
    /\ last = "none"
    /\ last' = "OPTIONS"
    /\ UNCHANGED <<known, owed, active>>

IssueDescribe ==
    /\ active
    /\ last = "OPTIONS"
    /\ last' = "DESCRIBE"
    /\ UNCHANGED <<known, owed, active>>

AcceptDescription ==
    /\ active
    /\ last = "DESCRIBE"
    /\ ~known
    /\ known' = TRUE
    /\ owed' \in Nat
    /\ UNCHANGED <<last, active>>

IssueSetup ==
    /\ active
    /\ known
    /\ owed > 0
    /\ last' = "SETUP"
    /\ owed' = owed - 1
    /\ UNCHANGED <<known, active>>

IssuePlay ==
    /\ active
    /\ known
    /\ owed = 0
    /\ last \in {"DESCRIBE", "SETUP"}
    /\ last' = "PLAY"
    /\ UNCHANGED <<known, owed, active>>

\* connect() returns, whether the exchange is complete or not.
Return ==
    /\ active
    /\ active' = FALSE
    /\ UNCHANGED <<last, known, owed>>

Next ==
    \/ Call
    \/ IssueOptions
    \/ IssueDescribe
    \/ AcceptDescription
    \/ IssueSetup
    \/ IssuePlay
    \/ Return

Spec == Init /\ [][Next]_vars
=============================================================================
