----------------------------- MODULE NaluDelivery -----------------------------
(***************************************************************************)
(* What RTP over one ordered and complete channel promises for H.264: the  *)
(* units come out as they went in, in the same order, each one once.       *)
(***************************************************************************)
EXTENDS Naturals, Sequences

CONSTANT Data       \* what a unit may hold

VARIABLES
    sent,       \* units given to the sender
    got         \* units the receiving application has taken

vars == <<sent, got>>

Init ==
    /\ sent = <<>>
    /\ got = <<>>

\* A unit, or several at once, are given to the sender.
Send ==
    /\ sent' \in Seq(Data)
    /\ Len(sent') > Len(sent)
    /\ SubSeq(sent', 1, Len(sent)) = sent
    /\ UNCHANGED got

Deliver ==
    /\ Len(got) < Len(sent)
    /\ got' = Append(got, sent[Len(got) + 1])
    /\ UNCHANGED sent

Next == Send \/ Deliver

Spec == Init /\ [][Next]_vars
===============================================================================
