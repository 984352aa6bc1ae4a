----------------------------- MODULE MCSdpParser -----------------------------
(***************************************************************************)
(* Descriptions for SdpParser: every order of keys, every shape of a value *)
(* that is split, and every place where a line ends differently.           *)
(***************************************************************************)
EXTENDS SdpParser

L == <<Letter>>

\* A usual value for every key.
Usual(k) ==
    CASE k = "v" -> <<<<0>>>>
      [] k = "o" -> <<L, <<7>>, <<8>>, L, L, L>>
      [] k = "c" -> <<L, L, L>>
      [] k = "b" -> <<L, <<5>>>>
      [] k = "t" -> <<<<1>>, <<2>>>>
      [] k = "r" -> <<<<1, Day>>, <<2, Minute>>, <<0>>, <<3>>>>
      [] k = "z" -> <<<<4>>, <<1, Hour>>>>
      [] k = "m" -> <<L, <<9, Slash, 2>>, L, <<96>>>>
      [] OTHER   -> <<L>>

Ln(k) == [key |-> k, val |-> Usual(k), eol |-> "crlf"]

AllKeys == ToSet(SessionOrder) \cup {"r", "m", "x"}

Head3 == <<Ln("v"), Ln("o"), Ln("s")>>

\* Wrong beginnings, and up to three lines of any key behind a right one, in
\* the session or in its first stream, with another stream behind them or not.
ByKey ==
    {[i \in DOMAIN ks |-> Ln(ks[i])] : ks \in BoundedSeq({"v", "o", "s", "m", "x"}, 3)}
      \cup {Head3 \o a \o [i \in DOMAIN ks |-> Ln(ks[i])] \o b :
              a \in {<<>>, <<Ln("m")>>},
              ks \in BoundedSeq(AllKeys, 3),
              b \in {<<>>, <<Ln("m"), Ln("a")>>}}

Tokens == {L, <<2>>, <<2, Hour>>, <<2, Letter>>, <<2, Slash, 3>>, <<Slash, 3>>}

ByValue ==
    {Head3 \o (IF k = "r" THEN <<Ln("t")>> ELSE <<>>)
           \o <<[key |-> k, val |-> v, eol |-> "crlf"], Ln("a")>> :
        k \in {"c", "b", "t", "r", "z", "m"}, v \in BoundedSeq(Tokens, 3)}
    \cup {<<Ln("v"), [key |-> "o", val |-> v, eol |-> "crlf"], Ln("s"), Ln("m")>> :
            v \in BoundedSeq(Tokens, 3)}
    \cup {<<[key |-> "v", val |-> v, eol |-> "crlf"], Ln("o")>> :
            v \in BoundedSeq({<<0>>, <<1>>}, 2)}

\* Lines that end in "\n", all of them or some.
ByLineEnd ==
    {[i \in DOMAIN d |-> [d[i] EXCEPT !.eol = IF i \in lf THEN "lf" ELSE "crlf"]] :
        d \in {Head3 \o <<Ln("t"), Ln("r"), Ln("m"), Ln("a"), Ln("m")>>},
        lf \in SUBSET (1 .. 8)}

SmallDocuments == ByKey \cup ByValue \cup ByLineEnd
===============================================================================
