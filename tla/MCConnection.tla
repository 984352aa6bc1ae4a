---------------------------- MODULE MCConnection -----------------------------
(* URLs for model checking Connection: every part there or not, with the     *)
(* characters the parts may and may not have, and of lengths up to and       *)
(* beyond what the fields hold.                                              *)
EXTENDS Connection

MCToken == Delimiters \cup {"r", "u", "w", "1", ".", "8", "a", "554", "8554"}

MCDecimal == "554" :> 554 @@ "8554" :> 8554

Parts(auth, host, v6, port, path) ==
    [proto |-> <<"r", "r", "r">>, authorization |-> auth, hostname |-> host, v6 |-> v6,
     port |-> port, path |-> path]

\* The last two fill their field, and run out of it.
Auths == {<<>>, <<"u">>, <<"u", ":", "w">>, <<"u", "/", "w">>,
          <<"u", ":", "@", "w">>, <<"u", ":", "w", "@", "w">>}
Paths == {<<>>, <<"/", ":", "@", "a">>, <<"?", "a", "/", "1", "1">>}

Address == <<"1", ".", "8">>

MCTargets ==
    {Parts(a, Address, FALSE, p, q) : a \in Auths, p \in {<<>>, <<"8554">>}, q \in Paths}
    \cup {Parts(a, <<"8", ":", "1">>, TRUE, p, <<"/", "a">>) :
             a \in {<<>>, <<"u">>}, p \in {<<>>, <<"8554">>}}
    \cup {Parts(<<>>, h, FALSE, <<>>, <<>>) : h \in {<<"a">>, Address \o <<"1">>}}
    \cup {[Parts(<<>>, Address, FALSE, <<>>, <<>>) EXCEPT !.proto = @ \o <<"r">>],
          [Parts(<<>>, <<>>, FALSE, <<>>, <<"a", "/", "1", "1", "1">>) EXCEPT !.proto = <<>>]}

MCAddresses == {Address}
===============================================================================
