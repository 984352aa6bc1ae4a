------------------------------ MODULE MCHttpAuth ------------------------------
(***************************************************************************)
(* Small instances of HttpAuth.                                            *)
(***************************************************************************)
EXTENDS HttpAuth

\* Two values of one length, an empty one, one cut by a comma, and one that
\* runs from the realm into the nonce.
MixedValues == {<<1, 2>>, <<2, 1>>, <<>>, <<1, Comma, 2>>, <<1, 1, 2, 2, 1>>}
===============================================================================
