------------------------------ MODULE StrUtils ------------------------------
(***************************************************************************)
(* The string helpers of src/utils/strutils.cpp.  A string is a sequence   *)
(* of tokens: a token is a character the callers look for, or a stretch of *)
(* characters they never look into.                                        *)
(***************************************************************************)
EXTENDS Integers, SequencesExt

\* str_cut_until_char: what stands before the first separator, and what is left
\* of the message; without a separator the message has been moved away.
CutUntilChar(msg, seps, keepSep) ==
    LET i == SelectInSeq(msg, LAMBDA c : c \in seps)
    IN IF i = 0 THEN [head |-> msg, rest |-> <<>>]
       ELSE [head |-> SubSeq(msg, 1, i - 1),
             rest |-> SubSeq(msg, IF keepSep THEN i ELSE i + 1, Len(msg))]

\* str_split: the pieces between separators, empty ones left out.
Split(msg, sep) ==
    LET Starts(i)  == msg[i] # sep /\ (i = 1 \/ msg[i - 1] = sep)
        NextCut(i) == Min({j \in i .. Len(msg) : msg[j] = sep} \cup {Len(msg) + 1})
    IN FlattenSeq([i \in DOMAIN msg |->
           IF Starts(i) THEN <<SubSeq(msg, i, NextCut(i) - 1)>> ELSE <<>>])

\* str_start_and_cut, past the prefix: blanks are skipped, and at() throws when
\* there is nothing else.
Space == " "

OnlyBlanks(msg) == \A i \in DOMAIN msg : msg[i] = Space

SkipBlanks(msg) ==
    IF OnlyBlanks(msg) THEN <<>>
    ELSE SubSeq(msg, SelectInSeq(msg, LAMBDA c : c # Space), Len(msg))

-------------------------------------------------------------------------------
(* Bounded copies.  dst is the string in a buffer of maxlen characters. *)

Least(a, b) == IF a < b THEN a ELSE b

\* str_copy: what gets into maxlen characters with the end of the string.
StrCopy(src, maxlen) == SubSeq(src, 1, Least(Len(src), maxlen - 1))

\* Seeded fault: the end of the string is not counted.
LcatFull(dst, src, maxlen) == dst \o SubSeq(src, 1, Least(Len(src), maxlen - Len(dst)))

\* str_lcat
Lcat(dst, src, maxlen) ==
    IF maxlen <= Len(dst) + 1 THEN dst ELSE dst \o StrCopy(src, maxlen - Len(dst))

\* snprint_lcatf: vsnprintf writes nothing into no room, not even the end.
PrintLcat(dst, maxlen, text) ==
    LET size == IF maxlen > Len(dst) THEN maxlen - Len(dst) ELSE 0
    IN IF size = 0 THEN dst ELSE dst \o StrCopy(text, size)

\* What they return: the copied length for str_lcat once there is room for a
\* character, the length it would take otherwise.
LcatReturns(dst, src, maxlen) ==
    IF maxlen <= Len(dst) + 1 THEN Len(dst) + Len(src)
    ELSE Len(dst) + Len(StrCopy(src, maxlen - Len(dst)))

PrintLcatReturns(dst, maxlen, text) == Len(dst) + Len(text)
===============================================================================
