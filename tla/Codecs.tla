------------------------------- MODULE Codecs --------------------------------
(***************************************************************************)
(* The codecs behind HTTP authentication: Base64 and the blocks of MD5 of  *)
(* src/utils/crypto.cpp, url_decode of src/utils/urlcodec.cpp, and         *)
(* make_basic_auth of src/rtsp/http_auth.cpp, which puts them together.    *)
(* Characters are their codes.                                             *)
(***************************************************************************)
EXTENDS Integers, SequencesExt

At(s, i) == IF i \in DOMAIN s THEN s[i] ELSE 0

\* The pieces of n elements that s begins with, the last one shorter.
Pieces(s, n) ==
    [k \in 1 .. (Len(s) + n - 1) \div n |->
        SubSeq(s, n * (k - 1) + 1, IF n * k < Len(s) THEN n * k ELSE Len(s))]

-------------------------------------------------------------------------------
(* Base64; a character of the text is its place in the alphabet. *)

Equals == 64

\* Seeded fault: the bits of the last byte are not moved up.
GroupLow(p) ==
    LET text == << p[1] \div 4, (p[1] % 4) * 16 + (At(p, 2) \div 16),
                   (At(p, 2) % 16) + (At(p, 3) \div 64), At(p, 3) % 64 >>
    IN [i \in 1 .. 4 |-> IF i <= Len(p) + 1 THEN text[i] ELSE Equals]

\* Up to three bytes in four characters.
Group(p) ==
    LET text == << p[1] \div 4, (p[1] % 4) * 16 + (At(p, 2) \div 16),
                   (At(p, 2) % 16) * 4 + (At(p, 3) \div 64), At(p, 3) % 64 >>
    IN [i \in 1 .. 4 |-> IF i <= Len(p) + 1 THEN text[i] ELSE Equals]

Error == [length |-> -1, text |-> <<>>]

\* base64_encode; the end of the string is not in dstMaxLen.
Encode(src, dstMaxLen) ==
    IF src = <<>> \/ ((Len(src) + 2) \div 3) * 4 > dstMaxLen THEN Error
    ELSE LET groups == Pieces(src, 3)
         IN [length |-> 4 * Len(groups),
             text |-> FlattenSeq([k \in DOMAIN groups |-> Group(groups[k])])]

\* BASE64_MAP_DESC: what is not in the alphabet counts as its first character.
Desc(char) == char % 64

Ungroup(q) ==
    LET d == [i \in 1 .. 4 |-> Desc(q[i])]
    IN << d[1] * 4 + (d[2] \div 16), (d[2] % 16) * 16 + (d[3] \div 4), (d[3] % 4) * 64 + d[4] >>

\* base64_decode: every "=" at the end takes a byte away.
Decode(src) ==
    LET groups == Pieces(src, 4)
        bytes  == FlattenSeq([k \in DOMAIN groups |-> Ungroup(groups[k])])
        padded == Cardinality({i \in 2 .. Len(src) : \A j \in i .. Len(src) : src[j] = Equals})
    IN IF Len(src) % 4 # 0 THEN Error
       ELSE [length |-> Len(bytes) - padded, text |-> SubSeq(bytes, 1, Len(bytes) - padded)]

\* make_basic_auth: the array has twice the characters; a text that fills it to
\* the last has no end.
MakeBasicAuth(auth) == Encode(auth, 2 * Len(auth))

HasEnd(auth) == Len(MakeBasicAuth(auth).text) < 2 * Len(auth)

-------------------------------------------------------------------------------
(* MD5, as far as its blocks: what md5_transform is called with. *)

\* count in bytes; buffer as far as it is in use.
Md5Initial == [count |-> 0, buffer |-> <<>>, blocks |-> <<>>]

\* md5_update
Md5Update(context, buf) ==
    LET partLen == 64 - (context.count % 64)
        rest    == SubSeq(buf, partLen + 1, Len(buf))
        whole   == 64 * (Len(rest) \div 64)
        full    == SubSeq(Pieces(rest, 64), 1, Len(rest) \div 64)
    IN IF Len(buf) >= partLen
         THEN [count  |-> context.count + Len(buf),
               buffer |-> SubSeq(rest, whole + 1, Len(rest)),
               blocks |-> context.blocks \o <<context.buffer \o SubSeq(buf, 1, partLen)>> \o full]
       ELSE [context EXCEPT !.count = @ + Len(buf), !.buffer = @ \o buf]

Padding == [i \in 1 .. 64 |-> IF i = 1 THEN 128 ELSE 0]

\* md5_encode of count, as long as the bits are counted in the first of its words.
Bits(count) ==
    LET bits == 8 * count
    IN << bits % 256, (bits \div 256) % 256, (bits \div (256 * 256)) % 256,
          (bits \div (256 * 256 * 256)) % 256, 0, 0, 0, 0 >>

\* Seeded fault: a message that ends where the length begins is not padded.
PadLenShort(index) == IF index <= 56 THEN 56 - index ELSE 120 - index

PadLen(index) == IF index < 56 THEN 56 - index ELSE 120 - index

\* md5_final
Md5Final(context) ==
    Md5Update(Md5Update(context, SubSeq(Padding, 1, PadLen(context.count % 64))),
              Bits(context.count))

\* md5_encrypt; it refuses a length below that of the string, which no caller
\* gives: each passes the length of the std::string it passes.
Md5Encrypt(src) == Md5Final(Md5Update(Md5Initial, src))

-------------------------------------------------------------------------------
(* url_decode *)

Percent == 37
Plus == 43
Blank == 32

ToLower(c) == IF c \in 65 .. 90 THEN c + 32 ELSE c

IsXDigit(c) == ToLower(c) \in (48 .. 57) \cup (97 .. 102)

\* Seeded fault: a letter counts from zero.
HexZero(c) == IF c <= 57 THEN c - 48 ELSE ToLower(c) - 97

Hex(c) == IF c <= 57 THEN c - 48 ELSE ToLower(c) - 97 + 10

\* A "%" takes two more characters, hexadecimal or not, if there are two.
UrlDecode(url, plusSign) ==
    LET from[i \in 1 .. Len(url) + 3] ==
          IF i > Len(url) THEN <<>>
          ELSE IF url[i] = Percent /\ i + 2 <= Len(url)
            THEN (IF IsXDigit(url[i + 1]) /\ IsXDigit(url[i + 2])
                    THEN <<16 * Hex(url[i + 1]) + Hex(url[i + 2])>>
                    ELSE SubSeq(url, i, i + 2)) \o from[i + 3]
          ELSE <<IF url[i] = Plus /\ plusSign THEN Blank ELSE url[i]>> \o from[i + 1]
    IN from[1]
===============================================================================
