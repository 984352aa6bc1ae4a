---------------------------- MODULE MCAlgorithms -----------------------------
(***************************************************************************)
(* The pure functions of BitReader, Codecs, RtspRequest and StrUtils over   *)
(* bounded inputs.  Each action chooses the input of one function; each     *)
(* property compares what the function makes of it with a definition that   *)
(* goes the other way: the writer of the bits, the escaping, the encoding.  *)
(***************************************************************************)
EXTENDS BitReader, Codecs, RtspRequest

VARIABLE input

Init == input = [kind |-> "none"]

Given(i) == input.kind = "none" /\ input' = i

Strings(chars, lengths) == UNION {[1 .. n -> chars] : n \in lengths}

-------------------------------------------------------------------------------
(* A writer of fields, as H.264 7.2 and 9.1 define u(n), ue(v) and se(v).   *)

Digits(v, n) ==
    [i \in 1 .. n |-> IF n - i > 30 THEN 0 ELSE (v \div 2 ^ (n - i)) % 2]

Width(v) == Min({n \in 1 .. 30 : v < 2 ^ n})

Golomb(v) == Digits(v + 1, 2 * Width(v + 1) - 1)

Coded(v, code) ==
    IF code > 0 THEN Digits(v, code)
    ELSE IF code = UE THEN Golomb(v)
    ELSE Golomb(IF v > 0 THEN 2 * v - 1 ELSE -2 * v)

\* The value of a field: chosen, or some value that the code can hold.
Valued(chosen, fill, field) ==
    LET code == field[2]
    IN IF field[1] \in DOMAIN chosen THEN chosen[field[1]]
       ELSE IF code > 8 THEN fill
       ELSE IF code > 0 THEN fill % 2 ^ code
       ELSE IF code = UE THEN fill % 13
       ELSE IF fill % 2 = 0 THEN fill % 5 ELSE -(fill % 5)

Written(chosen, fill, fields) ==
    FlattenSeq([i \in DOMAIN fields |-> Coded(Valued(chosen, fill, fields[i]), fields[i][2])])

\* Full bytes: the bit behind the last field is 1.
Bytes(bits) ==
    LET n      == (Len(bits) \div 8) + 1
        padded == bits \o [i \in 1 .. 8 * n - Len(bits) |-> IF i = 1 THEN 1 ELSE 0]
    IN [k \in 1 .. n |-> FoldLeft(LAMBDA v, b : 2 * v + b, 0, SubSeq(padded, 8 * k - 7, 8 * k))]

\* A 3 goes between two zeros and what could look like a start code, and behind
\* two zeros at the end.
Escape(bytes) ==
    LET s == FoldLeft(LAMBDA e, b :
                        [out   |-> IF e.zeros = 2 /\ b <= 3 THEN e.out \o <<3, b>>
                                   ELSE Append(e.out, b),
                         zeros |-> IF b # 0 THEN 0 ELSE (e.zeros % 2) + 1],
                      [out |-> <<>>, zeros |-> 0], bytes)
    IN IF s.zeros = 2 THEN Append(s.out, 3) ELSE s.out

\* An escape, one more zero and a 3 that is the unit's own: the scan goes on over
\* bytes that have closed up, finds <<0, 0, 3>> again and takes the 3 away.
ClosesUp(bytes) ==
    \E i \in 1 .. Len(bytes) - 4 : SubSeq(bytes, i, i + 4) = <<0, 0, 3, 0, 3>>

-------------------------------------------------------------------------------
(* The fields of a parameter set by H.264 7.3.2.1.1 and E.1.1, as sequences *)
(* of (condition, name, code).                                              *)

If(cond, fields) == IF cond THEN fields ELSE <<>>

F(name, code) == << <<name, code>> >>

SpsSyntax(c) ==
    F("profile_idc", 8) \o F("constraint_set_flag0", 1) \o F("constraint_set_flag1", 1)
    \o F("constraint_set_flag2", 1) \o F("constraint_set_flag3", 1)
    \o F("constraint_set_flag4", 1) \o F("constraint_set_flag5", 1)
    \o F("reserved_zero_2bits", 2) \o F("level_id", 8) \o F("seq_parameter_set_id", UE)
    \o If(c["profile_idc"] = 100,
          F("chroma_format_idc", UE)
          \o If(c["chroma_format_idc"] = 3, F("residual_colour_transform_flag", 1))
          \o F("bit_depth_luma_minus8", UE) \o F("bit_depth_chroma_minus8", UE)
          \o F("qpprime_y_zero_transform_bypass_flag", 1)
          \o F("seq_scaling_matrix_present_flag", 1)
          \o If(c["seq_scaling_matrix_present_flag"] = 1,
                [i \in 1 .. 8 |-> <<"seq_scaling_list_present_flag" \o ToString(i - 1), 1>>]))
    \o F("log2_max_frame_num_minus4", UE) \o F("pic_order_cnt_type", UE)
    \o If(c["pic_order_cnt_type"] = 0, F("log2_max_pic_order_cnt_lsb_minus4", UE))
    \o If(c["pic_order_cnt_type"] = 1,
          F("delta_pic_order_always_zero_flag", 1) \o F("offset_for_non_ref_pic", SE)
          \o F("offset_for_top_to_bottom_field", SE)
          \o F("num_ref_frames_in_pic_order_cnt_cycle", UE)
          \o F("offset_for_ref_frame0", SE) \o F("offset_for_ref_frame1", SE))
    \o F("num_ref_frames", UE) \o F("gaps_in_frame_num_value_allowed_flag", 1)
    \o F("pic_width_in_mbs_minus1", UE) \o F("pic_height_in_map_units_minus1", UE)
    \o F("frame_mbs_only_flag", 1)
    \o If(c["frame_mbs_only_flag"] = 0, F("mb_adaptive_frame_field_flag", 1))
    \o F("direct_8x8_inference_flag", 1) \o F("frame_cropping_flag", 1)
    \o If(c["frame_cropping_flag"] = 1,
          F("frame_crop_left_offset", UE) \o F("frame_crop_right_offset", UE)
          \o F("frame_crop_top_offset", UE) \o F("frame_crop_bottom_offset", UE))
    \o F("vui_parameter_present_flag", 1)
    \o If(c["vui_parameter_present_flag"] = 1,
          F("aspect_ratio_info_present_flag", 1)
          \o If(c["aspect_ratio_info_present_flag"] = 1, F("aspect_ratio_idc", 8))
          \o If(c["aspect_ratio_info_present_flag"] = 1 /\ c["aspect_ratio_idc"] = 255,
                F("sar_width", 16) \o F("sar_height", 16))
          \o F("overscan_info_present_flag", 1)
          \o If(c["overscan_info_present_flag"] = 1, F("overscan_appropriate_flagu", 1))
          \o F("video_signal_type_present_flag", 1)
          \o If(c["video_signal_type_present_flag"] = 1,
                F("video_format", 3) \o F("video_full_range_flag", 1)
                \o F("colour_description_present_flag", 1)
                \o If(c["colour_description_present_flag"] = 1,
                      F("colour_primaries", 8) \o F("transfer_characteristics", 8)
                      \o F("matrix_coefficients", 8)))
          \o F("chroma_location_info_present_flag", 1)
          \o If(c["chroma_location_info_present_flag"] = 1,
                F("chroma_location_type_top_filed", UE)
                \o F("chroma_location_type_bottom_filed", UE))
          \o F("timing_info_present_flag", 1)
          \o If(c["timing_info_present_flag"] = 1,
                F("num_units_in_tick", 32) \o F("time_scale", 32)))

\* The fields others depend on.  No scaling list is present.
Flat(profile, chroma, scaling) ==
    "profile_idc" :> profile @@ "chroma_format_idc" :> chroma
    @@ "seq_scaling_matrix_present_flag" :> scaling
    @@ [name \in {"seq_scaling_list_present_flag" \o ToString(i) : i \in 0 .. 7} |-> 0]
Profiles == {Flat(66, 1, 0), Flat(100, 1, 0), Flat(100, 1, 1), Flat(100, 3, 0)}

Pictures ==
    {"pic_order_cnt_type" :> type @@ "num_ref_frames_in_pic_order_cnt_cycle" :> 2
       @@ "frame_mbs_only_flag" :> only @@ "frame_cropping_flag" :> crop :
       type \in 0 .. 2, only \in 0 .. 1, crop \in 0 .. 1}

Vui(present, aspect, idc, others, colour) ==
    "vui_parameter_present_flag" :> present @@ "aspect_ratio_info_present_flag" :> aspect
    @@ "aspect_ratio_idc" :> idc @@ "overscan_info_present_flag" :> others
    @@ "video_signal_type_present_flag" :> others
    @@ "colour_description_present_flag" :> colour
    @@ "chroma_location_info_present_flag" :> others
    @@ "timing_info_present_flag" :> others
Vuis == {Vui(0, 0, 0, 0, 0)}
          \cup {Vui(1, a, i, n, d) : a \in 0 .. 1, i \in {1, 255}, n \in 0 .. 1, d \in 0 .. 1}

Unit(type, bytes) == <<0, 0, 0, 1, type>> \o Escape(bytes)

SpsBytes == Bytes(Written(input.chosen, input.fill, SpsSyntax(input.chosen)))

GiveSps ==
    \E p \in Profiles, q \in Pictures, v \in Vuis, fill \in {0, 1, 255} :
        Given([kind |-> "sps", chosen |-> p @@ q @@ v, fill |-> fill])

RtpFields(cc) ==
    F("version", 2) \o F("p", 1) \o F("x", 1) \o F("cc", 4) \o F("m", 1) \o F("pt", 7)
    \o F("seq", 16) \o F("ts", 32) \o F("ssrc", 32)
    \o [i \in 1 .. cc |-> <<"csrc" \o ToString(i - 1), 32>>]

NaluFields == F("f", 1) \o F("nri", 2) \o F("type", 5)

FrameFields == F("magic", 8) \o F("channel_id", 8) \o F("length", 16)

GiveHeader ==
    \E cc \in {0, 1, 15}, m \in 0 .. 1, fill \in {0, 1, 200, 65535} :
        Given([kind |-> "rtp", chosen |-> "cc" :> cc @@ "m" :> m, fill |-> fill])

GivePlain == \E s \in Strings({0, 1, 3}, 2 .. 6) : Given([kind |-> "plain", bytes |-> s])

\* The value of every field of the syntax, and of no other.
IsRead(got, fields) ==
    /\ DOMAIN got = {fields[i][1] : i \in DOMAIN fields}
    /\ \A i \in DOMAIN fields :
          got[fields[i][1]] = Valued(input.chosen, input.fill, fields[i])

\* What a sender wrote is what rtp_utils.cpp, rtpdec.cpp and
\* h264_decode_sps read: every field that its flags announce, with its value,
\* through Exp-Golomb codes and emulation prevention; the parameter set of
\* another type is recognised and not taken for it.  An escape, one more zero and
\* a 3 of the unit's own are beyond de_emulation_prevention.
ReadsBack ==
    /\ input.kind = "sps" =>
         LET coded == Unit(103, SpsBytes)
             pps   == Unit(104, SpsBytes)
         IN /\ ~ClosesUp(coded) => IsRead(DecodeSps(coded), SpsSyntax(input.chosen))
            /\ ~DecodesPps(coded) /\ DecodesPps(pps) /\ DecodeSps(pps) = <<>>
    /\ input.kind = "rtp" =>
         LET fields == RtpFields(input.chosen["cc"])
         IN /\ IsRead(RtpHeader(Bytes(Written(input.chosen, input.fill, fields))), fields)
            /\ IsRead(InterleavedFrame(Bytes(Written(input.chosen, input.fill, FrameFields))),
                      FrameFields)
            /\ IsRead(NaluHeader(Bytes(Written(input.chosen, input.fill, NaluFields))),
                      NaluFields)

\* de_emulation_prevention takes away exactly what a sender put in, at the very
\* end as well, unless the bytes that close up look escaped again.  Stated for two
\* bytes and more: below that the bound of the loop is below zero.
DeEmulates ==
    input.kind = "plain" =>
        LET coded == Escape(input.bytes)
        IN ~ClosesUp(coded) => DeEmulation(coded) = input.bytes

-------------------------------------------------------------------------------
(* Codecs.                                                                  *)

GiveAuth == \E s \in Strings({1, 97, 255}, 1 .. 6) : Given([kind |-> "auth", text |-> s])

GiveLength == \E n \in 0 .. 200 : Given([kind |-> "md5", length |-> n])

UrlChars == {Percent, Plus, Blank, 48, 97, 255}

GiveUrl ==
    \E s \in Strings(UrlChars, 0 .. 3), upper \in BOOLEAN :
        \E escaped \in SUBSET DOMAIN s :
            /\ \A i \in DOMAIN s : s[i] = Percent => i \in escaped
            /\ Given([kind |-> "url", text |-> s, escaped |-> escaped, upper |-> upper])

HexDigit(v, upper) == IF v < 10 THEN 48 + v ELSE IF upper THEN 55 + v ELSE 87 + v

UrlEncoded ==
    FlattenSeq([i \in DOMAIN input.text |->
        LET c == input.text[i]
        IN IF i \in input.escaped
             THEN <<Percent, HexDigit(c \div 16, input.upper), HexDigit(c % 16, input.upper)>>
           ELSE <<c>>])

\* The Basic response is the user's name and password, to be read again by the
\* server, and ends before the array does; the array that make_basic_auth
\* allots is too short for a single character, and has no room for the end of
\* the string with two and with four.
BasicReadsBack ==
    input.kind = "auth" =>
        LET sent == MakeBasicAuth(input.text)
        IN IF Len(input.text) = 1 THEN sent = Error
           ELSE /\ Decode(sent.text) = [length |-> Len(input.text), text |-> input.text]
                /\ HasEnd(input.text) <=> Len(input.text) \notin {2, 4}

\* Whatever the length of the message, md5_transform is given the message, the
\* bit behind it, zeros and the length in bits, in as few blocks as hold them,
\* and nothing is left in the buffer.
Md5Blocks ==
    input.kind = "md5" =>
        LET n       == input.length
            message == [i \in 1 .. n |-> i]
            size    == 64 * ((n + 9 + 63) \div 64)
            closed  == Md5Encrypt(message)
        IN /\ \A k \in DOMAIN closed.blocks : Len(closed.blocks[k]) = 64
           /\ FlattenSeq(closed.blocks) =
                [i \in 1 .. size |->
                    IF i <= n THEN i
                    ELSE IF i = n + 1 THEN 128
                    ELSE IF i = size - 7 THEN (8 * n) % 256
                    ELSE IF i = size - 6 THEN (8 * n) \div 256
                    ELSE 0]
           /\ closed.buffer = <<>>

\* Credentials come out of the URL as they were before a user escaped any of
\* their characters, with capital or small digits; a "+" is a blank only where
\* the caller says so.
UrlDecodes ==
    input.kind = "url" =>
        /\ UrlDecode(UrlEncoded, FALSE) = input.text
        /\ UrlDecode(UrlEncoded, TRUE) =
             [i \in DOMAIN input.text |->
                IF input.text[i] = Plus /\ i \notin input.escaped THEN Blank ELSE input.text[i]]

-------------------------------------------------------------------------------
(* Bounded buffers.                                                         *)

Line(n) == [i \in 1 .. n |-> "x"] \o EndOfLine

\* No authorization, or one of two pieces behind what the heap left.
GiveRequest ==
    \E line \in 1 .. 4, headers \in 0 .. 6, field \in 1 .. 2, name, rest \in 1 .. 5,
       left \in 0 .. 1, auth \in BOOLEAN :
        /\ auth \/ name + rest + left = 2
        /\ Given([kind |-> "request", line |-> Line(line),
                  headers |-> IF headers = 0 THEN <<>> ELSE Line(headers),
                  fields |-> <<Line(field), Line(1)>>, auth |-> auth,
                  before |-> [i \in 1 .. left |-> "?"],
                  parts |-> <<[i \in 1 .. name |-> "x"], Line(rest)>>])

GiveStrings ==
    \E d, s \in 0 .. 4, maxlen \in 1 .. 9 :
        /\ d < maxlen
        /\ Given([kind |-> "append", dst |-> [i \in 1 .. d |-> "d"],
                  src |-> [i \in 1 .. s |-> i], maxlen |-> maxlen])

\* A request ends with its blank line, and nothing of it is missing, exactly if
\* the authorization fits its array and the request fits the other: whichever
\* is too short, the server waits for a line that never ends.
RequestEnds ==
    input.kind = "request" =>
        LET whole  == input.before \o FlattenSeq(input.parts)
            text   == input.line \o input.headers \o FlattenSeq(input.fields)
                      \o (IF input.auth THEN whole ELSE <<>>)
            sent   == MethodEncode(input.line, input.headers, input.fields,
                                   IF input.auth THEN CreateResponse(input.before, input.parts)
                                   ELSE <<>>)
            fits   == /\ input.auth => Len(whole) < AuthorizationSize
                      /\ Len(text) + 2 < MAX_RTSP_SIZE
        IN /\ Len(sent) < MAX_RTSP_SIZE
           /\ IF fits THEN sent = text \o EndOfLine
              ELSE ~IsSuffix(EndOfLine \o EndOfLine, sent)

\* str_lcat and snprint_lcatf never write behind the buffer, leave out nothing
\* that fits, and return the length of the string unless it was cut.  strutils.h:39
\* and :44 have them return the total length; where they cut they return what
\* LcatReturns and PrintLcatReturns say, and no caller looks at it.
AppendBounded ==
    input.kind = "append" =>
        LET wanted == input.dst \o input.src
            joined == Lcat(input.dst, input.src, input.maxlen)
            back   == {LcatReturns(input.dst, input.src, input.maxlen),
                       PrintLcatReturns(input.dst, input.maxlen, input.src)}
        IN /\ joined = SubSeq(wanted, 1, Least(Len(wanted), input.maxlen - 1))
           /\ PrintLcat(input.dst, input.maxlen, input.src) = joined
           /\ joined = wanted => back = {Len(wanted)}

Next ==
    \/ GiveSps \/ GiveHeader \/ GivePlain
    \/ GiveAuth \/ GiveLength \/ GiveUrl
    \/ GiveRequest \/ GiveStrings

Spec == Init /\ [][Next]_input
===============================================================================
