----------------------------- MODULE BitReader -------------------------------
(***************************************************************************)
(* The bit reader of src/rtsp/rtp_utils.cpp and what is read with it: the  *)
(* headers of src/rtsp/rtpdec.cpp and the parameter sets of                *)
(* src/rtsp/rtpdec_h264.cpp.  A buffer is a sequence of bytes.  Numbers    *)
(* stay below 2^31, where int and TLC agree.                               *)
(***************************************************************************)
EXTENDS Integers, SequencesExt

Bit(buf, at) == (buf[(at \div 8) + 1] \div 2 ^ (7 - (at % 8))) % 2

\* U
U(buf, at, size) ==
    FoldLeft(LAMBDA v, i : 2 * v + Bit(buf, at + i - 1), 0, [i \in 1 .. size |-> i])

\* Ue: as many bits behind the first 1 as there are zeros before it.  The scan of
\* the code goes on for as many bits as the buffer has in all, so past its end
\* where no 1 is left; what lies there is not modelled, and the units here end
\* with a 1.
Zeros(buf, at) ==
    Min({n \in 0 .. 8 * Len(buf) - at : n = 8 * Len(buf) - at \/ Bit(buf, at + n) = 1})

Ue(buf, at) == U(buf, at + Zeros(buf, at), Zeros(buf, at) + 1) - 1

\* Seeded fault: odd codes are the negative ones.
SignedOdd(code) == IF code % 2 = 1 THEN -((code + 1) \div 2) ELSE code \div 2

\* Se, of the value Ue gave.
Signed(code) == IF code % 2 = 0 THEN -((code + 1) \div 2) ELSE (code + 1) \div 2

\* Seeded fault: the last three bytes are not looked at.
DeEmulationShort(buf) ==
    FoldLeft(LAMBDA b, i : IF i + 2 < Len(b) /\ SubSeq(b, i, i + 2) = <<0, 0, 3>>
                             THEN RemoveAt(b, i + 2) ELSE b,
             buf, [i \in 1 .. Len(buf) |-> i])

\* de_emulation_prevention of at least two bytes: the scan goes on at the next
\* byte of what has closed up.
DeEmulation(buf) ==
    FoldLeft(LAMBDA b, i : IF i + 2 <= Len(b) /\ SubSeq(b, i, i + 2) = <<0, 0, 3>>
                             THEN RemoveAt(b, i + 2) ELSE b,
             buf, [i \in 1 .. Len(buf) |-> i])

-------------------------------------------------------------------------------
(* Fields are read one behind the other: a field is its name and its code,  *)
(* a number of bits or Exp-Golomb.                                          *)

UE == 0
SE == -1

ReadField(r, field) ==
    LET name == field[1]
        code == field[2]
    IN IF code > 0
         THEN [r EXCEPT !.at = @ + code, !.got = (name :> U(r.buf, r.at, code)) @@ @]
       ELSE [r EXCEPT !.at = @ + 2 * Zeros(r.buf, r.at) + 1,
                      !.got = (name :> IF code = SE THEN Signed(Ue(r.buf, r.at))
                                       ELSE Ue(r.buf, r.at)) @@ @]

Read(r, fields) == FoldLeft(ReadField, r, fields)

ReadIf(cond, r, fields) == IF cond THEN Read(r, fields) ELSE r

\* A field that says whether others follow.
ReadIfSet(flag, r, fields) == LET f == ReadField(r, <<flag, 1>>) IN ReadIf(f.got[flag] = 1, f, fields)

Start(buf, at) == [buf |-> buf, at |-> at, got |-> <<>>]

Each(name, n, code) == [i \in 1 .. n |-> <<name \o ToString(i - 1), code>>]

\* rtp_interleaved_frame_parse
InterleavedFrame(buf) ==
    Read(Start(buf, 0), << <<"magic", 8>>, <<"channel_id", 8>>, <<"length", 16>> >>).got

\* parse_rtp_header
RtpHeader(buf) ==
    LET r == Read(Start(buf, 0),
                  << <<"version", 2>>, <<"p", 1>>, <<"x", 1>>, <<"cc", 4>>, <<"m", 1>>,
                     <<"pt", 7>>, <<"seq", 16>>, <<"ts", 32>>, <<"ssrc", 32>> >>)
    IN Read(r, Each("csrc", r.got["cc"], 32)).got

\* rtp_payload_parse_h264
NaluHeader(buf) ==
    Read(Start(buf, 0), << <<"f", 1>>, <<"nri", 2>>, <<"type", 5>> >>).got

-------------------------------------------------------------------------------
(* h264_decode_sps *)

\* Where the unit behind its start code begins; without one there is none.
UnitAt(buf) ==
    IF SubSeq(buf, 1, 4) = <<0, 0, 0, 1>> THEN 32
    ELSE IF SubSeq(buf, 1, 3) = <<0, 0, 1>> THEN 24 ELSE -1

UnitType(buf) == U(buf, UnitAt(buf) + 3, 5)

SpsProfile(r) ==
    Read(r, << <<"profile_idc", 8>> >> \o Each("constraint_set_flag", 6, 1)
            \o << <<"reserved_zero_2bits", 2>>, <<"level_id", 8>>, <<"seq_parameter_set_id", UE>> >>)

SpsHigh(r) ==
    LET chroma == Read(r, << <<"chroma_format_idc", UE>> >>)
        depth  == Read(ReadIf(chroma.got["chroma_format_idc"] = 3, chroma,
                              << <<"residual_colour_transform_flag", 1>> >>),
                       << <<"bit_depth_luma_minus8", UE>>, <<"bit_depth_chroma_minus8", UE>>,
                          <<"qpprime_y_zero_transform_bypass_flag", 1>> >>)
    IN ReadIfSet("seq_scaling_matrix_present_flag", depth,
                 Each("seq_scaling_list_present_flag", 8, 1))

SpsOrder(r) ==
    LET type  == Read(r, << <<"log2_max_frame_num_minus4", UE>>, <<"pic_order_cnt_type", UE>> >>)
        cycle == Read(type, << <<"delta_pic_order_always_zero_flag", 1>>,
                               <<"offset_for_non_ref_pic", SE>>,
                               <<"offset_for_top_to_bottom_field", SE>>,
                               <<"num_ref_frames_in_pic_order_cnt_cycle", UE>> >>)
    IN CASE type.got["pic_order_cnt_type"] = 0 ->
              Read(type, << <<"log2_max_pic_order_cnt_lsb_minus4", UE>> >>)
         [] type.got["pic_order_cnt_type"] = 1 ->
              Read(cycle, Each("offset_for_ref_frame",
                               cycle.got["num_ref_frames_in_pic_order_cnt_cycle"], SE))
         [] OTHER -> type

SpsPicture(r) ==
    LET size == Read(r, << <<"num_ref_frames", UE>>, <<"gaps_in_frame_num_value_allowed_flag", 1>>,
                           <<"pic_width_in_mbs_minus1", UE>>,
                           <<"pic_height_in_map_units_minus1", UE>>, <<"frame_mbs_only_flag", 1>> >>)
        direct == Read(ReadIf(size.got["frame_mbs_only_flag"] = 0, size,
                              << <<"mb_adaptive_frame_field_flag", 1>> >>),
                       << <<"direct_8x8_inference_flag", 1>> >>)
    IN ReadIfSet("frame_cropping_flag", direct,
                 << <<"frame_crop_left_offset", UE>>, <<"frame_crop_right_offset", UE>>,
                    <<"frame_crop_top_offset", UE>>, <<"frame_crop_bottom_offset", UE>> >>)

SpsAspect(r) ==
    LET idc == ReadIfSet("aspect_ratio_info_present_flag", r, << <<"aspect_ratio_idc", 8>> >>)
    IN ReadIf(idc.got["aspect_ratio_info_present_flag"] = 1 /\ idc.got["aspect_ratio_idc"] = 255,
              idc, << <<"sar_width", 16>>, <<"sar_height", 16>> >>)

SpsSignal(r) ==
    LET type == ReadIfSet("video_signal_type_present_flag", r,
                          << <<"video_format", 3>>, <<"video_full_range_flag", 1>>,
                             <<"colour_description_present_flag", 1>> >>)
    IN ReadIf(type.got["video_signal_type_present_flag"] = 1
                /\ type.got["colour_description_present_flag"] = 1,
              type, << <<"colour_primaries", 8>>, <<"transfer_characteristics", 8>>,
                       <<"matrix_coefficients", 8>> >>)

SpsVui(r) ==
    LET vui    == ReadField(r, <<"vui_parameter_present_flag", 1>>)
        scan   == ReadIfSet("overscan_info_present_flag", SpsAspect(vui),
                            << <<"overscan_appropriate_flagu", 1>> >>)
        chroma == ReadIfSet("chroma_location_info_present_flag", SpsSignal(scan),
                            << <<"chroma_location_type_top_filed", UE>>,
                               <<"chroma_location_type_bottom_filed", UE>> >>)
    IN IF vui.got["vui_parameter_present_flag"] = 0 THEN vui
       ELSE ReadIfSet("timing_info_present_flag", chroma,
                      << <<"num_units_in_tick", 32>>, <<"time_scale", 32>> >>)

\* The fields read, or none for what is no parameter set.
DecodeSps(coded) ==
    LET buf == DeEmulation(coded)
        r   == SpsProfile(Start(buf, UnitAt(buf) + 8))
        high == IF r.got["profile_idc"] \in {100, 110, 122, 144} THEN SpsHigh(r) ELSE r
    IN IF UnitAt(buf) = -1 \/ UnitType(buf) # 7 THEN <<>>
       ELSE SpsVui(SpsPicture(SpsOrder(high))).got

\* h264_decode_pps only looks whether there is one.
DecodesPps(coded) ==
    LET buf == DeEmulation(coded) IN UnitAt(buf) # -1 /\ UnitType(buf) = 8
===============================================================================
