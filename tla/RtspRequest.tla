----------------------------- MODULE RtspRequest -----------------------------
(***************************************************************************)
(* What a request becomes in the buffers it is put together in:            *)
(* rtsp_method_encode of src/rtsp/rtsp.cpp and http_auth_create_response   *)
(* of src/rtsp/http_auth.cpp.  Texts are sequences of characters, of which *)
(* only the line ends matter; the buffers are smaller than the code's.     *)
(***************************************************************************)
EXTENDS StrUtils

CONSTANTS
    MAX_RTSP_SIZE,      \* of the request, 4096 in the code
    AuthorizationSize   \* of the Authorization line, 512 in the code

ASSUME SizesAssumption ==
    /\ MAX_RTSP_SIZE \in Nat /\ MAX_RTSP_SIZE > 2
    /\ AuthorizationSize \in Nat /\ AuthorizationSize > 1

EndOfLine == <<"\r", "\n">>

\* http_auth_create_response, of what the new buffer holds before and the
\* pieces printed behind it.
CreateResponse(before, parts) ==
    FoldLeft(LAMBDA buf, part : PrintLcat(buf, AuthorizationSize, part), before, parts)

\* The request line, the headers of the caller, then CSeq, User-Agent and Session.
Opened(line, headers, fields) ==
    FoldLeft(LAMBDA buf, field : PrintLcat(buf, MAX_RTSP_SIZE, field),
             Lcat(StrCopy(line, MAX_RTSP_SIZE), headers, MAX_RTSP_SIZE), fields)

\* Seeded fault: the blank line goes in front of the authorization.
MethodEncodeEarly(line, headers, fields, authorization) ==
    Lcat(Lcat(Opened(line, headers, fields), EndOfLine, MAX_RTSP_SIZE),
         authorization, MAX_RTSP_SIZE)

\* rtsp_method_encode; no authorization without ctx->auth.
MethodEncode(line, headers, fields, authorization) ==
    Lcat(Lcat(Opened(line, headers, fields), authorization, MAX_RTSP_SIZE),
         EndOfLine, MAX_RTSP_SIZE)
===============================================================================
