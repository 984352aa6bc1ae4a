SPECIFICATION Spec
CONSTANTS
    MAX_RTSP_SIZE = 22
    AuthorizationSize = 10
INVARIANTS
    ReadsBack
    DeEmulates
    BasicReadsBack
    Md5Blocks
    UrlDecodes
    RequestEnds
    AppendBounded
\* One input is chosen and nothing follows.
CHECK_DEADLOCK FALSE
