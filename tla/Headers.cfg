SPECIFICATION Spec
CONSTANTS
    Messages <- MCMessages
    Decimal <- MCDecimal
    MaxInt = 5
    MaxTransports = 2
    MaxClock = 2
INVARIANTS
    TypeOK
    LastTransport
    LowerNamed
    ReparseHarmless
    RangeHolds
    SoundSurvives
\* The replies end, or a line ends the process.
CHECK_DEADLOCK FALSE
