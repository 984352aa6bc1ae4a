SPECIFICATION Spec
CONSTANTS
    Values <- MixedValues
    RealmSize = 3
    NonceSize = 4
    MaxLines = 2
    MaxReplies = 2
INVARIANTS
    TypeOK
    LatestLeads
    StrongestScheme
    AnswersLatest
