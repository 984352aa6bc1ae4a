SPECIFICATION Spec
CONSTANTS
    Values <- MixedValues
    RealmSize = 3
    NonceSize = 4
    MaxLines = 1
    MaxReplies = 2
INVARIANTS
    ReadsBack
