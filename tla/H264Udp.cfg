SPECIFICATION Spec
CONSTANTS
    Units = 3
    Parts = 3
    Udp = TRUE
    MaxChannel = 3
    MaxDouble = 1
INVARIANTS
    TypeOK
    IntactTaken
    TakenFromStart
