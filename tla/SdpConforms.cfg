SPECIFICATION Spec
CHECK_DEADLOCK FALSE
CONSTANTS
    Letters <- AllKeys
    Documents <- SmallDocuments
INVARIANTS
    TakenConforms
