CONSTANTS
    Chars <- MCChars
SPECIFICATION Spec
INVARIANTS
    RendezvousFindsCode
CHECK_DEADLOCK FALSE
