CONSTANTS
    i1 = i1
    i2 = i2
    i3 = i3
    k1 = k1
    k2 = k2
    NoId = NoId
    Ids <- MCIds2
    Codes <- MCCodes2
SPECIFICATION Spec
INVARIANTS
    CodeIndexSound
PROPERTIES
    LifecycleSpec
CHECK_DEADLOCK FALSE
