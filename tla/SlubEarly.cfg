SPECIFICATION Spec
CONSTANTS
    NrIrqs = 16
    Sizes <- MCSizes
    ObjSizes <- MCObjSizes
    Null = Null
INVARIANT EarlyIrqsOff
CHECK_DEADLOCK FALSE
