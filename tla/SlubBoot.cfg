SPECIFICATION Spec
CONSTANTS
    NrIrqs = 16
    Sizes <- MCSizes
    ObjSizes <- MCObjSizes
    Null = Null
INVARIANT BootLive
INVARIANT KfreeFinds
INVARIANT KmallocFits
INVARIANT SizesRight
CHECK_DEADLOCK FALSE
