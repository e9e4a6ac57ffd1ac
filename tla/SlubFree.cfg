SPECIFICATION FairSpec
CONSTANTS
    f1 = f1
    f2 = f2
    f3 = f3
    OoFrames <- MCOoFrames
    MinFrames = {f3}
    OoObjects = 2
    MinObjects = 1
    MIN_PARTIAL = 0
    DoubleFlags = {TRUE}
    MaxLevel = 1
    Null = Null
    Junk = Junk
PROPERTY FreeReturns
