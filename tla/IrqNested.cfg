SPECIFICATION Spec
CONSTANTS
    Lines <- MCLines
    Users <- MCUsers
    MayEnable <- MCUsers
    Flags <- MCFlags
    MaxDepth = 2
    MaxActions = 2
    MaxSpurious = 1
INVARIANTS
    TypeOK
    MaskCoherent
    DisabledIsMasked
    EnabledIsOpen
    AckBeforeHandlers
    NoReentry
    NestingBounded
    PreemptCounts
    RequestsReachHandlers
PROPERTIES
    DisableHeld
