SPECIFICATION FairSpec
CONSTANTS
    Lines <- MCLines
    Users <- MCUsers
    MayEnable = {}
    Flags <- MCFlags
    MaxDepth = 2
    MaxActions = 2
    MaxSpurious = 1
PROPERTIES
    RequestsServed
