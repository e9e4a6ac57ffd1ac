CONSTANTS
    Zones <- MCZones
    ZoneStart <- MCZoneStart
    ZoneEnd <- MCZoneEnd
    MAX_ORDER = 3
    Size <- MCSize
    pageblock_order = 2
    ChunkOrder = 5
    FreeRanges <- MCSingles
    Watermark <- MCWatermark
    NoList = NoList
SPECIFICATION Spec
INVARIANTS
    TypeOK
    NoOverlap
    Conservation
    Coalesced
    WellFiled
    FreeAccounting
    WatermarkSound
    NoBadPage
PROPERTIES
    GrantMeetsRequest
    FailureJustified
