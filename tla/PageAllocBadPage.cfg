CONSTANTS
    Zones <- MCZones
    ZoneStart <- MCZoneStart
    ZoneEnd <- MCZoneEnd
    MAX_ORDER = 3
    Size <- MCSize
    pageblock_order = 2
    ChunkOrder = 1
    FreeRanges <- MCChunk
    Watermark <- MCWatermark
    NoList = NoList
SPECIFICATION Spec
INVARIANT NoBadPage
