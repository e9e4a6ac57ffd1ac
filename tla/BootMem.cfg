SPECIFICATION Spec
CONSTANTS
    PAGE_SIZE = 16
    INIT_MEMBLOCK_REGIONS = 10
    E820MAX = 4
    MAX_ARCH_PFN = 80
    MAX_ACTIVE_REGIONS = 4
    SMP_CACHE_BYTES = 8
    MAX_ORDER_NR_PAGES = 8
    BiosMaps <- MCBiosMaps
    TextStart = 32
    BssStop = 53
    BrkBase = 64
    KernelEnd = 80
    MappingBeyondEnd = 64
    PTRS_PER_PTE = 16
    PTRS_PER_PGD = 16
    KernelSlot = 12
    FixedEntries = 16
    MAXMEM_PFN = 60
    MAX_DMA_PFN = 16
    SizeofPage = 2
    SizeofRange = 2
    SizeofWaitQueue = 2
    SizeofLong = 16
    PAGES_PER_WAITQUEUE = 4
    NR_PAGEBLOCK_BITS = 64
    BITS_PER_LONG = 4
    Tops = {160, 176, 200, 640, 1150}
    Marks = {0, 24, 88, 256, 340, 400, 416, 640, 944, 960}
INVARIANT SanitizeRight
INVARIANT EarlyDisjoint
INVARIANT DirectMapRight
INVARIANT ZonesRight
INVARIANT FreedSafe
INVARIANT FreedAll
CHECK_DEADLOCK FALSE
