SPECIFICATION Spec
CONSTANTS
    Geometries <- MCGeometries
    Descriptors = {d1, d2}
    E820MAX = 3
    A20_ENABLE_LOOPS = 3
    A20_TEST_SHORT = 32
    Words = {0, 1, 2}
INVARIANT LoadRight
INVARIANT HandedOver
CHECK_DEADLOCK FALSE
