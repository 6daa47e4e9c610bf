SPECIFICATION CacheSpec
CONSTANTS
    Processes = {p, q}
    DeviceLists <- MCDeviceLists
    MaxStarts = 4
SYMMETRY Symmetry
INVARIANTS
    NumberTellsComplete
    FailsForAReason
PROPERTIES
    FullIsKept
CHECK_DEADLOCK FALSE
