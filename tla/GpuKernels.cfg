\* Two devices, of which the linear kernel with one feature and the other
\* kernels use one.
CONSTANTS
    NumDevices = 2
    THREAD_BLOCK_SIZE = 2
    INTERNAL_BLOCK_SIZE = 1
    Calls <- MCCalls
SPECIFICATION Spec
INVARIANTS
    DecisionIsExact
    QIsExact
    MemoryInUseStays
