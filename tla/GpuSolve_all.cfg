\* Two devices, of which the data sets with one feature and the polynomial
\* kernel use one; the residual is recomputed in every third iteration.
CONSTANTS
    p = 5
    Kernels = {"linear", "polynomial"}
    MaxIters = {1, 4}
    Problems <- MCProblems
    NumDevices = 2
    THREAD_BLOCK_SIZE = 2
    INTERNAL_BLOCK_SIZE = 1
    Tolerated = {0}
    RestartInterval = 3
SPECIFICATION FairSpec
PROPERTIES
    ImplementsCG
    Termination
