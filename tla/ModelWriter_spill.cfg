\* Buffers small enough to fill up in the middle of a class.
CONSTANTS
    Threads = {t1, t2, t3}
    NumRows = 4
    NumClasses = 2
    RowSize <- MCRowSize
    StringBufferSize = 1
SPECIFICATION FairSpec
INVARIANTS
    TypeOK
    EachRowOnce
    BusyWaitIsBarrier
PROPERTIES
    Termination
    ImplementsGroupedUnlessSpilled
