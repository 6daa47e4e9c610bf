\* Three readers, the file name of any of three files or of a missing one, and
\* memory for three blocks.
CONSTANTS
    Readers = {r1, r2, r3}
    short = short
    long = long
    empty = empty
    Files = {short, long, empty}
    Size <- MCSize
    MaxBlocks = 3
    MaxReads = 1
SYMMETRY ReaderSymmetry
SPECIFICATION ReaderSpec
INVARIANTS
    ReadersTyped
    SoleOwner
    LinesViewTheFile
