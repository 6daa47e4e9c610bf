\* The same buffers as ModelWriter_spill: the labels of the rows that went to
\* the file before their turn are read back wrong.
CONSTANTS
    Threads = {t1, t2}
    NumRows = 4
    NumClasses = 2
    RowSize <- MCRowSize
    StringBufferSize = 1
SPECIFICATION Spec
INVARIANT LabelsReadBack
