--------------------------- MODULE MCKernelBlock ---------------------------
EXTENDS KernelBlock

\* The linear kernel on two devices, the others on one.
MCRanges(kernel_type) == IF kernel_type = "linear" THEN <<0, 2, 3>> ELSE <<0, 2>>

Config(by, kernel_type, t, b) ==
    [backend |-> by, kernel_type |-> kernel_type, thread_block_size |-> t,
     internal_block_size |-> b, feature_ranges |-> MCRanges(kernel_type), blocks |-> 2]

\* Sizes for which the threads of a block load every value: CUDA and HIP need
\* at least twice as many threads as entries per thread, or as many.
Supported ==
    {Config(by, f, 2, b) : by \in {"CUDA", "HIP"}, f \in {"linear", "polynomial", "rbf"}, b \in {2}}
    \cup {Config(by, f, 2, b) : by \in {"OpenCL", "nd_range", "hierarchical"},
                                f \in {"linear", "polynomial", "rbf"}, b \in {1, 3}}
    \cup {Config("CUDA", "linear", 2, 1)}
=============================================================================
