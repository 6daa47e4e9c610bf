----------------------------- MODULE MCGpuSolve -----------------------------
(* Problems with two, three and four data points of one, two and three     *)
(* features: the padding is one point or none in a block of two, and the   *)
(* features divide by two devices evenly, unevenly and not at all.         *)
EXTENDS GpuSolve

CONSTANTS
    Kernels,    \* kernel functions
    MaxIters    \* values of max_iter

MinusOne == p - 1

DataSets == {
    [A |-> <<<<0, 1>>, <<1, 2>>, <<1, 1>>>>, y |-> <<1, 1, MinusOne>>],
    [A |-> <<<<1, 0>>, <<0, 1>>, <<2, 2>>>>, y |-> <<MinusOne, 1, 1>>],
    [A |-> <<<<1, 1>>, <<2, 0>>>>, y |-> <<1, MinusOne>>],
    [A |-> <<<<0, 1, 1>>, <<1, 2, 0>>, <<2, 1, 1>>, <<1, 0, 2>>>>,
     y |-> <<1, MinusOne, MinusOne, 1>>],
    [A |-> <<<<1>>, <<2>>, <<0>>>>, y |-> <<1, MinusOne, 1>>]}

Problem(data, kernel, c, m) ==
    [A |-> data.A, y |-> data.y, kernel |-> kernel, cost |-> c, max_iter |-> m,
     gram |-> [i \in DOMAIN data.A |-> [j \in DOMAIN data.A |->
                  kernel_function(kernel, data.A[i], data.A[j])]]]

MCProblems == {Problem(data, k, c, m) :
                 data \in DataSets, k \in Kernels, c \in {1, 2}, m \in MaxIters}
=============================================================================
