--------------------------- MODULE MCKernelTiling ---------------------------
EXTENDS KernelTiling

Gpu(t, b, depts, atomic, workers) ==
    [device : {"GPU"}, cas : {atomic}, dept : depts, resident : {workers},
     thread_block_size : {t}, internal_block_size : {b}, openmp_block_size : {1}]

OpenMP(b, depts, workers) ==
    [device : {"OpenMP"}, cas : {FALSE}, dept : depts, resident : {workers},
     thread_block_size : {1}, internal_block_size : {1}, openmp_block_size : {b}]

\* Native additions commute, so one at a time shows all sums; the loops need
\* workers that run at the same time.
MCConfigurations ==
    Gpu(2, 2, {4, 5}, FALSE, 1) \cup Gpu(1, 2, {2, 3, 4}, TRUE, 3) \cup OpenMP(2, {2, 3, 5}, 2)
=============================================================================
