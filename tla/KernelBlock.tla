---------------------------- MODULE KernelBlock ----------------------------
(***************************************************************************)
(* One thread block of device_kernel_{linear, polynomial, rbf}, in CUDA,   *)
(* HIP, OpenCL and the two formulations of SYCL: its threads fill a cache  *)
(* in shared memory with one feature of the data points they need, wait    *)
(* for each other, sum up the products (or the squared differences) of the *)
(* cached values for their own part of the matrix, go on with the next     *)
(* feature, and at last add their part times d to the result.  The linear  *)
(* kernel runs on several devices that have some of the features each; the *)
(* host adds their results.                                                *)
(*                                                                         *)
(* A value of a data point is <<feature, point>>, a summand the pair of    *)
(* the values it is made of, an entry of matr the sequence of its          *)
(* summands, and an entry of ret the bag of the terms added to it.  The    *)
(* sign add of all terms is left out.                                      *)
(***************************************************************************)
EXTENDS Naturals, Sequences, Bags, SequencesExt

CONSTANT Configurations     \* records [backend, kernel_type, thread_block_size,
                            \* internal_block_size, feature_ranges, blocks]: device
                            \* id has the features from feature_ranges[id + 1] to
                            \* before feature_ranges[id + 2]

Backends == {"CUDA", "HIP", "OpenCL", "nd_range", "hierarchical"}

\* The ranges begin with 0 and increase; only the linear kernel runs on several
\* devices.
ASSUME BlockAssumption ==
    /\ Configurations \subseteq
           [backend : Backends, kernel_type : {"linear", "polynomial", "rbf"},
            thread_block_size : Nat \ {0}, internal_block_size : Nat \ {0},
            feature_ranges : Seq(Nat), blocks : Nat \ {0}]
    /\ \A c \in Configurations :
           /\ Len(c.feature_ranges) >= 2 /\ c.feature_ranges[1] = 0
           /\ \A d, e \in 1..Len(c.feature_ranges) : d < e => c.feature_ranges[d] < c.feature_ranges[e]
           /\ c.kernel_type # "linear" => Len(c.feature_ranges) = 2

VARIABLES
    config,             \* what the kernels were built with and are called for
    block,              \* blockIdx
    id,                 \* the device, from 0
    pc,                 \* "begin", "arrive", "load", "full", "read", "leave", "reduce",
                        \* "done", per thread
    feature,            \* vec_index / num_rows of a thread, from 0
    data_intern_i, data_intern_j,   \* the shared caches
    matr,               \* matr[t][k][l]
    ret

vars == <<config, block, id, pc, feature, data_intern_i, data_intern_j, matr, ret>>

THREAD_BLOCK_SIZE == config.thread_block_size
INTERNAL_BLOCK_SIZE == config.internal_block_size

Ids == 0..(THREAD_BLOCK_SIZE - 1)
Internal == 0..(INTERNAL_BLOCK_SIZE - 1)
Threads == [x : Ids, y : Ids]
Rows == 0..(config.blocks * THREAD_BLOCK_SIZE * INTERNAL_BLOCK_SIZE - 1)

Junk == <<>>    \* what shared memory holds before it is written

\* First row and column of a thread.
i(t) == (block.x * THREAD_BLOCK_SIZE + t.x) * INTERNAL_BLOCK_SIZE
j(t) == (block.y * THREAD_BLOCK_SIZE + t.y) * INTERNAL_BLOCK_SIZE
ji(t) == (block.y * THREAD_BLOCK_SIZE + t.x) * INTERNAL_BLOCK_SIZE

Works(b) == b.x >= b.y

num_used_devices == Len(config.feature_ranges) - 1
num_features == config.feature_ranges[num_used_devices + 1]

\* The features of the device.
FirstFeature == config.feature_ranges[id + 1]
feature_range == config.feature_ranges[id + 2] - FirstFeature

----------------------------------------------------------------------------
(* The kernels: who loads the cache of the columns, where the threads      *)
(* wait, how two values are combined, and what an entry is made of.        *)

\* All devices sum up products, only the first adds what has no features.
Linear(columns, waits) ==
    [columns |-> columns, waits |-> waits, summand |-> "product", entry |-> "sum",
     constant_on |-> {0}]

\* A function of the whole sum, on one device.
Nonlinear(columns, waits, summand, function) ==
    [columns |-> columns, waits |-> waits, summand |-> summand, entry |-> function,
     constant_on |-> {0}]

cuda_device_kernel_linear == Linear("ji", "around load")
cuda_device_kernel_polynomial == Nonlinear("ji", "around load", "product", "pow")
cuda_device_kernel_rbf == Nonlinear("ji", "around load", "squared difference", "exp")

hip_device_kernel_linear == Linear("ji", "around load")
hip_device_kernel_polynomial == Nonlinear("ji", "around load", "product", "pow")
hip_device_kernel_rbf == Nonlinear("ji", "around load", "squared difference", "exp")

opencl_device_kernel_linear == Linear("j", "around load")
opencl_device_kernel_polynomial == Nonlinear("j", "around load", "product", "pow")
opencl_device_kernel_rbf == Nonlinear("j", "around load", "squared difference", "exp")

\* All groups wait once before they compare their indices.  (The loop before
\* that would clear the caches runs for no thread: a local range is not 0.)
nd_range_device_kernel_linear == Linear("j", "also first")
nd_range_device_kernel_polynomial == Nonlinear("j", "also first", "product", "pow")
nd_range_device_kernel_rbf == Nonlinear("j", "also first", "squared difference", "exp")

\* Every parallel_for_work_item ends with an implicit barrier, and the groups
\* above the diagonal go through all of them.
hierarchical_device_kernel_linear == Linear("j", "work items")
hierarchical_device_kernel_polynomial == Nonlinear("j", "work items", "product", "pow")
hierarchical_device_kernel_rbf == Nonlinear("j", "work items", "squared difference", "exp")

Kernels ==
    [CUDA |-> [linear |-> cuda_device_kernel_linear,
               polynomial |-> cuda_device_kernel_polynomial, rbf |-> cuda_device_kernel_rbf],
     HIP |-> [linear |-> hip_device_kernel_linear,
              polynomial |-> hip_device_kernel_polynomial, rbf |-> hip_device_kernel_rbf],
     OpenCL |-> [linear |-> opencl_device_kernel_linear,
                 polynomial |-> opencl_device_kernel_polynomial, rbf |-> opencl_device_kernel_rbf],
     nd_range |-> [linear |-> nd_range_device_kernel_linear,
                   polynomial |-> nd_range_device_kernel_polynomial,
                   rbf |-> nd_range_device_kernel_rbf],
     hierarchical |-> [linear |-> hierarchical_device_kernel_linear,
                       polynomial |-> hierarchical_device_kernel_polynomial,
                       rbf |-> hierarchical_device_kernel_rbf]]

kernel == Kernels[config.backend][config.kernel_type]

\* Where the threads of a block are, one pass after the other.
First == IF kernel.waits # "around load" THEN "begin" ELSE IF Works(block) THEN "arrive" ELSE "done"
AfterBegin ==
    IF kernel.waits = "work items" THEN "load" ELSE IF Works(block) THEN "arrive" ELSE "done"
AfterPass(more) ==
    IF ~more THEN "reduce" ELSE IF kernel.waits = "work items" THEN "load" ELSE "arrive"

----------------------------------------------------------------------------
Cleared(v) == [x \in Ids |-> [b \in Internal |-> v]]
ZeroMatr == [t \in Threads |-> [k \in Internal |-> [l \in Internal |-> <<>>]]]

Init ==
    /\ config \in Configurations
    /\ block \in [x : 0..(config.blocks - 1), y : 0..(config.blocks - 1)]
    /\ id = 0
    /\ pc = [t \in Threads |-> First]
    /\ feature = [t \in Threads |-> 0]
    /\ data_intern_i = Cleared(Junk) /\ data_intern_j = Cleared(Junk)
    /\ matr = ZeroMatr
    /\ ret = [r \in Rows |-> EmptyBag]

\* Mutant: nobody waits for the threads that are still reading.
Barrier_None(here, next) ==
    /\ \E t \in Threads : pc[t] = here
    /\ pc' = [t \in Threads |-> IF pc[t] = here THEN next ELSE pc[t]]
    /\ UNCHANGED <<config, block, id, feature, data_intern_i, data_intern_j, matr, ret>>

\* All threads of the block are here.
Barrier(here, next) ==
    /\ \A t \in Threads : pc[t] = here
    /\ pc' = [t \in Threads |-> next]
    /\ UNCHANGED <<config, block, id, feature, data_intern_i, data_intern_j, matr, ret>>

\* Entry b of the row cache is loaded by the threads with this y.
LoadsI(t, b) == t.y = b % THREAD_BLOCK_SIZE

\* The column cache.  In CUDA the remainder binds stronger than the sum.
LoadsJ(t, b) ==
    IF kernel.columns = "ji" THEN t.y = b + (INTERNAL_BLOCK_SIZE % THREAD_BLOCK_SIZE)
    ELSE t.x = b % THREAD_BLOCK_SIZE

Value(t, point) == <<FirstFeature + feature[t], point>>

Load(t) ==
    /\ pc[t] = "load"
    /\ LET row == IF kernel.columns = "ji" THEN t.x ELSE t.y
           column == IF kernel.columns = "ji" THEN ji(t) ELSE j(t)
       IN  /\ data_intern_i' = IF ~Works(block) THEN data_intern_i ELSE
                 [data_intern_i EXCEPT ![t.x] =
                     [b \in Internal |-> IF LoadsI(t, b) THEN Value(t, i(t) + b) ELSE @[b]]]
           /\ data_intern_j' = IF ~Works(block) THEN data_intern_j ELSE
                 [data_intern_j EXCEPT ![row] =
                     [b \in Internal |-> IF LoadsJ(t, b) THEN Value(t, column + b) ELSE @[b]]]
    /\ pc' = [pc EXCEPT ![t] = "full"]
    /\ UNCHANGED <<config, block, id, feature, matr, ret>>

\* data_j and data_i are read from the caches and combined.
Read(t) ==
    /\ pc[t] = "read"
    /\ matr' = IF ~Works(block) THEN matr ELSE
          [matr EXCEPT ![t] =
             [k \in Internal |-> [l \in Internal |->
                 Append(@[k][l], <<data_intern_i[t.x][l], data_intern_j[t.y][k]>>)]]]
    /\ feature' = [feature EXCEPT ![t] = @ + 1]
    /\ pc' = [pc EXCEPT ![t] =
                 IF kernel.waits = "work items" THEN "leave"
                 ELSE AfterPass(feature'[t] < feature_range)]
    /\ UNCHANGED <<config, block, id, data_intern_i, data_intern_j, ret>>

Begin == Barrier("begin", AfterBegin)
StartLoading == Barrier("arrive", "load")
StartReading == Barrier("full", "read")
Leave == \E more \in {feature[t] < feature_range : t \in Threads} : Barrier("leave", AfterPass(more))

\* Summands in which the two points of an entry are not told apart.
Unordered(entry) == [f \in DOMAIN entry |-> {entry[f][1], entry[f][2]}]

\* temp: a sum of one term per feature, or a function of all of them.
Temp(entry, rows) ==
    (IF kernel.entry = "sum" THEN {<<kernel.summand, s>> : s \in Range(Unordered(entry))}
     ELSE {<<kernel.entry, kernel.summand, Unordered(entry)>>})
    \cup (IF id \in kernel.constant_on THEN {<<"QA_cost - q - q", rows>>} ELSE {})

\* Mutant: the cost is added on every device.
Cost_Everywhere == {<<"cost">>}

Cost == IF id \in kernel.constant_on THEN {<<"cost">>} ELSE {}

\* {term times d[column]}
Times(terms, column) == SetToBag({[term |-> term, d |-> column] : term \in terms})

\* What the pass (x, y) of the loops adds to entry r of ret.
Added(t, x, y, r) ==
    LET row == i(t) + y
        column == j(t) + x
        temp == Temp(matr[t][x][y], {row, column})
    IN  CASE i(t) + x > j(t) + y ->
                 (IF r = row THEN Times(temp, column) ELSE EmptyBag)
                 (+) (IF r = column THEN Times(temp, row) ELSE EmptyBag)
          [] i(t) + x = j(t) + y ->
                 IF r = column THEN Times(temp \cup Cost, row) ELSE EmptyBag
          [] OTHER -> EmptyBag

\* The atomic additions of a thread (KernelTiling has them one by one).
Reduce(t) ==
    /\ pc[t] = "reduce"
    /\ ret' = IF ~Works(block) THEN ret ELSE
          [r \in Rows |->
              FoldSet(LAMBDA xy, sum : sum (+) Added(t, xy[1], xy[2], r), ret[r], Internal \X Internal)]
    /\ pc' = [pc EXCEPT ![t] = "done"]
    /\ UNCHANGED <<config, block, id, feature, data_intern_i, data_intern_j, matr>>

\* The devices run at the same time, on memory of their own; device_reduction
\* adds their results.
NextDevice ==
    /\ \A t \in Threads : pc[t] = "done"
    /\ id + 1 < num_used_devices
    /\ id' = id + 1
    /\ pc' = [t \in Threads |-> First]
    /\ feature' = [t \in Threads |-> 0]
    /\ data_intern_i' = Cleared(Junk) /\ data_intern_j' = Cleared(Junk)
    /\ matr' = ZeroMatr
    /\ UNCHANGED <<config, block, ret>>

Finished == (\A t \in Threads : pc[t] = "done") /\ id + 1 = num_used_devices

Terminated == Finished /\ UNCHANGED vars

Next ==
    \/ Begin \/ StartLoading \/ StartReading \/ Leave
    \/ \E t \in Threads : Load(t) \/ Read(t) \/ Reduce(t)
    \/ NextDevice
    \/ Terminated

Spec == Init /\ [][Next]_vars

----------------------------------------------------------------------------
(* Properties.                                                             *)

\* The sizes for which every column of the cache has a thread that loads it:
\* all of them where a thread wraps around, in CUDA and HIP those with at least
\* twice as many threads as entries per thread, or as many.
LoadsEverything ==
    kernel.columns = "ji" =>
        \A b \in Internal : b + (INTERNAL_BLOCK_SIZE % THREAD_BLOCK_SIZE) \in Ids

\* The values of the points r and c, for n features from first on.
Summands(n, first, r, c) ==
    [f \in 1..n |-> <<<<first + (f - 1), r>>, <<first + (f - 1), c>>>>]

\* Every summand of matr[k][l] is made of one feature of the points i + l and
\* j + k, no feature is missing or doubled, and their order is the same in all
\* threads: threads that are faster never overwrite a cached value that
\* another thread still reads, and the caches hold every value that is read,
\* for all sizes the kernels can be configured with if LoadsEverything.
MatrixIsProduct ==
    \A t \in Threads : Works(block) => \A k, l \in Internal :
        matr[t][k][l] = Summands(feature[t], FirstFeature, i(t) + l, j(t) + k)

\* The entry of two points that all backends mean, for all features.
Entry(r, c) ==
    LET summands == [f \in 1..num_features |-> {<<f - 1, r>>, <<f - 1, c>>}]
        sum == IF config.kernel_type = "rbf" THEN "squared difference" ELSE "product"
        own == CASE config.kernel_type = "linear" -> {<<sum, s>> : s \in Range(summands)}
                 [] config.kernel_type = "polynomial" -> {<<"pow", sum, summands>>}
                 [] config.kernel_type = "rbf" -> {<<"exp", sum, summands>>}
    IN  own \cup {<<"QA_cost - q - q", {r, c}>>} \cup (IF r = c THEN {<<"cost">>} ELSE {})

BlockOf(index) ==
    {r \in Rows : r \div (THREAD_BLOCK_SIZE * INTERNAL_BLOCK_SIZE) = index}

\* The points that the block pairs with r.
Partners(r) ==
    IF ~Works(block) THEN {}
    ELSE (IF r \in BlockOf(block.x) THEN BlockOf(block.y) ELSE {})
         \cup (IF r \in BlockOf(block.y) THEN BlockOf(block.x) ELSE {})

\* At the end the block has added every entry of its pairs of points to both
\* of them, on all devices together exactly once: features of all devices, one
\* cost on the diagonal, one QA_cost - q - q, for every backend and kernel the
\* same.  Before, nothing else was added.
AddsItsEntries ==
    \A r \in Rows :
        LET terms == UNION {Entry(r, c) : c \in Partners(r)}
            all == SetToBag({a \in [term : terms, d : Partners(r)] : a.term \in Entry(r, a.d)})
        IN  ret[r] \sqsubseteq all /\ (Finished => ret[r] = all)
=============================================================================
