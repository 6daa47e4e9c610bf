------------------------- MODULE KernelBlockProofs --------------------------
(***************************************************************************)
(* The threads of a block compute the product of the cached values of the  *)
(* same features in the same order, for every backend and kernel, number   *)
(* of devices, features, threads and entries per thread for which all of   *)
(* the cache is loaded.  The invariant BlockInv says where the threads of  *)
(* a block are at the same time, and what the caches hold there.           *)
(*                                                                         *)
(* What they add to the result are then the entries of the matrix, each    *)
(* once: no pair of points belongs to two threads or passes, no feature to *)
(* two devices, and none is left out.  The invariant SumInv says that the  *)
(* result has the terms of the threads that are done so far.               *)
(***************************************************************************)
EXTENDS KernelBlock, SequenceTheorems, FiniteSetTheorems, WellFoundedInduction, TLAPS

\* The threads that load the cache of the columns, by the row they load.
Row(t) == IF kernel.columns = "ji" THEN t.x ELSE t.y

\* What entry b of the caches holds in pass p, in the row of the threads x
\* and y.
ValueI(x, b, p) ==
    <<FirstFeature + p, (block.x * THREAD_BLOCK_SIZE + x) * INTERNAL_BLOCK_SIZE + b>>
ValueJ(y, b, p) ==
    <<FirstFeature + p, (block.y * THREAD_BLOCK_SIZE + y) * INTERNAL_BLOCK_SIZE + b>>

\* A thread has loaded all it has to load in pass p.
Filled(t, p) ==
    \A b \in Internal :
        /\ LoadsI(t, b) => data_intern_i[t.x][b] = ValueI(t.x, b, p)
        /\ LoadsJ(t, b) => data_intern_j[Row(t)][b] = ValueJ(Row(t), b, p)

CachesFull(p) ==
    \A x \in Ids, b \in Internal :
        /\ data_intern_i[x][b] = ValueI(x, b, p)
        /\ data_intern_j[x][b] = ValueJ(x, b, p)

\* Where a thread is after it has read n features.
Behind(n) ==
    IF kernel.waits = "work items" THEN {"leave"}
    ELSE IF n < feature_range THEN {"arrive"} ELSE {"reduce", "done"}

Passes == 0..(feature_range - 1)

\* All threads are in pass p, none has read yet.
Loading(p) ==
    /\ \A t \in Threads : feature[t] = p
    /\ \/ p = 0 /\ \A t \in Threads : pc[t] = "begin"
       \/ p = 0 /\ \A t \in Threads : pc[t] = "arrive"
       \/ \A t \in Threads : pc[t] \in {"load", "full"}
    /\ \A t \in Threads : pc[t] = "full" => Filled(t, p)

\* Some threads may still read, the others wait before the next pass.
Reading(p) ==
    /\ CachesFull(p)
    /\ \A t \in Threads : \/ pc[t] = "read" /\ feature[t] = p
                          \/ pc[t] \in Behind(p + 1) /\ feature[t] = p + 1

Ended == \A t \in Threads : feature[t] = feature_range /\ pc[t] \in {"reduce", "done"}

Phase == Ended \/ \E p \in Passes : Loading(p) \/ Reading(p)

Domains ==
    /\ config \in Configurations
    /\ block \in [x : Nat, y : Nat]
    /\ id \in 0..(num_used_devices - 1)
    /\ DOMAIN pc = Threads /\ DOMAIN feature = Threads
    /\ DOMAIN data_intern_i = Ids /\ DOMAIN data_intern_j = Ids
    /\ DOMAIN matr = Threads

BlockInv ==
    /\ Domains
    /\ LoadsEverything /\ Works(block) => Phase
    /\ LoadsEverything => MatrixIsProduct

----------------------------------------------------------------------------
(* What depends on the configuration, the block and the device only.       *)

SameCall == UNCHANGED <<config, block, id>>

LEMMA CallStays ==
  ASSUME SameCall
  PROVE  /\ Ids' = Ids /\ Internal' = Internal /\ Threads' = Threads
         /\ Passes' = Passes /\ feature_range' = feature_range /\ FirstFeature' = FirstFeature
         /\ num_used_devices' = num_used_devices
         /\ kernel' = kernel /\ Works(block)' = Works(block)
         /\ LoadsEverything' = LoadsEverything
         /\ \A t : Row(t)' = Row(t) /\ i(t)' = i(t) /\ j(t)' = j(t)
         /\ \A t, b : LoadsI(t, b)' = LoadsI(t, b) /\ LoadsJ(t, b)' = LoadsJ(t, b)
         /\ \A x, b, p : ValueI(x, b, p)' = ValueI(x, b, p) /\ ValueJ(x, b, p)' = ValueJ(x, b, p)
         /\ \A n : Behind(n)' = Behind(n)
BY DEF SameCall, Ids, Internal, Threads, Passes, feature_range, FirstFeature, num_used_devices, kernel,
       LoadsEverything, Row, i, j, LoadsI, LoadsJ, ValueI, ValueJ, Behind,
       THREAD_BLOCK_SIZE, INTERNAL_BLOCK_SIZE

\* Every device has its own features.
LEMMA RangesKnown ==
  ASSUME config \in Configurations
  PROVE  /\ num_used_devices \in Nat \ {0} /\ config.blocks \in Nat \ {0}
         /\ config.feature_ranges[1] = 0 /\ num_features \in Nat
         /\ \A d \in 1..(num_used_devices + 1) : config.feature_ranges[d] \in Nat
         /\ \A d, e \in 1..(num_used_devices + 1) :
                d < e => config.feature_ranges[d] < config.feature_ranges[e]
         /\ config.kernel_type # "linear" => num_used_devices = 1
<1>1. config.feature_ranges \in Seq(Nat) /\ config.blocks \in Nat \ {0}
  BY BlockAssumption
<1>2. Len(config.feature_ranges) \in Nat /\ DOMAIN config.feature_ranges = 1..Len(config.feature_ranges)
  BY <1>1, LenProperties
<1>3. \A d \in 1..Len(config.feature_ranges) : config.feature_ranges[d] \in Nat
  BY <1>1, <1>2, ElementOfSeq
<1>4. /\ num_used_devices \in Nat \ {0} /\ num_used_devices + 1 = Len(config.feature_ranges)
      /\ config.kernel_type # "linear" => num_used_devices = 1
  BY <1>2, BlockAssumption DEF num_used_devices
<1> QED
  BY <1>1, <1>3, <1>4, BlockAssumption DEF num_features

LEMMA CallTyped ==
  ASSUME Domains
  PROVE  /\ THREAD_BLOCK_SIZE \in Nat \ {0} /\ INTERNAL_BLOCK_SIZE \in Nat \ {0}
         /\ feature_range \in Nat \ {0} /\ FirstFeature \in Nat
<1>1. /\ id + 1 \in 1..(num_used_devices + 1) /\ id + 2 \in 1..(num_used_devices + 1) /\ id + 1 < id + 2
  BY RangesKnown DEF Domains
<1>2. feature_range \in Nat \ {0} /\ FirstFeature \in Nat
  BY <1>1, RangesKnown DEF Domains, feature_range, FirstFeature
<1> QED
  BY <1>2, BlockAssumption DEF Domains, THREAD_BLOCK_SIZE, INTERNAL_BLOCK_SIZE

\* There is a thread, and its coordinates are those of rows of the caches.
LEMMA SomeThread ==
  ASSUME Domains
  PROVE  /\ \E t \in Threads : TRUE
         /\ \A t \in Threads : t.x \in Ids /\ t.y \in Ids
         /\ \A x, y \in Ids : [x |-> x, y |-> y] \in Threads
<1>1. 0 \in Ids
  BY CallTyped DEF Ids
<1>2. \A x, y \in Ids : [x |-> x, y |-> y] \in Threads
  BY DEF Threads
<1>3. \E t \in Threads : TRUE
  BY <1>1, <1>2
<1>4. \A t \in Threads : t.x \in Ids /\ t.y \in Ids
  BY DEF Threads
<1> QED
  BY <1>2, <1>3, <1>4

\* How a kernel waits and loads.
LEMMA KernelKnown ==
  ASSUME Domains
  PROVE  /\ kernel.columns \in {"ji", "j"}
         /\ kernel.waits \in {"around load", "also first", "work items"}
<1>1. /\ config.backend \in Backends
      /\ config.kernel_type \in {"linear", "polynomial", "rbf"}
  BY BlockAssumption DEF Domains
<1> DEFINE Good(k) == /\ k.columns \in {"ji", "j"}
                      /\ k.waits \in {"around load", "also first", "work items"}
           AllGood(by) == Good(by.linear) /\ Good(by.polynomial) /\ Good(by.rbf)
<1>2. AllGood(Kernels.CUDA)
  BY DEF Kernels, Linear, Nonlinear, cuda_device_kernel_linear,
         cuda_device_kernel_polynomial, cuda_device_kernel_rbf
<1>3. AllGood(Kernels.HIP)
  BY DEF Kernels, Linear, Nonlinear, hip_device_kernel_linear,
         hip_device_kernel_polynomial, hip_device_kernel_rbf
<1>4. AllGood(Kernels.OpenCL)
  BY DEF Kernels, Linear, Nonlinear, opencl_device_kernel_linear,
         opencl_device_kernel_polynomial, opencl_device_kernel_rbf
<1>5. AllGood(Kernels.nd_range)
  BY DEF Kernels, Linear, Nonlinear, nd_range_device_kernel_linear,
         nd_range_device_kernel_polynomial, nd_range_device_kernel_rbf
<1>6. AllGood(Kernels.hierarchical)
  BY DEF Kernels, Linear, Nonlinear, hierarchical_device_kernel_linear,
         hierarchical_device_kernel_polynomial, hierarchical_device_kernel_rbf
<1>7. AllGood(Kernels[config.backend])
  BY <1>1, <1>2, <1>3, <1>4, <1>5, <1>6 DEF Backends
<1>8. Good(Kernels[config.backend][config.kernel_type])
  BY <1>1, <1>7
<1> QED
  BY <1>8 DEF kernel

\* Every entry of the caches has a thread that loads it.
LEMMA EveryEntryLoaded ==
  ASSUME Domains, LoadsEverything, NEW x \in Ids, NEW b \in Internal
  PROVE  /\ \E t \in Threads : t.x = x /\ LoadsI(t, b)
         /\ \E t \in Threads : Row(t) = x /\ LoadsJ(t, b)
<1>1. b % THREAD_BLOCK_SIZE \in Ids
  BY CallTyped DEF Ids, Internal
<1>2. \E t \in Threads : t.x = x /\ LoadsI(t, b)
  <2>1. [x |-> x, y |-> b % THREAD_BLOCK_SIZE] \in Threads
    BY <1>1, SomeThread
  <2> QED
    BY <2>1 DEF LoadsI
<1>3. CASE kernel.columns = "ji"
  <2>1. [x |-> x, y |-> b + (INTERNAL_BLOCK_SIZE % THREAD_BLOCK_SIZE)] \in Threads
    BY <1>3, SomeThread DEF LoadsEverything
  <2> QED
    BY <1>2, <1>3, <2>1 DEF LoadsJ, Row
<1>4. CASE kernel.columns # "ji"
  <2>1. [x |-> b % THREAD_BLOCK_SIZE, y |-> x] \in Threads
    BY <1>1, SomeThread
  <2> QED
    BY <1>2, <1>4, <2>1 DEF LoadsJ, Row
<1> QED
  BY <1>3, <1>4

\* The row of matr is one summand longer.
LEMMA OneMoreSummand ==
  ASSUME NEW p \in Nat, NEW first, NEW r, NEW c
  PROVE  Append(Summands(p, first, r, c), <<<<first + p, r>>, <<first + p, c>>>>)
         = Summands(p + 1, first, r, c)
<1> DEFINE F(f) == <<<<first + (f - 1), r>>, <<first + (f - 1), c>>>>
           s == [f \in 1..p |-> F(f)]
           S == {F(f) : f \in 1..(p + 1)}
<1>1. s \in Seq(S) /\ Len(s) = p
  <2>1. s \in [1..p -> S]
    OBVIOUS
  <2>2. s \in Seq(S)
    BY <2>1, SeqDef
  <2>3. DOMAIN s = 1..p
    OBVIOUS
  <2>4. Len(s) \in Nat /\ DOMAIN s = 1..Len(s)
    BY <2>2, LenProperties
  <2>5. Len(s) = p
    <3> HIDE DEF s
    <3> QED
      BY <2>3, <2>4
  <2> QED
    BY <2>2, <2>5
<1>2. F(p + 1) \in S /\ F(p + 1) = <<<<first + p, r>>, <<first + p, c>>>>
  <2>1. (p + 1) - 1 = p /\ p + 1 \in 1..(p + 1)
    OBVIOUS
  <2> QED
    BY <2>1
<1>3. Append(s, F(p + 1)) = [f \in 1..(p + 1) |-> F(f)]
  <2> HIDE DEF S, F
  <2>1. /\ Append(s, F(p + 1)) = [f \in 1..(p + 1) |-> IF f <= p THEN s[f] ELSE F(p + 1)]
    BY <1>1, <1>2
  <2>2. \A f \in 1..(p + 1) : (IF f <= p THEN s[f] ELSE F(p + 1)) = F(f)
    OBVIOUS
  <2> QED
    BY <2>1, <2>2
<1> QED
  BY <1>2, <1>3 DEF Summands

----------------------------------------------------------------------------
(* Every device starts in the first pass.                                  *)

Fresh ==
    /\ Domains
    /\ pc = [t \in Threads |-> First] /\ feature = [t \in Threads |-> 0]
    /\ matr = ZeroMatr

LEMMA FreshIsGood == Fresh => BlockInv
<1> SUFFICES ASSUME Fresh PROVE BlockInv
  OBVIOUS
<1>1. ASSUME Works(block) PROVE Phase
  <2>1. 0 \in Passes
    BY CallTyped DEF Fresh, Passes
  <2>2. First \in {"begin", "arrive"}
    BY <1>1 DEF First
  <2>3. Loading(0)
    BY <2>2 DEF Fresh, Loading
  <2> QED
    BY <2>1, <2>3 DEF Phase
<1>2. MatrixIsProduct
  <2> SUFFICES ASSUME NEW t \in Threads, NEW k \in Internal, NEW l \in Internal
               PROVE  matr[t][k][l] = Summands(feature[t], FirstFeature, i(t) + l, j(t) + k)
    BY DEF MatrixIsProduct
  <2>1. matr[t][k][l] = <<>>
    BY DEF Fresh, ZeroMatr
  <2>2. feature[t] = 0
    BY DEF Fresh
  <2> QED
    BY <2>1, <2>2 DEF Summands
<1> QED
  BY <1>1, <1>2 DEF BlockInv, Fresh

LEMMA InitIsGood == Init => BlockInv
<1> SUFFICES ASSUME Init PROVE BlockInv
  OBVIOUS
<1>1. config.blocks \in Nat
  BY BlockAssumption DEF Init
<1>2. block \in [x : Nat, y : Nat]
  BY <1>1 DEF Init
<1>3. id \in 0..(num_used_devices - 1)
  BY RangesKnown DEF Init
<1>4. Domains
  BY <1>2, <1>3 DEF Init, Domains, Cleared, ZeroMatr
<1>5. Fresh
  BY <1>4 DEF Init, Fresh
<1> QED
  BY <1>5, FreshIsGood

LEMMA NextDeviceIsGood ==
  ASSUME BlockInv, NextDevice
  PROVE  BlockInv'
<1>1. Ids' = Ids /\ Internal' = Internal /\ Threads' = Threads
  BY DEF NextDevice, Ids, Internal, Threads, THREAD_BLOCK_SIZE, INTERNAL_BLOCK_SIZE
<1>2. First' = First
  BY DEF NextDevice, First, kernel
<1>3. Cleared(Junk)' = Cleared(Junk) /\ ZeroMatr' = ZeroMatr
  BY <1>1 DEF Cleared, ZeroMatr, Junk
<1>4. id' \in 0..(num_used_devices' - 1)
  <2>1. num_used_devices \in Nat /\ num_used_devices' = num_used_devices
    BY RangesKnown DEF NextDevice, BlockInv, Domains, num_used_devices
  <2> QED
    BY <2>1 DEF NextDevice, BlockInv, Domains
<1>5. Domains'
  <2>1. DOMAIN Cleared(Junk) = Ids /\ DOMAIN ZeroMatr = Threads
    BY DEF Cleared, ZeroMatr
  <2> QED
    BY <1>1, <1>3, <1>4, <2>1 DEF NextDevice, BlockInv, Domains
<1>6. Fresh'
  BY <1>1, <1>2, <1>3, <1>5 DEF NextDevice, Fresh
<1> QED
  <2>1. Fresh' => BlockInv'
    BY FreshIsGood, PTL
  <2> QED
    BY <1>6, <2>1

----------------------------------------------------------------------------
(* The steps of the threads.                                               *)

\* The phase of a block that stands at a barrier.
LEMMA WhereAllAre ==
  ASSUME Domains, Phase, NEW here \in {"begin", "arrive", "full", "leave"},
         \A t \in Threads : pc[t] = here
  PROVE  /\ here = "begin" => Loading(0) /\ 0 \in Passes
         /\ here = "arrive" => \E p \in Passes : \A t \in Threads : feature[t] = p
         /\ here = "full" => \E p \in Passes : Loading(p)
         /\ here = "leave" => \E p \in Passes : \A t \in Threads : feature[t] = p + 1
<1>1. ~ Ended
  BY SomeThread DEF Ended
<1>2. PICK p \in Passes : Loading(p) \/ Reading(p)
  BY <1>1 DEF Phase
<1>3. p \in Nat /\ p < feature_range /\ feature_range \in Nat /\ 0 \in Passes
  BY CallTyped DEF Passes
<1>4. CASE Loading(p)
  BY <1>3, <1>4, SomeThread DEF Loading
<1>5. CASE Reading(p)
  <2>1. here \in Behind(p + 1) /\ \A t \in Threads : feature[t] = p + 1
    BY <1>5, SomeThread DEF Reading, Behind
  <2>2. here # "begin" /\ here # "full"
    BY <2>1 DEF Behind
  <2>3. ASSUME here = "arrive" PROVE p + 1 \in Passes
    <3>1. p + 1 < feature_range
      BY <2>1, <2>3 DEF Behind
    <3> QED
      BY <1>3, <3>1 DEF Passes
  <2> QED
    BY <2>1, <2>2, <2>3
<1> QED
  BY <1>2, <1>4, <1>5

LEMMA BarrierIsGood ==
  ASSUME BlockInv, SameCall, UNCHANGED <<feature, data_intern_i, data_intern_j, matr>>,
         DOMAIN pc' = Threads, LoadsEverything /\ Works(block) => Phase'
  PROVE  BlockInv'
<1>1. Domains'
  BY CallStays DEF BlockInv, Domains, SameCall
<1>2. LoadsEverything => MatrixIsProduct'
  BY CallStays DEF BlockInv, MatrixIsProduct
<1> QED
  BY <1>1, <1>2, CallStays DEF BlockInv

\* All threads begin the pass p at the same time.
LEMMA NowLoading ==
  ASSUME Domains, SameCall, UNCHANGED <<feature>>, NEW p \in Passes,
         \A t \in Threads : feature[t] = p,
         \A t \in Threads : pc'[t] = "load" \/ (p = 0 /\ pc'[t] = "arrive"),
         \A t, u \in Threads : pc'[t] = pc'[u]
  PROVE  Phase'
<1>1. Loading(p)'
  BY CallStays, SomeThread DEF Loading
<1> QED
  BY <1>1, CallStays DEF Phase

LEMMA BeginIsGood ==
  ASSUME BlockInv, Begin
  PROVE  BlockInv'
<1>1. SameCall /\ UNCHANGED <<feature, data_intern_i, data_intern_j, matr>>
  BY DEF Begin, Barrier, SameCall
<1>2. pc' = [t \in Threads |-> AfterBegin] /\ \A t \in Threads : pc[t] = "begin"
  BY DEF Begin, Barrier
<1>3. ASSUME LoadsEverything, Works(block) PROVE Phase'
  <2>1. Domains /\ Phase
    BY <1>3 DEF BlockInv
  <2>2. Loading(0) /\ 0 \in Passes
    BY <1>2, <2>1, WhereAllAre
  <2>3. AfterBegin \in {"load", "arrive"}
    BY <1>3 DEF AfterBegin
  <2>4. \A t \in Threads : feature[t] = 0
    BY <2>2 DEF Loading
  <2>5. \A t \in Threads : pc'[t] = AfterBegin
    BY <1>2
  <2>6. /\ \A t \in Threads : pc'[t] = "load" \/ pc'[t] = "arrive"
        /\ \A t, u \in Threads : pc'[t] = pc'[u]
    BY <2>3, <2>5
  <2> QED
    BY <1>1, <2>1, <2>2, <2>4, <2>6, NowLoading
<1>4. DOMAIN pc' = Threads
  BY <1>2
<1> QED
  BY <1>1, <1>3, <1>4, BarrierIsGood

LEMMA StartLoadingIsGood ==
  ASSUME BlockInv, StartLoading
  PROVE  BlockInv'
<1>1. SameCall /\ UNCHANGED <<feature, data_intern_i, data_intern_j, matr>>
  BY DEF StartLoading, Barrier, SameCall
<1>2. pc' = [t \in Threads |-> "load"] /\ \A t \in Threads : pc[t] = "arrive"
  BY DEF StartLoading, Barrier
<1>3. ASSUME LoadsEverything, Works(block) PROVE Phase'
  <2>1. Domains /\ Phase
    BY <1>3 DEF BlockInv
  <2>2. PICK p \in Passes : \A t \in Threads : feature[t] = p
    BY <1>2, <2>1, WhereAllAre
  <2>3. \A t \in Threads : pc'[t] = "load"
    BY <1>2
  <2> QED
    BY <1>1, <2>1, <2>2, <2>3, NowLoading
<1>4. DOMAIN pc' = Threads
  BY <1>2
<1> QED
  BY <1>1, <1>3, <1>4, BarrierIsGood

LEMMA LeaveIsGood ==
  ASSUME BlockInv, Leave
  PROVE  BlockInv'
<1>1. PICK more \in {feature[t] < feature_range : t \in Threads} : Barrier("leave", AfterPass(more))
  BY DEF Leave
<1>2. SameCall /\ UNCHANGED <<feature, data_intern_i, data_intern_j, matr>>
  BY <1>1 DEF Barrier, SameCall
<1>3. pc' = [t \in Threads |-> AfterPass(more)] /\ \A t \in Threads : pc[t] = "leave"
  BY <1>1 DEF Barrier
<1>4. \A t \in Threads : pc'[t] = AfterPass(more)
  BY <1>3
<1>5. ASSUME LoadsEverything, Works(block) PROVE Phase'
  <2>1. Domains /\ Phase
    BY <1>5 DEF BlockInv
  <2>2. ~ Ended
    BY <1>3, <2>1, SomeThread DEF Ended
  <2>3. PICK p \in Passes : Loading(p) \/ Reading(p)
    BY <2>1, <2>2 DEF Phase
  <2>4. Reading(p)
    BY <1>3, <2>1, <2>3, SomeThread DEF Loading
  <2>5. /\ \A t \in Threads : feature[t] = p + 1
        /\ kernel.waits = "work items"
    BY <1>3, <2>1, <2>4, SomeThread DEF Reading, Behind
  <2>6. p \in Nat /\ p < feature_range /\ feature_range \in Nat
    BY <2>1, CallTyped DEF Passes
  <2>7. more = (p + 1 < feature_range)
    BY <2>5
  <2>8. CASE p + 1 < feature_range
    <3>1. p + 1 \in Passes
      BY <2>6, <2>8 DEF Passes
    <3>2. \A t \in Threads : pc'[t] = "load"
      BY <1>4, <2>5, <2>7, <2>8 DEF AfterPass
    <3> QED
      BY <1>2, <2>1, <2>5, <3>1, <3>2, NowLoading
  <2>9. CASE ~ (p + 1 < feature_range)
    <3>1. p + 1 = feature_range
      BY <2>6, <2>9
    <3>2. \A t \in Threads : pc'[t] = "reduce"
      BY <1>4, <2>7, <2>9 DEF AfterPass
    <3>3. Ended'
      BY <1>2, <2>5, <3>1, <3>2, CallStays DEF Ended
    <3> QED
      BY <3>3 DEF Phase
  <2> QED
    BY <2>8, <2>9
<1>6. DOMAIN pc' = Threads
  BY <1>3
<1> QED
  BY <1>2, <1>5, <1>6, BarrierIsGood

\* When all threads are at the second barrier, nothing of the caches is missing.
LEMMA StartReadingIsGood ==
  ASSUME BlockInv, StartReading
  PROVE  BlockInv'
<1>1. SameCall /\ UNCHANGED <<feature, data_intern_i, data_intern_j, matr>>
  BY DEF StartReading, Barrier, SameCall
<1>2. pc' = [t \in Threads |-> "read"] /\ \A t \in Threads : pc[t] = "full"
  BY DEF StartReading, Barrier
<1>3. ASSUME LoadsEverything, Works(block) PROVE Phase'
  <2>1. Domains /\ Phase
    BY <1>3 DEF BlockInv
  <2>2. PICK p \in Passes : Loading(p)
    BY <1>2, <2>1, WhereAllAre
  <2>3. \A t \in Threads : Filled(t, p) /\ feature[t] = p
    BY <1>2, <2>2 DEF Loading
  <2>4. CachesFull(p)
    <3> SUFFICES ASSUME NEW x \in Ids, NEW b \in Internal
                 PROVE  data_intern_i[x][b] = ValueI(x, b, p) /\ data_intern_j[x][b] = ValueJ(x, b, p)
      BY DEF CachesFull
    <3> QED
      BY <1>3, <2>1, <2>3, EveryEntryLoaded DEF Filled
  <2>5. CachesFull(p)'
    BY <1>1, <2>4, CallStays DEF CachesFull
  <2>6. \A t \in Threads : pc'[t] = "read"
    BY <1>2
  <2>7. Reading(p)'
    BY <1>1, <2>3, <2>5, <2>6, CallStays DEF Reading
  <2> QED
    BY <1>1, <2>7, CallStays DEF Phase
<1>4. DOMAIN pc' = Threads
  BY <1>2
<1> QED
  BY <1>1, <1>3, <1>4, BarrierIsGood
\* What a thread puts into the caches belongs there.
LEMMA LoadIsGood ==
  ASSUME BlockInv, NEW t \in Threads, Load(t)
  PROVE  BlockInv'
<1>1. SameCall /\ UNCHANGED <<feature, matr>> /\ pc[t] = "load" /\ pc' = [pc EXCEPT ![t] = "full"]
  BY DEF Load, SameCall
<1>2. Domains /\ t.x \in Ids /\ t.y \in Ids
  BY SomeThread DEF BlockInv
<1>3. /\ DOMAIN data_intern_i' = DOMAIN data_intern_i
      /\ DOMAIN data_intern_j' = DOMAIN data_intern_j
      /\ DOMAIN pc' = DOMAIN pc
  BY <1>1 DEF Load
<1>4. Domains'
  BY <1>1, <1>2, <1>3, CallStays DEF Domains, SameCall
<1>5. LoadsEverything => MatrixIsProduct'
  BY <1>1, CallStays DEF BlockInv, MatrixIsProduct
<1>6. ASSUME LoadsEverything, Works(block) PROVE Phase'
  <2>1. ~ Ended
    BY <1>1 DEF Ended
  <2>2. PICK p \in Passes : Loading(p) \/ Reading(p)
    BY <1>6, <2>1 DEF BlockInv, Phase
  <2>3. Loading(p)
    BY <1>1, <2>2 DEF Reading, Behind
  <2>4. /\ \A u \in Threads : feature[u] = p /\ pc[u] \in {"load", "full"}
        /\ \A u \in Threads : pc[u] = "full" => Filled(u, p)
    BY <1>1, <2>3 DEF Loading
  <2>5. Row(t) \in Ids /\ feature[t] = p
    BY <1>2, <2>4 DEF Row
  <2>6. /\ data_intern_i' = [data_intern_i EXCEPT ![t.x] =
               [b \in Internal |-> IF LoadsI(t, b) THEN Value(t, i(t) + b) ELSE @[b]]]
        /\ data_intern_j' = [data_intern_j EXCEPT ![Row(t)] =
               [b \in Internal |-> IF LoadsJ(t, b)
                                   THEN Value(t, (IF kernel.columns = "ji" THEN ji(t) ELSE j(t)) + b)
                                   ELSE @[b]]]
    BY <1>6 DEF Load, Row
  <2>7. \A b : /\ Value(t, i(t) + b) = ValueI(t.x, b, p)
               /\ Value(t, (IF kernel.columns = "ji" THEN ji(t) ELSE j(t)) + b) = ValueJ(Row(t), b, p)
    BY <2>5 DEF Value, ValueI, ValueJ, i, j, ji, Row
  <2>8. \A x \in Ids, b \in Internal :
            /\ data_intern_i'[x][b] = IF x = t.x /\ LoadsI(t, b) THEN ValueI(x, b, p)
                                      ELSE data_intern_i[x][b]
            /\ data_intern_j'[x][b] = IF x = Row(t) /\ LoadsJ(t, b) THEN ValueJ(x, b, p)
                                      ELSE data_intern_j[x][b]
    <3> DEFINE V(b) == Value(t, i(t) + b)
               W(b) == Value(t, (IF kernel.columns = "ji" THEN ji(t) ELSE j(t)) + b)
    <3>1. \A b : V(b) = ValueI(t.x, b, p) /\ W(b) = ValueJ(Row(t), b, p)
      BY <2>7
    <3>2. /\ data_intern_i' = [data_intern_i EXCEPT ![t.x] =
                 [b \in Internal |-> IF LoadsI(t, b) THEN V(b) ELSE @[b]]]
          /\ data_intern_j' = [data_intern_j EXCEPT ![Row(t)] =
                 [b \in Internal |-> IF LoadsJ(t, b) THEN W(b) ELSE @[b]]]
      BY <2>6
    <3> HIDE DEF V, W
    <3> QED
      BY <1>2, <2>5, <3>1, <3>2 DEF Domains
  <2>9. ASSUME NEW u \in Threads, pc'[u] = "full" PROVE Filled(u, p)'
    <3>1. u = t \/ Filled(u, p)
      BY <1>1, <1>2, <2>4, <2>9 DEF Domains
    <3>2. u.x \in Ids /\ Row(u) \in Ids
      BY <1>2, SomeThread DEF Row
    <3>3. \A b \in Internal :
              /\ LoadsI(u, b) => data_intern_i'[u.x][b] = ValueI(u.x, b, p)
              /\ LoadsJ(u, b) => data_intern_j'[Row(u)][b] = ValueJ(Row(u), b, p)
      BY <2>8, <3>1, <3>2 DEF Filled
    <3> QED
      BY <1>1, <3>3, CallStays DEF Filled
  <2>10. \A u \in Threads : feature'[u] = p /\ pc'[u] \in {"load", "full"}
    BY <1>1, <1>2, <2>4 DEF Domains
  <2>11. Loading(p)'
    BY <1>1, <2>9, <2>10, CallStays DEF Loading
  <2> QED
    BY <1>1, <2>11, CallStays DEF Phase
<1> QED
  BY <1>1, <1>4, <1>5, <1>6, CallStays DEF BlockInv

\* A thread that reads finds the values of its pass.
LEMMA ReadIsGood ==
  ASSUME BlockInv, NEW t \in Threads, Read(t)
  PROVE  BlockInv'
<1>1. /\ SameCall /\ UNCHANGED <<data_intern_i, data_intern_j>> /\ pc[t] = "read"
      /\ feature' = [feature EXCEPT ![t] = @ + 1]
      /\ pc' = [pc EXCEPT ![t] = IF kernel.waits = "work items" THEN "leave"
                                 ELSE AfterPass(feature'[t] < feature_range)]
  BY DEF Read, SameCall
<1>0. SameCall /\ data_intern_i' = data_intern_i /\ data_intern_j' = data_intern_j
  BY DEF Read, SameCall
<1>2. Domains /\ t.x \in Ids /\ t.y \in Ids
  BY SomeThread DEF BlockInv
<1>3. DOMAIN matr' = DOMAIN matr
  BY DEF Read
<1>4. Domains'
  BY <1>1, <1>2, <1>3, CallStays DEF Domains, SameCall
<1>5. ASSUME LoadsEverything, Works(block) PROVE Phase' /\ MatrixIsProduct'
  <2>1. ~ Ended
    BY <1>1 DEF Ended
  <2>2. PICK p \in Passes : Loading(p) \/ Reading(p)
    BY <1>5, <2>1 DEF BlockInv, Phase
  <2>3. Reading(p)
    BY <1>1, <2>2 DEF Loading
  <2>4. p \in Nat /\ p < feature_range /\ feature_range \in Nat
    BY <1>2, CallTyped DEF Passes
  <2>5. feature[t] = p
    BY <1>1, <2>3 DEF Reading, Behind
  <2>6. feature'[t] = p + 1
    BY <1>1, <1>2, <2>5 DEF Domains
  <2>7. pc'[t] \in Behind(p + 1)
    <3>1. pc'[t] = IF kernel.waits = "work items" THEN "leave" ELSE AfterPass(p + 1 < feature_range)
      BY <1>1, <1>2, <2>6 DEF Domains
    <3> QED
      BY <3>1 DEF AfterPass, Behind
  <2>8. \A u \in Threads : u # t => pc'[u] = pc[u] /\ feature'[u] = feature[u]
    BY <1>1, <1>2 DEF Domains
  <2>9. CachesFull(p)'
    <3>1. CachesFull(p)
      BY <2>3 DEF Reading
    <3> QED
      BY <1>0, <3>1, CallStays DEF CachesFull
  <2>10. ASSUME NEW u \in Threads
         PROVE  \/ pc'[u] = "read" /\ feature'[u] = p
                \/ pc'[u] \in Behind(p + 1) /\ feature'[u] = p + 1
    BY <2>3, <2>6, <2>7, <2>8 DEF Reading
  <2>11. Reading(p)'
    BY <1>0, <2>9, <2>10, CallStays DEF Reading
  <2>12. ASSUME NEW u \in Threads, NEW k \in Internal, NEW l \in Internal
         PROVE  matr'[u][k][l] = Summands(feature'[u], FirstFeature, i(u) + l, j(u) + k)
    <3>1. matr[u][k][l] = Summands(feature[u], FirstFeature, i(u) + l, j(u) + k)
      BY <1>5 DEF BlockInv, MatrixIsProduct
    <3>2. CASE u # t
      BY <1>2, <1>5, <2>8, <3>1, <3>2 DEF Read, Domains
    <3>3. CASE u = t
      <4>1. matr'[t][k][l] = Append(matr[t][k][l], <<data_intern_i[t.x][l], data_intern_j[t.y][k]>>)
        BY <1>2, <1>5 DEF Read, Domains
      <4>2. data_intern_i[t.x][l] = ValueI(t.x, l, p) /\ data_intern_j[t.y][k] = ValueJ(t.y, k, p)
        BY <1>2, <2>3 DEF Reading, CachesFull
      <4>3. /\ ValueI(t.x, l, p) = <<FirstFeature + p, i(t) + l>>
            /\ ValueJ(t.y, k, p) = <<FirstFeature + p, j(t) + k>>
        BY DEF ValueI, ValueJ, i, j
      <4>4. Append(Summands(p, FirstFeature, i(t) + l, j(t) + k),
                   <<<<FirstFeature + p, i(t) + l>>, <<FirstFeature + p, j(t) + k>>>>)
            = Summands(p + 1, FirstFeature, i(t) + l, j(t) + k)
        BY <2>4, OneMoreSummand
      <4>5. matr[t][k][l] = Summands(p, FirstFeature, i(t) + l, j(t) + k)
        BY <2>5, <3>1, <3>3
      <4>6. matr'[t][k][l] = Summands(p + 1, FirstFeature, i(t) + l, j(t) + k)
        BY <4>1, <4>2, <4>3, <4>4, <4>5
      <4> QED
        BY <2>6, <3>3, <4>6
    <3> QED
      BY <3>2, <3>3
  <2>13. MatrixIsProduct'
    <3> SUFFICES ASSUME NEW u \in Threads, NEW k \in Internal, NEW l \in Internal
                 PROVE  matr'[u][k][l] = Summands(feature'[u], FirstFeature', i(u)' + l, j(u)' + k)
      BY <1>0, CallStays DEF MatrixIsProduct
    <3> QED
      BY <1>0, <2>12, CallStays
  <2> QED
    BY <1>0, <2>11, <2>13, CallStays DEF Phase
<1>6. ~ Works(block) => MatrixIsProduct'
  BY <1>0, CallStays DEF MatrixIsProduct
<1>7. /\ LoadsEverything /\ Works(block) => Phase'
      /\ LoadsEverything => MatrixIsProduct'
  BY <1>5, <1>6
<1> QED
  BY <1>0, <1>4, <1>7, CallStays DEF BlockInv

LEMMA ReduceIsGood ==
  ASSUME BlockInv, NEW t \in Threads, Reduce(t)
  PROVE  BlockInv'
<1>1. /\ SameCall /\ UNCHANGED <<feature, data_intern_i, data_intern_j, matr>>
      /\ pc[t] = "reduce" /\ pc' = [pc EXCEPT ![t] = "done"]
  BY DEF Reduce, SameCall
<1>2. Domains /\ DOMAIN pc' = Threads
  BY <1>1 DEF BlockInv, Domains
<1>3. \A u \in Threads : pc'[u] = IF u = t THEN "done" ELSE pc[u]
  BY <1>1, <1>2 DEF Domains
<1>4. ASSUME LoadsEverything, Works(block) PROVE Phase'
  <2>1. CASE Ended
    <3>1. Ended'
      BY <1>1, <1>3, <2>1, CallStays DEF Ended
    <3> QED
      BY <3>1 DEF Phase
  <2>2. CASE ~ Ended
    <3>1. PICK p \in Passes : Loading(p) \/ Reading(p)
      BY <1>4, <2>2 DEF BlockInv, Phase
    <3>2. Reading(p)
      BY <1>1, <3>1 DEF Loading
    <3>3. "reduce" \in Behind(p + 1) => "done" \in Behind(p + 1)
      BY DEF Behind
    <3>4. \A u \in Threads : \/ pc'[u] = "read" /\ feature'[u] = p
                             \/ pc'[u] \in Behind(p + 1) /\ feature'[u] = p + 1
      BY <1>1, <1>3, <3>2, <3>3 DEF Reading
    <3>5. CachesFull(p)'
      BY <1>1, <3>2, CallStays DEF Reading, CachesFull
    <3>6. Reading(p)'
      BY <1>1, <3>4, <3>5, CallStays DEF Reading
    <3> QED
      BY <1>1, <3>6, CallStays DEF Phase
  <2> QED
    BY <2>1, <2>2
<1> QED
  BY <1>1, <1>2, <1>4, BarrierIsGood

----------------------------------------------------------------------------
\* The threads of a block are in the same pass, or some of them wait before
\* the next while others still read, in all reachable states.
THEOREM BlockCorrect == Spec => []BlockInv
<1>1. BlockInv /\ [Next]_vars => BlockInv'
  <2> SUFFICES ASSUME BlockInv, [Next]_vars PROVE BlockInv'
    OBVIOUS
  <2>1. CASE Begin
    BY <2>1, BeginIsGood
  <2>2. CASE StartLoading
    BY <2>2, StartLoadingIsGood
  <2>3. CASE StartReading
    BY <2>3, StartReadingIsGood
  <2>4. CASE Leave
    BY <2>4, LeaveIsGood
  <2>5. CASE \E t \in Threads : Load(t) \/ Read(t) \/ Reduce(t)
    BY <2>5, LoadIsGood, ReadIsGood, ReduceIsGood
  <2>6. CASE NextDevice
    BY <2>6, NextDeviceIsGood
  <2>7. CASE UNCHANGED vars
    <3>1. SameCall /\ UNCHANGED <<pc, feature, data_intern_i, data_intern_j, matr>>
      BY <2>7 DEF vars, SameCall
    <3>2. Phase => Phase'
      <4>1. Ended => Ended'
        BY <3>1, CallStays DEF Ended
      <4>2. \A p : Loading(p) => Loading(p)'
        BY <3>1, CallStays DEF Loading, Filled
      <4>3. \A p : Reading(p) => Reading(p)'
        BY <3>1, CallStays DEF Reading, CachesFull
      <4> QED
        BY <3>1, <4>1, <4>2, <4>3, CallStays DEF Phase
    <3>3. DOMAIN pc' = Threads
      BY <3>1 DEF BlockInv, Domains
    <3> QED
      BY <3>1, <3>2, <3>3, BarrierIsGood DEF BlockInv
  <2> QED
    BY <2>1, <2>2, <2>3, <2>4, <2>5, <2>6, <2>7 DEF Next, Terminated
<1> QED
  BY <1>1, InitIsGood, PTL DEF Spec

\* MatrixIsProduct for all sizes, devices, kernels and backends with which the
\* caches are loaded completely: between its two barriers no thread reads what
\* another has not loaded or has already overwritten.
THEOREM MatrixCorrect == Spec => [](LoadsEverything => MatrixIsProduct)
<1>1. BlockInv => (LoadsEverything => MatrixIsProduct)
  BY DEF BlockInv
<1> QED
  BY <1>1, BlockCorrect, PTL

----------------------------------------------------------------------------
(* What a block adds: which pairs of points, and which terms of them.       *)

\* The passes of the loops over the entries of a thread.
Loops == Internal \X Internal

\* The test that lets one entry of each pair count.
Counts(t, x, y) == i(t) + x >= j(t) + y

\* The pass (x, y) of thread t pairs the points r and c.
Pairs(t, x, y, r, c) ==
    /\ Works(block) /\ Counts(t, x, y)
    /\ \/ r = i(t) + y /\ c = j(t) + x
       \/ r = j(t) + x /\ c = i(t) + y

\* The number with the digits n and a.
Number(n, a, size) == n * size + a

\* Numbers with two digits have one form, and their order is that of the
\* leading digits where these differ ...
LEMMA MixedRadix ==
    ASSUME NEW size \in Nat \ {0}
    PROVE  /\ \A n \in Nat, a \in 0..(size - 1) : Number(n, a, size) \in Nat
           /\ \A n, m \in Nat, a, b \in 0..(size - 1) :
                /\ n < m => Number(n, a, size) < Number(m, b, size)
                /\ Number(n, a, size) = Number(m, b, size) => n = m /\ a = b
<1>1. ASSUME NEW n \in Nat, NEW m \in Nat, NEW a \in 0..(size - 1), NEW b \in 0..(size - 1)
      PROVE  /\ Number(n, a, size) \in Nat
             /\ n < m => Number(n, a, size) < Number(m, b, size)
             /\ Number(n, a, size) = Number(m, b, size) => n = m /\ a = b
  <2>1. ASSUME NEW k \in Nat, NEW l \in Nat, k < l PROVE k * size + size <= l * size
    <3>1. l - k - 1 \in Nat
      BY <2>1
    <3>2. (l - k - 1) * size \in Nat
      BY <3>1
    <3>3. (l - k - 1) * size = l * size - k * size - size
      BY <2>1
    <3> QED
      BY <3>2, <3>3, <2>1
  <2> DEFINE N == n * size
             M == m * size
  <2>2. N \in Nat /\ M \in Nat /\ (n < m => N + size <= M) /\ (m < n => M + size <= N)
    BY <2>1
  <2>3. Number(n, a, size) = N + a /\ Number(m, b, size) = M + b
    BY DEF Number
  <2>4. n = m => N = M
    OBVIOUS
  <2> HIDE DEF N, M
  <2> QED
    BY <2>2, <2>3, <2>4
<1> QED
  BY <1>1

\* ... and of the last digits where they do not.
LEMMA Ordered ==
    ASSUME NEW size \in Nat \ {0}, NEW n \in Nat, NEW m \in Nat,
           NEW a \in 0..(size - 1), NEW b \in 0..(size - 1)
    PROVE  Number(n, a, size) >= Number(m, b, size) <=> n > m \/ (n = m /\ a >= b)
<1>1. n = m => (Number(n, a, size) >= Number(m, b, size) <=> a >= b)
  <2> DEFINE N == n * size
  <2>1. N \in Nat /\ Number(n, a, size) = N + a /\ (n = m => Number(m, b, size) = N + b)
    BY DEF Number
  <2> HIDE DEF N
  <2> QED
    BY <2>1
<1>2. /\ n < m => Number(n, a, size) < Number(m, b, size)
      /\ m < n => Number(m, b, size) < Number(n, a, size)
      /\ Number(n, a, size) \in Nat /\ Number(m, b, size) \in Nat
  BY MixedRadix
<1> QED
  BY <1>1, <1>2

\* The two numbers of a thread.
Across(t) == block.x * THREAD_BLOCK_SIZE + t.x
Down(t) == block.y * THREAD_BLOCK_SIZE + t.y

LEMMA ThreadNumbers ==
    ASSUME Domains
    PROVE  /\ \A t \in Threads : /\ Across(t) \in Nat /\ Down(t) \in Nat
                                 /\ i(t) = Across(t) * INTERNAL_BLOCK_SIZE
                                 /\ j(t) = Down(t) * INTERNAL_BLOCK_SIZE
                                 /\ i(t) \in Nat /\ j(t) \in Nat
                                 /\ Works(block) /\ block.x # block.y => Across(t) > Down(t)
           /\ \A t, u \in Threads : Across(t) = Across(u) /\ Down(t) = Down(u) => t = u
<1>1. /\ THREAD_BLOCK_SIZE \in Nat \ {0} /\ INTERNAL_BLOCK_SIZE \in Nat \ {0}
      /\ block.x \in Nat /\ block.y \in Nat
  BY CallTyped DEF Domains
<1>2. ASSUME NEW t \in Threads
      PROVE  /\ t.x \in 0..(THREAD_BLOCK_SIZE - 1) /\ t.y \in 0..(THREAD_BLOCK_SIZE - 1)
             /\ t = [x |-> t.x, y |-> t.y]
  BY DEF Threads, Ids
<1>3. ASSUME NEW t \in Threads
      PROVE  /\ Across(t) \in Nat /\ Down(t) \in Nat
             /\ Works(block) /\ block.x # block.y => Across(t) > Down(t)
  <2>1. block.x < block.y \/ block.x = block.y \/ block.y < block.x
    BY <1>1
  <2>2. /\ Across(t) = Number(block.x, t.x, THREAD_BLOCK_SIZE)
        /\ Down(t) = Number(block.y, t.y, THREAD_BLOCK_SIZE)
    BY DEF Across, Down, Number
  <2>3. /\ Number(block.x, t.x, THREAD_BLOCK_SIZE) \in Nat
        /\ Number(block.y, t.y, THREAD_BLOCK_SIZE) \in Nat
        /\ block.y < block.x => Number(block.y, t.y, THREAD_BLOCK_SIZE)
                                < Number(block.x, t.x, THREAD_BLOCK_SIZE)
    BY <1>1, <1>2, MixedRadix
  <2> QED
    BY <1>1, <2>1, <2>2, <2>3 DEF Works
<1>4. ASSUME NEW t \in Threads
      PROVE  /\ i(t) = Across(t) * INTERNAL_BLOCK_SIZE /\ j(t) = Down(t) * INTERNAL_BLOCK_SIZE
             /\ i(t) \in Nat /\ j(t) \in Nat
  <2>1. i(t) = Across(t) * INTERNAL_BLOCK_SIZE /\ j(t) = Down(t) * INTERNAL_BLOCK_SIZE
    BY DEF i, j, Across, Down
  <2> QED
    BY <1>1, <1>3, <2>1
<1>5. ASSUME NEW t \in Threads, NEW u \in Threads, Across(t) = Across(u), Down(t) = Down(u)
      PROVE  t = u
  <2>1. /\ Number(block.x, t.x, THREAD_BLOCK_SIZE) = Number(block.x, u.x, THREAD_BLOCK_SIZE)
        /\ Number(block.y, t.y, THREAD_BLOCK_SIZE) = Number(block.y, u.y, THREAD_BLOCK_SIZE)
    BY <1>5 DEF Across, Down, Number
  <2>2. t.x = u.x /\ t.y = u.y
    BY <1>1, <1>2, <2>1, MixedRadix
  <2> QED
    BY <1>2, <2>2
<1> QED
  BY <1>3, <1>4, <1>5

\* No pair of points is counted by two threads or in two passes.
LEMMA PairedOnce ==
    ASSUME Domains, NEW t \in Threads, NEW u \in Threads,
           NEW x \in Internal, NEW y \in Internal, NEW v \in Internal, NEW w \in Internal,
           NEW r, NEW c, Pairs(t, x, y, r, c), Pairs(u, v, w, r, c)
    PROVE  t = u /\ x = v /\ y = w
<1> DEFINE size == INTERNAL_BLOCK_SIZE
<1>1. size \in Nat \ {0} /\ {x, y, v, w} \subseteq 0..(size - 1)
  BY CallTyped DEF Internal
<1> DEFINE a == Across(t)
           b == Down(t)
           d == Across(u)
           e == Down(u)
<1>2. {a, b, d, e} \subseteq Nat
  BY ThreadNumbers
<1>3. a = d /\ b = e => t = u
  BY ThreadNumbers
<1>4. Number(a, x, size) >= Number(b, y, size) /\ Number(d, v, size) >= Number(e, w, size)
  BY ThreadNumbers DEF Pairs, Counts, Number
<1>5. \/ Number(a, y, size) = Number(d, w, size) /\ Number(b, x, size) = Number(e, v, size)
      \/ Number(a, y, size) = Number(e, v, size) /\ Number(b, x, size) = Number(d, w, size)
  BY ThreadNumbers DEF Pairs, Number
<1> HIDE DEF a, b, d, e, size
<1>6. a >= b /\ (a = b => x >= y)
  BY <1>1, <1>2, <1>4, Ordered
<1>7. d >= e /\ (d = e => v >= w)
  BY <1>1, <1>2, <1>4, Ordered
<1>8. \/ a = d /\ y = w /\ b = e /\ x = v
      \/ a = e /\ y = v /\ b = d /\ x = w
  <2>1. /\ Number(a, y, size) = Number(d, w, size) => a = d /\ y = w
        /\ Number(b, x, size) = Number(e, v, size) => b = e /\ x = v
    BY <1>1, <1>2, MixedRadix
  <2>2. /\ Number(a, y, size) = Number(e, v, size) => a = e /\ y = v
        /\ Number(b, x, size) = Number(d, w, size) => b = d /\ x = w
    BY <1>1, <1>2, MixedRadix
  <2> QED
    BY <1>5, <2>1, <2>2
<1>9. a = d /\ b = e /\ x = v /\ y = w
  <2>1. {x, y, v, w} \subseteq Nat
    BY <1>1
  <2> QED
    BY <1>2, <1>6, <1>7, <1>8, <2>1
<1> QED
  BY <1>3, <1>9

LEMMA Digits ==
    ASSUME NEW size \in Nat \ {0}, NEW n \in Nat
    PROVE  /\ n \div size \in Nat /\ n % size \in 0..(size - 1)
           /\ n = Number(n \div size, n % size, size)
  BY DEF Number

LEMMA Quotient ==
    ASSUME NEW size \in Nat \ {0}, NEW n \in Nat, NEW a \in 0..(size - 1)
    PROVE  Number(n, a, size) \div size = n
<1> DEFINE k == Number(n, a, size)
<1>1. k \in Nat
  BY MixedRadix
<1>2. k \div size \in Nat /\ k % size \in 0..(size - 1) /\ k = Number(k \div size, k % size, size)
  BY <1>1, Digits
<1>3. \A m \in Nat, b \in 0..(size - 1) : Number(n, a, size) = Number(m, b, size) => n = m
  BY MixedRadix
<1> HIDE DEF k
<1> QED
  BY <1>2, <1>3 DEF k

LEMMA ThreeDigits ==
    ASSUME NEW wide \in Nat \ {0}, NEW size \in Nat \ {0},
           NEW b \in Nat, NEW x \in 0..(wide - 1), NEW y \in 0..(size - 1)
    PROVE  /\ wide * size \in Nat \ {0}
           /\ Number(x, y, size) \in 0..(wide * size - 1)
           /\ Number(Number(b, x, wide), y, size) = Number(b, Number(x, y, size), wide * size)
<1>1. wide * size \in Nat \ {0}
  OBVIOUS
<1>2. Number(x, y, size) < Number(wide, 0, size) /\ Number(x, y, size) \in Nat
  <2>1. x < wide /\ x \in Nat /\ 0 \in 0..(size - 1)
    OBVIOUS
  <2> QED
    BY <2>1, MixedRadix
<1>3. Number(wide, 0, size) = wide * size
  BY <1>1 DEF Number
<1>4. (b * wide + x) * size + y = b * (wide * size) + (x * size + y)
  OBVIOUS
<1> QED
  BY <1>1, <1>2, <1>3, <1>4 DEF Number

\* The points of a block by the threads and passes that have them.
LEMMA InBlock ==
    ASSUME Domains, NEW b \in 0..(config.blocks - 1), NEW r
    PROVE  r \in BlockOf(b) <=>
             \E x \in Ids, y \in Internal :
                r = Number(Number(b, x, THREAD_BLOCK_SIZE), y, INTERNAL_BLOCK_SIZE)
<1> DEFINE T == THREAD_BLOCK_SIZE
           I == INTERNAL_BLOCK_SIZE
           S == T * I
           B == config.blocks
<1>1. T \in Nat \ {0} /\ I \in Nat \ {0} /\ B \in Nat \ {0} /\ b \in Nat /\ b < B
  BY CallTyped, RangesKnown DEF Domains
<1>2. Ids = 0..(T - 1) /\ Internal = 0..(I - 1) /\ Rows = 0..(B * T * I - 1)
      /\ BlockOf(b) = {n \in Rows : n \div S = b}
  BY DEF Ids, Internal, Rows, BlockOf
<1> HIDE DEF T, I, B
<1>3. S \in Nat \ {0} /\ B * T * I = B * S /\ B * S \in Nat
  BY <1>1
<1>4. ASSUME NEW x \in 0..(T - 1), NEW y \in 0..(I - 1)
      PROVE  Number(Number(b, x, T), y, I) \in BlockOf(b)
  <2> DEFINE s == Number(x, y, I)
             n == Number(Number(b, x, T), y, I)
  <2>1. s \in 0..(S - 1) /\ n = Number(b, s, S)
    BY <1>1, ThreeDigits
  <2> HIDE DEF s, n, S
  <2>2. n \in Nat /\ n \div S = b
    BY <1>1, <1>3, <2>1, MixedRadix, Quotient
  <2>3. Number(b, s, S) < Number(B, 0, S)
    <3>1. 0 \in 0..(S - 1)
      BY <1>3
    <3> QED
      BY <1>1, <1>3, <2>1, <3>1, MixedRadix
  <2>4. Number(B, 0, S) = B * S
    BY <1>3 DEF Number
  <2>5. n < B * T * I
    BY <1>3, <2>1, <2>3, <2>4
  <2>6. n \in 0..(B * T * I - 1)
    <3> DEFINE all == B * T * I
    <3>1. all \in Nat
      BY <1>3
    <3> HIDE DEF all
    <3> QED
      BY <2>2, <2>5, <3>1 DEF all
  <2> QED
    BY <1>2, <2>2, <2>6 DEF n
<1>5. ASSUME r \in BlockOf(b)
      PROVE  \E x \in 0..(T - 1), y \in 0..(I - 1) : r = Number(Number(b, x, T), y, I)
  <2> DEFINE s == r % S
             x == s \div I
             y == s % I
  <2>1. r \in Nat /\ r \div S = b
    BY <1>2, <1>5
  <2>2. s \in 0..(S - 1) /\ r = Number(b, s, S)
    <3> HIDE DEF S
    <3> QED
      BY <1>3, <2>1, Digits
  <2>3. s \in Nat /\ s < T * I
    <3> HIDE DEF s
    <3> QED
      BY <1>3, <2>2
  <2>4. x \in Nat /\ y \in 0..(I - 1) /\ s = Number(x, y, I)
    <3> HIDE DEF s
    <3> QED
      BY <1>1, <2>3, Digits
  <2> HIDE DEF s, x, y
  <2>5. x < T
    <3>1. 0 \in 0..(I - 1) /\ Number(T, 0, I) = T * I
      BY <1>1 DEF Number
    <3>2. Number(x, y, I) >= Number(T, 0, I) <=> x > T \/ (x = T /\ y >= 0)
      BY <1>1, <2>4, <3>1, Ordered
    <3>3. y >= 0
      BY <2>4
    <3> DEFINE all == T * I
    <3>4. all \in Nat /\ s < all /\ Number(T, 0, I) = all
      BY <1>3, <2>3, <3>1
    <3> HIDE DEF all
    <3> QED
      BY <1>1, <2>3, <2>4, <3>2, <3>3, <3>4
  <2>6. x \in 0..(T - 1)
    BY <1>1, <2>4, <2>5
  <2>7. Number(Number(b, x, T), y, I) = Number(b, s, S)
    BY <1>1, <2>4, <2>6, ThreeDigits
  <2> QED
    BY <2>2, <2>4, <2>6, <2>7
<1> QED
  BY <1>2, <1>4, <1>5 DEF T, I

\* A block pairs the points it should, each pair in some thread and pass.
LEMMA AllPaired ==
    ASSUME Domains, block \in [x : 0..(config.blocks - 1), y : 0..(config.blocks - 1)],
           NEW r, NEW c
    PROVE  /\ c \in Partners(r) <=>
                \E t \in Threads, x \in Internal, y \in Internal : Pairs(t, x, y, r, c)
           /\ c \in Partners(r) => r \in Rows /\ c \in Rows
<1> DEFINE T == THREAD_BLOCK_SIZE
           I == INTERNAL_BLOCK_SIZE
<1>1. I \in Nat \ {0} /\ Internal = 0..(I - 1)
  BY CallTyped DEF Internal
<1>2. \A t \in Threads : /\ t.x \in Ids /\ t.y \in Ids
                         /\ Across(t) \in Nat /\ Down(t) \in Nat
                         /\ Across(t) = Number(block.x, t.x, T) /\ Down(t) = Number(block.y, t.y, T)
                         /\ Works(block) /\ block.x # block.y => Across(t) > Down(t)
  BY ThreadNumbers, SomeThread DEF Across, Down, Number
<1>3. \A t \in Threads : \A k : i(t) + k = Number(Across(t), k, I) /\ j(t) + k = Number(Down(t), k, I)
  BY ThreadNumbers DEF Number
<1>4. \A b \in 0..(config.blocks - 1) : \A n :
         n \in BlockOf(b) <=> \E x \in Ids, y \in Internal : n = Number(Number(b, x, T), y, I)
  BY InBlock
<1>5. block.x \in 0..(config.blocks - 1) /\ block.y \in 0..(config.blocks - 1)
  OBVIOUS
<1> HIDE DEF T, I
<1>6. ASSUME NEW t \in Threads, NEW x \in Internal, NEW y \in Internal, Pairs(t, x, y, r, c)
      PROVE  c \in Partners(r)
  <2>1. i(t) + y \in BlockOf(block.x) /\ j(t) + x \in BlockOf(block.y)
    BY <1>2, <1>3, <1>4, <1>5
  <2> QED
    BY <1>6, <2>1 DEF Partners, Pairs
<1>7. ASSUME Works(block), NEW n \in BlockOf(block.x), NEW m \in BlockOf(block.y)
      PROVE  \E t \in Threads, x \in Internal, y \in Internal : Pairs(t, x, y, n, m)
  <2>1. PICK tx \in Ids, y \in Internal : n = Number(Number(block.x, tx, T), y, I)
    BY <1>4, <1>5
  <2>2. PICK ty \in Ids, x \in Internal : m = Number(Number(block.y, ty, T), x, I)
    BY <1>4, <1>5
  <2> DEFINE t == [x |-> tx, y |-> ty]
             u == [x |-> ty, y |-> tx]
  <2>3. t \in Threads /\ u \in Threads /\ t.x = tx /\ t.y = ty /\ u.x = ty /\ u.y = tx
    BY DEF Threads
  <2> HIDE DEF t, u
  <2>4. n = i(t) + y /\ m = j(t) + x
    BY <1>2, <1>3, <2>1, <2>2, <2>3
  <2>5. CASE Counts(t, x, y)
    BY <1>7, <2>3, <2>4, <2>5 DEF Pairs
  <2>6. CASE ~Counts(t, x, y)
    <3>1. ~(Number(Across(t), x, I) >= Number(Down(t), y, I))
      BY <1>3, <2>3, <2>6 DEF Counts
    <3>2. ~(Across(t) > Down(t)) /\ ~(Across(t) = Down(t) /\ x >= y)
      BY <1>1, <1>2, <2>3, <3>1, Ordered
    <3>3. block.x = block.y
      BY <1>2, <1>7, <2>3, <3>2
    <3>4. Across(u) = Down(t) /\ Down(u) = Across(t)
      BY <1>2, <2>3, <3>3
    <3>5. Across(u) > Down(u) \/ (Across(u) = Down(u) /\ y >= x)
      BY <1>1, <1>2, <2>3, <3>2, <3>4
    <3>6. Number(Across(u), y, I) >= Number(Down(u), x, I)
      BY <1>1, <1>2, <2>3, <3>5, Ordered
    <3>7. Counts(u, y, x)
      BY <1>3, <2>3, <3>6 DEF Counts
    <3>8. n = j(u) + y /\ m = i(u) + x
      BY <1>3, <2>3, <2>4, <3>4
    <3> QED
      BY <1>7, <2>3, <3>7, <3>8 DEF Pairs
  <2> QED
    BY <2>5, <2>6
<1>8. ASSUME c \in Partners(r)
      PROVE  \E t \in Threads, x \in Internal, y \in Internal : Pairs(t, x, y, r, c)
  <2>1. Works(block)
    BY <1>8 DEF Partners
  <2>2. \/ r \in BlockOf(block.x) /\ c \in BlockOf(block.y)
        \/ c \in BlockOf(block.x) /\ r \in BlockOf(block.y)
    BY <1>8 DEF Partners
  <2>3. \A t, x, y : Pairs(t, x, y, c, r) => Pairs(t, x, y, r, c)
    BY DEF Pairs
  <2> QED
    BY <1>7, <2>1, <2>2, <2>3
<1>9. c \in Partners(r) => r \in Rows /\ c \in Rows
  BY DEF Partners, BlockOf
<1> QED
  BY <1>6, <1>8, <1>9

----------------------------------------------------------------------------
(* The terms of an entry, device by device.                                 *)

SumName == IF config.kernel_type = "rbf" THEN "squared difference" ELSE "product"

Both(f, r, c) == {<<f, r>>, <<f, c>>}

LinearTerms(first, last, r, c) == {<<SumName, Both(f, r, c)>> : f \in first..(last - 1)}

FunctionTerm(r, c) == <<kernel.entry, SumName, [f \in 1..num_features |-> Both(f - 1, r, c)]>>

ConstantTerms(d, r, c) ==
    (IF d = 0 THEN {<<"QA_cost - q - q", {r, c}>>} ELSE {})
    \cup (IF d = 0 /\ r = c THEN {<<"cost">>} ELSE {})

DeviceTerms(d, r, c) ==
    (IF config.kernel_type = "linear"
     THEN LinearTerms(config.feature_ranges[d + 1], config.feature_ranges[d + 2], r, c)
     ELSE {FunctionTerm(r, c)})
    \cup ConstantTerms(d, r, c)

UsedDevices == 0..(num_used_devices - 1)

\* All kernels mean the same by their kernel function.
LEMMA KernelTerms ==
  ASSUME config \in Configurations
  PROVE  /\ kernel.summand = SumName /\ kernel.constant_on = {0}
         /\ kernel.entry = CASE config.kernel_type = "linear" -> "sum"
                             [] config.kernel_type = "polynomial" -> "pow"
                             [] config.kernel_type = "rbf" -> "exp"
<1>1. config.backend \in Backends /\ config.kernel_type \in {"linear", "polynomial", "rbf"}
  BY BlockAssumption
<1> DEFINE Good(k, sum, entry) == k.summand = sum /\ k.constant_on = {0} /\ k.entry = entry
           AllGood(by) == /\ Good(by.linear, "product", "sum") /\ Good(by.polynomial, "product", "pow")
                          /\ Good(by.rbf, "squared difference", "exp")
<1>2. AllGood(Kernels.CUDA)
  BY DEF Kernels, Linear, Nonlinear, cuda_device_kernel_linear,
         cuda_device_kernel_polynomial, cuda_device_kernel_rbf
<1>3. AllGood(Kernels.HIP)
  BY DEF Kernels, Linear, Nonlinear, hip_device_kernel_linear,
         hip_device_kernel_polynomial, hip_device_kernel_rbf
<1>4. AllGood(Kernels.OpenCL)
  BY DEF Kernels, Linear, Nonlinear, opencl_device_kernel_linear,
         opencl_device_kernel_polynomial, opencl_device_kernel_rbf
<1>5. AllGood(Kernels.nd_range)
  BY DEF Kernels, Linear, Nonlinear, nd_range_device_kernel_linear,
         nd_range_device_kernel_polynomial, nd_range_device_kernel_rbf
<1>6. AllGood(Kernels.hierarchical)
  BY DEF Kernels, Linear, Nonlinear, hierarchical_device_kernel_linear,
         hierarchical_device_kernel_polynomial, hierarchical_device_kernel_rbf
<1> HIDE DEF Good
<1>7. AllGood(Kernels[config.backend])
  BY <1>1, <1>2, <1>3, <1>4, <1>5, <1>6 DEF Backends
<1>8. /\ config.kernel_type = "linear" => Good(kernel, "product", "sum")
      /\ config.kernel_type = "polynomial" => Good(kernel, "product", "pow")
      /\ config.kernel_type = "rbf" => Good(kernel, "squared difference", "exp")
  BY <1>7 DEF kernel
<1> QED
  BY <1>1, <1>8 DEF SumName, Good

\* Every feature belongs to one device.
LEMMA FeatureOwned ==
  ASSUME config \in Configurations, NEW f \in 0..(num_features - 1)
  PROVE  \E d \in UsedDevices : f \in config.feature_ranges[d + 1]..(config.feature_ranges[d + 2] - 1)
<1> DEFINE n == num_used_devices
           ranges == config.feature_ranges
           Later == {d \in Nat : d <= n /\ f < ranges[d + 1]}
<1>1. n \in Nat \ {0} /\ ranges[1] = 0 /\ num_features = ranges[n + 1] /\ num_features \in Nat
  BY RangesKnown DEF num_features
<1>2. \A d \in 1..(n + 1) : ranges[d] \in Nat
  BY RangesKnown
<1>3. f \in Nat /\ f < num_features
  BY <1>1
<1>4. n \in Later
  BY <1>1, <1>3
<1> HIDE DEF n, ranges
<1>5. PICK e \in Later : \A d \in Later : ~(<<d, e>> \in OpToRel(<, Nat))
  <2>1. Later \subseteq Nat /\ Later # {}
    BY <1>4
  <2> HIDE DEF Later
  <2> QED
    BY <2>1, NatLessThanWellFounded, WFMin
<1>6. e \in Nat /\ e <= n /\ f < ranges[e + 1]
  OBVIOUS
<1>7. e # 0
  BY <1>1, <1>3, <1>6
<1>8. e - 1 \in Nat /\ <<e - 1, e>> \in OpToRel(<, Nat)
  <2>1. \A a, b \in Nat : a < b => <<a, b>> \in OpToRel(<, Nat)
    BY Zenon DEF OpToRel
  <2>2. e - 1 \in Nat /\ e - 1 < e
    BY <1>6, <1>7
  <2> QED
    BY <1>6, <2>1, <2>2, Zenon
<1>9. ~(f < ranges[(e - 1) + 1])
  <2>1. e - 1 \notin Later
    <3> HIDE DEF Later
    <3> QED
      BY <1>5, <1>8, Zenon
  <2>2. e - 1 \in Nat /\ e - 1 <= n
    <3>1. e \in Nat /\ e <= n /\ n \in Nat /\ e # 0
      BY <1>1, <1>6, <1>7
    <3> QED
      BY <3>1
  <2> QED
    BY <2>1, <2>2
<1>10. e - 1 \in 0..(n - 1) /\ (e - 1) + 1 \in 1..(n + 1) /\ (e - 1) + 2 = e + 1 /\ e + 1 \in 1..(n + 1)
  BY <1>1, <1>6, <1>7
<1>11. f \in ranges[(e - 1) + 1]..(ranges[(e - 1) + 2] - 1)
  BY <1>2, <1>3, <1>6, <1>9, <1>10
<1> QED
  BY <1>10, <1>11 DEF UsedDevices, n, ranges

\* ... and to no second one.
LEMMA FeatureOwnedOnce ==
  ASSUME config \in Configurations, NEW d \in UsedDevices, NEW e \in UsedDevices,
         NEW f \in config.feature_ranges[d + 1]..(config.feature_ranges[d + 2] - 1),
         f \in config.feature_ranges[e + 1]..(config.feature_ranges[e + 2] - 1)
  PROVE  d = e /\ f \in 0..(num_features - 1)
<1> DEFINE n == num_used_devices
           ranges == config.feature_ranges
<1>1. n \in Nat \ {0} /\ num_features = ranges[n + 1] /\ ranges[1] = 0
  BY RangesKnown DEF num_features
<1>2. \A k \in 1..(n + 1) : ranges[k] \in Nat
  BY RangesKnown
<1>3. \A k, l \in 1..(n + 1) : k < l => ranges[k] < ranges[l]
  BY RangesKnown
<1>4. d \in 0..(n - 1) /\ e \in 0..(n - 1)
  BY DEF UsedDevices
<1>5. f \in ranges[d + 1]..(ranges[d + 2] - 1) /\ f \in ranges[e + 1]..(ranges[e + 2] - 1)
  OBVIOUS
<1> HIDE DEF n, ranges
<1>6. \A k \in 0..(n - 1) : k + 1 \in 1..(n + 1) /\ k + 2 \in 1..(n + 1)
  BY <1>1
<1>7. f \in Int /\ ranges[d + 1] <= f /\ f < ranges[d + 2] /\ ranges[e + 1] <= f /\ f < ranges[e + 2]
  BY <1>2, <1>4, <1>5, <1>6
<1>8. \A k, l \in 1..(n + 1) : k <= l => ranges[k] <= ranges[l]
  BY <1>1, <1>2, <1>3
<1>9. ~(d < e) /\ ~(e < d)
  <2>1. \A k, l \in 0..(n - 1) : k < l => k + 2 <= l + 1
    BY <1>1
  <2>2. \A k, l \in 0..(n - 1) : k < l => ranges[k + 2] <= ranges[l + 1]
    BY <1>6, <1>8, <2>1
  <2> QED
    BY <1>2, <1>4, <1>6, <1>7, <2>2
<1>10. 1 <= d + 1 /\ d + 2 <= n + 1 /\ 1 \in 1..(n + 1) /\ n + 1 \in 1..(n + 1)
  BY <1>1, <1>4
<1>11. 0 <= f /\ f < ranges[n + 1]
  <2>1. ranges[1] <= ranges[d + 1] /\ ranges[d + 2] <= ranges[n + 1]
    BY <1>4, <1>6, <1>8, <1>10
  <2> QED
    BY <1>1, <1>2, <1>4, <1>6, <1>7, <1>10, <2>1
<1> QED
  BY <1>1, <1>2, <1>4, <1>7, <1>9, <1>10, <1>11

LEMMA LinearAndConstant ==
  ASSUME NEW r, NEW c
  PROVE  /\ \A f : /\ <<SumName, Both(f, r, c)>> # <<"QA_cost - q - q", {r, c}>>
                   /\ <<SumName, Both(f, r, c)>> # <<"cost">>
         /\ \A f, g : <<SumName, Both(g, r, c)>> = <<SumName, Both(f, r, c)>> => f = g
<1>1. SumName # "QA_cost - q - q"
  BY DEF SumName
<1>2. \A f : <<SumName, Both(f, r, c)>> # <<"QA_cost - q - q", {r, c}>>
  BY <1>1
<1>3. ASSUME NEW f PROVE <<SumName, Both(f, r, c)>> # <<"cost">>
  <2>1. Len(<<SumName, Both(f, r, c)>>) = 2 /\ Len(<<"cost">>) = 1
    OBVIOUS
  <2>2. 2 # 1
    OBVIOUS
  <2> QED
    BY <2>1, <2>2, Zenon
<1>4. ASSUME NEW f, NEW g, <<SumName, Both(g, r, c)>> = <<SumName, Both(f, r, c)>> PROVE f = g
  <2>1. Both(g, r, c) = Both(f, r, c)
    BY <1>4
  <2>2. <<f, r>> \in Both(g, r, c)
    BY <2>1 DEF Both
  <2> QED
    BY <2>2 DEF Both
<1> QED
  BY <1>2, <1>3, <1>4

\* Two devices have no term in common.
LEMMA TermsApart ==
  ASSUME config \in Configurations, NEW d \in UsedDevices, NEW e \in UsedDevices, NEW r, NEW c,
         NEW term, term \in DeviceTerms(d, r, c), term \in DeviceTerms(e, r, c)
  PROVE  d = e
<1>1. num_used_devices \in Nat \ {0} /\ (config.kernel_type # "linear" => num_used_devices = 1)
  BY RangesKnown
<1>2. CASE config.kernel_type # "linear"
  BY <1>1, <1>2 DEF UsedDevices
<1>3. CASE config.kernel_type = "linear"
  <2> DEFINE Own(k) == config.feature_ranges[k + 1]..(config.feature_ranges[k + 2] - 1)
  <2>1. ASSUME NEW k \in UsedDevices, term \in DeviceTerms(k, r, c)
        PROVE  \/ \E f \in Own(k) : term = <<SumName, Both(f, r, c)>>
               \/ k = 0 /\ (term = <<"QA_cost - q - q", {r, c}>> \/ term = <<"cost">>)
    BY <1>3, <2>1 DEF DeviceTerms, LinearTerms, ConstantTerms
  <2>2. \A k, l \in UsedDevices : \A f : f \in Own(k) /\ f \in Own(l) => k = l
    BY FeatureOwnedOnce
  <2> HIDE DEF Own
  <2>3. \/ \E f \in Own(d) : term = <<SumName, Both(f, r, c)>>
        \/ d = 0 /\ (term = <<"QA_cost - q - q", {r, c}>> \/ term = <<"cost">>)
    BY <2>1
  <2>4. \/ \E f \in Own(e) : term = <<SumName, Both(f, r, c)>>
        \/ e = 0 /\ (term = <<"QA_cost - q - q", {r, c}>> \/ term = <<"cost">>)
    BY <2>1
  <2>5. ASSUME NEW f \in Own(d), term = <<SumName, Both(f, r, c)>>,
               NEW g \in Own(e), term = <<SumName, Both(g, r, c)>>
        PROVE  d = e
    <3>1. <<SumName, Both(f, r, c)>> = <<SumName, Both(g, r, c)>>
      BY <2>5
    <3>2. f = g
      BY <3>1, LinearAndConstant, Zenon
    <3> QED
      BY <2>2, <2>5, <3>2
  <2>6. \A f : term = <<SumName, Both(f, r, c)>> =>
                 term # <<"QA_cost - q - q", {r, c}>> /\ term # <<"cost">>
    BY LinearAndConstant, Zenon
  <2> QED
    BY <2>3, <2>4, <2>5, <2>6, Zenon
<1> QED
  BY <1>2, <1>3

\* The devices together have the terms of an entry.
LEMMA TermsTogether ==
  ASSUME config \in Configurations, NEW r, NEW c, NEW term
  PROVE  term \in Entry(r, c) <=> \E d \in UsedDevices : term \in DeviceTerms(d, r, c)
<1>1. /\ num_used_devices \in Nat \ {0} /\ (config.kernel_type # "linear" => num_used_devices = 1)
      /\ num_features \in Nat /\ config.kernel_type \in {"linear", "polynomial", "rbf"}
  BY RangesKnown, BlockAssumption
<1>2. 0 \in UsedDevices /\ (config.kernel_type # "linear" => UsedDevices = {0})
  BY <1>1 DEF UsedDevices
<1>3. Entry(r, c) = (IF config.kernel_type = "linear"
                     THEN {<<SumName, Both(f, r, c)>> : f \in 0..(num_features - 1)}
                     ELSE {FunctionTerm(r, c)})
                    \cup ConstantTerms(0, r, c)
  <2> DEFINE summands == [f \in 1..num_features |-> {<<f - 1, r>>, <<f - 1, c>>}]
  <2>1. \A s : s \in Range(summands) <=> \E f \in 0..(num_features - 1) : s = Both(f, r, c)
    <3>1. ASSUME NEW f \in 0..(num_features - 1) PROVE Both(f, r, c) \in Range(summands)
      <4>1. f + 1 \in 1..num_features /\ (f + 1) - 1 = f
        BY <1>1
      <4>2. summands[f + 1] = Both(f, r, c)
        BY <4>1 DEF Both
      <4> QED
        BY <4>1, <4>2 DEF Range
    <3>2. ASSUME NEW s \in Range(summands) PROVE \E f \in 0..(num_features - 1) : s = Both(f, r, c)
      <4>1. PICK f \in 1..num_features : s = summands[f]
        BY DEF Range
      <4>2. f - 1 \in 0..(num_features - 1) /\ s = Both(f - 1, r, c)
        BY <1>1, <4>1 DEF Both
      <4> QED
        BY <4>2
    <3> QED
      BY <3>1, <3>2
  <2>2. summands = [f \in 1..num_features |-> Both(f - 1, r, c)]
    BY DEF Both
  <2> DEFINE sum == IF config.kernel_type = "rbf" THEN "squared difference" ELSE "product"
             own == CASE config.kernel_type = "linear" -> {<<sum, s>> : s \in Range(summands)}
                      [] config.kernel_type = "polynomial" -> {<<"pow", sum, summands>>}
                      [] config.kernel_type = "rbf" -> {<<"exp", sum, summands>>}
  <2>3. Entry(r, c) = own \cup {<<"QA_cost - q - q", {r, c}>>} \cup (IF r = c THEN {<<"cost">>} ELSE {})
    BY DEF Entry
  <2>4. own = IF config.kernel_type = "linear"
              THEN {<<SumName, Both(f, r, c)>> : f \in 0..(num_features - 1)}
              ELSE {FunctionTerm(r, c)}
    <3>1. CASE config.kernel_type = "linear"
      <4> HIDE DEF summands
      <4>1. own = {<<SumName, s>> : s \in Range(summands)}
        BY <3>1 DEF SumName
      <4> QED
        BY <2>1, <3>1, <4>1
    <3>2. CASE config.kernel_type # "linear"
      <4>1. FunctionTerm(r, c) = <<kernel.entry, SumName, summands>>
        BY <2>2, Zenon DEF FunctionTerm
      <4> HIDE DEF summands
      <4> QED
        BY <1>1, <3>2, <4>1, KernelTerms DEF SumName
    <3> QED
      BY <3>1, <3>2
  <2> HIDE DEF own, summands
  <2> QED
    BY <2>3, <2>4 DEF ConstantTerms
<1>4. CASE config.kernel_type # "linear"
  <2>1. DeviceTerms(0, r, c) = {FunctionTerm(r, c)} \cup ConstantTerms(0, r, c)
    BY <1>4 DEF DeviceTerms
  <2> QED
    BY <1>2, <1>3, <1>4, <2>1
<1>5. CASE config.kernel_type = "linear"
  <2> DEFINE Own(k) == config.feature_ranges[k + 1]..(config.feature_ranges[k + 2] - 1)
             F(f) == <<SumName, Both(f, r, c)>>
  <2>1. ASSUME NEW k
        PROVE  term \in DeviceTerms(k, r, c)
                 <=> (\E f \in Own(k) : term = F(f)) \/ term \in ConstantTerms(k, r, c)
    BY <1>5 DEF DeviceTerms, LinearTerms
  <2>2. term \in Entry(r, c)
          <=> (\E f \in 0..(num_features - 1) : term = F(f)) \/ term \in ConstantTerms(0, r, c)
    BY <1>3, <1>5
  <2>3. \A f \in 0..(num_features - 1) : \E k \in UsedDevices : f \in Own(k)
    BY FeatureOwned
  <2>4. \A k \in UsedDevices : \A f : f \in Own(k) => f \in 0..(num_features - 1)
    BY FeatureOwnedOnce
  <2>5. \A k \in UsedDevices : term \in ConstantTerms(k, r, c) => term \in ConstantTerms(0, r, c)
    BY DEF ConstantTerms
  <2> HIDE DEF Own, F
  <2> QED
    BY <1>2, <2>1, <2>2, <2>3, <2>4, <2>5
<1> QED
  BY <1>4, <1>5

LEMMA TermsSymmetric ==
  ASSUME NEW d, NEW r, NEW c
  PROVE  DeviceTerms(d, r, c) = DeviceTerms(d, c, r)
<1>1. \A f : Both(f, r, c) = Both(f, c, r)
  BY DEF Both
<1>2. LinearTerms(config.feature_ranges[d + 1], config.feature_ranges[d + 2], r, c)
      = LinearTerms(config.feature_ranges[d + 1], config.feature_ranges[d + 2], c, r)
  BY <1>1 DEF LinearTerms
<1>3. FunctionTerm(r, c) = FunctionTerm(c, r)
  <2>1. [f \in 1..num_features |-> Both(f - 1, r, c)] = [f \in 1..num_features |-> Both(f - 1, c, r)]
    BY <1>1
  <2> QED
    BY <2>1 DEF FunctionTerm
<1>4. ConstantTerms(d, r, c) = ConstantTerms(d, c, r)
  <2>1. {r, c} = {c, r}
    OBVIOUS
  <2> QED
    BY <2>1 DEF ConstantTerms
<1> QED
  BY <1>2, <1>3, <1>4 DEF DeviceTerms

----------------------------------------------------------------------------
(* What a pass of a thread adds to an entry of ret.                         *)

With(terms, c) == {[term |-> term, d |-> c] : term \in terms}

PassTerms(d, t, x, y, r) ==
    UNION {With(DeviceTerms(d, r, c), c) : c \in {p \in Rows : Pairs(t, x, y, r, p)}}

LEMMA BagFacts ==
    /\ \A s : SetToBag(s) (+) EmptyBag = SetToBag(s) /\ EmptyBag (+) SetToBag(s) = SetToBag(s)
    /\ EmptyBag = SetToBag({})
    /\ \A s, t : s \cap t = {} => SetToBag(s) (+) SetToBag(t) = SetToBag(s \cup t)
  BY DEF SetToBag, EmptyBag, (+)

LEMMA BelowAndOn ==
    ASSUME Domains, NEW t \in Threads, NEW x \in Internal, NEW y \in Internal
    PROVE  /\ i(t) + x > j(t) + y => i(t) + y # j(t) + x
           /\ i(t) + x = j(t) + y => i(t) + y = j(t) + x
           /\ i(t) + x \in Int /\ j(t) + y \in Int
<1> DEFINE I == INTERNAL_BLOCK_SIZE
           a == Across(t)
           b == Down(t)
<1>1. I \in Nat \ {0} /\ x \in 0..(I - 1) /\ y \in 0..(I - 1) /\ a \in Nat /\ b \in Nat
  BY CallTyped, ThreadNumbers DEF Internal
<1>2. /\ i(t) + x = Number(a, x, I) /\ j(t) + y = Number(b, y, I)
      /\ i(t) + y = Number(a, y, I) /\ j(t) + x = Number(b, x, I)
  BY ThreadNumbers DEF Number
<1> HIDE DEF I, a, b
<1>3. Number(a, x, I) \in Nat /\ Number(b, y, I) \in Nat
  BY <1>1, MixedRadix
<1>4. /\ Number(a, x, I) = Number(b, y, I) => a = b /\ x = y
      /\ Number(a, y, I) = Number(b, x, I) => a = b /\ x = y
  BY <1>1, MixedRadix
<1>5. Number(a, x, I) > Number(b, y, I) => Number(a, y, I) # Number(b, x, I)
  BY <1>3, <1>4
<1> QED
  BY <1>2, <1>3, <1>4, <1>5

\* The value of a thread for a pair of points is that of its device.
LEMMA TempIs ==
    ASSUME Domains, NEW row, NEW column, NEW entry,
           entry = Summands(feature_range, FirstFeature, row, column)
    PROVE  /\ row # column => Temp(entry, {row, column}) = DeviceTerms(id, row, column)
           /\ row = column => Temp(entry, {row, column}) \cup Cost = DeviceTerms(id, row, column)
<1> DEFINE n == feature_range
           first == FirstFeature
           terms == {<<SumName, Both(f, row, column)>> : f \in first..(first + n - 1)}
<1>1. n \in Nat \ {0} /\ first \in Nat /\ config \in Configurations /\ id \in Nat
  BY CallTyped DEF Domains
<1>2. Unordered(entry) = [f \in 1..n |-> Both(first + (f - 1), row, column)]
  <2>1. DOMAIN entry = 1..n
    BY DEF Summands
  <2>2. \A f \in 1..n : entry[f] = <<<<first + (f - 1), row>>, <<first + (f - 1), column>>>>
    BY DEF Summands
  <2> HIDE DEF n, first
  <2> QED
    BY <2>1, <2>2 DEF Unordered, Both
<1>3. CASE config.kernel_type = "linear"
  <2>1. kernel.entry = "sum" /\ kernel.summand = SumName /\ kernel.constant_on = {0}
    BY <1>1, <1>3, KernelTerms
  <2>2. {<<SumName, s>> : s \in Range(Unordered(entry))} = terms
    <3> DEFINE u == [f \in 1..n |-> Both(first + (f - 1), row, column)]
    <3>1. ASSUME NEW f \in first..(first + n - 1) PROVE Both(f, row, column) \in Range(u)
      <4> HIDE DEF n, first
      <4>1. f - first + 1 \in 1..n /\ first + ((f - first + 1) - 1) = f
        BY <1>1
      <4>2. u[f - first + 1] = Both(f, row, column)
        BY <4>1
      <4> QED
        BY <4>1, <4>2 DEF Range
    <3>2. ASSUME NEW s \in Range(u) PROVE \E f \in first..(first + n - 1) : s = Both(f, row, column)
      <4> HIDE DEF n, first
      <4>1. PICK f \in 1..n : s = u[f]
        BY DEF Range
      <4>2. first + (f - 1) \in first..(first + n - 1)
        BY <1>1
      <4> QED
        BY <4>1, <4>2
    <3> HIDE DEF u
    <3> QED
      BY <1>2, <3>1, <3>2 DEF u
  <2>3. Temp(entry, {row, column})
        = terms \cup (IF id = 0 THEN {<<"QA_cost - q - q", {row, column}>>} ELSE {})
    <3> HIDE DEF terms
    <3> QED
      BY <2>1, <2>2 DEF Temp
  <2>4. Cost = IF id = 0 THEN {<<"cost">>} ELSE {}
    BY <2>1 DEF Cost
  <2>5. DeviceTerms(id, row, column) = terms \cup ConstantTerms(id, row, column)
    <3>1. config.feature_ranges[id + 1] = first /\ config.feature_ranges[id + 2] = first + n
      <4>1. id + 1 \in 1..(num_used_devices + 1) /\ id + 2 \in 1..(num_used_devices + 1)
        BY <1>1, RangesKnown DEF Domains
      <4> QED
        BY <1>1, <4>1, RangesKnown DEF feature_range, FirstFeature
    <3>2. DeviceTerms(id, row, column)
          = LinearTerms(first, first + n, row, column) \cup ConstantTerms(id, row, column)
      <4> HIDE DEF n, first
      <4> QED
        BY <1>3, <3>1, Zenon DEF DeviceTerms
    <3>3. LinearTerms(first, first + n, row, column) = terms
      <4>1. first..((first + n) - 1) = first..(first + n - 1)
        <5> HIDE DEF n, first
        <5> QED
          BY <1>1
      <4> QED
        BY <4>1, Zenon DEF LinearTerms
    <3> HIDE DEF n, first, terms
    <3> QED
      BY <3>2, <3>3
  <2> HIDE DEF terms
  <2> QED
    BY <2>3, <2>4, <2>5 DEF ConstantTerms
<1>4. CASE config.kernel_type # "linear"
  <2>1. kernel.entry # "sum" /\ kernel.summand = SumName /\ kernel.constant_on = {0}
    <3>1. config.kernel_type \in {"linear", "polynomial", "rbf"}
      BY <1>1, BlockAssumption
    <3> QED
      BY <1>1, <1>4, <3>1, KernelTerms
  <2>2. id = 0 /\ first = 0 /\ n = num_features
    BY <1>1, <1>4, RangesKnown DEF Domains, FirstFeature, feature_range, num_features
  <2>3. Unordered(entry) = [f \in 1..num_features |-> Both(f - 1, row, column)]
    <3>1. \A f \in 1..n : 0 + (f - 1) = f - 1
      BY <1>1
    <3> HIDE DEF n, first
    <3> QED
      BY <1>2, <2>2, <3>1
  <2>4. Temp(entry, {row, column}) = {FunctionTerm(row, column)} \cup {<<"QA_cost - q - q", {row, column}>>}
    BY <2>1, <2>2, <2>3 DEF Temp, FunctionTerm
  <2>5. Cost = {<<"cost">>}
    BY <2>1, <2>2 DEF Cost
  <2>6. DeviceTerms(id, row, column) = {FunctionTerm(row, column)} \cup ConstantTerms(0, row, column)
    BY <1>4, <2>2 DEF DeviceTerms
  <2> QED
    BY <2>4, <2>5, <2>6 DEF ConstantTerms
<1> QED
  BY <1>3, <1>4

\* A pass adds the terms of the pair it has, to the entries of both points.
LEMMA AddedIs ==
    ASSUME Domains, block \in [x : 0..(config.blocks - 1), y : 0..(config.blocks - 1)], Works(block),
           NEW t \in Threads, NEW x \in Internal, NEW y \in Internal, NEW r,
           matr[t][x][y] = Summands(feature_range, FirstFeature, i(t) + y, j(t) + x)
    PROVE  Added(t, x, y, r) = SetToBag(PassTerms(id, t, x, y, r))
<1> DEFINE row == i(t) + y
           column == j(t) + x
           temp == Temp(matr[t][x][y], {row, column})
           mates == {p \in Rows : Pairs(t, x, y, r, p)}
           below == (IF r = row THEN Times(temp, column) ELSE EmptyBag)
                    (+) (IF r = column THEN Times(temp, row) ELSE EmptyBag)
           on == IF r = column THEN Times(temp \cup Cost, row) ELSE EmptyBag
<1>1. /\ row # column => temp = DeviceTerms(id, row, column)
      /\ row = column => temp \cup Cost = DeviceTerms(id, row, column)
  BY TempIs
<1>2. DeviceTerms(id, row, column) = DeviceTerms(id, column, row)
  BY TermsSymmetric
<1>3. \A terms, c : Times(terms, c) = SetToBag(With(terms, c))
  BY DEF Times, With
<1>4. mates = IF ~Counts(t, x, y) THEN {}
              ELSE {c \in {row, column} : (r = row /\ c = column) \/ (r = column /\ c = row)}
  <2>1. \A p, q : Pairs(t, x, y, p, q) => q \in Rows
    BY AllPaired
  <2>2. \A p : Pairs(t, x, y, r, p) <=>
                 Counts(t, x, y) /\ ((r = row /\ p = column) \/ (r = column /\ p = row))
    BY DEF Pairs
  <2> HIDE DEF row, column
  <2> QED
    BY <2>1, <2>2
<1>5. PassTerms(id, t, x, y, r) = UNION {With(DeviceTerms(id, r, c), c) : c \in mates}
  BY DEF PassTerms
<1>6. /\ i(t) + x > j(t) + y => row # column
      /\ i(t) + x = j(t) + y => row = column
      /\ i(t) + x \in Int /\ j(t) + y \in Int
  BY BelowAndOn
<1>7. Added(t, x, y, r) = CASE i(t) + x > j(t) + y -> below
                            [] i(t) + x = j(t) + y -> on
                            [] OTHER -> EmptyBag
  BY DEF Added
<1> HIDE DEF row, column, temp, mates, below, on
<1>8. CASE i(t) + x > j(t) + y
  <2>1. row # column /\ Counts(t, x, y) /\ temp = DeviceTerms(id, row, column)
    BY <1>1, <1>6, <1>8 DEF Counts
  <2>2. Added(t, x, y, r) = (IF r = row THEN Times(temp, column) ELSE EmptyBag)
                            (+) (IF r = column THEN Times(temp, row) ELSE EmptyBag)
    <3>1. Added(t, x, y, r) = below
      BY <1>6, <1>7, <1>8
    <3> QED
      BY <3>1 DEF below
  <2>3. CASE r = row
    <3>1. mates = {column}
      BY <1>4, <2>1, <2>3
    <3>2. PassTerms(id, t, x, y, r) = With(DeviceTerms(id, row, column), column)
      BY <1>5, <2>3, <3>1
    <3> QED
      BY <1>3, <2>1, <2>2, <2>3, <3>2, BagFacts
  <2>4. CASE r = column
    <3>1. mates = {row}
      BY <1>4, <2>1, <2>4
    <3>2. PassTerms(id, t, x, y, r) = With(DeviceTerms(id, row, column), row)
      BY <1>2, <1>5, <2>4, <3>1
    <3> QED
      BY <1>3, <2>1, <2>2, <2>4, <3>2, BagFacts
  <2>5. CASE r # row /\ r # column
    <3>1. mates = {}
      BY <1>4, <2>5
    <3>2. PassTerms(id, t, x, y, r) = {}
      BY <1>5, <3>1
    <3> QED
      BY <2>2, <2>5, <3>2, BagFacts
  <2> QED
    BY <2>3, <2>4, <2>5
<1>9. CASE i(t) + x = j(t) + y
  <2>1. row = column /\ Counts(t, x, y) /\ temp \cup Cost = DeviceTerms(id, row, column)
    BY <1>1, <1>6, <1>9 DEF Counts
  <2>2. Added(t, x, y, r) = IF r = column THEN Times(temp \cup Cost, row) ELSE EmptyBag
    BY <1>6, <1>7, <1>9 DEF on
  <2>3. CASE r = column
    <3>1. mates = {row}
      BY <1>4, <2>1, <2>3
    <3>2. PassTerms(id, t, x, y, r) = With(DeviceTerms(id, row, column), row)
      BY <1>5, <2>1, <2>3, <3>1
    <3> QED
      BY <1>3, <2>1, <2>2, <2>3, <3>2
  <2>4. CASE r # column
    <3>1. mates = {}
      BY <1>4, <2>1, <2>4
    <3>2. PassTerms(id, t, x, y, r) = {}
      BY <1>5, <3>1
    <3> QED
      BY <2>2, <2>4, <3>2, BagFacts
  <2> QED
    BY <2>3, <2>4
<1>10. CASE ~(i(t) + x > j(t) + y) /\ ~(i(t) + x = j(t) + y)
  <2>1. ~Counts(t, x, y)
    BY <1>6, <1>10 DEF Counts
  <2>2. PassTerms(id, t, x, y, r) = {}
    BY <1>4, <1>5, <2>1
  <2>3. Added(t, x, y, r) = EmptyBag
    BY <1>7, <1>10
  <2> QED
    BY <2>2, <2>3, BagFacts
<1> QED
  BY <1>8, <1>9, <1>10

----------------------------------------------------------------------------
(* The sum of all passes of a thread.                                       *)

PickOf(s) == CHOOSE a \in s : TRUE

\* The recursion of a sum of sets that starts with base.
IsFold(f, S, base, term) ==
    f = [s \in SUBSET S |-> IF s = {} THEN base ELSE f[s \ {PickOf(s)}] (+) SetToBag(term[PickOf(s)])]

\* What there was, and the terms of a set of summands.
AllOf(start, term, s) == start \cup UNION {term[a] : a \in s}

\* One summand more, in the order in which the sum takes them.
LEMMA FoldStep ==
    ASSUME NEW S, NEW start, NEW term, \A a, b \in S : a # b => term[a] \cap term[b] = {},
           \A a \in S : term[a] \cap start = {},
           NEW s \in SUBSET S, s # {}
    PROVE  /\ PickOf(s) \in s /\ s \ {PickOf(s)} \in SUBSET S
           /\ SetToBag(AllOf(start, term, s))
              = SetToBag(AllOf(start, term, s \ {PickOf(s)})) (+) SetToBag(term[PickOf(s)])
<1> DEFINE c == PickOf(s)
           U == AllOf(start, term, s \ {c})
<1>1. c \in s
  BY DEF PickOf
<1> HIDE DEF c
<1>2. U \cap term[c] = {}
  BY <1>1 DEF AllOf
<1>3. U \cup term[c] = AllOf(start, term, s)
  BY <1>1 DEF AllOf
<1> HIDE DEF U
<1>4. SetToBag(U) (+) SetToBag(term[c]) = SetToBag(AllOf(start, term, s))
  BY <1>2, <1>3, BagFacts
<1> QED
  BY <1>1, <1>4 DEF c, U

\* There is one, and it adds every set once.
LEMMA FoldIs ==
    ASSUME NEW S, IsFiniteSet(S), NEW start, NEW term,
           \A a, b \in S : a # b => term[a] \cap term[b] = {},
           \A a \in S : term[a] \cap start = {}
    PROVE  /\ \E f : IsFold(f, S, SetToBag(start), term)
           /\ \A f : IsFold(f, S, SetToBag(start), term) => f[S] = SetToBag(AllOf(start, term, S))
<1> DEFINE Bag(s) == SetToBag(AllOf(start, term, s))
           bags == [s \in SUBSET S |-> Bag(s)]
<1>1. Bag({}) = SetToBag(start)
  BY DEF AllOf
<1>2. \A s \in SUBSET S : s # {} =>
        /\ PickOf(s) \in s /\ s \ {PickOf(s)} \in SUBSET S
        /\ Bag(s) = Bag(s \ {PickOf(s)}) (+) SetToBag(term[PickOf(s)])
  BY FoldStep
<1> HIDE DEF Bag
<1>3. IsFold(bags, S, SetToBag(start), term)
  BY <1>1, <1>2 DEF IsFold
<1>4. ASSUME NEW f, IsFold(f, S, SetToBag(start), term) PROVE f[S] = Bag(S)
  <2> DEFINE Bad == {u \in SUBSET S : f[u] # Bag(u)}
  <2>1. \A s \in SUBSET S : f[s] = IF s = {} THEN SetToBag(start)
                                   ELSE f[s \ {PickOf(s)}] (+) SetToBag(term[PickOf(s)])
    BY <1>4 DEF IsFold
  <2>2. ASSUME Bad # {} PROVE FALSE
    <3>1. IsWellFoundedOn(StrictSubsetOrdering(S), SUBSET S)
      BY FS_StrictSubsetOrderingWellFounded, FS_FiniteSubsetsOfFinite
    <3>2. Bad \subseteq SUBSET S
      OBVIOUS
    <3> HIDE DEF Bad
    <3>3. PICK u \in Bad : \A v \in Bad : ~(<<v, u>> \in StrictSubsetOrdering(S))
      BY <2>2, <3>1, <3>2, WFMin
    <3>4. u \in SUBSET S /\ f[u] # Bag(u)
      BY <3>3 DEF Bad
    <3>5. u # {}
      BY <1>1, <2>1, <3>4
    <3> DEFINE v == u \ {PickOf(u)}
    <3>6. PickOf(u) \in u /\ v \in SUBSET S /\ v \subseteq u /\ v # u
      BY <1>2, <3>4, <3>5
    <3>7. f[u] = f[v] (+) SetToBag(term[PickOf(u)])
      BY <2>1, <3>4, <3>5
    <3>8. f[v] # Bag(v)
      BY <1>2, <3>4, <3>5, <3>7
    <3>9. <<v, u>> \in StrictSubsetOrdering(S)
      BY <3>4, <3>6 DEF StrictSubsetOrdering
    <3> QED
      BY <3>3, <3>6, <3>8, <3>9 DEF Bad
  <2> QED
    BY <2>2 DEF Bad
<1> QED
  BY <1>3, <1>4 DEF Bag

\* What a thread adds to an entry, on the device d.
ThreadTerms(d, t, r) == UNION {PassTerms(d, t, xy[1], xy[2], r) : xy \in Loops}

LEMMA WithApart ==
    ASSUME NEW s, NEW u, NEW c, NEW e, c # e \/ s \cap u = {}
    PROVE  With(s, c) \cap With(u, e) = {}
<1> SUFFICES ASSUME NEW a \in With(s, c), a \in With(u, e) PROVE FALSE
  OBVIOUS
<1>1. PICK v \in s : a = [term |-> v, d |-> c]
  BY DEF With
<1>2. PICK w \in u : a = [term |-> w, d |-> e]
  BY DEF With
<1>3. a.term = v /\ a.d = c /\ a.term = w /\ a.d = e
  BY <1>1, <1>2
<1> QED
  BY <1>3

\* Different passes, threads or devices add different terms.
LEMMA PassesApart ==
    ASSUME Domains, NEW d \in UsedDevices, NEW e \in UsedDevices,
           NEW t \in Threads, NEW u \in Threads, NEW p \in Loops, NEW q \in Loops, NEW r,
           d # e \/ t # u \/ p # q
    PROVE  PassTerms(d, t, p[1], p[2], r) \cap PassTerms(e, u, q[1], q[2], r) = {}
<1> SUFFICES ASSUME NEW c \in Rows, Pairs(t, p[1], p[2], r, c), NEW b \in Rows, Pairs(u, q[1], q[2], r, b)
             PROVE  With(DeviceTerms(d, r, c), c) \cap With(DeviceTerms(e, r, b), b) = {}
  BY DEF PassTerms
<1>1. p[1] \in Internal /\ p[2] \in Internal /\ q[1] \in Internal /\ q[2] \in Internal
      /\ p = <<p[1], p[2]>> /\ q = <<q[1], q[2]>>
  BY DEF Loops
<1>2. CASE c # b
  BY <1>2, WithApart
<1>3. CASE c = b
  <2>1. t = u /\ p = q
    <3>1. Pairs(u, q[1], q[2], r, c)
      BY <1>3
    <3>2. t = u /\ p[1] = q[1] /\ p[2] = q[2]
      BY <1>1, <3>1, PairedOnce
    <3> QED
      BY <1>1, <3>2, Zenon
  <2>2. DeviceTerms(d, r, c) \cap DeviceTerms(e, r, b) = {}
    <3>1. \A term : term \in DeviceTerms(d, r, c) /\ term \in DeviceTerms(e, r, c) => d = e
      BY TermsApart DEF Domains
    <3> QED
      BY <1>3, <2>1, <3>1
  <2> QED
    BY <2>2, WithApart
<1> QED
  BY <1>2, <1>3

\* So do all passes of a thread together.
LEMMA ThreadsApart ==
    ASSUME Domains, NEW d \in UsedDevices, NEW e \in UsedDevices,
           NEW t \in Threads, NEW u \in Threads, NEW r, d # e \/ t # u
    PROVE  ThreadTerms(d, t, r) \cap ThreadTerms(e, u, r) = {}
<1>1. ASSUME NEW p \in Loops, NEW q \in Loops
      PROVE  PassTerms(d, t, p[1], p[2], r) \cap PassTerms(e, u, q[1], q[2], r) = {}
  BY PassesApart
<1> QED
  BY <1>1 DEF ThreadTerms

\* Reduce adds the terms of the thread to an entry that has none of them.
LEMMA ReduceAdds ==
    ASSUME Domains, block \in [x : 0..(config.blocks - 1), y : 0..(config.blocks - 1)], Works(block),
           NEW t \in Threads, NEW r \in Rows,
           \A x, y \in Internal : matr[t][x][y] = Summands(feature_range, FirstFeature, i(t) + y, j(t) + x),
           NEW start, ret[r] = SetToBag(start), start \cap ThreadTerms(id, t, r) = {}
    PROVE  FoldSet(LAMBDA xy, sum : sum (+) Added(t, xy[1], xy[2], r), ret[r], Internal \X Internal)
           = SetToBag(start \cup ThreadTerms(id, t, r))
<1> DEFINE old == ret[r]
           term == [xy \in Loops |-> PassTerms(id, t, xy[1], xy[2], r)]
           Equation(f) == f = [s \in SUBSET Loops |->
                                  IF s = {} THEN old
                                  ELSE f[s \ {PickOf(s)}] (+) Added(t, PickOf(s)[1], PickOf(s)[2], r)]
           fold == CHOOSE f : Equation(f)
<1>1. FoldSet(LAMBDA xy, sum : sum (+) Added(t, xy[1], xy[2], r), old, Loops) = fold[Loops]
  BY Zenon DEF FoldSet, MapThenFoldSet, PickOf
<1>2. IsFiniteSet(Loops)
  <2>1. INTERNAL_BLOCK_SIZE \in Nat \ {0}
    BY CallTyped
  <2>2. IsFiniteSet(Internal)
    BY <2>1, FS_Interval DEF Internal
  <2> QED
    BY <2>2, FS_Product DEF Loops
<1>3. id \in UsedDevices
  BY DEF Domains, UsedDevices
<1>4. \A a, b \in Loops : a # b => term[a] \cap term[b] = {}
  BY <1>3, PassesApart
<1>5. \A a \in Loops : term[a] \cap start = {}
  BY DEF ThreadTerms
<1>6. \A xy \in Loops : Added(t, xy[1], xy[2], r) = SetToBag(term[xy])
  <2>1. \A xy \in Loops : xy[1] \in Internal /\ xy[2] \in Internal
    BY DEF Loops
  <2> QED
    BY <2>1, AddedIs
<1>7. \A s \in SUBSET Loops : s # {} => PickOf(s) \in Loops
  BY DEF PickOf
<1>8. \A f : Equation(f) <=> IsFold(f, Loops, SetToBag(start), term)
  <2>1. \A s \in SUBSET Loops : s # {} => Added(t, PickOf(s)[1], PickOf(s)[2], r) = SetToBag(term[PickOf(s)])
    BY <1>6, <1>7
  <2> HIDE DEF term, old
  <2>2. ASSUME NEW f
        PROVE  [s \in SUBSET Loops |-> IF s = {} THEN old
                                       ELSE f[s \ {PickOf(s)}] (+) Added(t, PickOf(s)[1], PickOf(s)[2], r)]
             = [s \in SUBSET Loops |-> IF s = {} THEN SetToBag(start)
                                       ELSE f[s \ {PickOf(s)}] (+) SetToBag(term[PickOf(s)])]
    BY <2>1 DEF old
  <2> QED
    BY <2>2, Zenon DEF IsFold
<1> HIDE DEF Equation, term
<1>9. \E f : IsFold(f, Loops, SetToBag(start), term)
  BY <1>2, <1>4, <1>5, FoldIs
<1>10. IsFold(fold, Loops, SetToBag(start), term)
  <2>1. Equation(fold)
    BY <1>8, <1>9
  <2> QED
    BY <1>8, <2>1
<1> HIDE DEF fold
<1>11. fold[Loops] = SetToBag(AllOf(start, term, Loops))
  BY <1>2, <1>4, <1>5, <1>10, FoldIs
<1>12. AllOf(start, term, Loops) = start \cup ThreadTerms(id, t, r)
  BY DEF AllOf, ThreadTerms, term
<1> QED
  BY <1>1, <1>11, <1>12, Zenon DEF Loops

----------------------------------------------------------------------------
(* The result of the block: the terms of the threads that are done.         *)

DonePairs == {p \in UsedDevices \X Threads : p[1] < id \/ (p[1] = id /\ pc[p[2]] = "done")}

Got(r) == UNION {ThreadTerms(p[1], p[2], r) : p \in DonePairs}

SumInv ==
    /\ block \in [x : 0..(config.blocks - 1), y : 0..(config.blocks - 1)]
    /\ LoadsEverything => \A r \in Rows : ret[r] = SetToBag(Got(r))

LEMMA TermsStay ==
    ASSUME UNCHANGED <<config, block>>
    PROVE  /\ \A d, t, r : ThreadTerms(d, t, r)' = ThreadTerms(d, t, r)
           /\ Rows' = Rows /\ UsedDevices' = UsedDevices /\ Threads' = Threads
           /\ LoadsEverything' = LoadsEverything /\ Works(block)' = Works(block)
<1>1. /\ Rows' = Rows /\ UsedDevices' = UsedDevices /\ Threads' = Threads /\ Loops' = Loops
      /\ LoadsEverything' = LoadsEverything /\ Works(block)' = Works(block)
      /\ kernel' = kernel /\ SumName' = SumName /\ num_features' = num_features
  BY DEF Rows, UsedDevices, Threads, Loops, Ids, Internal, LoadsEverything, kernel, SumName,
         num_features, num_used_devices, THREAD_BLOCK_SIZE, INTERNAL_BLOCK_SIZE
<1>2. \A t, x, y, r, c : Pairs(t, x, y, r, c)' = Pairs(t, x, y, r, c)
  BY <1>1 DEF Pairs, Counts, i, j, THREAD_BLOCK_SIZE, INTERNAL_BLOCK_SIZE
<1>3. \A d, r, c : DeviceTerms(d, r, c)' = DeviceTerms(d, r, c)
  BY <1>1 DEF DeviceTerms, LinearTerms, FunctionTerm, ConstantTerms
<1>4. \A d, t, x, y, r : PassTerms(d, t, x, y, r)' = PassTerms(d, t, x, y, r)
  BY <1>1, <1>2, <1>3 DEF PassTerms, With
<1>5. \A d, t, r : ThreadTerms(d, t, r)' = ThreadTerms(d, t, r)
  BY <1>1, <1>4 DEF ThreadTerms
<1> QED
  BY <1>1, <1>5

LEMMA NoTerms ==
    ASSUME ~Works(block)
    PROVE  /\ \A d, t, r : ThreadTerms(d, t, r) = {}
           /\ \A r : Got(r) = {}
<1>1. \A d, t, x, y, r : PassTerms(d, t, x, y, r) = {}
  BY DEF PassTerms, Pairs
<1>2. \A d, t, r : ThreadTerms(d, t, r) = {}
  BY <1>1 DEF ThreadTerms
<1> QED
  BY <1>2 DEF Got

\* A step that adds nothing, because no thread of the block has anything to
\* add or because the threads that are done are the same.
LEMMA SumStays ==
    ASSUME SumInv, UNCHANGED <<config, block, ret>>, Works(block) => DonePairs' = DonePairs
    PROVE  SumInv'
<1>1. \A r : Got(r)' = Got(r)
  <2>1. CASE Works(block)
    BY <2>1, TermsStay DEF Got
  <2>2. CASE ~Works(block)
    <3>1. \A d, t, r : ThreadTerms(d, t, r)' = {}
      BY <2>2, NoTerms, TermsStay
    <3>2. \A r : Got(r)' = {}
      BY <3>1 DEF Got
    <3> QED
      BY <2>2, <3>2, NoTerms
  <2> QED
    BY <2>1, <2>2
<1> QED
  BY <1>1, TermsStay DEF SumInv

LEMMA SameDone ==
    ASSUME UNCHANGED <<config, block, id>>, \A t \in Threads : pc'[t] = "done" <=> pc[t] = "done"
    PROVE  DonePairs' = DonePairs
<1>1. UsedDevices' = UsedDevices /\ Threads' = Threads
  BY TermsStay
<1>2. \A p \in UsedDevices \X Threads : p[2] \in Threads
  OBVIOUS
<1> QED
  BY <1>1, <1>2 DEF DonePairs

LEMMA NobodyDone ==
    ASSUME Works(block)
    PROVE  First # "done" /\ AfterBegin # "done" /\ \A more : AfterPass(more) # "done"
BY DEF First, AfterBegin, AfterPass

LEMMA InitSum == Init => SumInv
<1> SUFFICES ASSUME Init PROVE SumInv
  OBVIOUS
<1>1. \A r \in Rows : ret[r] = EmptyBag
  BY DEF Init
<1>2. \A r : Got(r) = {}
  <2>1. CASE Works(block)
    <3>1. \A p \in UsedDevices \X Threads : p[1] \in 0..(num_used_devices - 1) /\ p[2] \in Threads
      BY DEF UsedDevices
    <3>2. num_used_devices \in Nat
      BY RangesKnown DEF Init
    <3>3. \A t \in Threads : pc[t] # "done"
      BY <2>1, NobodyDone DEF Init
    <3>4. id = 0
      BY DEF Init
    <3>5. \A p \in UsedDevices \X Threads : ~(p[1] < id)
      BY <3>1, <3>2, <3>4
    <3>6. DonePairs = {}
      BY <3>1, <3>3, <3>5 DEF DonePairs
    <3> QED
      BY <3>6 DEF Got
  <2>2. CASE ~Works(block)
    BY <2>2, NoTerms
  <2> QED
    BY <2>1, <2>2
<1>3. block \in [x : 0..(config.blocks - 1), y : 0..(config.blocks - 1)]
  BY DEF Init
<1> QED
  BY <1>1, <1>2, <1>3, BagFacts DEF SumInv

\* A thread that is about to reduce has read all features of the device.
LEMMA ReadyToReduce ==
    ASSUME BlockInv, LoadsEverything, Works(block), NEW t \in Threads, pc[t] = "reduce"
    PROVE  /\ feature[t] = feature_range
           /\ \A x, y \in Internal :
                matr[t][x][y] = Summands(feature_range, FirstFeature, i(t) + y, j(t) + x)
<1>1. feature_range \in Nat \ {0}
  BY CallTyped DEF BlockInv
<1>2. feature[t] = feature_range
  <2>1. CASE Ended
    BY <2>1 DEF Ended
  <2>2. ASSUME NEW p \in Passes, Loading(p) PROVE FALSE
    BY <2>2 DEF Loading
  <2>3. ASSUME NEW p \in Passes, Reading(p) PROVE feature[t] = feature_range
    <3>1. pc[t] \in Behind(p + 1) /\ feature[t] = p + 1
      BY <2>3 DEF Reading
    <3>2. ~(p + 1 < feature_range)
      BY <3>1 DEF Behind
    <3> QED
      BY <1>1, <3>1, <3>2 DEF Passes
  <2> QED
    BY <2>1, <2>2, <2>3 DEF BlockInv, Phase
<1> QED
  BY <1>2 DEF BlockInv, MatrixIsProduct

\* The sum grows by the terms of the thread that adds its part.
LEMMA ReduceSum ==
    ASSUME BlockInv, SumInv, NEW t \in Threads, Reduce(t)
    PROVE  SumInv'
<1>1. UNCHANGED <<config, block, id>> /\ pc[t] = "reduce" /\ pc' = [pc EXCEPT ![t] = "done"]
  BY DEF Reduce
<1>2. Domains /\ id \in UsedDevices /\ DOMAIN pc = Threads
  BY DEF BlockInv, Domains, UsedDevices
<1>3. CASE ~Works(block)
  <2>1. ret' = ret
    BY <1>3 DEF Reduce
  <2> QED
    BY <1>1, <1>3, <2>1, SumStays
<1>4. CASE Works(block)
  <2>1. DonePairs' = DonePairs \cup {<<id, t>>} /\ <<id, t>> \notin DonePairs
    <3>1. \A u \in Threads : pc'[u] = "done" <=> u = t \/ pc[u] = "done"
      BY <1>1, <1>2
    <3>2. UsedDevices' = UsedDevices /\ Threads' = Threads
      BY <1>1, TermsStay
    <3>3. ~(id < id)
      BY <1>2 DEF Domains
    <3>4. \A p \in UsedDevices \X Threads : p[2] \in Threads /\ p = <<p[1], p[2]>>
      OBVIOUS
    <3>5. <<id, t>> \in UsedDevices \X Threads /\ <<id, t>>[1] = id /\ <<id, t>>[2] = t
      BY <1>2
    <3>6. DonePairs' = {p \in UsedDevices \X Threads :
                          p[1] < id \/ (p[1] = id /\ (p[2] = t \/ pc[p[2]] = "done"))}
      BY <1>1, <3>1, <3>2, <3>4 DEF DonePairs
    <3> QED
      BY <1>1, <3>3, <3>4, <3>5, <3>6 DEF DonePairs
  <2>2. \A r : Got(r)' = Got(r) \cup ThreadTerms(id, t, r)
    <3>1. \A r : Got(r)' = UNION {ThreadTerms(p[1], p[2], r) : p \in DonePairs'}
      BY <1>1, TermsStay DEF Got
    <3>2. <<id, t>>[1] = id /\ <<id, t>>[2] = t
      OBVIOUS
    <3> QED
      BY <2>1, <3>1, <3>2 DEF Got
  <2>3. \A r : Got(r) \cap ThreadTerms(id, t, r) = {}
    <3>1. ASSUME NEW r, NEW p \in DonePairs
          PROVE  ThreadTerms(p[1], p[2], r) \cap ThreadTerms(id, t, r) = {}
      <4>1. p[1] \in UsedDevices /\ p[2] \in Threads /\ (p[1] # id \/ p[2] # t)
        <5>1. p \in UsedDevices \X Threads /\ p = <<p[1], p[2]>>
          BY DEF DonePairs
        <5> QED
          BY <2>1, <5>1
      <4> QED
        BY <1>2, <4>1, ThreadsApart
    <3> QED
      BY <3>1 DEF Got
  <2>4. ASSUME LoadsEverything, NEW r \in Rows PROVE ret'[r] = SetToBag(Got(r) \cup ThreadTerms(id, t, r))
    <3>1. ret'[r] = FoldSet(LAMBDA xy, sum : sum (+) Added(t, xy[1], xy[2], r), ret[r], Internal \X Internal)
      BY <1>4, Zenon DEF Reduce
    <3>2. ret[r] = SetToBag(Got(r))
      BY <2>4 DEF SumInv
    <3>3. \A x, y \in Internal : matr[t][x][y] = Summands(feature_range, FirstFeature, i(t) + y, j(t) + x)
      BY <1>1, <1>4, <2>4, ReadyToReduce
    <3>4. FoldSet(LAMBDA xy, sum : sum (+) Added(t, xy[1], xy[2], r), ret[r], Internal \X Internal)
          = SetToBag(Got(r) \cup ThreadTerms(id, t, r))
      <4>1. block \in [x : 0..(config.blocks - 1), y : 0..(config.blocks - 1)]
        BY DEF SumInv
      <4> QED
        BY <1>2, <1>4, <2>3, <3>2, <3>3, <4>1, ReduceAdds
    <3> QED
      BY <3>1, <3>4, Zenon
  <2>5. LoadsEverything' = LoadsEverything /\ Rows' = Rows
    BY <1>1, TermsStay
  <2>6. block' \in [x : 0..(config'.blocks - 1), y : 0..(config'.blocks - 1)]
    BY <1>1 DEF SumInv
  <2> QED
    BY <2>2, <2>4, <2>5, <2>6 DEF SumInv
<1> QED
  BY <1>3, <1>4

LEMMA NextDeviceSum ==
    ASSUME BlockInv, SumInv, NextDevice
    PROVE  SumInv'
<1>1. UNCHANGED <<config, block, ret>> /\ id' = id + 1 /\ pc' = [t \in Threads |-> First]
      /\ \A t \in Threads : pc[t] = "done"
  BY DEF NextDevice
<1>2. ASSUME Works(block) PROVE DonePairs' = DonePairs
  <2>1. UsedDevices' = UsedDevices /\ Threads' = Threads
    BY <1>1, TermsStay
  <2>2. \A t \in Threads : pc'[t] # "done"
    BY <1>1, <1>2, NobodyDone
  <2>3. \A d \in UsedDevices : d < id + 1 <=> d < id \/ d = id
    <3>1. id \in Int /\ num_used_devices \in Nat
      BY RangesKnown DEF BlockInv, Domains
    <3> QED
      BY <3>1 DEF UsedDevices
  <2>4. \A p \in UsedDevices \X Threads : p[1] \in UsedDevices /\ p[2] \in Threads
    OBVIOUS
  <2>5. ASSUME NEW p \in UsedDevices \X Threads
        PROVE  (p[1] < id' \/ (p[1] = id' /\ pc'[p[2]] = "done"))
               <=> (p[1] < id \/ (p[1] = id /\ pc[p[2]] = "done"))
    BY <1>1, <2>2, <2>3, <2>4
  <2> QED
    BY <2>1, <2>5 DEF DonePairs
<1> QED
  BY <1>1, <1>2, SumStays

LEMMA BarrierSum ==
    ASSUME SumInv, NEW here, NEW next, here # "done", Works(block) => next # "done", Barrier(here, next)
    PROVE  SumInv'
<1>1. /\ UNCHANGED <<config, block, id, ret>> /\ pc' = [t \in Threads |-> next]
      /\ \A t \in Threads : pc[t] = here
  BY DEF Barrier
<1>2. Works(block) => DonePairs' = DonePairs
  BY <1>1, SameDone
<1> QED
  BY <1>1, <1>2, SumStays

LEMMA NextSum ==
    ASSUME BlockInv, SumInv, [Next]_vars
    PROVE  SumInv'
<1>0. DOMAIN pc = Threads
  BY DEF BlockInv, Domains
<1>1. CASE Begin
  BY <1>1, NobodyDone, BarrierSum DEF Begin
<1>2. CASE StartLoading
  BY <1>2, BarrierSum DEF StartLoading
<1>3. CASE StartReading
  BY <1>3, BarrierSum DEF StartReading
<1>4. CASE Leave
  BY <1>4, NobodyDone, BarrierSum DEF Leave
<1>5. ASSUME NEW t \in Threads, Load(t) PROVE SumInv'
  <2>1. UNCHANGED <<config, block, id, ret>> /\ pc[t] = "load" /\ pc' = [pc EXCEPT ![t] = "full"]
    BY <1>5 DEF Load
  <2>2. DonePairs' = DonePairs
    BY <1>0, <2>1, SameDone
  <2> QED
    BY <2>1, <2>2, SumStays
<1>6. ASSUME NEW t \in Threads, Read(t) PROVE SumInv'
  <2>1. UNCHANGED <<config, block, id, ret>> /\ pc[t] = "read"
    BY <1>6 DEF Read
  <2> DEFINE next == IF kernel.waits = "work items" THEN "leave" ELSE AfterPass(feature'[t] < feature_range)
  <2>2. pc' = [pc EXCEPT ![t] = next] /\ (Works(block) => next # "done")
    BY <1>6, NobodyDone DEF Read
  <2> HIDE DEF next
  <2>3. Works(block) => DonePairs' = DonePairs
    BY <1>0, <2>1, <2>2, SameDone
  <2> QED
    BY <2>1, <2>3, SumStays
<1>7. ASSUME NEW t \in Threads, Reduce(t) PROVE SumInv'
  BY <1>7, ReduceSum
<1>8. CASE NextDevice
  BY <1>8, NextDeviceSum
<1>9. CASE UNCHANGED vars
  <2>1. UNCHANGED <<config, block, id, ret, pc>>
    BY <1>9 DEF vars
  <2>2. DonePairs' = DonePairs
    BY <2>1, SameDone
  <2> QED
    BY <2>1, <2>2, SumStays
<1> QED
  BY <1>1, <1>2, <1>3, <1>4, <1>5, <1>6, <1>7, <1>8, <1>9 DEF Next, Terminated

\* The terms of a whole block are those of its pairs.
LEMMA SumIsRight ==
    ASSUME BlockInv, SumInv, LoadsEverything
    PROVE  AddsItsEntries
<1> SUFFICES ASSUME NEW r \in Rows
             PROVE  LET terms == UNION {Entry(r, c) : c \in Partners(r)}
                        all == SetToBag({a \in [term : terms, d : Partners(r)] : a.term \in Entry(r, a.d)})
                    IN  ret[r] \sqsubseteq all /\ (Finished => ret[r] = all)
  BY DEF AddsItsEntries
<1> DEFINE terms == UNION {Entry(r, c) : c \in Partners(r)}
           all == {a \in [term : terms, d : Partners(r)] : a.term \in Entry(r, a.d)}
<1>1. Domains /\ config \in Configurations
      /\ block \in [x : 0..(config.blocks - 1), y : 0..(config.blocks - 1)]
  BY DEF BlockInv, Domains, SumInv
<1>2. ret[r] = SetToBag(Got(r))
  BY DEF SumInv
<1>3. \A a : a \in all <=> \E c \in Partners(r) : \E e \in Entry(r, c) : a = [term |-> e, d |-> c]
  <2>1. ASSUME NEW a \in all PROVE \E c \in Partners(r) : \E e \in Entry(r, c) : a = [term |-> e, d |-> c]
    <3>1. a = [term |-> a.term, d |-> a.d] /\ a.d \in Partners(r) /\ a.term \in Entry(r, a.d)
      OBVIOUS
    <3> QED
      BY <3>1
  <2>2. ASSUME NEW c \in Partners(r), NEW e \in Entry(r, c) PROVE [term |-> e, d |-> c] \in all
    <3>1. e \in terms
      OBVIOUS
    <3> HIDE DEF terms
    <3> QED
      BY <3>1
  <2> HIDE DEF all
  <2> QED
    BY <2>1, <2>2
<1>4. \A c : c \in Partners(r) <=>
               c \in Rows /\ \E t \in Threads, x \in Internal, y \in Internal : Pairs(t, x, y, r, c)
  BY <1>1, AllPaired
<1>5. \A c, e : e \in Entry(r, c) <=> \E d \in UsedDevices : e \in DeviceTerms(d, r, c)
  BY <1>1, TermsTogether
<1>6. \A d, t, a : a \in ThreadTerms(d, t, r) <=>
         \E xy \in Loops, c \in Rows : /\ Pairs(t, xy[1], xy[2], r, c)
                                       /\ \E e \in DeviceTerms(d, r, c) : a = [term |-> e, d |-> c]
  BY DEF ThreadTerms, PassTerms, With
<1>7. \A d \in UsedDevices, t \in Threads : \A a : a \in ThreadTerms(d, t, r) => a \in all
  <2>1. \A xy \in Loops : xy[1] \in Internal /\ xy[2] \in Internal
    BY DEF Loops
  <2> HIDE DEF all
  <2> QED
    BY <1>3, <1>4, <1>5, <1>6, <2>1
<1>8. \A a \in all : \E d \in UsedDevices, t \in Threads : a \in ThreadTerms(d, t, r)
  <2> HIDE DEF all
  <2> SUFFICES ASSUME NEW a \in all PROVE \E d \in UsedDevices, t \in Threads : a \in ThreadTerms(d, t, r)
    OBVIOUS
  <2>1. PICK c \in Partners(r) : \E e \in Entry(r, c) : a = [term |-> e, d |-> c]
    BY <1>3
  <2>2. PICK e \in Entry(r, c) : a = [term |-> e, d |-> c]
    BY <2>1
  <2>3. PICK d \in UsedDevices : e \in DeviceTerms(d, r, c)
    BY <1>5
  <2>4. PICK t \in Threads, x \in Internal, y \in Internal : c \in Rows /\ Pairs(t, x, y, r, c)
    BY <1>4
  <2>5. <<x, y>> \in Loops /\ <<x, y>>[1] = x /\ <<x, y>>[2] = y
    BY DEF Loops
  <2>6. a \in ThreadTerms(d, t, r)
    BY <1>6, <2>2, <2>3, <2>4, <2>5
  <2> QED
    BY <2>6
<1>9. Got(r) \subseteq all
  <2>1. \A p \in DonePairs : p[1] \in UsedDevices /\ p[2] \in Threads
    BY DEF DonePairs
  <2> HIDE DEF all
  <2> QED
    BY <1>7, <2>1 DEF Got
<1>10. ASSUME Finished PROVE all \subseteq Got(r)
  <2>1. ASSUME NEW d \in UsedDevices, NEW t \in Threads PROVE <<d, t>> \in DonePairs
    <3>1. pc[t] = "done" /\ id + 1 = num_used_devices
      BY <1>10 DEF Finished
    <3>2. num_used_devices \in Nat /\ id \in Int
      BY <1>1, RangesKnown DEF Domains
    <3>3. d < id \/ d = id
      BY <3>1, <3>2 DEF UsedDevices
    <3> QED
      BY <3>1, <3>3 DEF DonePairs
  <2>2. ASSUME NEW a \in all PROVE a \in Got(r)
    <3> HIDE DEF all
    <3>1. PICK d \in UsedDevices, t \in Threads : a \in ThreadTerms(d, t, r)
      BY <1>8
    <3>2. <<d, t>> \in DonePairs /\ <<d, t>>[1] = d /\ <<d, t>>[2] = t
      BY <2>1
    <3> QED
      BY <3>1, <3>2 DEF Got
  <2> QED
    BY <2>2
<1> HIDE DEF all
<1>11. SetToBag(Got(r)) \sqsubseteq SetToBag(all)
  BY <1>9 DEF SetToBag, \sqsubseteq
<1>12. Finished => SetToBag(Got(r)) = SetToBag(all)
  <2>1. Finished => Got(r) = all
    BY <1>9, <1>10
  <2> QED
    BY <2>1
<1> QED
  BY <1>2, <1>11, <1>12, Zenon DEF all, terms

\* The result of a block loses and repeats nothing: at the end each entry of a
\* block's pairs of points has been added to both of them, by all threads
\* and devices together exactly once, and nothing else at any time, for every
\* backend and kernel, any sizes with which the cache is loaded, any number of
\* points and any split of the features over the devices.
THEOREM EntriesCorrect == Spec => [](LoadsEverything => AddsItsEntries)
<1>1. BlockInv /\ SumInv /\ [Next]_vars => SumInv'
  BY NextSum
<1>2. BlockInv /\ SumInv => (LoadsEverything => AddsItsEntries)
  BY SumIsRight
<1> QED
  BY <1>1, <1>2, InitSum, BlockCorrect, PTL DEF Spec
=============================================================================
