----------------------------- MODULE GpuKernels -----------------------------
(***************************************************************************)
(* The rest of the code shared by the GPU backends: generate_q, calculate_w *)
(* and predict_values_impl, on the flat and padded memory of the devices.  *)
(*                                                                         *)
(* A host thread per device issues commands to the queue of the device,    *)
(* which executes them in order; some commands are waited for, which ones  *)
(* depends on the backend.  A phase is a parallel loop over the devices    *)
(* and ends when all its threads have issued their commands.               *)
(*                                                                         *)
(* A value in memory is symbolic: <<"sv", i, f>> is feature f of support   *)
(* vector i, and a sum is the set of its products, so that a wrong index   *)
(* is seen.  Points, features and indices start with 0, devices with 1.    *)
(***************************************************************************)
EXTENDS Naturals, Sequences, Bags, FiniteSetsExt

CONSTANTS
    NumDevices,         \* devices_.size()
    THREAD_BLOCK_SIZE, INTERNAL_BLOCK_SIZE,
    Calls               \* records [operation, backend, kernel_type, num_support_vectors,
                        \* num_predict_points, num_features, has_w, pole]: has_w if the
                        \* model has its normal vector already, pole if gamma * 0 + coef0
                        \* has no power degree (coef0 = 0 and degree < 0)

Backends == {"CUDA", "HIP", "OpenCL", "DPCPP", "hipSYCL"}

ASSUME CallsAssumption ==
    /\ NumDevices \in Nat \ {0}
    /\ THREAD_BLOCK_SIZE \in Nat \ {0} /\ INTERNAL_BLOCK_SIZE \in Nat \ {0}
    /\ Calls \subseteq
          [operation : {"q", "predict"}, backend : Backends,
           kernel_type : {"linear", "polynomial", "rbf"}, num_support_vectors : Nat \ {0, 1},
           num_predict_points : Nat \ {0}, num_features : Nat \ {0},
           has_w : BOOLEAN, pole : BOOLEAN]

VARIABLES
    call,
    phase,      \* phases still to come, the current one first
    program,    \* commands the thread of each device has still to issue
    queue,      \* commands each device has still to execute
    waiting,    \* the thread of the device waits for its queue
    mem,        \* mem[dev][buffer]: the allocated buffers
    q, w, out   \* results on the host

vars == <<call, phase, program, queue, waiting, mem, q, w, out>>

boundary_size == THREAD_BLOCK_SIZE * INTERNAL_BLOCK_SIZE
num_support_vectors == call.num_support_vectors
num_predict_points == call.num_predict_points
num_features == call.num_features

CeilDiv(a, b) == (a + b - 1) \div b
Least(a, b) == IF a < b THEN a ELSE b
UpTo(n) == 0..(n - 1)

select_num_used_devices ==
    IF call.kernel_type # "linear" THEN 1 ELSE Least(NumDevices, num_features)

Devices == 1..select_num_used_devices

\* feature_ranges[dev]: the first feature of the next device.
feature_ranges(dev) == (dev * num_features) \div select_num_used_devices

\* Mutant: every device gets as many features, and the rest is lost.
num_features_in_range_Even(dev) == num_features \div select_num_used_devices

num_features_in_range(dev) == feature_ranges(dev) - feature_ranges(dev - 1)

----------------------------------------------------------------------------
(* Values.                                                                 *)

Junk == <<"junk">>      \* of memory nobody has written, or that is not there
Zero == <<"zero">>

SupportVector(i, f) == <<"sv", i, f>>
PredictPoint(i, f) == <<"point", i, f>>
Alpha(i) == <<"alpha", i>>

\* transform_to_soa_layout: one feature of all points after the other, each
\* with boundary_size zeros behind it; matrix is "sv" or "point".
transform_to_layout(matrix, num_points) ==
    [k \in UpTo(num_features * (num_points + boundary_size)) |->
        LET row == k % (num_points + boundary_size)
            col == k \div (num_points + boundary_size)
        IN  IF row < num_points THEN <<matrix, row, col>> ELSE Zero]

Cell(m, k) == IF k \in DOMAIN m THEN m[k] ELSE Junk

Product(a, b) ==
    IF Junk \in {a, b} THEN {Junk} ELSE IF Zero \in {a, b} THEN {} ELSE {<<a, b>>}

\* Squared difference.
Difference(a, b) == IF Junk \in {a, b} THEN {Junk} ELSE {<<a, b>>}

Summand(combine, a, b) == IF combine = "product" THEN Product(a, b) ELSE Difference(a, b)

\* A kernel function of a sum.
Value(function, sum) == IF Junk \in sum THEN Junk ELSE <<function, sum>>

----------------------------------------------------------------------------
(* The kernels.                                                            *)

\* How the values of two points are combined by the kernels of each source.
cuda_q_kernel == [linear |-> "product", polynomial |-> "product", rbf |-> "difference"]
hip_q_kernel == [linear |-> "product", polynomial |-> "product", rbf |-> "difference"]
opencl_q_kernel == [linear |-> "product", polynomial |-> "product", rbf |-> "difference"]
sycl_q_kernel == [linear |-> "product", polynomial |-> "product", rbf |-> "difference"]

\* The linear one is the kernel that calculates w.
cuda_predict_kernel == [linear |-> "product", polynomial |-> "product", rbf |-> "difference"]
hip_predict_kernel == [linear |-> "product", polynomial |-> "product", rbf |-> "difference"]
opencl_predict_kernel == [linear |-> "product", polynomial |-> "product", rbf |-> "difference"]
sycl_predict_kernel == [linear |-> "product", polynomial |-> "product", rbf |-> "difference"]

Sources ==
    [CUDA |-> [q |-> cuda_q_kernel, predict |-> cuda_predict_kernel],
     HIP |-> [q |-> hip_q_kernel, predict |-> hip_predict_kernel],
     OpenCL |-> [q |-> opencl_q_kernel, predict |-> opencl_predict_kernel],
     DPCPP |-> [q |-> sycl_q_kernel, predict |-> sycl_predict_kernel],
     hipSYCL |-> [q |-> sycl_q_kernel, predict |-> sycl_predict_kernel]]

Combined(kernel) == Sources[call.backend][kernel][call.kernel_type]

\* What run_*_kernel starts: the threads of the execution range, or as many as
\* there are results ("exactly"), and whether it waits for them.
cuda_csvm == [q |-> "range", w |-> "range", waits |-> FALSE]
hip_csvm == [q |-> "range", w |-> "range", waits |-> FALSE]
opencl_csvm == [q |-> "range", w |-> "range", waits |-> TRUE]
dpcpp_csvm == [q |-> "exactly", w |-> "exactly", waits |-> FALSE]
hipsycl_csvm == [q |-> "exactly", w |-> "exactly", waits |-> FALSE]

csvm == [CUDA |-> cuda_csvm, HIP |-> hip_csvm, OpenCL |-> opencl_csvm,
         DPCPP |-> dpcpp_csvm, hipSYCL |-> hipsycl_csvm][call.backend]

\* Mutant: the last block is left out if it is not full.
execution_range_RoundDown(n) == UpTo((n \div THREAD_BLOCK_SIZE) * Least(THREAD_BLOCK_SIZE, n))

\* Threads in one dimension of an execution_range for n values: whole blocks.
execution_range(n) == UpTo(CeilDiv(n, THREAD_BLOCK_SIZE) * Least(THREAD_BLOCK_SIZE, n))

Threads(kernel, n) == IF csvm[kernel] = "range" THEN execution_range(n) ELSE UpTo(n)

\* The last support vector is not among the rows on the device.
num_rows == num_support_vectors - 1 + boundary_size

device_kernel_q(dev) ==
    LET m == mem[dev]
        sum(index) == UNION {Summand(Combined("q"), Cell(m.data_d, i * num_rows + index),
                                     Cell(m.data_last_d, i)) : i \in UpTo(num_features_in_range(dev))}
    IN  [index \in DOMAIN m.q_d |->
            IF index \in Threads("q", num_support_vectors - 1)
            THEN Value(call.kernel_type, sum(index)) ELSE m.q_d[index]]

device_kernel_w_linear(dev) ==
    LET m == mem[dev]
        sum(index) ==
            (UNION {Summand(Combined("predict"), Cell(m.alpha_d, dat), Cell(m.data_d, dat + num_rows * index)) :
                        dat \in UpTo(num_support_vectors - 1)})
            \cup Summand(Combined("predict"), Cell(m.alpha_d, num_support_vectors - 1), Cell(m.data_last_d, index))
        works == {index \in Threads("w", num_features_in_range(dev)) : index < num_features_in_range(dev)}
    IN  [index \in DOMAIN m.w_d |->
            IF index \in works THEN Value("linear", sum(index)) ELSE m.w_d[index]]

\* alpha_d[data_point_index] * function(sum): nothing if the weight is zero,
\* unless the function has no value there.
Weighted(alpha, value) ==
    CASE Junk \in {alpha, value} -> {Junk}
      [] alpha = Zero /\ call.pole /\ value = <<"polynomial", {}>> -> {<<"NaN">>}
      [] alpha = Zero /\ ~(call.pole /\ value = <<"polynomial", {}>>) -> {}
      [] OTHER -> {<<alpha, value>>}

\* One atomicAdd of every thread (data_point_index, predict_point_index).
device_kernel_predict(dev) ==
    LET m == mem[dev]
        point(p, f) == Cell(m.point_d, p + (num_predict_points + boundary_size) * f)
        sv(i, f) == IF i = num_support_vectors - 1 THEN Cell(m.data_last_d, f)
                    ELSE Cell(m.data_d, i + num_rows * f)
        sum(i, p) == UNION {Summand(Combined("predict"), sv(i, f), point(p, f)) : f \in UpTo(num_features)}
        term(i, p) == Weighted(Cell(m.alpha_d, i), Value(call.kernel_type, sum(i, p)))
        works == {p \in execution_range(num_predict_points) : p < num_predict_points}
        Add(p, old) == FoldSet(LAMBDA i, bag : bag (+) SetToBag(term(i, p)), old,
                               execution_range(num_support_vectors))
    IN  [p \in DOMAIN m.out_d |-> IF p \in works THEN Add(p, m.out_d[p]) ELSE m.out_d[p]]

----------------------------------------------------------------------------
(* Device pointers and queues.                                             *)

\* What a memset does in the queue of the backend, and what freeing does with
\* commands that are not executed yet.  All copies are waited for.
cuda_device_ptr == [memset_waits |-> FALSE, free_waits |-> TRUE]
hip_device_ptr == [memset_waits |-> FALSE, free_waits |-> TRUE]
opencl_device_ptr == [memset_waits |-> TRUE, free_waits |-> TRUE]
dpcpp_device_ptr == [memset_waits |-> TRUE, free_waits |-> FALSE]
hipsycl_device_ptr == [memset_waits |-> TRUE, free_waits |-> FALSE]

device_ptr == [CUDA |-> cuda_device_ptr, HIP |-> hip_device_ptr, OpenCL |-> opencl_device_ptr,
               DPCPP |-> dpcpp_device_ptr, hipSYCL |-> hipsycl_device_ptr][call.backend]

Allocate(b, size) == [op |-> "allocate", buffer |-> b, size |-> size]
MemsetZero(b, zero) == [op |-> "memset", buffer |-> b, value |-> zero]
CopyToDevice(b, data, count) == [op |-> "copy_to_device", buffer |-> b, data |-> data, count |-> count]
Kernel(name, b) == [op |-> name, buffer |-> b]
Synchronize == [op |-> "synchronize"]
CopyToHost(b) == [op |-> "copy_to_host", buffer |-> b]
Free(b) == [op |-> "free", buffer |-> b]

Waits(command) ==
    CASE command.op = "memset" -> device_ptr.memset_waits
      [] command.op \in {"q", "w", "predict"} -> csvm.waits
      [] OTHER -> command.op \in {"copy_to_device", "copy_to_host"}

----------------------------------------------------------------------------
(* What the threads of the parallel loops do.                              *)

setup_data_on_device(dev) ==
    LET n == num_features_in_range(dev)
        size == n * num_rows
        transformed_data == transform_to_layout("sv", num_support_vectors - 1)
    IN  <<Allocate("data_last_d", n + boundary_size),
          MemsetZero("data_last_d", Zero),
          CopyToDevice("data_last_d",
              [f \in UpTo(n) |-> SupportVector(num_support_vectors - 1, feature_ranges(dev - 1) + f)], n),
          Allocate("data_d", size),
          CopyToDevice("data_d",
              [k \in UpTo(size) |-> transformed_data[feature_ranges(dev - 1) * num_rows + k]], size)>>

generate_q(dev) ==
    <<Allocate("q_d", num_support_vectors - 1 + boundary_size), MemsetZero("q_d", Zero), Kernel("q", "q_d")>>

\* The copies of the sum back to the devices are left out: nobody reads them.
device_reduction(dev) == <<Synchronize, CopyToHost("q_d"), Free("q_d")>>

setup_alpha(dev) ==
    <<Allocate("alpha_d", num_support_vectors + THREAD_BLOCK_SIZE), MemsetZero("alpha_d", Zero),
      CopyToDevice("alpha_d", [i \in UpTo(num_support_vectors) |-> Alpha(i)], num_support_vectors)>>

calculate_w(dev) ==
    <<Allocate("w_d", num_features_in_range(dev)), Kernel("w", "w_d"), Synchronize,
      CopyToHost("w_d"), Free("w_d")>>

\* Mutant: the points are freed before the result is copied.
predict_PointsFreedFirst(dev) ==
    LET size == num_features * (num_predict_points + boundary_size)
    IN  <<Allocate("out_d", num_predict_points + boundary_size), MemsetZero("out_d", EmptyBag),
          Allocate("point_d", size), MemsetZero("point_d", Zero),
          CopyToDevice("point_d", transform_to_layout("point", num_predict_points), size),
          Kernel("predict", "out_d"), Free("point_d"), CopyToHost("out_d"), Free("out_d")>>

\* Nobody synchronizes between the kernel and the copy of its result.
predict(dev) ==
    LET size == num_features * (num_predict_points + boundary_size)
    IN  <<Allocate("out_d", num_predict_points + boundary_size), MemsetZero("out_d", EmptyBag),
          Allocate("point_d", size), MemsetZero("point_d", Zero),
          CopyToDevice("point_d", transform_to_layout("point", num_predict_points), size),
          Kernel("predict", "out_d"), CopyToHost("out_d"), Free("point_d"), Free("out_d")>>

release(dev) ==
    (IF call.operation = "predict" THEN <<Free("alpha_d")>> ELSE <<>>) \o <<Free("data_last_d"), Free("data_d")>>

Program(name, dev) ==
    CASE name = "setup" -> setup_data_on_device(dev)
      [] name = "q" -> generate_q(dev)
      [] name = "reduction" -> device_reduction(dev)
      [] name = "alpha" -> setup_alpha(dev)
      [] name = "w" -> calculate_w(dev)
      [] name = "predict" -> predict(dev)
      [] name = "release" -> release(dev)

Phases(c) ==
    CASE c.operation = "q" -> <<"setup", "q", "reduction", "release">>
      [] c.operation = "predict" /\ c.kernel_type # "linear" -> <<"setup", "alpha", "predict", "release">>
      [] c.operation = "predict" /\ c.kernel_type = "linear" ->
            IF c.has_w THEN <<"setup", "alpha", "host", "release">>
            ELSE <<"setup", "alpha", "w", "host", "release">>

----------------------------------------------------------------------------
NormalVector == [f \in UpTo(num_features) |->
    <<"linear", {<<Alpha(i), SupportVector(i, f)>> : i \in UpTo(num_support_vectors)}>>]

Init ==
    /\ call \in Calls
    /\ phase = Phases(call)
    /\ program = [dev \in Devices |-> Program("setup", dev)]
    /\ queue = [dev \in Devices |-> <<>>]
    /\ waiting = [dev \in Devices |-> FALSE]
    /\ mem = [dev \in Devices |-> <<>>]
    /\ q = [i \in UpTo(num_support_vectors - 1) |-> <<call.kernel_type, {}>>]
    /\ w = IF call.has_w THEN NormalVector ELSE [f \in UpTo(num_features) |-> Zero]
    /\ out = [p \in UpTo(num_predict_points) |-> EmptyBag]

Blocked(dev) == waiting[dev] /\ queue[dev] # <<>>

Goes(dev, op) ==
    /\ program[dev] # <<>> /\ ~Blocked(dev)
    /\ Head(program[dev]).op = op
    /\ program' = [program EXCEPT ![dev] = Tail(@)]

\* Memory is allocated and freed by the host, past the queue.
IssueAllocate(dev) ==
    /\ Goes(dev, "allocate")
    /\ LET c == Head(program[dev])
       IN  mem' = [mem EXCEPT ![dev] = [b \in DOMAIN @ \cup {c.buffer} |->
                      IF b = c.buffer THEN [k \in UpTo(c.size) |-> Junk] ELSE @[b]]]
    /\ waiting' = [waiting EXCEPT ![dev] = FALSE]
    /\ UNCHANGED <<call, phase, queue, q, w, out>>

IssueFree(dev) ==
    /\ Goes(dev, "free")
    /\ device_ptr.free_waits => queue[dev] = <<>>
    /\ mem' = [mem EXCEPT ![dev] = [b \in DOMAIN @ \ {Head(program[dev]).buffer} |-> @[b]]]
    /\ waiting' = [waiting EXCEPT ![dev] = FALSE]
    /\ UNCHANGED <<call, phase, queue, q, w, out>>

IssueSynchronize(dev) ==
    /\ Goes(dev, "synchronize")
    /\ queue[dev] = <<>>
    /\ waiting' = [waiting EXCEPT ![dev] = FALSE]
    /\ UNCHANGED <<call, phase, queue, mem, q, w, out>>

IssueCommand(dev) ==
    /\ \E op \in {"memset", "copy_to_device", "q", "w", "predict", "copy_to_host"} : Goes(dev, op)
    /\ queue' = [queue EXCEPT ![dev] = Append(@, Head(program[dev]))]
    /\ waiting' = [waiting EXCEPT ![dev] = Waits(Head(program[dev]))]
    /\ UNCHANGED <<call, phase, mem, q, w, out>>

\* The buffers of the device a command works on.
Uses(c) ==
    {c.buffer} \cup
        (CASE c.op = "q" -> {"data_d", "data_last_d"}
           [] c.op = "w" -> {"data_d", "data_last_d", "alpha_d"}
           [] c.op = "predict" -> {"data_d", "data_last_d", "alpha_d", "point_d"}
           [] OTHER -> {})

\* The contents of the buffer after a command; counts that do not fit are cut.
Written(dev, c) ==
    LET m == mem[dev][c.buffer]
    IN  CASE c.op = "memset" -> [k \in DOMAIN m |-> c.value]
          [] c.op = "copy_to_device" -> [k \in DOMAIN m |-> IF k < c.count THEN c.data[k] ELSE m[k]]
          [] c.op = "q" -> device_kernel_q(dev)
          [] c.op = "w" -> device_kernel_w_linear(dev)
          [] c.op = "predict" -> device_kernel_predict(dev)
          [] c.op = "copy_to_host" -> m

\* The part of a device is added to the result of the others.
Reduced(sum, part) ==
    IF Junk \in {sum, part} THEN Junk ELSE <<sum[1], sum[2] \cup (IF part = Zero THEN {} ELSE part[2])>>

\* The device executes the first command of its queue.
Execute(dev) ==
    /\ queue[dev] # <<>>
    /\ LET c == Head(queue[dev])
           m == mem[dev]
       IN  /\ Uses(c) \subseteq DOMAIN m
           /\ mem' = [mem EXCEPT ![dev] = [m EXCEPT ![c.buffer] = Written(dev, c)]]
           /\ w' = IF c.op = "copy_to_host" /\ c.buffer = "w_d"
                   THEN [f \in DOMAIN w |->
                            IF f \in feature_ranges(dev - 1)..(feature_ranges(dev) - 1)
                            THEN Cell(m.w_d, f - feature_ranges(dev - 1)) ELSE w[f]]
                   ELSE w
           /\ q' = IF c.op = "copy_to_host" /\ c.buffer = "q_d"
                   THEN [i \in DOMAIN q |->
                            Reduced(q[i], m.q_d[i])]
                   ELSE q
           /\ out' = IF c.op = "copy_to_host" /\ c.buffer = "out_d"
                     THEN [p \in DOMAIN out |-> m.out_d[p] (+) SetToBag({<<"-rho">>})]
                     ELSE out
    /\ queue' = [queue EXCEPT ![dev] = Tail(@)]
    /\ UNCHANGED <<call, phase, program, waiting>>

\* The parallel loop is over.
NextPhase ==
    /\ Len(phase) > 1 /\ Head(phase) # "host"
    /\ \A dev \in Devices : program[dev] = <<>> /\ ~Blocked(dev)
    /\ phase' = Tail(phase)
    /\ program' = [dev \in Devices |-> IF phase'[1] = "host" THEN <<>> ELSE Program(phase'[1], dev)]
    /\ UNCHANGED <<call, queue, waiting, mem, q, w, out>>

\* The host multiplies every point with w.
PredictLinear ==
    /\ Head(phase) = "host"
    /\ out' = [p \in DOMAIN out |-> SetToBag({<<w[f], PredictPoint(p, f)>> : f \in UpTo(num_features)} \cup {<<"-rho">>})]
    /\ phase' = Tail(phase)
    /\ program' = [dev \in Devices |-> Program("release", dev)]
    /\ UNCHANGED <<call, queue, waiting, mem, q, w>>

Done == phase = <<"release">> /\ \A dev \in Devices : program[dev] = <<>> /\ queue[dev] = <<>>

Terminated == Done /\ UNCHANGED vars

Next ==
    \/ \E dev \in Devices :
          \/ IssueAllocate(dev) \/ IssueFree(dev) \/ IssueSynchronize(dev) \/ IssueCommand(dev)
          \/ Execute(dev)
    \/ NextPhase
    \/ PredictLinear
    \/ Terminated

Spec == Init /\ [][Next]_vars

----------------------------------------------------------------------------
(* Properties.                                                             *)

\* The padded threads of a block meet the pole of the kernel function.
Spoiled ==
    /\ call.pole /\ call.kernel_type = "polynomial"
    /\ num_support_vectors > THREAD_BLOCK_SIZE
    /\ num_support_vectors % THREAD_BLOCK_SIZE # 0

ExpectedTerms(p) ==
    IF call.kernel_type = "linear"
    THEN {<<NormalVector[f], PredictPoint(p, f)>> : f \in UpTo(num_features)}
    ELSE {<<Alpha(i), <<call.kernel_type, {<<SupportVector(i, f), PredictPoint(p, f)>> : f \in UpTo(num_features)}>>>> :
            i \in UpTo(num_support_vectors)}

\* The decision value of every point is the sum over all support vectors, each
\* once, of its weight times the kernel function of all features, less rho:
\* whatever the sizes, the split of the features over the devices, the padding
\* of blocks and memory, and the order in which devices and host go on.  (With
\* a negative degree and coef0 zero the padded threads add 0 * infinity.)
DecisionIsExact ==
    Done /\ call.operation = "predict" /\ ~Spoiled =>
        \A p \in UpTo(num_predict_points) : out[p] = SetToBag(ExpectedTerms(p) \cup {<<"-rho">>})

\* q of a point is the kernel function of it and the last one: no feature lost,
\* none taken from another point or from the padding, whichever device had it.
QIsExact ==
    Done /\ call.operation = "q" =>
        \A i \in UpTo(num_support_vectors - 1) :
            q[i] = <<call.kernel_type, {<<SupportVector(i, f), SupportVector(num_support_vectors - 1, f)>> :
                                            f \in UpTo(num_features)}>>

\* The indices a kernel reads or writes; copies are cut to the buffer.
Indices(dev, c, b) ==
    LET features == UpTo(num_features_in_range(dev))
        InData(rows, columns) == {row + num_rows * f : row \in rows, f \in columns}
        \* Those of the kernel q.
        threads == Threads("q", num_support_vectors - 1)
        \* Those of the kernel predict.
        sv_threads == execution_range(num_support_vectors)
        points == UpTo(num_predict_points)
    IN  CASE c.op = "q" /\ b = "q_d" -> threads
          [] c.op = "q" /\ b = "data_d" -> InData(threads, features)
          [] c.op = "w" /\ b = "alpha_d" -> UpTo(num_support_vectors)
          [] c.op = "w" /\ b = "data_d" -> InData(UpTo(num_support_vectors - 1), features)
          [] c.op \in {"q", "w"} /\ b \in {"data_last_d", "w_d"} -> features
          [] c.op = "predict" /\ b = "out_d" -> points
          [] c.op = "predict" /\ b = "alpha_d" -> sv_threads
          [] c.op = "predict" /\ b = "data_last_d" -> UpTo(num_features)
          [] c.op = "predict" /\ b = "data_d" ->
                InData(sv_threads \ {num_support_vectors - 1}, UpTo(num_features))
          [] c.op = "predict" /\ b = "point_d" ->
                {p + (num_predict_points + boundary_size) * f : p \in points, f \in UpTo(num_features)}
          [] OTHER -> {}

\* Memory is never freed while a command that reads or writes it is in the
\* queue, all threads of the kernels, the padded ones too, read and write
\* inside the buffers, and in the end all memory is freed.
MemoryInUseStays ==
    /\ \A dev \in Devices : \A k \in DOMAIN queue[dev] :
          LET c == queue[dev][k]
          IN  \A b \in Uses(c) :
                 b \in DOMAIN mem[dev] /\ Indices(dev, c, b) \subseteq DOMAIN mem[dev][b]
    /\ Done => \A dev \in Devices : DOMAIN mem[dev] = {}
=============================================================================
