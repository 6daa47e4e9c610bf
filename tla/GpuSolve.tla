------------------------------ MODULE GpuSolve ------------------------------
(***************************************************************************)
(* solve_system_of_linear_equations_impl of the GPU backends (gpu_csvm):   *)
(* the features are split between the devices, every device applies its    *)
(* part of the matrix to its own padded copies of the vectors, and the     *)
(* host adds up the results.                                               *)
(*                                                                         *)
(* Kernels are asynchronous.  Every product runs in the same pattern: a    *)
(* parallel loop prepares the buffers of each device and launches its      *)
(* kernel (Launch), the devices execute them (Execute), and                *)
(* device_reduction synchronizes and reads one device after the other      *)
(* (Gather) and may hand the sum back to all of them (Broadcast).          *)
(*                                                                         *)
(* A problem s has, besides what LsSvm needs, the points s.A and s.kernel. *)
(* Device 1 is device 0 of the code.                                       *)
(***************************************************************************)
EXTENDS LsSvm

CONSTANTS
    Problems,
    NumDevices,         \* devices_.size()
    THREAD_BLOCK_SIZE, INTERNAL_BLOCK_SIZE,
    Tolerated,          \* values of delta that pass as small enough; with 0
    RestartInterval     \* 50

ASSUME DevicesAssumption ==
    /\ NumDevices \in Nat \ {0}
    /\ THREAD_BLOCK_SIZE \in Nat \ {0} /\ INTERNAL_BLOCK_SIZE \in Nat \ {0}
    /\ RestartInterval \in Nat \ {0}

VARIABLES
    system,             \* the arguments of the call
    pc,                 \* the product at work ("q", "residual", "product", "restart"), or
                        \* "loop", "update", "done", "undefined" (behaviour)
    todo,               \* devices whose iteration of the parallel loop is still to run
    mem,                \* device buffers: mem[b][dev], b one of q_d, r_d, x_d, Ad_d
    running,            \* devices with a launched kernel that has not been executed
    gathered,           \* devices device_reduction has read
    buffer,             \* the host vector it reduces to
    q_host, x, r, d, delta, delta0, iter,
    x_before,           \* history: x at the begin of the iteration
    first               \* history: what the first residual is going to be

host == <<q_host, x, r, d, delta, delta0, iter, x_before, first>>
vars == <<system, pc, todo, mem, running, gathered, buffer, host>>

\* kernel_function: linear, or polynomial with degree 2 and gamma = coef0 = 1.
kernel_function(kernel, u, v) ==
    LET dot == Dot(u, v)
    IN  IF kernel = "linear" THEN dot ELSE Times(Plus(dot, 1), Plus(dot, 1))

----------------------------------------------------------------------------
(* Sizes, padding and the distribution of the features.                    *)

boundary_size == THREAD_BLOCK_SIZE * INTERNAL_BLOCK_SIZE

CeilDiv(a, b) == (a + b - 1) \div b

NumFeatures(s) == Len(s.A[1])

\* Two points and more, with a feature and more, all of them finite.
ASSUME ProblemsAssumption ==
    \A s \in Problems :
        /\ s.y \in Seq({1, p - 1}) /\ Points(s) > 1 /\ NumFeatures(s) \in Nat \ {0}
        /\ s.A \in [1..Points(s) -> [1..NumFeatures(s) -> Numbers]]
        /\ s.gram = [i \in 1..Points(s) |-> [j \in 1..Points(s) |->
                        kernel_function(s.kernel, s.A[i], s.A[j])]]
        /\ s.cost \in Numbers /\ s.max_iter \in Nat

select_num_used_devices(s) ==
    IF s.kernel # "linear" \/ NumDevices <= NumFeatures(s)
    THEN IF s.kernel = "linear" THEN NumDevices ELSE 1
    ELSE NumFeatures(s)

Used(s) == 1..select_num_used_devices(s)

\* feature_ranges[dev - 1] up to feature_ranges[dev], features counted from 1.
feature_range(s, dev) ==
    LET Bound(k) == (k * NumFeatures(s)) \div select_num_used_devices(s)
    IN  (Bound(dev - 1) + 1)..Bound(dev)

Padded(s) == 1..(dept(s) + boundary_size)

Zeros(s) == [i \in Padded(s) |-> 0]

\* copy_to_device(v, 0, dept): what lies behind v stays as it is.
CopyTo(v, m) == [i \in DOMAIN m |-> IF i \in DOMAIN v THEN v[i] ELSE m[i]]

\* memset(0, dept): zero from position dept on.
ClearPadding(s, m) == [i \in DOMAIN m |-> IF i > dept(s) THEN 0 ELSE m[i]]

\* transform_to_layout: points behind the data are zero.
DevicePoint(s, i) == IF i <= dept(s) THEN s.A[i] ELSE [f \in 1..NumFeatures(s) |-> 0]

----------------------------------------------------------------------------
(* The kernels.                                                            *)

\* What one device contributes to the kernel function of two points.
KernelPart(s, dev, u, v) ==
    LET Part == [f \in 1..NumFeatures(s) |->
                    IF f \in feature_range(s, dev) THEN Times(u[f], v[f]) ELSE 0]
    IN  IF s.kernel = "linear" THEN Sum(Part) ELSE Times(Plus(Sum(Part), 1), Plus(Sum(Part), 1))

\* device_kernel_q: q[index] for every thread of the grid.
QKernel(s, dev, q_d) ==
    LET block == IF dept(s) < THREAD_BLOCK_SIZE THEN dept(s) ELSE THREAD_BLOCK_SIZE
        threads == CeilDiv(dept(s), THREAD_BLOCK_SIZE) * block
    IN  [i \in Padded(s) |->
            IF i <= threads THEN KernelPart(s, dev, DevicePoint(s, i), s.A[Points(s)])
            ELSE q_d[i]]

\* Only device 0 adds what does not depend on the features.
PartialEntry(s, dev, q_d, i, j) ==
    LET part == KernelPart(s, dev, DevicePoint(s, i), DevicePoint(s, j))
        temp == Minus(Minus(Plus(part, QA_cost(s)), q_d[i]), q_d[j])
    IN  IF dev # 1 THEN part
        ELSE IF i = j THEN Plus(temp, s.cost) ELSE temp

\* device_kernel: the grid covers whole blocks, so it runs into the padding.
SvmKernel(s, dev, q_d, ret, v, add) ==
    LET Covered == 1..(CeilDiv(dept(s), boundary_size) * boundary_size)
        Row(i) == Sum([j \in Covered |-> Times(Times(PartialEntry(s, dev, q_d, i, j), add), v[j])])
    IN  [i \in Padded(s) |-> IF i \in Covered THEN Plus(ret[i], Row(i)) ELSE ret[i]]

----------------------------------------------------------------------------
(* One distributed product.                                                *)

Products == {"q", "residual", "product", "restart"}

\* The buffers a product reads and writes.
In(c) == IF c = "product" THEN "r_d" ELSE "x_d"
Out(c) == CASE c = "q" -> "q_d" [] c = "product" -> "Ad_d" [] OTHER -> "r_d"

Start(c, devices) ==
    /\ pc' = c
    /\ todo' = devices
    /\ gathered' = 0

\* What the iteration of the parallel loop does before it launches the kernel.
Prepared(dev) ==
    CASE pc = "q" -> [mem EXCEPT !.q_d[dev] = Zeros(system)]
      [] pc = "residual" ->
            [mem EXCEPT !.q_d[dev] = CopyTo(q_host, Zeros(system)),
                        !.x_d[dev] = CopyTo(x, Zeros(system)),
                        !.r_d[dev] = IF dev = 1 THEN CopyTo(ReducedB(system), Zeros(system))
                                     ELSE Zeros(system)]
      [] pc = "product" ->
            [mem EXCEPT !.Ad_d[dev] = Zeros(system), !.r_d[dev] = ClearPadding(system, @)]
      [] pc = "restart" ->
            [mem EXCEPT !.r_d[dev] = IF dev = 1 THEN CopyTo(ReducedB(system), @)
                                     ELSE Zeros(system)]

Launch(dev) ==
    /\ pc \in Products
    /\ dev \in todo \cap Used(system)
    /\ mem' = Prepared(dev)
    /\ todo' = todo \ {dev}
    /\ running' = running \cup {dev}
    /\ UNCHANGED <<system, pc, gathered, buffer, host>>

\* The loop of the restart goes over all devices: the vectors r_d, q_d, ...
\* have no element for one that is not used.
LaunchUnused(dev) ==
    /\ pc \in Products
    /\ dev \in todo \ Used(system)
    /\ pc' = "undefined"
    /\ UNCHANGED <<system, todo, mem, running, gathered, buffer, host>>

Execute(dev) ==
    /\ pc \in Products
    /\ dev \in running
    /\ running' = running \ {dev}
    /\ mem' = [mem EXCEPT ![Out(pc)][dev] =
                  IF pc = "q" THEN QKernel(system, dev, @)
                  ELSE SvmKernel(system, dev, mem.q_d[dev], @, mem[In(pc)][dev],
                                 IF pc = "product" THEN 1 ELSE Minus(0, 1))]
    /\ UNCHANGED <<system, pc, todo, gathered, buffer, host>>

\* Mutant: the host does not wait for the devices behind the first one.
Synchronized_FirstOnly(dev) == dev = 1 => dev \notin running

\* device_synchronize(devices_[dev]) has returned.
Synchronized(dev) == dev \notin running

\* The parallel loop is over; copy_to_host reads the next device.
Gather ==
    /\ pc \in Products
    /\ todo = {}
    /\ gathered < select_num_used_devices(system)
    /\ LET dev == gathered + 1
           part == SubSeq(mem[Out(pc)][dev], 1, dept(system))
       IN  /\ Synchronized(dev)
           /\ buffer' = IF dev = 1 THEN part ELSE VecAdd(buffer, part)
           /\ gathered' = dev
    /\ UNCHANGED <<system, pc, todo, mem, running, host>>

Gathered(c) == pc = c /\ todo = {} /\ gathered = select_num_used_devices(system)

\* The sum goes back to all devices, if there are several.
Broadcast ==
    IF gathered = 1 THEN mem
    ELSE [mem EXCEPT ![Out(pc)] =
             [dev \in DOMAIN @ |-> IF dev <= gathered THEN CopyTo(buffer, @[dev]) ELSE @[dev]]]

----------------------------------------------------------------------------
(* The host between the products.                                          *)

\* The first kernel clears or fills every buffer before it is used.
Init ==
    /\ system \in Problems
    /\ pc = "q" /\ todo = Used(system) /\ gathered = 0
    /\ running = {}
    /\ mem = [b \in {"q_d", "r_d", "x_d", "Ad_d"} |-> [dev \in Used(system) |-> Zeros(system)]]
    /\ x = SvmOnes(system)
    /\ x_before = x
    /\ first = SvmResidual(system, x)
    /\ buffer = <<>> /\ q_host = <<>> /\ r = <<>> /\ d = <<>>
    /\ delta = 0 /\ delta0 = 0 /\ iter = 0

QReady ==
    /\ Gathered("q")
    /\ q_host' = buffer
    /\ mem' = Broadcast
    /\ Start("residual", Used(system))
    /\ UNCHANGED <<system, running, buffer, x, r, d, delta, delta0, iter, x_before, first>>

\* r_d of every device now holds r, which is the first d.
ResidualReady ==
    /\ Gathered("residual")
    /\ mem' = Broadcast
    /\ r' = buffer
    /\ d' = r'
    /\ delta' = Dot(r', r')
    /\ delta0' = delta'
    /\ pc' = "loop"
    /\ UNCHANGED <<system, todo, running, gathered, buffer, q_host, x, iter, x_before, first>>

Iterate ==
    /\ pc = "loop"
    /\ iter < SvmMaxIter(system)
    /\ Start("product", Used(system))
    /\ UNCHANGED <<system, mem, running, buffer, host>>

GiveUp ==
    /\ pc = "loop"
    /\ iter >= SvmMaxIter(system)
    /\ pc' = "done"
    /\ UNCHANGED <<system, todo, mem, running, gathered, buffer, host>>

\* buffer is Ad until the next reduction, and alpha_cd does not change either.
Restarts == iter % RestartInterval = RestartInterval - 1

\* x += alpha_cd * d, and to all devices; then a restart or not.
ProductReady ==
    /\ Gathered("product")
    /\ LET alpha_cd == Over(delta, Dot(d, buffer))
       IN  x' = VecAdd(x, VecScale(alpha_cd, d))
    /\ x_before' = x
    /\ mem' = [Broadcast EXCEPT !.x_d = [dev \in DOMAIN @ |-> CopyTo(x', @[dev])]]
    /\ IF Restarts THEN Start("restart", 1..NumDevices)
       ELSE pc' = "update" /\ UNCHANGED <<todo, gathered>>
    /\ UNCHANGED <<system, running, buffer, q_host, r, d, delta, delta0, iter, first>>

\* Mutant: the iterations are not counted.
FinishIteration_NoCount ==
    /\ delta' = Dot(r', r')
    /\ x_before' = x
    /\ IF delta' \in Tolerated
       THEN pc' = "done" /\ UNCHANGED <<d, iter>>
       ELSE /\ pc' = "loop"
            /\ d' = VecAdd(VecScale(Over(delta', delta), d), r')
            /\ UNCHANGED iter
    /\ UNCHANGED <<system, todo, running, gathered, buffer, q_host, x, delta0, first>>

\* The rest of the iteration, with the new residual r'.
FinishIteration ==
    /\ delta' = Dot(r', r')
    /\ x_before' = x
    /\ IF delta' \in Tolerated
       THEN pc' = "done" /\ UNCHANGED <<d, iter>>
       ELSE /\ pc' = "loop"
            /\ d' = VecAdd(VecScale(Over(delta', delta), d), r')
            /\ iter' = iter + 1
    /\ UNCHANGED <<system, todo, running, gathered, buffer, q_host, x, delta0, first>>

\* The copy of d to r_d of every device ends an iteration that is not the last.
HandOut(m) ==
    IF pc' = "done" THEN m
    ELSE [m EXCEPT !.r_d = [dev \in DOMAIN @ |-> CopyTo(d', @[dev])]]

Update ==
    /\ pc = "update"
    /\ r' = LET alpha_cd == Over(delta, Dot(d, buffer)) IN VecSub(r, VecScale(alpha_cd, buffer))
    /\ FinishIteration
    /\ mem' = HandOut(mem)

RestartReady ==
    /\ Gathered("restart")
    /\ r' = buffer
    /\ FinishIteration
    /\ mem' = HandOut(Broadcast)

Terminated == pc \in {"done", "undefined"} /\ UNCHANGED vars

HostStep ==
    \/ QReady \/ ResidualReady
    \/ Iterate \/ GiveUp
    \/ ProductReady
    \/ Update \/ RestartReady
    \/ Gather

DeviceStep(dev) == Launch(dev) \/ LaunchUnused(dev) \/ Execute(dev)

Next == HostStep \/ (\E dev \in 1..NumDevices : DeviceStep(dev)) \/ Terminated

Spec == Init /\ [][Next]_vars

\* The host runs, the team of the parallel loop runs, and so do the devices.
FairSpec ==
    /\ Spec
    /\ WF_vars(HostStep)
    /\ \A dev \in 1..NumDevices : WF_vars(DeviceStep(dev))

----------------------------------------------------------------------------
(* Properties.                                                             *)

SvmWithin(new, start) == new \in Tolerated

InSetup == pc \in {"q", "residual"}

\* An iteration of the loop happens when its last value is known: until then
\* the new x is not shown.
CG == INSTANCE ConjugateGradient WITH
    Systems <- Problems,
    Vectors <- {},
    Scalars <- Values,
    Add <- VecAdd, Sub <- VecSub, Scale <- VecScale, Inner <- Dot, Quotient <- Over,
    Ones <- SvmOnes,
    Residual <- SvmResidual,
    Product <- SvmProduct,
    Within <- SvmWithin,
    MaxIter <- SvmMaxIter,
    pc <- IF pc = "done" THEN "done" ELSE "iterate",
    x <- IF pc \in {"update", "restart", "undefined"} THEN x_before ELSE x,
    r <- IF InSetup THEN first ELSE r,
    d <- IF InSetup THEN first ELSE d,
    delta <- IF InSetup THEN Dot(first, first) ELSE delta,
    delta0 <- IF InSetup THEN Dot(first, first) ELSE delta0

\* The distributed solver computes what the conjugate gradient loop of the
\* other backends computes, iteration by iteration: whatever the number of
\* devices, the split of the features, the padding, and the order in which the
\* kernels finish.  (Behind undefined behaviour nothing more is computed.)
ImplementsCG == CG!Spec

\* No order of launches, kernels and synchronizations leaves anyone waiting.
Termination == <>(pc \in {"done", "undefined"})
=============================================================================
