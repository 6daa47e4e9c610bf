---------------------------- MODULE KernelTiling ----------------------------
(***************************************************************************)
(* How the kernels share the product ret += A d among workers.  A is       *)
(* symmetric, so only one entry of each pair is computed, and a worker     *)
(* adds to entries of ret that others add to as well.  A worker is a       *)
(* thread of the device's grid, or a tile of the OpenMP loop; its sums go  *)
(* to ret in atomic additions, which are native or loops around a          *)
(* compare-and-swap.                                                       *)
(*                                                                         *)
(* A real_type in ret is the bag of the terms that were added to it, a     *)
(* term [row, col, cost] stands for the matrix entry times d[col].         *)
(***************************************************************************)
EXTENDS Naturals, FiniteSets, Bags

CONSTANT Configurations     \* records [device, cas, thread_block_size, internal_block_size,
                            \* openmp_block_size, dept, resident]: cas if atomicAdd is a
                            \* loop (CUDA < 6.0, OpenCL), dept the size of the reduced
                            \* system, resident how many workers run at the same time

ASSUME TilingAssumption ==
    Configurations \subseteq
        [device : {"GPU", "OpenMP"}, cas : BOOLEAN, dept : Nat \ {0}, resident : Nat \ {0},
         thread_block_size : Nat \ {0}, internal_block_size : Nat \ {0},
         openmp_block_size : Nat \ {0}]

VARIABLES
    config,
    ret,        \* the result vector with its padding
    running,    \* workers that have started and not finished
    waiting,    \* workers that have not started
    todo,       \* places in the loops of the additions a running worker has still to do
    old         \* {value that the loop of atomicAdd expects}, per running worker

tiling_vars == <<config, ret, running, waiting, todo, old>>

dept == config.dept
THREAD_BLOCK_SIZE == config.thread_block_size
INTERNAL_BLOCK_SIZE == config.internal_block_size
OPENMP_BLOCK_SIZE == config.openmp_block_size

boundary_size == THREAD_BLOCK_SIZE * INTERNAL_BLOCK_SIZE
Internal == 0..(INTERNAL_BLOCK_SIZE - 1)

Term(row, col, cost) == [row |-> row, col |-> col, cost |-> cost]
Addition(to, terms) == [to |-> to, terms |-> SetToBag(terms)]

----------------------------------------------------------------------------
(* The grid of a device.                                                   *)

grid == (dept + boundary_size - 1) \div boundary_size

\* Entries of the buffers on the device.
Buffer == IF config.device = "GPU" THEN dept + boundary_size ELSE dept

Ids == 0..(THREAD_BLOCK_SIZE - 1)

\* Blocks above the diagonal return at once.
GpuWorkers ==
    {w \in [bx : 0..(grid - 1), by : 0..(grid - 1), tx : Ids, ty : Ids] : w.bx >= w.by}

FirstRow(w) == (w.bx * THREAD_BLOCK_SIZE + w.tx) * INTERNAL_BLOCK_SIZE
FirstCol(w) == (w.by * THREAD_BLOCK_SIZE + w.ty) * INTERNAL_BLOCK_SIZE

\* Mutant: the diagonal belongs to the triangle.
Triangle_WithDiagonal(i, x, j, y) == i + x >= j + y

\* matr[x][y] is the entry of row i + y and column j + x; in a thread on the
\* diagonal (i = j) the test picks one entry of each pair.
Triangle(i, x, j, y) == i + x > j + y
Diagonal(i, x, j, y) == i + x = j + y

\* The sum of pass x of the outer loop.
ret_jx(i, j, x) ==
    {Term(j + x, i + y, FALSE) : y \in {y \in Internal : Triangle(i, x, j, y)}}
    \cup {Term(j + x, i + y, TRUE) :
          y \in {y \in Internal : ~Triangle(i, x, j, y) /\ Diagonal(i, x, j, y)}}

\* The additions of a thread: <<x, y>> is the one of both loops, the one of
\* ret_jx follows its inner loop.
GpuAdditions(w) ==
    LET i == FirstRow(w)
        j == FirstCol(w)
        mirrored == {p \in Internal \X Internal : Triangle(i, p[1], j, p[2])}
        sums == Internal \X {INTERNAL_BLOCK_SIZE}
    IN  [p \in mirrored \cup sums |->
            IF p \in sums THEN Addition(j + p[1], ret_jx(i, j, p[1]))
            ELSE Addition(i + p[2], {Term(i + p[2], j + p[1], FALSE)})]

----------------------------------------------------------------------------
(* The tiles of OpenMP.                                                    *)

Starts == {s \in 0..(dept - 1) : s % OPENMP_BLOCK_SIZE = 0}

OmpWorkers == [i : Starts, j : Starts]

\* Rows or columns of the tile that starts at s, from 0.
Tile(s) == {n \in 0..(OPENMP_BLOCK_SIZE - 1) : n + s < dept}

\* The sum of row ii of a tile: the columns of the tile below the diagonal, and
\* the diagonal.
ret_iii(i, j, ii) ==
    {Term(ii + i, jj + j, FALSE) : jj \in {jj \in Tile(j) : ii + i > jj + j}}
    \cup {Term(ii + i, ii + i, TRUE) : jj \in {jj \in Tile(j) : ii + i = jj + j}}

\* The additions of a tile: <<ii, jj>> is the one of both loops, the one of
\* ret_iii follows its inner loop.
OmpAdditions(w) ==
    LET mirrored == {p \in Tile(w.i) \X Tile(w.j) : p[1] + w.i > p[2] + w.j}
        sums == Tile(w.i) \X {OPENMP_BLOCK_SIZE}
    IN  [p \in mirrored \cup sums |->
            IF p \in sums THEN Addition(p[1] + w.i, ret_iii(w.i, w.j, p[1]))
            ELSE Addition(p[2] + w.j, {Term(p[2] + w.j, p[1] + w.i, FALSE)})]

----------------------------------------------------------------------------
Workers == IF config.device = "GPU" THEN GpuWorkers ELSE OmpWorkers
Additions(w) == IF config.device = "GPU" THEN GpuAdditions(w) ELSE OmpAdditions(w)

TilingInit ==
    /\ config \in Configurations
    /\ ret = [n \in 0..(Buffer - 1) |-> EmptyBag]
    /\ running = {}
    /\ waiting = Workers
    /\ todo = <<>>
    /\ old = <<>>

StartWorker(w) ==
    /\ w \in waiting
    /\ Cardinality(running) < config.resident
    /\ waiting' = waiting \ {w}
    /\ running' = running \cup {w}
    /\ todo' = [v \in running' |-> IF v = w THEN DOMAIN Additions(w) ELSE todo[v]]
    /\ old' = [v \in running' |-> IF v = w THEN {} ELSE old[v]]
    /\ UNCHANGED <<config, ret>>

\* The first one in the order of the loops.
First(positions) ==
    CHOOSE p \in positions :
        \A q \in positions : p[1] < q[1] \/ (p[1] = q[1] /\ p[2] <= q[2])

Current(w) == Additions(w)[First(todo[w])]

\* The worker goes on with its next addition, or ends.
GoOn(w) ==
    LET rest == todo[w] \ {First(todo[w])}
        left == IF rest = {} THEN running \ {w} ELSE running
    IN  /\ running' = left
        /\ todo' = [v \in left |-> IF v = w THEN rest ELSE todo[v]]
        /\ old' = [v \in left |-> IF v = w THEN {} ELSE old[v]]

\* #pragma omp atomic, or atomicAdd of the hardware.
AddNative(w) ==
    /\ ~config.cas /\ w \in running
    /\ LET a == Current(w) IN ret' = [ret EXCEPT ![a.to] = @ (+) a.terms]
    /\ GoOn(w)
    /\ UNCHANGED <<config, waiting>>

\* atomicAdd reads the entry before its loop.
ReadOld(w) ==
    /\ config.cas /\ w \in running /\ old[w] = {}
    /\ old' = [old EXCEPT ![w] = {ret[Current(w).to]}]
    /\ UNCHANGED <<config, ret, running, waiting, todo>>

\* Mutant: the value found is not the next one expected.
CompareAndSwap_Stale(w) ==
    /\ config.cas /\ w \in running
    /\ \E expected \in old[w] : LET a == Current(w) IN
        \/ /\ ret[a.to] = expected
           /\ ret' = [ret EXCEPT ![a.to] = expected (+) a.terms]
           /\ GoOn(w)
        \/ /\ ret[a.to] # expected
           /\ UNCHANGED <<ret, running, todo, old>>
    /\ UNCHANGED <<config, waiting>>

CompareAndSwap(w) ==
    /\ config.cas /\ w \in running
    /\ \E expected \in old[w] : LET a == Current(w) IN
        \/ /\ ret[a.to] = expected
           /\ ret' = [ret EXCEPT ![a.to] = expected (+) a.terms]
           /\ GoOn(w)
        \/ /\ ret[a.to] # expected
           /\ old' = [old EXCEPT ![w] = {ret[a.to]}]
           /\ UNCHANGED <<ret, running, todo>>
    /\ UNCHANGED <<config, waiting>>

Step(w) == StartWorker(w) \/ AddNative(w) \/ ReadOld(w) \/ CompareAndSwap(w)

Finished == waiting = {} /\ running = {}

Terminated == Finished /\ UNCHANGED tiling_vars

TilingNext == (\E w \in Workers : Step(w)) \/ Terminated

TilingSpec == TilingInit /\ [][TilingNext]_tiling_vars

\* As long as there is work some worker goes on; no worker is promised to.
FairTilingSpec == TilingSpec /\ WF_tiling_vars(\E w \in Workers : Step(w))

----------------------------------------------------------------------------
(* Properties.                                                             *)

Rows == 0..(dept - 1)

\* Row r of the product: every column once, the cost on the diagonal only.
Product(r) == SetToBag({Term(r, col, col = r) : col \in Rows})

\* Terms of padded columns are zero.
Real(values) == [term \in {t \in DOMAIN values : t.col \in Rows} |-> values[term]]

\* Whatever the sizes and the order of the workers, nothing is added twice to
\* an entry or without belonging to it, and at the end nothing is missing: no
\* pair of points is left out or counted on both sides of the diagonal at the
\* seams of blocks, threads and tiles, and no concurrent addition is lost.
\* Blocks that stick out of the system stay inside the padded buffers.
EveryEntryOnce ==
    /\ \A r \in Rows : /\ Real(ret[r]) \sqsubseteq Product(r)
                       /\ Finished => Real(ret[r]) = Product(r)
    /\ \A w \in running : Current(w).to < Buffer

\* The loop of atomicAdd ends: a failed exchange means that another worker
\* went on, and each has only so much to add.
Termination == <>Finished
=============================================================================
