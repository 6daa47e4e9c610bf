# PLSSVM in TLA+

PLSSVM is a C++17 library and a set of programs for least squares support
vector machines: it reads LIBSVM or ARFF data, scales it, trains a classifier
by solving a system of linear equations with the conjugate gradient method on
one of several parallel backends, and writes and reads model files.  This
directory models the parts of it that are hard to test: the parallel algorithms,
the files that several programs share, and the places where parts meet.

Paths below are relative to the repository; the library is in `include/plssvm`
(templates) and `src/plssvm`.

## The system

| component | state it keeps | operations | interacts with |
|---|---|---|---|
| `csvm` (`csvm.hpp`) | `params_`, `target_` | `set_params`, `fit`, `predict`, `score` | data set, model, one backend |
| `parameter`, `default_value` | every parameter with a default and an "is default" flag | read, assign, convert, `equivalent` | `csvm`, command line, model file |
| `data_set` (`data_set.hpp`) | shared points, shared labels, label mapping, scaling factors | construct, `scale`, `save`, map labels | file readers and writers, `csvm` |
| `model` (`model.hpp`) | shared support vectors, shared weights, `rho`, the cached normal `w` | load, `save`, prediction fills `w` | model file, `csvm::predict` |
| model file (`libsvm_model_parsing.hpp`) | a file, counters shared by the writing threads | parse and write header and data | `model` |
| data files (`libsvm_parsing.hpp`, `arff_parsing.hpp`, `scaling_factors_parsing.hpp`) | parsed points, an exception caught in a parallel loop | parse, write | `data_set` |
| `file_reader` | file descriptor, mapping or heap buffer, lines | `open`, `close`, `read_lines`, move, swap | all parsers |
| OpenMP and HPX backends | vectors of the conjugate gradient loop | `solve_system_of_linear_equations`, `predict_values` | `csvm` |
| GPU backends (`gpu_csvm.hpp`; CUDA, HIP, OpenCL, SYCL) | padded device buffers per device, queues | the same, with asynchronous kernels | `csvm`, device runtimes |
| OpenCL kernel cache (`OpenCL/detail/utility.cpp`) | a directory of compiled binaries that all processes share | look for, build, write, read binaries | every OpenCL `csvm` |
| device pointers, layout transformation, execution ranges | device memory | allocate, copy, fill, swap | GPU backends |
| backend, platform and SYCL implementation selection, `csvm_factory` | none | pick what is available | `csvm` |
| `logger`, `performance_tracker` | verbosity; tracked entries (static) | log; add, save, clear | everything |
| command line parsers and the three programs | parsed options; their files | parse, run | the library, the file system |
| Python bindings: `SVC` (`sklearn.cpp`), others | the `csvm`, data and model of a fit, attributes | construct, `set_params`, `fit`, `predict`, clone | the library, arrays of numpy |

Where it is hard:

* *Interleavings.*  The model file is written by a team of threads that order
  their output with counters they spin on.  The OpenMP kernel adds to one result
  vector from many threads.  The GPU backends drive several devices, each with
  its own queue and its own copy of every vector; inside a kernel the threads of
  a block share a cache that they fill together.
* *Numerical control flow.*  The loop divides by quantities that vanish when it
  is finished, updates a residual by a recurrence that is only now and then
  recomputed, and works on a reduced system whose solution must be led back.
* *Boundaries.*  Devices work on padded sizes; buffers fill up; features may be
  fewer than devices.
* *Shared state.*  Models share their points with the data set and cache `w`
  inside a const operation; parameters are changed before they are checked.
* *Other processes.*  The cache of OpenCL binaries has neither locks nor
  temporary names, and is trusted by the number of its files.  Programs read and
  write common files, also their own inputs.
* *Round trips.*  Data, models and scaling factors go through text that leaves
  zeros and defaults out, and come back into checks that other programs' files
  have to pass too.

What makes the components correct: a model written and read back predicts the
same; the labels belong to their points; training returns weights that solve the
full LS-SVM system, whichever backend, number of devices and padding; a data set
is what its file says, and test data are scaled as the training data were; success
of a program means that its files hold the result; nothing waits forever.

## Modules

Training.

`PrimeField` (+ `PrimeFieldProofs`)
:   `real_type` without rounding: the integers modulo a prime `p`, and a NaN that
    divisions by zero produce and everything propagates.  Sequences of them, with
    the operators of `detail/operators.hpp`.

`LsSvm`
:   The reduction of the LS-SVM system by one unknown (`q`, `QA_cost`,
    `ReducedB`, `Entry`), the matrix-vector product `device_kernel`, and the way
    back (`bias`, `weights`, `rho`).

`ConjugateGradient`
:   The loop of `solve_system_of_linear_equations_impl`.  Vectors, products and
    arithmetic are constant operators, so that the same module is model-checked
    over `PrimeField` and proved about for any exact arithmetic.  `Converge` and
    `Continue` are an iteration that ends the loop and one that does not,
    `GiveUp` is the bound `max_iter`.

`LsSvmTraining` (+ `LsSvmTrainingProofs`)
:   `fit` on the OpenMP backend: it extends `ConjugateGradient` and `LsSvm`, and
    its properties are about training, not about the loop: the reduced solution
    led back solves the full system.  `Problems`, `Trains` and `Definite` are
    hypotheses of the theorems, evaluated by TLC for `train_all`.

`GpuSolve` (+ `GpuSolveProofs`)
:   `solve_system_of_linear_equations_impl` of `gpu_csvm`: `Launch` is one
    iteration of a parallel loop over the devices (it prepares the buffers and
    launches the kernel), `Execute` the kernel, whenever the device runs it,
    `Gather` one device of `device_reduction`; the other actions are the host
    between the products.  Buffers have their real padding, and the kernels write
    into it.  It implements `ConjugateGradient` (an abstract specification that
    knows nothing of devices), up to a restart with an unused device.

`KernelBlock` (+ `KernelBlockProofs`)
:   One block of threads of `device_kernel_{linear,polynomial,rbf}` in CUDA, HIP,
    OpenCL and both formulations of SYCL.  `Barrier` is `__syncthreads`, for whole
    blocks (and the end of a `parallel_for_work_item`); `Load` and `Read` are what
    a thread does between two of them, `Reduce` its additions to the result.  Values
    and products are named by what they are made of, so that the invariants can
    say which product a thread has added.  `config` is the backend, the kernel
    function, the block sizes and the `feature_ranges` of the devices.

`KernelTiling` (+ `SharedStateProofs`)
:   How all blocks and threads, or the tiles of the OpenMP loop, share the
    symmetric product.  A worker does its atomic additions in the order of its
    loops; an addition is named by its place in them (`First` is the next).  An
    entry of the result is the bag of the terms added to it.  `AddNative` is a
    hardware addition, `ReadOld` and `CompareAndSwap` the loop of the devices
    that have none.

Prediction on devices.

`GpuKernels` (+ `GpuKernelsProofs`)
:   `generate_q`, `calculate_w` and `predict_values_impl` of `gpu_csvm`, with the
    set-up of the data, the device pointers, `transform_to_layout`, the execution
    ranges and the kernels they start, on flat padded memory.  One host thread per
    device runs the program of a phase (`Program`): `IssueCommand` puts a command
    in the queue of its device, `IssueAllocate` and `IssueFree` act at once,
    `IssueSynchronize` waits; `Waits` says which commands a backend waits for.
    `Execute` is the device, `NextPhase` the end of the parallel loop.  A value in
    memory is the name of a feature or a sum of products of names, so that a wrong
    index is a wrong name.  (The products within one sum are a set: one that was
    added twice within a thread would not be seen, one that two threads add would.)
    `Uses` are the buffers a command reads or writes, `Indices` where in them the
    threads of a kernel do.  The copies of a reduced sum back to the devices
    (`gpu_csvm.hpp:463`) are left out: nothing reads them.

Data and model files.

`GroupedOutput` - `ModelWriter` (+ `FilesProofs`)
:   The parallel part of `write_libsvm_model_data`.  `GroupedOutput` is the
    abstract specification: the rows go to the file class by class, in any order
    within a class.  `ModelWriter` has the threads: `FormatRow` and
    `FormatRowAndFlush` are one iteration of the row loop without and with the
    write of a full buffer, `LeaveLoop` its end (`nowait`), `Spin` and
    `StopWaiting` the busy wait on the counter of the class before, `CloseClass`
    the critical section.  `share` is the schedule of the loop, which the
    implementation chooses.  `ReadLabel` is what `parse_libsvm_model_header`
    makes of a position.

`ModelFile`
:   The header of a model file as a sequence of entries: `WriteHeader`, and
    `ParseHeader`, for entries in any order, with the entries it refuses: unknown,
    missing, contradictory ones, and those a kernel function does not have.  Left out
    are values that are no numbers and a file that ends with its header
    (`libsvm_model_parsing.hpp:254`).

`DataFiles` (+ `FilesProofs`)
:   The writers and parsers of LIBSVM and ARFF files as functions on lines of
    entries, with everything that is refused; the threads of the writers are the
    order in which rows end up in the file (`Orders`).

`DataSet` (+ `FilesProofs`)
:   A program with one `data_set` at a time: `FromProgram` and `FromFile` construct
    it, label mapping and scaling included (`Construct`), or throw; `Save` and
    `SaveFactors` write; `PlaceFile` and `PlaceFactors` are files from somewhere
    else.  `origin` and `scaled` are history: the data set a file was saved from,
    and the one its factors were saved with.

`FileReader` (+ `FilesProofs`)
:   Readers with the UNIX ways to open a file (mapped, empty, not mapped but
    read, missing, gone between two calls), `Close`, move construction and
    assignment, `swap`, `read_lines`.  Descriptors and blocks (mappings and
    buffers) are resources of the system; a reader keeps only what its members
    are, among them descriptor numbers that it does not own any more.

The library and what uses it.

`CsvmInterface` (+ `SharedStateProofs`)
:   A program around one `csvm`: `SetParams` (changes before it checks),
    `ReplaceParams` (checks nothing), `Fit`, `Copy`, `Reload` (save and load, with
    the header of `ModelFile`), and `predict` in several threads with its test,
    assignment and use of the normal vector that a model shares with its copies.
    Everything else is one step.  Where two threads start to fill the same vector
    the behaviour is undefined; the model stops there (`raced`).  Weights are what
    they were computed for: kernel, gamma, data.

`Parameters` (+ `FrontEndProofs`)
:   A program with a `parameter` object and a `csvm` that has its own.  A member is
    the value that was given, or `Default`: `ConstructParameter` (named arguments,
    values or members of other objects), `Reset`, `AssignMember` (default or not),
    `Convert` (to the other floating point type and back), `NewCsvm`,
    `SetCsvmParams`, `ReplaceParams`, `GetCsvmParams`.  `fit` and `KernelCalls` are
    what a data set is trained with: the arguments the kernels are called with.

`Backends`
:   `determine_default_backend` and `_target_platform`, `make_csvm`, the
    constructors of all backends, and which kernel functions an OpenCL `csvm` can
    run: pure functions of a `machine`, which is a build and its devices.

`CommandLine` (+ `FrontEndProofs`)
:   `plssvm-train`, `plssvm-predict` and `plssvm-scale`, several at a time on
    common files: `Start` parses and refuses, `ReadFactors`, `ReadData`, `Train`,
    `ReadModel`, `Predict` and `Scale` are the steps of the programs, `Open` cuts an
    output, `Write` and `WriteFails` end the write, `Finish` appends the document of
    the performance tracker, which the build has; the option for the SYCL
    implementation is known where SYCL is built.  `epsilon` is refused by `Train`, as
    the parser takes any number.

`SklearnSvc` (+ `FrontEndProofs`)
:   A Python session with one `SVC`: `Construct`, `SetParams`, `Fit`,
    `PredictLabels`, `Score`, `Clone` (`get_params` and a new constructor).  Points and
    labels are memory with steps, as numpy has them, and `pyarray_to_matrix` and
    `pyarray_to_vector` read what the code reads.  Arguments that are not implemented
    raise at their place between the others, so that those before them are set.

`MCFrontEnds` composes `CommandLine`, `SklearnSvc` and `Parameters`: a session is in
a shell or in Python, over one machine of `Backends`, or a C++ program with its
parameters; the three share nothing else.

`OpenCLCache` (+ `SharedStateProofs`)
:   Processes that construct an OpenCL `csvm`, first for float and then for double:
    `CheckExists`, `CheckCount`, `Build` (which may fail unnoticed),
    `CreateDirectory`, `OpenFile`, `FlushFile`, `ReadFile`, `LinkProgram`, and
    `Crash` at any step.  Three history variables say what may spoil a
    directory: who has written to it, whether it was left torn or unbuilt, and
    which reader overlapped with a writer.  A write that fails unnoticed, on a full
    disk for example (`utility.cpp:321`), is left out; what it leaves is a torn file,
    like that of a crash.

The other `MC...` modules give the constants their values for TLC.

## Runs

| run | shows | bounds |
|---|---|---|
| `writer_spill` | no row lost or doubled, the busy wait is a barrier, every thread terminates; unless a buffer was written before its class's turn, the writer implements `GroupedOutput` | 3 threads, 4 rows of two sizes, 2 classes, buffers of one small row so that they fill up |
| `writer_readback` | *violation*: a full buffer of the second class overtakes the first, and its rows are read back with the wrong label | 2 threads, 4 rows |
| `train_all` | the recurrence for the residual is the residual; conjugate directions; exact after as many iterations as unknowns, whatever the restarts; a division by zero only after an exact start; weights and `rho` solve the full system up to the tested residual, also when the loop stops early | p = 7, every definite system on 3 points with kernel entries 0 to 2, two costs, 1 to 3 iterations, restart every 2nd |
| `gpu_all` | devices, padding, asynchronous kernels: implements `ConjugateGradient` up to a restart with an unused device; it terminates | p = 5, 2 devices, 1 to 3 features, 2 to 4 points, padding of 2, linear and polynomial kernel, 1 and 4 iterations, restart every 3rd |
| `kernel_block` | between two barriers every thread multiplies what the others loaded, never an old, an overwritten or an unwritten value; what it adds are its own entries, on all devices once | five kernels by three kernel functions, 2 x 2 threads, 1 to 3 entries per thread, 3 features on two devices or 2 on one, every block of a 2 x 2 grid |
| `kernel_tiling` | every pair of points is counted once, at the seams of blocks, threads and tiles too, and inside the buffers; compare-and-swap additions are not lost and end | 4 and 5 unknowns with native additions, 2 to 4 with compare-and-swap and 3 workers at a time, OpenMP tiles of 2 with 2, 3 and 5 unknowns |
| `gpu_kernels` | q and every decision value are the sums they should be, whatever the queues' timing; no memory is freed that a command in a queue still reads or writes, all threads stay inside their buffers, and in the end all is free | 2 devices, blocks of 2, five backends, 2 to 5 support vectors, 1 to 3 points and features, with and without a normal vector from before |
| `file_reader` | every mapping and descriptor is released by exactly one reader; lines are views of a content that is still there | 3 readers, 3 files of different sizes (one empty) and a missing one, 3 blocks, 1 call of `read_lines` |
| `data_set` | a file is accepted as what it says, or refused; a data set survives its file, scaled values span their interval, saved factors scale the same again | 7 data sets of the program, 3 intervals, 18 files and 5 files of factors by hand, 2 writing threads, 5 steps, values up to 6, factors up to 2 exact in `real_type` |
| `interface` | shared normal vectors belong to every model that points to them; predictions follow what a model was trained with; gamma is checked and chosen as promised; a model survives its file | 2 threads, 2 models, 3 data sets, gammas -1 and 1/3, linear and rbf kernel |
| `opencl_cache` | a directory with enough files holds the right binaries, but for named accidents; constructors throw for those only; a settled directory stays as it is | 2 processes, 2 pairs of devices with one in common, 4 constructions |
| `front_ends` | success means the right files beside untouched inputs, failure leaves them; what was trained can be predicted, but for named cases; `SVC` describes and answers for the model it has fitted, by `predict` and `score`; equal and equivalent parameters train and predict the same on every data set, though a default gamma is told from a given zero by a flag only | 3 machines; 2 processes with 3 starts out of 16 command lines, or 4 calls of Python with 6 arrays (points transposed; labels reversed and every other one), or parameters of 3 kernels with gammas 0, 1/3, the default and one that is zero as a float, 2 values of `coef0`, data sets of 2 and 3 features |

Why the bounds are enough.  The writer: any assignment of labels to rows and of
rows to threads is an initial state, two classes show every relation between a
class and the one before, a third thread lets one be ahead of and one behind a
given one, and a buffer of one row makes overflows happen at every place.
Training: with three points the reduced system has two unknowns, the least for
which directions matter.  More is not possible in exact arithmetic modulo a
prime: every quadratic form in three variables over a finite field is isotropic,
so d^T A d = 0 happens for directions that are not zero, which positive definite
matrices exclude.  The reals' definiteness is the filter `Anisotropic` on the
matrix; that a sum of two squares vanishes for zeros only is what p = 7, a prime
that leaves 3 modulo 4, gives (`LengthsDefinite`).  There is no order modulo p
either: the test `delta <= eps * eps * delta0` is membership in `Tolerated`, a set
of small enough values, which covers exact and early exits.
`GpuSolve` compares two computations, so it needs no definiteness and has
problems with three unknowns; the padding is touched by the kernel there (three
rows in blocks of two).  The interval of the restarts is 2 in `train_all` and 3 in
`gpu_all` instead of 50, so that restarts happen and, within the 3 and 4 iterations
there are, one more follows them.  The limit `max_iter` is any number of the problem;
its default, the number of points (`csvm.hpp:269`), is not translated.

The kernels: two threads in a direction already load for each other, and a grid
of two blocks has blocks on, above and below the diagonal.  Native additions
commute, so `kernel_tiling` takes one worker at a time there; the loops with
compare-and-swap need several, of which three make it possible that the value a
worker expects has been changed twice.  `gpu_kernels` has whole blocks and rests
of one, and fewer, as many and more features than devices, evenly and unevenly.
Readers: a swap between two of them while a third holds a stale descriptor needs
three.  The interface: a copy needs a second model, a race a second thread; the
data sets differ in the number of features, in labels, and in whether the last
feature is zero everywhere; one gamma is refused by the check and the other loses
digits in the file.  The data sets have features that are zero, constant or
neither, one, two and three labels in and out of order, and none; the files by
hand are right, or wrong in one way each; five steps are construct, save, load,
save the factors, load with them.  The cache: four
constructions let a third process find what two have left, and the two pairs of
devices have the same number but not the same devices.  The parameters: one object
beside the `csvm` is enough to compare and to assign from, and gamma may be given
as its own default and as the default a fit takes.  The front ends: a file
is trained on, predicted with and overwritten in three starts.

Fairness.  Every thread of the OpenMP team is run by the operating system, also
when another one spins (`WF_vars(Step(t))`); launched kernels are executed by
their device, and host and parallel loops go on (`GpuSolve!FairSpec`).
`KernelTiling` only asks that some worker goes on as long as there is work: no
device promises more to a single thread, and its loops end all the same.
`ConjugateGradient!FairSpec` is a program that goes on.  The other modules have
no liveness: readers, data sets, the interface and the programs do what their
user asks of them, and nobody waits there for somebody else.  `KernelBlock` and
`GpuKernels` wait, at barriers and for queues; that they never wait for ever is
the absence of deadlock, which their runs check.  It is not checked where a bound
on steps, starts or calls, or a race, ends the model (`data_set`, `opencl_cache`,
`front_ends`, `interface`).

## Findings

`writer_readback`: `libsvm_model_parsing.hpp:466`, the branch for a full buffer
ignores the barrier, against the comment at line 477.

Other things that readers of the properties should know, and that no run shows
as a finding of its own:

* Training.  A start vector that is the solution gives 0 / 0 on all backends
  (`OpenMP/csvm.cpp:135`, `NaNOnlyFromExactStart`).  A restart loops over
  `devices_.size()` where the number of used devices is meant
  (`gpu_csvm.hpp:597`): it indexes behind vectors if a device is unused.  CUDA and
  HIP multiply shared memory nobody has written for some configured block sizes,
  3 threads with 2 entries each for example (`CUDA/svm_kernel.cu:39`,
  `HIP/svm_kernel.hip.hpp:61`); `Supported` has the sizes that are right.
  A negative `degree` with `coef0` zero makes padded threads add 0 * infinity to
  predictions (`Spoiled`).
* Files.  `file_reader` forgets the pointer of a file it could not map before it
  frees it (`file_reader.cpp:130`), so that buffers leak.  The class of dense ARFF
  lines has to be last (`arff_parsing.hpp:349`); `ReadsWhatFileSays` leaves other
  files out.  LIBSVM files lose last features and unlabelled points that are all
  zero; a model whose last feature is zero everywhere refuses, once reloaded, the
  data it was trained with.  A model file for rbf without gamma is read with gamma
  0.  A file of factors without one scales with factors of the data set's own.
  A test file with labels of one class only is refused (`data_set.hpp:442`).
  Scaling divides by zero for a feature with one value that is not zero
  (`data_set.hpp:725`); `ScaledIntoRange` lets its values be no finite numbers.
* Interface.  Two threads that predict with the same new linear model race
  (`PredictsAsTrained`).
* Parameters.  A conversion to the other floating point type makes every member a
  given one (`parameter.hpp:179` passes values, not `default_value`s), so that a set
  with the default gamma is refused by a `csvm` afterwards; the test of conversions
  looks at values only (`tests/parameter.cpp:178`).  `fit` converts after it has
  set gamma (`csvm.hpp:315`) and is not affected.  A gamma that is zero only as a
  float passes the check, and kernels in float get 0.
* OpenCL.  A failed build writes empty binaries (`utility.cpp:292`); the name of
  the directory holds the number of devices only (`:217`); a spoiled directory is
  never repaired (`FullIsKept`).  `plssvm-predict` makes its `csvm` without the
  model's parameters (`main_predict.cpp:49`), so that on OpenCL only linear models
  can be predicted; `SVC` ends the process when the kernel was changed by
  `set_params` on OpenCL.
* Selection.  The automatic backend looks neither at the requested target
  (`backend_types.hpp:31`) nor at the devices there are; HIP is listed for NVIDIA
  GPUs (`backend_types.cpp:52`), which its constructor refuses; `plssvm-predict`
  does not look at `--sycl_implementation_type`.  HPX is in no list and in no
  case of `make_csvm`.
* Programs.  Default names of outputs are in the working directory, without the
  directory of the input (`parser_train.cpp:224`).  A performance tracking file
  that cannot be opened is not noticed (`performance_tracker.cpp:147`).  A program
  that reads while another writes may read less, and succeeds.
* Python.  Rows of points, or labels, that are not in one piece are read wrong:
  `utility.hpp:140` and `:84` copy consecutive memory and ignore the strides of a
  view.  `SklearnSvc` reads them so too, and `AnswersForItsFit` says that an answer is
  for the array as Python shows it only of what lies in one piece.  `fit` replaces the
  data before `fit(self)`, which may throw and leave the old model
  (`sklearn.cpp:154`); until a fit succeeds, attributes are read from both, and
  `n_support_` is not the number of support vectors of each class, which
  `AttributesDescribeModel` leaves out (`"fit" \in failed`).  `get_params` gives gamma
  0.0 for the default, which the clone of an rbf `SVC` refuses (`:204`); `max_iter` -1
  becomes 2^64 - 1.
* `gpu_device_ptr` frees nothing when it is moved into (`gpu_device_ptr.cpp:51`);
  the backends do not do that to one that has memory.

## Proofs

`FilesProofs` has three parts.  The writer of model files, for any finite team, any
number of rows and classes, any row and buffer size:

* `TypeCorrect`;
* `BarrierCorrect`: a thread in the critical section of class c implies that all
  threads have reached c.  The invariant counts: `counts[c]` is the number of
  threads that are behind class c.  It is what makes the comparison of a counter
  with the size of the team say something about every thread; the proof uses that
  a subset as large as the finite team is the team.
* `OnceCorrect`: no row is lost or doubled, early writes or not.  The invariant says
  where every row is: in the file, in one buffer, or still to be taken.
* `WriterImplementsGroupedOutput`: the refinement of `GroupedOutput`, with `file` and
  `closed` mapped as in the run.  Its steps hold by what a writer may still write
  (`GroupedCorrect`) and by what is missing when a class closes (`OnceCorrect`).
* `GroupedCorrect`: the rows are grouped unless a buffer spilled.  On top of the
  barrier it needs that buffers and remaining rows of a thread belong to the class
  the thread is at, and that nothing in the file is ahead of the class of any
  thread that has still to write to it.

`LsSvmTrainingProofs` has two parts.  In any exact arithmetic, that is for any systems,
arithmetic, limit and restart interval that satisfy `LoopBounds`, `Closed` and
`ExactProduct`: `TypeCorrect`, and `ResidualCorrect`, that r is the residual of the
current x and delta its square in every state, whether the last iteration restarted
or not.  The invariant is the statement itself with the type invariant; the
hypothesis `ExactProduct` (the product distributes over the step, as it does without
rounding) is where floating point differs.

With the operators of `fit` (`Trains`): for every prime, any number of points, any set
of problems with a symmetric kernel matrix, any labels, cost, `max_iter`, accepted
deltas and restart interval,

* `ReducedCorrect`: whatever ends the loop, weights and rho solve the full system up
  to the tested residual.  It is the elimination of the last row worked out
  (`Eliminated`), and needs of the loop only `ResidualCorrect`.
* `DirectionsCorrect`: successive residuals are orthogonal and successive directions
  conjugate.  This is not inductive: an iteration presupposes r . d = delta and
  r . A d = d . A d, which `Aligned` says of every state of the loop; `OneIteration`
  shows that it holds again, with `ProductSymmetric` (the kernel matrix, reduced by a
  row, is symmetric).
* `ConvergesCorrect`: `ConvergesInTime`.  Here all residuals so far have to be
  orthogonal, and the state does not hold them; the invariant `Remembers` says that
  there is a history of iter + 1 residuals and directions that ends with r and d, with
  what makes it longer by one (`Longer`): every residual lies in the plane of its
  direction and the one before, and every product with a direction in that of its
  residual and the next.  That one more residual than unknowns is too many
  (`Orthogonal`) is shown by counting: n + 1 factors in the field have more values than
  vectors of n numbers, so two choices of factors add the residuals up to the same
  vector, and products with the residuals tell the factors apart.
* `NaNCorrect`: with definite matrices (`Definite`, as they are in the reals)
  `NaNOnlyFromExactStart`.  The invariant `NumbersLast` says that delta is neither NaN
  nor zero while the loop goes on.  Modulo a prime a matrix is definite for one or two
  unknowns at most, so this theorem, like the run, is about two or three points.

Below them is the arithmetic of `PrimeFieldProofs`.  Numbers modulo p are handled as
congruences (`Is`, `Means`), and NaN by cases.  Sums are folds, and the induction theorems of the library take an
operator; `Induction` replaces them by one about sets of numbers, which is enough to
show that a sum is what its recursion says (`SumSteps`) and from that its laws up to
the exchange of two sums.  What `Closed` and `ExactProduct` ask is thereby a theorem too
(`ExactArithmetic`).  `MCLsSvmTraining` assumes `Trains` and `Definite` of the constants of
`train_all` (`FitTrains`), which TLC evaluates over all vectors, for one labelling and
one `max_iter` of every kernel matrix: the hypotheses say the same of the others.

`GpuSolveProofs`, for any prime, problems, number of devices, block sizes and restart
interval: `SolvesAsOneDevice`, that `ImplementsCG` holds, every step of the distributed
solver being a step of `ConjugateGradient` or not seen there.  `IInv` says what is in
every buffer of every device at any time:

* `LoadedInv`: a device whose kernel was launched has q and x, with zeros behind them.
* `DirectionInv`: r_d has d at its begin when a product starts, and zeros behind d as
  soon as the kernel is launched; before that there may be anything.
* `ResultInv`: the result buffer has the values to start from before the kernel, and the
  device's share afterwards, so it does not matter when and in which order kernels run.
* `SumInv`: the host has the sum of the shares it has read.
* `StepInv`: between a product and the end of its iteration the step of x has been made,
  x on the devices is the new one, and the buffer of the host is still A d.

The rest is that the shares add up (`ResultsAddUp`).  `OneOwner` says that
`calculate_feature_ranges` gives every feature to one device, whatever the remainder; so
the parts of a kernel function add up (`KernelAddsUp`), and with what only the first
device adds, to the entries of the matrix (`EntriesAddUp`).  Threads behind the system,
which the grid has, multiply what is zero (`Coverage`, `TrailingZeros`).  The sums are
exchanged by the lemmas of `PrimeFieldProofs`, which also hold with NaN: a step that
divides by zero is the same step on all backends.  `ProblemsAssumption` says what a problem
is: two points and more with a feature and more, finite values, labels -1 and 1, and the
kernel matrix of its points.  After a restart with an unused device
(`LaunchUnused`) the program is undefined, and the theorem says nothing of what follows.

The part of `FilesProofs` on file readers, for any readers, files and bounds (descriptors and
blocks may run out; then nothing opens): `ReaderTypeCorrect`, `SoleOwnerCorrect` and
`LinesCorrect`.  The properties are not inductive: that a close really unmaps
needs the length to be positive, and that it takes nothing from another reader
needs to know what readers hold that own nothing.  The invariant adds that
(`Sound`): a reader that will release something has a mapping of a file that is
not empty, anything else it has open is a buffer that nobody frees, and its lines
are views of either.  The two lemmas that carry the proof say that what a release
takes away is referred to by nobody else (`ReleasedAlone`), and that what a new
owner gets was free (`OpenMappedReader`); descriptor numbers that readers keep after
their descriptor is closed play no part, because only owners use them.

The part of `FilesProofs` on data sets, for any points, labels, intervals, files and
factors of integers (`DataAssumption`):

* `ReadAsSaid`, that `ReadsWhatFileSays` holds.  Each parser is compared with what
  its format says, line by line.  For LIBSVM the point is that the number of
  features comes from the last index of each line only: indices that increase
  (`LibsvmGood`) are below it.  For ARFF it is that the parser numbers features by
  the place of the class (`SparseTarget`, `DenseTarget`), and the format by counting the
  attributes before one (`FeatureIs`, `AttributesAre`).
* `WholeInterval`, that `ScaledIntoRange` holds: both ends are reached, since smallest
  and largest value of a feature are values of points (`ScaledRange`), and the factors
  are found for their features although features of zeros have none (`FactorsAre`).
* `SameAgain`, that `SameScalingAgain` holds: sorting and checking the factors that were
  read gives the ones that were calculated.
* `Survives`, that `SurvivesItsFile` holds.  A written file is worked out for each
  format (`SavedLibsvm`, `SavedArff`): what is parsed are the rows that were kept, in
  the order of the threads (`ReadBack`).  Rows with their labels are counted, and an
  order that takes each of them once does not change how often one comes (`RowsBack`,
  by a bijection of places).  Nothing of a row is lost because the last index of the
  file is the last feature that is not zero everywhere (`SavedLibsvm`, `LineBack`).

All rest on `DataInv`: a data set has points of one size and was constructed from the
points and the scaling it remembers, and files have the types of their tokens.  Where
induction is needed (the numbers of a finite set can be put in order, `SortedIs`) it is
on sets of numbers, with the theorem on well-founded relations.

The part of `SharedStateProofs` on `OpenCLCache`, for any processes, any lists of devices
and any number of constructions: `CompleteCorrect`, `FailuresCorrect` and `KeptCorrect`.  The number
of files says nothing about a file that is torn; what does is `TornForAReason`: in
a directory that nothing has spoiled and that one list of devices is written to, a
torn file is being written, or a file behind it is missing and everyone who
writes has still to come to the torn one, and so to repair it.  A directory that
is full and has no writer therefore has no torn file.  For the constructors that
throw, `ReadsAlone` says that without an overlap a reader has no writer beside it
that has passed its first file, and `ReadRight` that what it has read so far is
right or excused.  `RightFiles`, `Built` and `InPlace` tell where every process is
and which binaries it carries there.

The part on `CsvmInterface`, for any threads, models, data sets, kernels and gammas:
`SharedCorrect`, `CheckedGammaCorrect` and `DefaultGammaCorrect`.  That a vector is
its model's own is inductive only with the threads: `CopiesShare` (only equal
models share a vector), `VectorsFollow` (an empty or torn vector belongs to the
thread that calculates or assigns) and `OneFills` (while a vector is not filled
one thread uses it, as long as nothing has raced).  `AssignStep` covers fit, copy
and reload at once: a model is assigned that has a new vector or that of an
equal model, and no thread uses the variable.  For the two properties of gamma the
invariant remembers what an accepting `set_params` has checked.
`PredictsCorrect` and `FileCorrect` rest on `ModelsSound`: every model has been
trained, or read from the file of one that has, and its parts belong together.
Here the header is not a hypothesis: `ParseHeader` of `WriteHeader` is worked out
for each kernel, entry by entry, in both orders and without each entry, and that
the digits of gamma are lost once only is a lemma about `Written`.  The proofs use
`DataSetsAssumption` (data sets as a `data_set` can be) and `KernelTypesAssumption`
(the kernels are those the library has).

`FrontEndProofs`, for any machines, paths, contents, processes and number of
starts, for any arrays of Python, and for any parameters: `SuccessCorrect`,
`FailureCorrect`, `PredictsCorrect`, `AttributesCorrect`, `AnswersCorrect` and
`EquivalenceCorrect`.  `ShellInv` says for
every process what the step it is at knows: what it has read are the files it saw,
what it has computed follows from them, and what is still to be written is the
rest of its outputs; `Undisturbed` then leaves the files as it wrote them, and those
it has only read as it saw them.
`PredictsCorrect` is about steps of `Start` and `Predict` that choose a `csvm` from
the same options with different parameters, and is a case distinction over
`make_csvm`.  `SvcInv` ties the attributes to the data of the last fit, unless
it has failed, and the model to the parameters and the arrays of its time (`HoldsItsFit`).  `EquivalenceCorrect` needs of the states only
the types of both objects (`ParameterInv`); the rest is that a kernel is called with
nothing but the members its `equivalent` compares, gamma being the same default for
both or the same value.  `ShellAssumption` says that no path is the empty one and
files that cannot be written are files, `ArraysAssumption` that arrays are what
numpy hands over: points and labels, each with dimensions and steps inside a memory;
`ParameterAssumption` says what values are, and that `Default` is none of them.

`GpuKernelsProofs`, for any devices, sizes and padding: `MemoryCorrect`, `QCorrect`
and `DecisionCorrect`.  Memory is freed by the host while the queue still runs, and
what makes it safe is that the programs of the phases wait first; the invariant
(`IInv`) says that a command in the queue uses memory that is there and that is not
freed before the next wait in what the host has still to issue, backend by backend.
Memory is what a command reads as well as what it writes (`Uses`): the data and the
points of a prediction are held until its result has been copied, which waits.  That
the threads stay inside follows from the padding (`KernelsFit`).
The two properties of the results need the values too (`ValuesInv`).  Every command
of a call reaches a device in one order (`Nth`), so that the number of those that
have been executed (`Executed`) fixes what is in every buffer of the device
(`Contents`), whatever the host and the other devices are at; what has been copied
back fixes what the host has (`Results`).  What is left is about the kernels: the
number of an entry that the host has laid out is the number the kernel reads, from
which the products of one device are those of its features (`Blocks`, the padding,
and the split of the features), and together the devices have every feature once.
The sum over the threads of a kernel is a fold over a set.  Its value cannot be had
by the induction theorems of the library, which take an operator; but any property
of the subsets of one finite set can be put as a set of subsets that has no least
element (`WFMin`), and so `FoldIs` and `FoldThere` are proved, and with them that an
entry gets the terms of its threads, each once.

`KernelBlockProofs`, for any block and internal block sizes, points, features and
devices: `MatrixCorrect` and `EntriesCorrect`.  `BlockInv` describes a pass of the threads by where they
are: while one loads, every entry is old or loaded for this pass; after the
barrier all are loaded and none changes until all have read.  That the threads
together load the whole cache is the hypothesis `LoadsEverything` on the block
sizes, which the run's sizes and the defaults satisfy; without it the kernels
multiply memory that nobody has written (Findings).
For what the threads add, `SumInv` says that the result has the terms of the threads
that are done, on the devices so far (`Got`).  A step of `Reduce` keeps it because
its terms are new: the number of a point is written with the digits block, thread
and entry, so that a pair of points has one thread and pass (`PairedOnce`) and every
pair of the block has one (`AllPaired`), also on the diagonal, where the test
`i + x >= j + y` decides which of two threads it is; and the `feature_ranges`
divide the features, so that devices have no term in common (`TermsApart`) and
together all (`TermsTogether`).  That the loops over the entries of a thread add up
their terms is `FoldIs`, the fold over a set again.  `BlockAssumption` asks of
`feature_ranges` what `setup_data_on_device` computes for no more devices than
features: the ranges begin with 0 and increase.

The part of `SharedStateProofs` on `KernelTiling`, for any sizes of system, blocks and tiles,
any number of workers at the same time: `EveryEntry`, that `EveryEntryOnce` holds.  `TilingInv` says that an
entry of `ret` has the terms of all additions that are done, and of no others; where a
worker is in its loops and what the compare-and-swap loop expects do not matter for
it.  The rest is about numbers.  What a thread adds to an entry is said once for the
row side and once for the column side of the diagonal (`AddsIs`), for the grid and
for the tiles; the digits block, thread and entry of both numbers then give one
worker and one place in its loops for each pair (`AddedOnce`, `EveryPairAdded`).  Within
the thread on the diagonal the test compares `i + x` with `j + y` although the entry is
(`i + y`, `j + x`): it decides for one of the two pairs as well, which is all the
product needs.  `GridHolds` is why padded threads stay inside the buffers.

The proofs are by action, one step for each, and one below it for each part of
the invariant that the action can disturb.

Left to TLC:

* Liveness under fairness, which the prover does not do: `Termination` of four
  modules.

## Not modelled

* Rounding, and with it the stopping test as an inequality; factors beyond the
  integers that `real_type` holds are refused or lost as `MaxExact` says.
* What device runtimes do below one queue in order for each device, and their
  error codes.
* Integers do not overflow: kernels index with 32 bits.
* `degree`, `coef0` and `cost` in `CsvmInterface` (they are in `Parameters`); the
  checks of `epsilon` and `max_iter`; reading parameters from streams, and ordering
  and hashing them; moves of a `csvm` and of a model.
* The text of files: characters, digits and formats appear as what they keep and
  lose; names of files are paths of two parts.
* The Windows variant of `file_reader`, and builds without memory mapping.
* HPX: its kernel has the headers of its loops in comments
  (`HPX/svm_kernel.cpp:35`) and does not compile, and `make_csvm` does not know the
  backend.
* What is logged and what is in a document of the performance tracker.
* Device pointers' `fill`, `swap` and checked bounds, and the array-of-structs
  layout, which the solver does not use.
* The checksums in the name of OpenCL's directory, the replacement of types in its
  sources, and permissions of files.
* `decision_function` and the order of support vectors in `SVC`; the Python
  bindings of data sets and models, which forward one call each.
* String and byte utilities, SHA-256, version and exception classes; CMake,
  scripts, examples, tests.

## Plan

Done, in the order of importance: the writer, training, its GPU version, the
kernels, the file reader, the interface; then data sets and their files, the
OpenCL cache, prediction on devices, selection, programs and Python.  What is
left is small as a model: the entries of the performance tracker, the remaining
operations of device pointers.

Every property of a passing run that is not about liveness is a theorem; what is worth
proving next comes with the models above.
