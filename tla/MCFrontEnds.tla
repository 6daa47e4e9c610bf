----------------------------- MODULE MCFrontEnds -----------------------------
(***************************************************************************)
(* What a user starts on one machine: programs in a shell, or a session of *)
(* Python, or a program with parameter objects.  They share nothing but    *)
(* the machine.                                                            *)
(***************************************************************************)
EXTENDS CommandLine, SklearnSvc, Parameters

CONSTANTS p, q

VARIABLE session

vars == <<machine, session, shell_vars, python_vars, parameter_vars>>

Build(backends, targets, sycl) ==
    [backends |-> backends, targets |-> targets, sycl |-> sycl, preferred |-> "dpcpp",
     dpcpp |-> {"level_zero"}, accelerated |-> FALSE]
Device(target, platform) == [target |-> target, platform |-> platform]

Machines == {
    \* its GPU has been taken out
    [build |-> Build({"openmp", "cuda"}, {"cpu", "gpu_nvidia"}, {}), devices |-> {}],
    [build |-> Build({"openmp", "opencl"}, {"cpu", "gpu_intel"}, {}),
     devices |-> {Device("cpu", "pocl"), Device("cpu", "intel"), Device("gpu_intel", "intel")}],
    [build |-> Build({"hip", "sycl"}, {"gpu_amd", "cpu"}, {"dpcpp", "hipsycl"}),
     devices |-> {Device("cpu", "pocl"), Device("gpu_amd", "rocm")}] }

----------------------------------------------------------------------------
(* The shell.  Data x with numbers as labels in a, the same name with       *)
(* strings in b; the last feature of b is zero everywhere.                  *)

A == <<"a", <<"x">>>>
B == <<"b", <<"x">>>>
F == <<".", <<"factors">>>>
M == <<".", <<"x", "model">>>>
T == <<".", <<"times">>>>
U == <<".", <<"unwritable">>>>

Given(classes, text, features, last) ==
    [is |-> "data", classes |-> classes, text |-> text, features |-> features, last |-> last]

MCProcesses == {p, q}
Symmetry == Permutations({p, q})
MCGivenFiles == (A :> Given(2, FALSE, 2, 2)) @@ (B :> Given(2, TRUE, 2, 1))
MCReadOnly == {U}
MCCalls ==
    [program : {"train"}, input : {A}, backend : {"openmp"}] \cup
    [program : {"train"}, input : {B}, strings : {TRUE}, kernel : {"rbf"}, track : {T}] \cup
    [program : {"train"}, input : {A}, backend : {"sycl", "opencl"}, impl : {"hipsycl"},
     kernel : {"polynomial"}, track : {U}] \cup
    [program : {"predict"}, input : {A}, model : {M}, backend : {"openmp"}, output : {A}] \cup
    [program : {"predict"}, input : {B}, model : {M}, strings : {TRUE}, track : {T}] \cup
    [program : {"predict"}, input : {A}, model : {M}, backend : {"sycl", "opencl"}, impl : {"hipsycl"}] \cup
    [program : {"scale"}, input : {A}, output : {A}, save : {F, A}] \cup
    [program : {"scale"}, input : {B}, restore : {F}, strings : {TRUE}, format : {"arff"}, output : {B}] \cup
    [program : {"train"}, input : {A}, gamma : {0}] \cup [program : {"train"}, input : {A}, epsilon : {0}] \cup
    [program : {"scale"}, help : {TRUE}] \cup
    [program : {"scale"}, input : {A}, lower : {1}] \cup
    [program : {"predict"}, input : {A}, model : {M}, target : {"gpu"}]

----------------------------------------------------------------------------
(* The session.                                                            *)

Array(memory, start, rows, row_step, column_step, labels) ==
    [memory |-> memory, start |-> start, rows |-> rows, columns |-> 2,
     row_step |-> row_step, column_step |-> column_step, labels |-> labels]
Vector(memory, start, step, size) ==
    [memory |-> memory, start |-> start, step |-> step, size |-> size]
OneTwo == Vector(<<1, 2>>, 1, 1, 2)
TwoOne == Vector(<<1, 2>>, 2, -1, 2)                                \* reversed
Every == Vector(<<1, 2, 1, 1, 2>>, 1, 2, 3)                         \* every other one

MCArrays == {
    Array(<<1, 2, 3, 4>>, 1, 2, 2, 1, OneTwo),
    Array(<<1, 2, 3, 4, 5, 6>>, 1, 3, 2, 1, Vector(<<2, 1, 1>>, 1, 1, 3)),
    Array(<<1, 2, 3, 4, 5, 6>>, 1, 3, 2, 1, Every),
    Array(<<1, 2, 3, 4>>, 1, 2, 1, 2, OneTwo),                      \* transposed
    [Array(<<1, 2, 3, 4>>, 2, 2, 2, 1, TwoOne) EXCEPT !.columns = 1],
    Array(<<1, 2, 3, 4>>, 1, 2, 2, 1, Vector(<<1, 1>>, 1, 1, 2)) }

MCArguments ==
    {<<>>} \cup [kernel : {"rbf"}] \cup [kernel : {"rbf"}, gamma : {2}, tol : {1}] \cup
    [gamma : {0}] \cup [kernel : {"linear"}, gamma : {0}] \cup
    [max_iter : {-1}] \cup
    [probability : {TRUE}, kernel : {"rbf"}] \cup [cache_size : {1}, tol : {0}] \cup
    [break_ties : {TRUE}, max_iter : {0}] \cup [cache : {1}]

----------------------------------------------------------------------------
(* The parameters.  Real numbers are in units of 1/12; 1 is zero as a float. *)
(* gamma may be given as its default and as the one that fit takes.        *)

MCReals == {0, 1, 4, 6, 12}
MCAsFloat == [r \in MCReals |-> IF r = 1 THEN 0 ELSE r]
MCFeatureNumbers == {2, 3}
MCOneOver == [n \in MCFeatureNumbers |-> 12 \div n]
MCGivenMembers ==
    {"kernel_type"} \X {"linear", "polynomial", "rbf"} \cup {"gamma"} \X {0, 1, 4}
    \cup {"coef0"} \X {6}

----------------------------------------------------------------------------

Init ==
    /\ machine \in Machines /\ session \in {"shell", "python", "parameters"}
    /\ ShellInit /\ PythonInit /\ ParameterInit

Next ==
    /\ \/ session = "shell" /\ ShellNext /\ UNCHANGED <<python_vars, parameter_vars>>
       \/ session = "python" /\ PythonNext /\ UNCHANGED <<shell_vars, parameter_vars>>
       \/ session = "parameters" /\ ParameterNext /\ UNCHANGED <<shell_vars, python_vars>>
    /\ UNCHANGED <<machine, session>>

Spec == Init /\ [][Next]_vars
=============================================================================
