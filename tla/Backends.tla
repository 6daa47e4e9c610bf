------------------------------ MODULE Backends ------------------------------
(***************************************************************************)
(* Which csvm a program gets for a backend and a target platform, and      *)
(* which calls this csvm can run.                                          *)
(*                                                                         *)
(* A machine is a build and the devices of a system:                       *)
(*   build.backends, build.targets   what the build was configured for     *)
(*   build.sycl, build.preferred     its SYCL implementations, and the one *)
(*                                   sycl::csvm stands for                 *)
(*   build.dpcpp                     the platforms DPC++ takes AMD and     *)
(*                                   Intel GPUs from                       *)
(*   build.accelerated               hipSYCL compiles for CPUs itself      *)
(*   devices                         [target, platform]; a device that two *)
(*                                   platforms offer is there twice        *)
(* HPX is left out: make_csvm does not know it.                            *)
(***************************************************************************)
EXTENDS Naturals, Sequences, FiniteSetsExt

VARIABLE machine

build == machine.build

KernelTypes == {"linear", "polynomial", "rbf"}
Targets == {"cpu", "gpu_nvidia", "gpu_amd", "gpu_intel"}

\* The words operator>> knows.
BackendNames == {"automatic", "openmp", "cuda", "hip", "opencl", "sycl"}
TargetNames == {"automatic"} \cup Targets
ImplementationNames == {"automatic", "dpcpp", "hipsycl"}

----------------------------------------------------------------------------
(* Defaults.                                                               *)

available_backends == build.backends \cap BackendNames
available_target_platforms == build.targets

DecisionOrder == <<
    <<"gpu_nvidia", "cuda">>, <<"gpu_nvidia", "hip">>,
    <<"gpu_nvidia", "opencl">>, <<"gpu_nvidia", "sycl">>,
    <<"gpu_amd", "hip">>, <<"gpu_amd", "opencl">>, <<"gpu_amd", "sycl">>,
    <<"gpu_intel", "sycl">>, <<"gpu_intel", "opencl">>,
    <<"cpu", "sycl">>, <<"cpu", "opencl">>, <<"cpu", "openmp">> >>

\* "none" for an exception.  Neither the devices nor the requested target are
\* looked at.
determine_default_backend ==
    LET Possible == {n \in DOMAIN DecisionOrder :
            /\ DecisionOrder[n][1] \in available_target_platforms
            /\ DecisionOrder[n][2] \in available_backends}
    IN  IF Possible = {} THEN "none" ELSE DecisionOrder[Min(Possible)][2]

determine_default_target_platform(targets) ==
    LET Present == SelectSeq(<<"gpu_nvidia", "gpu_amd", "gpu_intel">>,
                             LAMBDA t : t \in targets)
    IN  IF Present = <<>> THEN "cpu" ELSE Head(Present)

----------------------------------------------------------------------------
(* The devices a backend finds.                                            *)

Offered(t) == {d \in machine.devices : d.target = t}
EnabledDevices == {d \in machine.devices : d.target \in available_target_platforms}

\* The target, and its devices among those a backend can use.
Selected(target, devices) ==
    LET used == IF target = "automatic"
                THEN determine_default_target_platform({d.target : d \in devices})
                ELSE target
    IN  [target |-> used, devices |-> {d \in devices : d.target = used}]

\* One OpenCL context for each platform.
get_contexts(target) ==
    LET selected == Selected(target, EnabledDevices)
    IN  [target |-> selected.target, platforms |-> {d.platform : d \in selected.devices}]

dpcpp_device_list(target) ==
    Selected(target, {d \in EnabledDevices :
        d.target \in {"gpu_amd", "gpu_intel"} => d.platform \in build.dpcpp})

hipsycl_device_list(target) == Selected(target, EnabledDevices)

----------------------------------------------------------------------------
(* Constructors.  compiled is the kernel type whose kernels the csvm has.  *)

Refused == [is |-> "refused"]

Csvm(backend, target, compiled, invocation) ==
    [is |-> "csvm", backend |-> backend, target |-> target,
     compiled |-> compiled, invocation |-> invocation]

Requestable(target) == target = "automatic" \/ target \in available_target_platforms

openmp_csvm(target) ==
    IF target \in {"automatic", "cpu"} /\ "cpu" \in available_target_platforms
    THEN Csvm("openmp", "cpu", "all", "none") ELSE Refused

cuda_csvm(target) ==
    IF /\ target \in {"automatic", "gpu_nvidia"}
       /\ "gpu_nvidia" \in available_target_platforms
       /\ Offered("gpu_nvidia") # {}
    THEN Csvm("cuda", "gpu_nvidia", "all", "none") ELSE Refused

hip_csvm(target) ==
    IF /\ target \in {"automatic", "gpu_amd"}
       /\ "gpu_amd" \in available_target_platforms
       /\ Offered("gpu_amd") # {}
    THEN Csvm("hip", "gpu_amd", "all", "none") ELSE Refused

\* The kernels are compiled for the parameters of the constructor.
opencl_csvm(target, kernel_type) ==
    LET contexts == get_contexts(target)
    IN  IF Requestable(target) /\ Cardinality(contexts.platforms) = 1
        THEN Csvm("opencl", contexts.target, kernel_type, "none") ELSE Refused

dpcpp_csvm(target) ==
    LET list == dpcpp_device_list(target)
    IN  IF Requestable(target) /\ list.devices # {}
        THEN Csvm("sycl", list.target, "all", "nd_range") ELSE Refused

hipsycl_csvm(target) ==
    LET list == hipsycl_device_list(target)
    IN  IF Requestable(target) /\ list.devices # {}
        THEN Csvm("sycl", list.target, "all",
                  IF list.target = "cpu" /\ ~build.accelerated THEN "hierarchical" ELSE "nd_range")
        ELSE Refused

make_csvm_sycl(impl, target) ==
    LET used == IF impl = "automatic" THEN build.preferred ELSE impl
    IN  IF used \notin build.sycl THEN Refused
        ELSE IF used = "dpcpp" THEN dpcpp_csvm(target) ELSE hipsycl_csvm(target)

\* impl only matters for the SYCL backend.
make_csvm(backend, target, kernel_type, impl) ==
    LET used == IF backend = "automatic" THEN determine_default_backend ELSE backend
    IN  IF used \notin available_backends THEN Refused
        ELSE CASE used = "openmp" -> openmp_csvm(target)
               [] used = "cuda" -> cuda_csvm(target)
               [] used = "hip" -> hip_csvm(target)
               [] used = "opencl" -> opencl_csvm(target, kernel_type)
               [] OTHER -> make_csvm_sycl(impl, target)

----------------------------------------------------------------------------
(* Calls.  A call of an OpenCL kernel throws if there is no such kernel, or *)
(* if it does not take the arguments.                                       *)

kernel_type_to_function_names(kernel_type) ==
    {"q_kernel", "svm_kernel", IF kernel_type = "linear" THEN "w_kernel" ELSE "predict_kernel"}

\* Arguments for the parameters of the kernel function: degree, gamma, coef0.
KernelArgs(kernel_type) ==
    CASE kernel_type = "linear" -> 0 [] kernel_type = "polynomial" -> 3 [] OTHER -> 1

RunsKernel(svm, name, kernel_type) ==
    \/ svm.compiled = "all"
    \/ /\ name \in kernel_type_to_function_names(svm.compiled)
       /\ KernelArgs(svm.compiled) = KernelArgs(kernel_type)

\* generate_q runs its kernels in threads: an exception ends the program.
FitEnds(svm, kernel_type) ==
    IF RunsKernel(svm, "q_kernel", kernel_type) THEN "ok" ELSE "terminates"

\* So does calculate_w, which a linear model needs once.
PredictEnds(svm, kernel_type) ==
    IF kernel_type = "linear"
    THEN IF RunsKernel(svm, "w_kernel", kernel_type) THEN "ok" ELSE "terminates"
    ELSE IF RunsKernel(svm, "predict_kernel", kernel_type) THEN "ok" ELSE "throws"
=============================================================================
