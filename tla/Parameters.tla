----------------------------- MODULE Parameters -----------------------------
(***************************************************************************)
(* A program with a parameter object and a csvm that has its own: members  *)
(* are given and reset, objects are assigned to each other, converted to   *)
(* the other floating point type, and passed as a whole or as named        *)
(* arguments.  What is trained with them is what the kernels are called    *)
(* with, by fit on one backend and by predict on another one.              *)
(*                                                                         *)
(* A member is a default_value: the value that was given, or Default.      *)
(* What is left in a member that was reset is never read.  Values of       *)
(* floating point types are integers in some unit; only their order and    *)
(* which of them are the same as floats is looked at.                      *)
(***************************************************************************)
EXTENDS Integers

CONSTANTS
    Default,        \* the value of a member that is not given
    Reals, One,
    AsFloat,        \* the float next to a double
    FeatureNumbers, \* of data sets
    OneOver,        \* 1.0 / n for such numbers
    GivenMembers    \* members with values the program may give them

Members == {"kernel_type", "degree", "gamma", "coef0", "cost"}
Floating == {"gamma", "coef0", "cost"}

kernel_function_type == {"linear", "polynomial", "rbf"}

\* The type of a member.
value_type(m) ==
    CASE m = "kernel_type" -> kernel_function_type
      [] m = "degree" -> Int
      [] OTHER -> Reals

ASSUME ParameterAssumption ==
    /\ Reals \subseteq Int /\ {0, One} \subseteq Reals
    /\ AsFloat \in [Reals -> Reals]
    /\ OneOver \in [FeatureNumbers -> {r \in Reals : r > 0}]
    /\ Default \notin kernel_function_type \cup Int
    /\ \A given \in GivenMembers : given \in Members \X value_type(given[1])

VARIABLES
    object,         \* the program's parameter
    params_         \* the csvm's

parameter_vars == <<object, params_>>

----------------------------------------------------------------------------
(* parameter and default_value.                                            *)

parameter == [m \in Members |-> Default]

default_init ==
    [kernel_type |-> "linear", degree |-> 3, gamma |-> 0, coef0 |-> 0, cost |-> One]

is_default(p, m) == p[m] = Default
value(p, m) == IF is_default(p, m) THEN default_init[m] ELSE p[m]
Values(p, members) == [m \in members |-> value(p, m)]

\* Members are given values; an assigned value is none of the defaults.
Assign(p, values) == [m \in Members |-> IF m \in DOMAIN values THEN values[m] ELSE p[m]]

reset(p, m) == [p EXCEPT ![m] = Default]

\* Named arguments are values, or members of another object: then it is their
\* active value that is given.
NamedArguments(p) ==
    {[m \in {given[1]} |-> given[2]] : given \in GivenMembers} \cup {Values(p, {m}) : m \in Members}

\* Members are compared by their active values, default or not.
same(p, r, members) == Values(p, members) = Values(r, members)

equal(p, r) == same(p, r, Members)

\* The members that matter for a kernel.
Mattering(kernel_type) ==
    CASE kernel_type = "linear" -> {"cost"}
      [] kernel_type = "polynomial" -> {"degree", "gamma", "coef0", "cost"}
      [] kernel_type = "rbf" -> {"gamma", "cost"}

equivalent(p, r) ==
    /\ value(p, "kernel_type") = value(r, "kernel_type")
    /\ same(p, r, Mattering(value(p, "kernel_type")))

\* To the type itself it is a copy.  To the other type, the constructor with
\* five values is called, after which no member is a default any more.
Converted(p, from, to) ==
    IF from = to THEN p
    ELSE Assign(parameter,
           [m \in Members |-> IF m \in Floating /\ to = "float" THEN AsFloat[value(p, m)]
                              ELSE value(p, m)])

----------------------------------------------------------------------------
(* csvm.                                                                   *)

sanity_check_parameter(p) ==
    value(p, "kernel_type") \in {"polynomial", "rbf"} /\ ~is_default(p, "gamma") =>
        value(p, "gamma") > 0

\* The parameters of the model that fit makes of a data set with n features.
WithDefaultGamma(p, n) == IF is_default(p, "gamma") THEN Assign(p, [gamma |-> OneOver[n]]) ELSE p

\* Mutant: the parameters are converted before gamma is looked at.
fit_ConvertFirst(p, n, real_type) == WithDefaultGamma(Converted(p, "double", real_type), n)

\* The parameters that fit calls the solver with.
fit(p, n, real_type) == Converted(WithDefaultGamma(p, n), "double", real_type)

\* The calls of kernels, per kernel type: the members that are passed on.
generate_q(c) ==
    CASE value(c, "kernel_type") = "linear" -> [linear |-> <<>>]
      [] value(c, "kernel_type") = "polynomial" ->
           [polynomial |-> <<value(c, "degree"), value(c, "gamma"), value(c, "coef0")>>]
      [] value(c, "kernel_type") = "rbf" -> [rbf |-> <<value(c, "gamma")>>]

run_device_kernel(c) == [kernel |-> generate_q(c), relaxation |-> <<"1 /", value(c, "cost")>>]

\* With a linear kernel the normal vector decides.
predict_values(c) ==
    IF value(c, "kernel_type") = "linear" THEN [w |-> <<>>] ELSE generate_q(c)

KernelCalls(c) == <<generate_q(c), run_device_kernel(c), predict_values(c)>>

----------------------------------------------------------------------------
(* What a program does, in C++ and in Python, where keyword arguments and  *)
(* properties assign to members.                                           *)

ParameterInit == object = parameter /\ params_ = parameter

AllNamedArguments == NamedArguments(object) \cup NamedArguments(params_)

\* Objects of named arguments, with or without another one before them.
ConstructParameter ==
    /\ \E p \in {parameter, object}, values \in AllNamedArguments : object' = Assign(p, values)
    /\ UNCHANGED params_

Reset == (\E m \in Members : object' = reset(object, m)) /\ UNCHANGED params_

\* A member of another object is assigned, default or not.
AssignMember ==
    /\ \E m \in Members : object' = [object EXCEPT ![m] = params_[m]]
    /\ UNCHANGED params_

Convert ==
    /\ object' = Converted(Converted(object, "double", "float"), "float", "double")
    /\ UNCHANGED params_

\* The constructor of a csvm: an object, with keyword arguments in Python.
NewCsvm ==
    /\ \E values \in {<<>>} \cup AllNamedArguments :
         LET given == Assign(object, values)
         IN  sanity_check_parameter(given) /\ params_' = given
    /\ UNCHANGED object

\* An exception comes after the assignments; in Python there is none.
SetCsvmParams == (\E values \in AllNamedArguments : params_' = Assign(params_, values)) /\ UNCHANGED object

ReplaceParams == params_' = object /\ UNCHANGED object

GetCsvmParams == object' = params_ /\ UNCHANGED params_

ParameterNext ==
    \/ ConstructParameter \/ Reset \/ AssignMember \/ Convert
    \/ NewCsvm \/ SetCsvmParams \/ ReplaceParams \/ GetCsvmParams

ParameterSpec == ParameterInit /\ [][ParameterNext]_parameter_vars

----------------------------------------------------------------------------
(* Properties.                                                             *)

RealTypes == {"float", "double"}

\* Two parameter sets that a csvm accepts and that are equivalent, or equal,
\* train the same model of every data set, and predict the same with it: though
\* equivalence does not tell a default gamma, which depends on the data, from
\* one that was given as zero.  And kernels get a gamma that they accept
\* (OpenMP/svm_kernel.cpp, q_kernel.cpp), also when nobody gave one and the data
\* has another floating point type than the parameters, whose conversion makes
\* a default a given value; but for a gamma that is so small that it is zero as
\* a float.
EquivalentTrainsTheSame ==
    \A p, r \in {object, params_} :
        /\ equal(p, r) => equivalent(p, r)
        /\ sanity_check_parameter(p) /\ sanity_check_parameter(r) /\ equivalent(p, r) =>
             \A n \in FeatureNumbers, real_type \in RealTypes :
                 LET c == fit(p, n, real_type)
                 IN  /\ KernelCalls(c) = KernelCalls(fit(r, n, real_type))
                     /\ value(c, "kernel_type") = "linear" \/ value(c, "gamma") > 0
                        \/ AsFloat[value(WithDefaultGamma(p, n), "gamma")] <= 0
=============================================================================
