--------------------------- MODULE CsvmInterface ----------------------------
(***************************************************************************)
(* A program that uses one csvm: it changes its parameters, fits models to *)
(* data sets, copies, saves and loads them, and predicts with them, in     *)
(* several threads at a time.  predict is const, but it fills a vector     *)
(* that a model shares with its copies.                                    *)
(*                                                                         *)
(* The weights are what they are the solution for.  degree, coef0 and cost *)
(* are left out: nothing is checked of them.  The program keeps to the     *)
(* rules for objects: it assigns no model that a thread is using.          *)
(* Assertions are switched off, as in a release build.                     *)
(***************************************************************************)
EXTENDS ModelFile, FiniteSets

CONSTANTS
    Threads,
    Models,         \* variables of the program
    DataSets,       \* [features, last, counts]; last is the last feature that
                    \* is not zero in every point, and counts[c] points have
                    \* the label c, if there are labels: two, then
    GivenGammas,    \* values the program may give for gamma
    KernelTypes

ASSUME DataSetsAssumption ==
    /\ DataSets \subseteq [features : Nat \ {0}, last : Nat,
                           counts : {<<>>} \cup [1..2 -> Nat \ {0}]]
    /\ \A data \in DataSets : data.last <= data.features

ASSUME KernelTypesAssumption == KernelTypes \subseteq {"linear", "polynomial", "rbf"}

ASSUME GammasAssumption ==
    GivenGammas \subseteq [n : Int, d : Nat \ {0}]

VARIABLES
    params,         \* params_ of the csvm
    gamma_given,    \* history: gamma is not the default any more
    accepted,       \* history: the parameters were accepted, and accepted
    model,          \* the models
    vector,         \* the vectors the models' w_ point to
    thread,         \* where a thread is in predict
    raced           \* history: two threads started to fill one vector

vars == <<params, gamma_given, accepted, model, vector, thread, raced>>

Default == [n |-> 0, d |-> 0]       \* a gamma that is not given
NoModel == [w |-> 0]
Idle == [at |-> "idle"]

Vectors == 1..Cardinality(Models)
Empty == [is |-> "empty"]
Torn == [is |-> "torn"]             \* while it is assigned
Undefined == [is |-> "undefined"]   \* after two assignments at a time

Used(i) == model[i] # NoModel
Predicting(t) == thread[t] # Idle

AllParams == [kernel_type : KernelTypes, gamma : GivenGammas \cup {Default}]

----------------------------------------------------------------------------
(* Parameters.                                                             *)

\* Mutant: only what is given is looked at.
SanityCheck_Provided(p, provided) ==
    "kernel_type" \in DOMAIN provided /\ "gamma" \in DOMAIN provided =>
        provided.kernel_type = "linear" \/ provided.gamma.n > 0

\* sanity_check_parameter, of the parameters p after provided was set.
SanityCheck(p, provided) ==
    p.kernel_type = "linear" \/ p.gamma = Default \/ p.gamma.n > 0

\* The named arguments of a call.
NamedArgs ==
    [kernel_type : KernelTypes] \cup [gamma : GivenGammas]
        \cup [kernel_type : KernelTypes, gamma : GivenGammas]

\* The parameters are set before they are checked.
SetParams(provided) ==
    /\ params' = [x \in DOMAIN params |->
                     IF x \in DOMAIN provided THEN provided[x] ELSE params[x]]
    /\ gamma_given' = (gamma_given \/ "gamma" \in DOMAIN provided)
    /\ accepted' = SanityCheck(params', provided)
    /\ UNCHANGED <<model, vector, thread, raced>>

\* The overload for a whole parameter checks nothing.
ReplaceParams(p) ==
    /\ params' = p
    /\ gamma_given' = (p.gamma # Default)
    /\ accepted' = FALSE
    /\ UNCHANGED <<model, vector, thread, raced>>

----------------------------------------------------------------------------
(* Models.                                                                 *)

\* The program assigns a model to variable i.  Vectors that no model points
\* to are freed; a new one is empty.
Assign(i, m) ==
    /\ \A t \in Threads : Predicting(t) => thread[t].model # i
    /\ model' = [model EXCEPT ![i] = m]
    /\ vector' = [v \in Vectors |->
         IF \E j \in Models \ {i} : model[j].w = v THEN vector[v] ELSE Empty]

\* A vector for a new model in variable i.  Which one it is does not matter.
NewVector(i, v) ==
    LET Free == {u \in Vectors : \A j \in Models \ {i} : model[j].w # u}
    IN  v \in Free /\ \A u \in Free : v <= u

OneOver(n) == [n |-> 1, d |-> n]

\* Mutant: the default becomes the csvm's own.
FitParams_Keep(gamma) == params' = [params EXCEPT !.gamma = gamma]

\* What fit does to the csvm's own parameters.
FitParams(gamma) == UNCHANGED params

\* Mutant: the vector of the model that was in the variable is used again.
FitVector_Reuse(i, v) == IF Used(i) THEN v = model[i].w ELSE NewVector(i, v)

\* The vector of a new model.
FitVector(i, v) == NewVector(i, v)

\* Data sets without labels are refused.
Fit(i, data) ==
    /\ data.counts # <<>>
    /\ LET gamma == IF params.gamma = Default THEN OneOver(data.features) ELSE params.gamma
           alpha == [kernel_type |-> params.kernel_type, gamma |-> gamma, data |-> data]
       IN  /\ \E v \in Vectors :
                /\ FitVector(i, v)
                /\ Assign(i, [kernel_type |-> params.kernel_type, gamma |-> gamma,
                              data |-> data, alpha |-> alpha, w |-> v])
           /\ FitParams(gamma)
    /\ UNCHANGED <<gamma_given, accepted, thread, raced>>

\* A copy shares data, weights and vector.
Copy(i, j) ==
    /\ Used(j) /\ i # j
    /\ Assign(i, model[j])
    /\ UNCHANGED <<params, gamma_given, accepted, thread, raced>>

----------------------------------------------------------------------------
(* The model file.  Weights and values are written with eleven digits,     *)
(* which is not told apart from exactly.                                   *)

SixDigits == 1000000

\* gamma with six digits, if it is neither large nor much smaller than 1.
Written(gamma) ==
    IF SixDigits % gamma.d = 0 THEN gamma
    ELSE [n |-> (2 * SixDigits * gamma.n + gamma.d) \div (2 * gamma.d), d |-> SixDigits]

\* Zeros are left out, and the reader takes the last index it meets for the
\* number of features.
ReadBack(data) == [data EXCEPT !.features = data.last]

\* Labels in the order of the data set's mapping.
Labels(data) == [c \in DOMAIN data.counts |-> c]

\* Mutant: gamma is written for every kernel.
Header_Gamma(m) ==
    WriteHeader("rbf", Written(m.gamma), Labels(m.data), m.data.counts)
        \o <<Entry("kernel_type", m.kernel_type)>>

Header(m) == WriteHeader(m.kernel_type, Written(m.gamma), Labels(m.data), m.data.counts)

Saved(m) == [header |-> Header(m), data |-> ReadBack(m.data), alpha |-> m.alpha]

\* What the parsers refuse: the header, data without a feature, and more or
\* fewer data than the header has labels for.
Readable(f) ==
    LET header == ParseHeader(f.header, Default)
    IN  header # Error /\ f.data.last > 0 /\ Len(header.labels) = Total(f.data.counts)

Loaded(f, v) ==
    LET header == ParseHeader(f.header, Default)
        counts == [c \in 1..2 |-> Cardinality({k \in DOMAIN header.labels : header.labels[k] = c})]
    IN  [kernel_type |-> header.kernel_type, gamma |-> header.gamma,
         data |-> [f.data EXCEPT !.counts = counts], alpha |-> f.alpha, w |-> v]

\* Model j is saved, and variable i is assigned the model loaded from its file.
Reload(i, j) ==
    /\ Used(j)
    /\ \E f \in {Saved(model[j])} :
         /\ Readable(f)
         /\ \E v \in Vectors : NewVector(i, v) /\ Assign(i, Loaded(f, v))
    /\ UNCHANGED <<params, gamma_given, accepted, thread, raced>>

----------------------------------------------------------------------------
(* predict, of which score is another use, on the OpenMP backend.          *)

\* Mutant: the csvm's parameters instead of the model's.
Decision_OwnParams(m) ==
    [kernel_type |-> params.kernel_type,
     gamma |-> IF params.kernel_type = "linear" THEN Default ELSE params.gamma,
     data |-> m.data, alpha |-> m.alpha, is |-> "decision"]

\* What decides the class of a point: kernel and support vectors with their
\* weights, or the normal vector made of them.
Decision(m) ==
    [kernel_type |-> m.kernel_type,
     gamma |-> IF m.kernel_type = "linear" THEN Default ELSE m.gamma,
     data |-> m.data, alpha |-> m.alpha, is |-> "decision"]

Filled(v) == vector[v].is = "decision"

At(t, here) == thread[t].at = here
W(t) == model[thread[t].model].w

\* Points with another number of features are refused.
BeginPredict(t, i, data) ==
    /\ ~Predicting(t)
    /\ Used(i)
    /\ model[i].data.features = data.features
    /\ LET linear == model[i].kernel_type = "linear"
       IN  /\ thread' = [thread EXCEPT ![t] =
                [at |-> IF linear THEN "test" ELSE "sum", model |-> i]]
           /\ raced' = (raced \/ (/\ linear /\ ~Filled(model[i].w)
                                  /\ \E u \in Threads : Predicting(u) /\ W(u) = model[i].w))
    /\ UNCHANGED <<params, gamma_given, accepted, model, vector>>

\* w.empty() is anything while the vector is assigned.
TestVector(t) ==
    /\ At(t, "test")
    /\ \E next \in {"calculate", "use"} :
         /\ Filled(W(t)) => next = "use"
         /\ vector[W(t)] = Empty => next = "calculate"
         /\ thread' = [thread EXCEPT ![t].at = next]
    /\ UNCHANGED <<params, gamma_given, accepted, model, vector, raced>>

StartAssignment(t) ==
    /\ At(t, "calculate")
    /\ vector' = [vector EXCEPT ![W(t)] = IF @ \in {Torn, Undefined} THEN Undefined ELSE Torn]
    /\ thread' = [thread EXCEPT ![t].at = "assign"]
    /\ UNCHANGED <<params, gamma_given, accepted, model, raced>>

EndAssignment(t) ==
    /\ At(t, "assign")
    /\ vector' = [vector EXCEPT ![W(t)] =
         IF @ = Undefined THEN Undefined ELSE Decision(model[thread[t].model])]
    /\ thread' = [thread EXCEPT ![t].at = "use"]
    /\ UNCHANGED <<params, gamma_given, accepted, model, raced>>

Finish(t) ==
    /\ thread' = [thread EXCEPT ![t] = Idle]
    /\ UNCHANGED <<params, gamma_given, accepted, model, vector, raced>>

UseVector(t) == At(t, "use") /\ Finish(t)

SumKernel(t) == At(t, "sum") /\ Finish(t)

Predict(t) ==
    TestVector(t) \/ StartAssignment(t) \/ EndAssignment(t) \/ UseVector(t) \/ SumKernel(t)

----------------------------------------------------------------------------
(* The constructor checks the parameters, given in either way.             *)
Init ==
    /\ params \in AllParams /\ SanityCheck(params, params)
    /\ gamma_given = (params.gamma # Default)
    /\ accepted = TRUE
    /\ model = [i \in Models |-> NoModel]
    /\ vector = [v \in Vectors |-> Empty]
    /\ thread = [t \in Threads |-> Idle]
    /\ raced = FALSE

Operation ==
    \/ \E provided \in NamedArgs : SetParams(provided)
    \/ \E p \in AllParams : ReplaceParams(p)
    \/ \E i \in Models :
         \/ \E data \in DataSets : Fit(i, data)
         \/ \E j \in Models : Copy(i, j) \/ Reload(i, j)
    \/ \E t \in Threads :
         \/ \E i \in Models, data \in DataSets : BeginPredict(t, i, data)
         \/ Predict(t)

\* Two unordered assignments of one vector: what the program does from there
\* on is undefined, and is not looked at.
Next == ~raced /\ Operation

Spec == Init /\ [][Next]_vars

----------------------------------------------------------------------------
(* Properties.                                                             *)

\* A vector that several models share is the normal vector of each of them, or
\* not yet filled: no model is given the vector of another one, however models
\* are overwritten, copied and loaded.
SharedVectorFits ==
    raced \/ \A i \in Models : Used(i) =>
        /\ vector[model[i].w] \in {Empty, Torn, Decision(model[i])}
        /\ vector[model[i].w] = Torn =>
             \E t \in Threads : At(t, "assign") /\ W(t) = model[i].w

\* A thread decides with what the model was trained for, with its own kernel
\* and gamma whatever the csvm's parameters are now, also after copies and any
\* number of trips through the file, which may cost digits of gamma once.  Two
\* threads may use a model and its copies at a time as long as they do not both
\* start before the vector is filled.
PredictsAsTrained ==
    raced \/ \A t \in Threads : thread[t].at \in {"use", "sum"} =>
        LET m == model[thread[t].model]
            alpha == m.alpha
            decision == IF At(t, "use") THEN vector[m.w] ELSE Decision(m)
        IN  /\ decision.is = "decision"
            /\ decision.alpha = alpha
            /\ decision.data \in {alpha.data, ReadBack(alpha.data)}
            /\ decision.kernel_type = alpha.kernel_type
            /\ alpha.kernel_type # "linear" =>
                 decision.gamma \in {alpha.gamma, Written(alpha.gamma)}

\* What the backends assert of gamma (OpenMP/svm_kernel.cpp) holds in every fit
\* before which set_params returned: also when a gamma was set for a kernel
\* that does not use it and the kernel was changed later, and after calls that
\* threw but changed the parameters.
FitsWithCheckedGamma ==
    [][accepted => \A i \in Models, data \in DataSets : Fit(i, data) =>
          model'[i].kernel_type = "linear" \/ model'[i].gamma.n > 0]_vars

\* As long as no gamma is given, every model has the default for its own data
\* set, and not the one of a data set before.
DefaultGammaFollowsData ==
    [][~gamma_given => \A i \in Models, data \in DataSets : Fit(i, data) =>
          model'[i].gamma = OneOver(data.features)]_vars

\* Unless the last feature is zero in every point, a saved model can be loaded,
\* accepts the data it was trained with, and is saved as the same file again.
\* The order in which another program writes the entries of the header does not
\* matter, and without one of those that are no parameters the file is refused.
SurvivesItsFile ==
    \A i \in Models : Used(i) =>
        LET data == model[i].alpha.data
            f == Saved(model[i])
            With(header) == [f EXCEPT !.header = header]
        IN  data.last = data.features =>
              /\ Readable(f) /\ Saved(Loaded(f, 1)) = f /\ Loaded(f, 1).data = data
              /\ LET g == With(Reverse(f.header))
                 IN  Readable(g) /\ Loaded(g, 1) = Loaded(f, 1)
              /\ \A k \in DOMAIN f.header : f.header[k].key \in Required =>
                    ~Readable(With(RemoveAt(f.header, k)))
=============================================================================
