----------------------------- MODULE SklearnSvc -----------------------------
(***************************************************************************)
(* A Python session with one object of the class SVC: the arguments of the *)
(* constructor and of set_params, fit, predict and score, and the          *)
(* attributes of what was fitted.                                          *)
(*                                                                         *)
(* The data and labels are arrays of numpy.  An array may be a view: its    *)
(* rows and columns, or its labels, are steps in a memory of other values. *)
(* What the solver computes is left out; no weight is zero.  The arrays    *)
(* have the types of the bindings (others are copied before): real_type is *)
(* double, the labels are numbers.  The csvm is the default one.           *)
(***************************************************************************)
EXTENDS Backends, Integers, SequencesExt

CONSTANTS
    Arguments,      \* keyword arguments of a call, [name |-> value]
    Arrays,         \* data with labels, [memory, start, rows, columns, row_step,
                    \* column_step, labels]; labels are [memory, start, step, size]
    MaxCalls        \* bound on the calls of the session

VARIABLES
    svc,            \* the object
    answer,         \* what the last call returned
    failed,         \* history: which calls have raised an exception since the
                    \* last fit that has not
    fitted,         \* history: what the model was fitted for
    calls

python_vars == <<svc, answer, failed, fitted, calls>>

Nothing == [is |-> "nothing"]
Raised == [is |-> "raised"]
Terminated == [is |-> "terminated"]

Has(args, name) == name \in DOMAIN args
Callable == svc \notin {Nothing, Terminated} /\ calls < MaxCalls
Fitted == svc.model # Nothing

----------------------------------------------------------------------------
(* Arrays.                                                                 *)

\* The element that Python shows, and the memory cell it lies in.
Cell(array, i, j) == array.start + (i - 1) * array.row_step + (j - 1) * array.column_step
Element(array, i, j) == array.memory[Cell(array, i, j)]

Elements(array) ==
    [i \in 1..array.rows |-> [j \in 1..array.columns |-> Element(array, i, j)]]

LabelCell(y, i) == y.start + (i - 1) * y.step
Labels(y) == [i \in 1..y.size |-> y.memory[LabelCell(y, i)]]

\* What lies outside of the memory; no array has it.
Outside == 0

\* An array lies in its memory.
ASSUME ArraysAssumption ==
    \A array \in Arrays :
        /\ array.rows \in Nat /\ array.columns \in Nat
        /\ array.start \in Int /\ array.row_step \in Int /\ array.column_step \in Int
        /\ array.memory \in Seq(Int \ {Outside})
        /\ \A i \in 1..array.rows, j \in 1..array.columns :
             Cell(array, i, j) \in DOMAIN array.memory
        /\ LET y == array.labels
           IN  /\ y.size \in Nat /\ y.start \in Int /\ y.step \in Int
               /\ y.memory \in Seq(Int \ {Outside})
               /\ \A i \in 1..y.size : LabelCell(y, i) \in DOMAIN y.memory

\* Each row is copied from its first element on, whatever the step between
\* columns is: what lies next to it in memory may belong to no array at all.
\* (Nothing is computed with points, so that one value stands for all.)
pyarray_to_matrix(array) ==
    [i \in 1..array.rows |-> [j \in 1..array.columns |->
        LET cell == Cell(array, i, 1) + j - 1
        IN  IF cell \in DOMAIN array.memory THEN array.memory[cell] ELSE Outside]]

\* Labels are copied from the first one on, whatever the step.  Which classes
\* there are depends on what is read: outside of the memory it is anything.
pyarray_to_vector(y) ==
    {labels \in [1..y.size -> ToSet(y.memory) \cup {Outside}] :
        \A i \in 1..y.size :
            y.start + i - 1 \in DOMAIN y.memory => labels[i] = y.memory[y.start + i - 1]}

\* Rows, or labels, that lie in one piece.
Dense(array) == array.columns = 1 \/ array.column_step = 1
LabelsDense(y) == y.step = 1

DataOf(array, labels) == [points |-> pyarray_to_matrix(array), labels |-> labels]
NumPoints(data) == Len(data.points)
NumFeatures(data) == Len(data.points[1])

\* The constructor of data_set: as many labels as points, of two classes.
Constructible(array, labels) ==
    Len(labels) = array.rows /\ Cardinality(ToSet(labels)) = 2

----------------------------------------------------------------------------
(* Parameters: kernel, gamma, tol and max_iter.  C, degree and coef0 are    *)
(* left out.                                                               *)

\* epsilon and max_iter are <<>> or <<value>>.
Params == [kernel |-> "linear", gamma |-> 0, gamma_given |-> FALSE]

\* sanity_check_parameter
Legal(params) == params.kernel = "linear" \/ ~params.gamma_given \/ params.gamma > 0

\* Arguments that are known but not implemented, and after which of the others
\* they are looked at.
AfterGamma == {"shrinking", "probability"}
AfterTol == {"cache_size", "class_weight"}
AfterMaxIter == {"decision_function_shape", "break_ties", "random_state"}
Valid == {"kernel", "gamma", "tol", "max_iter"} \cup AfterGamma \cup AfterTol \cup AfterMaxIter

SetKernel(object, args) ==
    IF Has(args, "kernel") THEN [object EXCEPT !.params.kernel = args.kernel] ELSE object
SetGamma(object, args) ==
    IF Has(args, "gamma")
    THEN [object EXCEPT !.params.gamma = args.gamma, !.params.gamma_given = TRUE] ELSE object
SetTol(object, args) ==
    IF Has(args, "tol") THEN [object EXCEPT !.epsilon = <<args.tol>>] ELSE object
SetMaxIter(object, args) ==
    IF Has(args, "max_iter") THEN [object EXCEPT !.max_iter = <<args.max_iter>>] ELSE object

\* The arguments are applied one after another; those before an error stay.
parse_provided_params(object, args) ==
    LET kernel == SetKernel(object, args)
        gamma == SetGamma(kernel, args)
        tol == SetTol(gamma, args)
        max_iter == SetMaxIter(tol, args)
        Broken(o) == [object |-> o, raised |-> TRUE]
        HasAny(names) == DOMAIN args \cap names # {}
    IN  CASE DOMAIN args \ Valid # {} -> Broken(object)
          [] Has(args, "kernel") /\ ~Legal(kernel.params) -> Broken(kernel)
          [] Has(args, "gamma") /\ ~Legal(gamma.params) -> Broken(gamma)
          [] HasAny(AfterGamma) -> Broken(gamma)
          [] HasAny(AfterTol) -> Broken(tol)
          [] HasAny(AfterMaxIter) -> Broken(max_iter)
          [] OTHER -> [object |-> max_iter, raised |-> FALSE]

----------------------------------------------------------------------------
(* Calls.                                                                  *)

Called == calls' = calls + 1
Returns(value) == answer' = value /\ failed' = failed
Raises(call) == answer' = Raised /\ failed' = failed \cup {call}

NewSvc == [svm |-> make_csvm("automatic", "automatic", "linear", "automatic"),
           params |-> Params, epsilon |-> <<>>, max_iter |-> <<>>,
           data |-> Nothing, model |-> Nothing]

\* A constructor that throws leaves no object.
Construct ==
    /\ svc = Nothing /\ calls < MaxCalls
    /\ \E args \in Arguments :
         LET parsed == parse_provided_params(NewSvc, args)
         IN  IF NewSvc.svm = Refused \/ parsed.raised
             THEN Raises("SVC") /\ UNCHANGED svc
             ELSE Returns(Nothing) /\ svc' = parsed.object
    /\ fitted' = Nothing
    /\ Called

SetParams ==
    /\ Callable
    /\ \E args \in Arguments :
         LET parsed == parse_provided_params(svc, args)
         IN  /\ svc' = parsed.object
             /\ IF parsed.raised THEN Raises("set_params") ELSE Returns(Nothing)
    /\ UNCHANGED fitted
    /\ Called

\* tol and max_iter are only checked here; a negative max_iter becomes a huge
\* one.  Every other error ends the program.
FitRaises(object) ==
    \/ object.epsilon # <<>> /\ object.epsilon[1] <= 0
    \/ object.max_iter = <<0>>

WithGamma(params) == [params EXCEPT !.gamma = IF params.gamma_given THEN @ ELSE 1]

FittedModel(object, data) == [params |-> WithGamma(object.params), data |-> data]

Fits(object, array) == [is |-> "fits", params |-> object.params, array |-> array]

\* The data are replaced before the model is fitted.
Fit ==
    /\ Callable
    /\ \E array \in Arrays : \E labels \in pyarray_to_vector(array.labels) :
         LET data == DataOf(array, labels)
             held == [svc EXCEPT !.data = data]
         IN  CASE ~Constructible(array, labels) -> Raises("fit data") /\ UNCHANGED svc
               [] Constructible(array, labels) /\ FitRaises(svc) -> Raises("fit") /\ svc' = held
               [] Constructible(array, labels) /\ ~FitRaises(svc) ->
                    IF FitEnds(svc.svm, svc.params.kernel) = "ok"
                    THEN /\ answer' = Fits(svc, array) /\ failed' = {}
                         /\ svc' = [held EXCEPT !.model = FittedModel(svc, data)]
                    ELSE Returns(Terminated) /\ svc' = Terminated
    /\ fitted' = IF answer'.is = "fits" THEN answer' ELSE fitted
    /\ Called

\* Mutant: the parameters of the object are taken.
UsedForPrediction_Current == svc.params

\* The parameters the csvm predicts with.
UsedForPrediction == svc.model.params

\* Mutant: the points to predict are kept, like those to fit.
AfterPrediction_Kept(data) == [svc EXCEPT !.data = data]

AfterPrediction(data) == svc

\* The points must have the features of the model's.
Predicts(data) ==
    /\ Fitted
    /\ NumFeatures(data) = NumFeatures(svc.model.data)
    /\ PredictEnds(svc.svm, UsedForPrediction.kernel) = "ok"

\* What an answer was computed from; the array is history.
Answer(is, data, array) ==
    [is |-> is, model |-> svc.model.data, params |-> UsedForPrediction,
     points |-> data.points, labels |-> data.labels, array |-> array]

\* predict
PredictLabels ==
    /\ Callable
    /\ \E array \in Arrays :
         LET data == DataOf(array, <<>>)
         IN  IF Predicts(data)
             THEN Returns(Answer("labels", data, array)) /\ svc' = AfterPrediction(data)
             ELSE Raises("predict") /\ UNCHANGED svc
    /\ UNCHANGED fitted
    /\ Called

\* The labels are read like those to fit.
Score ==
    /\ Callable
    /\ \E array \in Arrays : \E labels \in pyarray_to_vector(array.labels) :
         LET data == DataOf(array, labels)
         IN  IF Constructible(array, labels) /\ Predicts(data)
             THEN Returns(Answer("score", data, array)) /\ svc' = AfterPrediction(data)
             ELSE Raises("score") /\ UNCHANGED svc
    /\ UNCHANGED fitted
    /\ Called

----------------------------------------------------------------------------
(* Attributes.  Shape, classes and features are those of the data, the      *)
(* support vectors those of the model.                                      *)

classes_ == ToSet(svc.data.labels)
n_features_in_ == NumFeatures(svc.data)
shape_fit_ == <<NumPoints(svc.data), n_features_in_>>
support_ == 1..NumPoints(svc.model.data)
support_vectors_ == svc.model.data.points

\* The labels of the data, for each weight of the model.
SupportLabel(i) ==
    IF i \in DOMAIN svc.data.labels THEN svc.data.labels[i] ELSE Outside
n_support_ ==
    [l \in classes_ |-> Cardinality({i \in support_ : SupportLabel(i) = l})]

\* get_params reports a gamma that is not given as zero.
GetParams ==
    [kernel |-> svc.params.kernel, gamma |-> svc.params.gamma,
     tol |-> IF svc.epsilon = <<>> THEN 1 ELSE svc.epsilon[1],
     max_iter |-> IF svc.max_iter = <<>> THEN -1 ELSE svc.max_iter[1]]

\* The parameters of another object are given to this one.
Clone ==
    /\ Callable
    /\ LET parsed == parse_provided_params(NewSvc, GetParams)
       IN  IF parsed.raised THEN Raises("clone") /\ UNCHANGED svc
           ELSE Returns(Nothing) /\ svc' = parsed.object
    /\ fitted' = IF answer' = Raised THEN fitted ELSE Nothing
    /\ Called

----------------------------------------------------------------------------

PythonInit ==
    /\ svc = Nothing /\ answer = Nothing
    /\ failed = {} /\ fitted = Nothing /\ calls = 0

PythonNext == Construct \/ SetParams \/ Fit \/ PredictLabels \/ Score \/ Clone

PythonSpec == PythonInit /\ [][PythonNext]_python_vars

----------------------------------------------------------------------------
(* Properties.                                                             *)

\* The attributes describe the model that predict uses: for every class, and
\* in all, as many support vectors as its data have points.  Only a fit that
\* has raised an exception since may have put other data in their place.
AttributesDescribeModel ==
    svc \notin {Nothing, Terminated} /\ "fit" \notin failed =>
        (Fitted =>
            /\ shape_fit_ = <<Cardinality(support_), Len(support_vectors_[1])>>
            /\ \A l \in classes_ :
                 n_support_[l] = Cardinality({i \in support_ : svc.model.data.labels[i] = l})
            /\ support_ \subseteq DOMAIN svc.data.labels)

\* predict and score answer for the arrays as Python shows them, the fitted ones
\* and their own, as far as rows and labels lie in one piece, and with the
\* parameters of the time of the fit, whatever was set or tried since.
AnswersForItsFit ==
    answer.is \in {"labels", "score"} =>
        /\ answer.params = WithGamma(fitted.params)
        /\ Dense(fitted.array) => answer.model.points = Elements(fitted.array)
        /\ LabelsDense(fitted.array.labels) => answer.model.labels = Labels(fitted.array.labels)
        /\ Dense(answer.array) => answer.points = Elements(answer.array)
        /\ answer.is = "score" /\ LabelsDense(answer.array.labels) =>
             answer.labels = Labels(answer.array.labels)
=============================================================================
