--------------------------- MODULE FrontEndProofs ---------------------------
(***************************************************************************)
(* What a user starts, for every machine.  Parameter objects: equivalent   *)
(* ones train the same, with a gamma that the kernels accept.  The session *)
(* of Python: for all arrays and arguments and any number of calls,        *)
(* predict answers for what was fitted, and the attributes describe the    *)
(* model.  The shell: for all command lines, files and numbers of          *)
(* processes, success means results, an early failure costs no file, and   *)
(* what plssvm-train trained plssvm-predict can use.                       *)
(***************************************************************************)
EXTENDS CommandLine, SklearnSvc, Parameters, FiniteSetTheorems, TLAPS

----------------------------------------------------------------------------
(* The session of Python.                                                  *)

SvcFields == {"svm", "params", "epsilon", "max_iter", "data", "model"}

\* What a fit may make of an array.
DataOfFit(data, array) ==
    /\ array \in Arrays
    /\ \E labels \in pyarray_to_vector(array.labels) :
         Constructible(array, labels) /\ data = DataOf(array, labels)

\* A fitted object holds the model of its last fit, and the data of it as long
\* as no fit has failed since.
HoldsItsFit ==
    svc \notin {Nothing, Terminated} =>
        /\ DOMAIN svc = SvcFields
        /\ svc.model # Nothing =>
             /\ svc.model.params = WithGamma(fitted.params)
             /\ DataOfFit(svc.model.data, fitted.array)
             /\ "fit" \notin failed => svc.data = svc.model.data

SvcInv == HoldsItsFit /\ AnswersForItsFit

\* Arguments change neither the data nor the model.
LEMMA ParseKeepsModel ==
    ASSUME NEW self, DOMAIN self = SvcFields, NEW args
    PROVE  LET parsed == parse_provided_params(self, args).object
           IN  /\ DOMAIN parsed = SvcFields
               /\ parsed.model = self.model /\ parsed.data = self.data
<1> DEFINE kernel == SetKernel(self, args)
           gamma == SetGamma(kernel, args)
           tol == SetTol(gamma, args)
           max_iter == SetMaxIter(tol, args)
           parsed == parse_provided_params(self, args).object
           Kept(o) == DOMAIN o = SvcFields /\ o.model = self.model /\ o.data = self.data
<1>1. Kept(self)
  OBVIOUS
<1>2. Kept(kernel)
  BY <1>1 DEF SetKernel, SvcFields
<1>3. Kept(gamma)
  BY <1>2 DEF SetGamma, SvcFields
<1>4. Kept(tol)
  BY <1>3 DEF SetTol, SvcFields
<1>5. Kept(max_iter)
  BY <1>4 DEF SetMaxIter, SvcFields
<1>6. parsed \in {self, kernel, gamma, tol, max_iter}
  BY DEF parse_provided_params
<1>7. QED
  BY <1>1, <1>2, <1>3, <1>4, <1>5, <1>6

\* A row in one piece is copied as it is seen.
LEMMA DenseIsCopied ==
    ASSUME NEW array \in Arrays, Dense(array)
    PROVE  pyarray_to_matrix(array) = Elements(array)
<1>1. SUFFICES ASSUME NEW i \in 1..array.rows, NEW j \in 1..array.columns
               PROVE  Cell(array, i, 1) + j - 1 = Cell(array, i, j)
  BY <1>1, ArraysAssumption DEF pyarray_to_matrix, Elements, Element
<1>2. /\ array.start \in Int /\ array.row_step \in Int /\ array.column_step \in Int
      /\ array.rows \in Nat /\ array.columns \in Nat
  BY ArraysAssumption
<1>3. i \in Int /\ j \in Int /\ (i - 1) * array.row_step \in Int
  BY <1>2
<1>4. CASE array.columns = 1
  <2>1. j = 1
    BY <1>4
  <2>2. Cell(array, i, 1) \in Int
    BY <1>2, <1>3 DEF Cell
  <2>3. QED
    BY <2>1, <2>2
<1>5. CASE array.column_step = 1
  BY <1>2, <1>3, <1>5 DEF Cell
<1>6. QED
  BY <1>4, <1>5 DEF Dense

\* So are labels in one piece.
LEMMA DenseLabelsAreCopied ==
    ASSUME NEW array \in Arrays, LabelsDense(array.labels),
           NEW labels \in pyarray_to_vector(array.labels)
    PROVE  labels = Labels(array.labels)
<1> DEFINE y == array.labels
<1>1. /\ y.size \in Nat /\ y.start \in Int /\ y.step = 1
      /\ \A i \in 1..y.size : LabelCell(y, i) \in DOMAIN y.memory
  BY ArraysAssumption DEF LabelsDense
<1>2. \A i \in 1..y.size : LabelCell(y, i) = y.start + i - 1
  BY <1>1 DEF LabelCell
<1>3. /\ labels \in [1..y.size -> ToSet(y.memory) \cup {Outside}]
      /\ \A i \in 1..y.size :
           y.start + i - 1 \in DOMAIN y.memory => labels[i] = y.memory[y.start + i - 1]
  BY DEF pyarray_to_vector
<1>4. \A i \in 1..y.size : labels[i] = y.memory[LabelCell(y, i)]
  BY <1>1, <1>2, <1>3
<1> HIDE DEF y
<1>5. labels = [i \in 1..y.size |-> y.memory[LabelCell(y, i)]]
  BY <1>3, <1>4
<1>6. QED
  BY <1>5 DEF Labels, y

LEMMA InitSvcInv == PythonInit => SvcInv
  BY DEF PythonInit, SvcInv, HoldsItsFit, AnswersForItsFit, Nothing

LEMMA StepHoldsItsFit == HoldsItsFit /\ [PythonNext]_python_vars => HoldsItsFit'
<1> DEFINE Holds == /\ DOMAIN svc' = SvcFields
                    /\ svc'.model # Nothing =>
                         /\ svc'.model.params = WithGamma(fitted'.params)
                         /\ DataOfFit(svc'.model.data, fitted'.array)
                         /\ "fit" \notin failed' => svc'.data = svc'.model.data
<1>0. SUFFICES ASSUME HoldsItsFit, [PythonNext]_python_vars, svc' \notin {Nothing, Terminated}
               PROVE  Holds
  BY DEF HoldsItsFit, Nothing, Terminated, WithGamma, DataOfFit, Constructible, DataOf,
         pyarray_to_matrix, pyarray_to_vector, Cell, Outside
<1>1. DOMAIN NewSvc = SvcFields /\ NewSvc.model = Nothing
  BY DEF NewSvc, SvcFields
<1>2. Callable =>
        /\ DOMAIN svc = SvcFields
        /\ svc.model # Nothing =>
             /\ svc.model.params = WithGamma(fitted.params)
             /\ DataOfFit(svc.model.data, fitted.array)
             /\ "fit" \notin failed => svc.data = svc.model.data
  BY <1>0 DEF Callable, HoldsItsFit
<1>3. CASE Construct
  <2>1. PICK args \in Arguments : svc' \in {svc, parse_provided_params(NewSvc, args).object}
    BY <1>3 DEF Construct
  <2>2. svc' = parse_provided_params(NewSvc, args).object
    BY <1>0, <1>3, <2>1 DEF Construct
  <2>3. DOMAIN svc' = SvcFields /\ svc'.model = Nothing
    BY <1>1, <2>2, ParseKeepsModel
  <2>4. QED
    BY <2>3
<1>4. CASE SetParams
  <2>1. PICK args \in Arguments : /\ svc' = parse_provided_params(svc, args).object
                                  /\ failed' \in {failed, failed \cup {"set_params"}}
    BY <1>4 DEF SetParams, Raises, Returns
  <2>2. Callable /\ fitted' = fitted
    BY <1>4 DEF SetParams
  <2>3. DOMAIN svc' = SvcFields /\ svc'.model = svc.model /\ svc'.data = svc.data
    BY <1>2, <2>1, <2>2, ParseKeepsModel
  <2>4. "fit" \notin failed' => "fit" \notin failed
    BY <2>1
  <2>5. QED
    BY <1>2, <2>2, <2>3, <2>4
<1>5. CASE Fit
  <2> DEFINE held(data) == [svc EXCEPT !.data = data]
  <2>1. Callable /\ fitted' = IF answer'.is = "fits" THEN answer' ELSE fitted
    BY <1>5 DEF Fit
  <2>2. PICK array \in Arrays : \E labels \in pyarray_to_vector(array.labels) :
          \/ Raises("fit data") /\ UNCHANGED svc
          \/ Raises("fit") /\ svc' = held(DataOf(array, labels))
          \/ /\ Constructible(array, labels) /\ answer' = Fits(svc, array)
             /\ svc' = [held(DataOf(array, labels)) EXCEPT !.model = FittedModel(svc, DataOf(array, labels))]
          \/ svc' = Terminated
    BY <1>5 DEF Fit
  <2>3. PICK labels \in pyarray_to_vector(array.labels) :
          \/ Raises("fit data") /\ UNCHANGED svc
          \/ Raises("fit") /\ svc' = held(DataOf(array, labels))
          \/ /\ Constructible(array, labels) /\ answer' = Fits(svc, array)
             /\ svc' = [held(DataOf(array, labels)) EXCEPT !.model = FittedModel(svc, DataOf(array, labels))]
          \/ svc' = Terminated
    BY <2>2
  <2> DEFINE data == DataOf(array, labels)
  <2>4. CASE Raises("fit data") /\ UNCHANGED svc
    <3>1. fitted' = fitted /\ ("fit" \notin failed' => "fit" \notin failed)
      BY <2>1, <2>4 DEF Raises, Raised
    <3>2. QED
      BY <1>2, <2>1, <2>4, <3>1
  <2>5. CASE Raises("fit") /\ svc' = held(data)
    <3>1. fitted' = fitted /\ "fit" \in failed'
      BY <2>1, <2>5 DEF Raises, Raised
    <3>2. DOMAIN svc' = SvcFields /\ svc'.model = svc.model
      BY <1>2, <2>1, <2>5 DEF SvcFields
    <3>3. QED
      BY <1>2, <2>1, <3>1, <3>2
  <2>6. CASE /\ Constructible(array, labels) /\ answer' = Fits(svc, array)
             /\ svc' = [held(data) EXCEPT !.model = FittedModel(svc, data)]
    <3>1. fitted' = [is |-> "fits", params |-> svc.params, array |-> array]
      BY <2>1, <2>6 DEF Fits
    <3>2. DataOfFit(data, array)
      BY <2>6 DEF DataOfFit
    <3> HIDE DEF data
    <3>3. /\ DOMAIN svc' = SvcFields /\ svc'.model = FittedModel(svc, data) /\ svc'.data = data
      BY <1>2, <2>1, <2>6 DEF SvcFields
    <3>4. QED
      BY <3>1, <3>2, <3>3 DEF FittedModel
  <2>7. CASE svc' = Terminated
    BY <1>0, <2>7
  <2>8. QED
    BY <2>3, <2>4, <2>5, <2>6, <2>7
<1>6. CASE PredictLabels \/ Score
  <2>1. /\ Callable /\ fitted' = fitted /\ svc' = svc
        /\ failed' \in {failed, failed \cup {"predict"}, failed \cup {"score"}}
    BY <1>6 DEF PredictLabels, Score, Raises, Returns, AfterPrediction
  <2>2. "fit" \notin failed' => "fit" \notin failed
    BY <2>1
  <2>3. QED
    BY <1>2, <2>1, <2>2
<1>7. CASE Clone
  <2> DEFINE parsed == parse_provided_params(NewSvc, GetParams)
  <2>1. CASE parsed.raised
    <3>1. answer' = Raised /\ failed' = failed \cup {"clone"} /\ svc' = svc /\ fitted' = fitted /\ Callable
      BY <1>7, <2>1 DEF Clone, Raises
    <3>2. "fit" \notin failed' => "fit" \notin failed
      BY <3>1
    <3>3. QED
      BY <1>2, <3>1, <3>2
  <2>2. CASE ~parsed.raised
    <3>1. svc' = parsed.object
      BY <1>7, <2>2 DEF Clone
    <3>2. DOMAIN svc' = SvcFields /\ svc'.model = Nothing
      BY <1>1, <3>1, ParseKeepsModel
    <3>3. QED
      BY <3>2
  <2>3. QED
    BY <2>1, <2>2
<1>8. CASE UNCHANGED python_vars
  BY <1>0, <1>8 DEF python_vars, HoldsItsFit
<1>9. QED
  BY <1>0, <1>3, <1>4, <1>5, <1>6, <1>7, <1>8 DEF PythonNext

LEMMA StepAnswers ==
    HoldsItsFit /\ AnswersForItsFit /\ [PythonNext]_python_vars => AnswersForItsFit'
<1> DEFINE Right == /\ answer'.params = WithGamma(fitted'.params)
                    /\ Dense(fitted'.array) => answer'.model.points = Elements(fitted'.array)
                    /\ LabelsDense(fitted'.array.labels) =>
                         answer'.model.labels = Labels(fitted'.array.labels)
                    /\ Dense(answer'.array) => answer'.points = Elements(answer'.array)
                    /\ answer'.is = "score" /\ LabelsDense(answer'.array.labels) =>
                         answer'.labels = Labels(answer'.array.labels)
<1>0. SUFFICES ASSUME HoldsItsFit, AnswersForItsFit, [PythonNext]_python_vars,
                      answer'.is \in {"labels", "score"}
               PROVE  Right
  BY DEF AnswersForItsFit, Dense, LabelsDense, Elements, Element, Cell, Labels, LabelCell, WithGamma
<1>1. CASE PredictLabels \/ Score
  <2>1. fitted' = fitted /\ Callable
    BY <1>1 DEF PredictLabels, Score
  <2>2. ASSUME NEW array \in Arrays, NEW labels, NEW is, Fitted,
               is = "score" => labels \in pyarray_to_vector(array.labels),
               answer' = Answer(is, DataOf(array, labels), array)
        PROVE  Right
    <3>1. svc.model.params = WithGamma(fitted.params) /\ DataOfFit(svc.model.data, fitted.array)
      BY <1>0, <2>1, <2>2 DEF HoldsItsFit, Fitted, Callable
    <3>2. PICK read \in pyarray_to_vector(fitted.array.labels) :
            fitted.array \in Arrays /\ svc.model.data = DataOf(fitted.array, read)
      BY <3>1 DEF DataOfFit
    <3>3. Dense(fitted.array) => svc.model.data.points = Elements(fitted.array)
      BY <3>2, DenseIsCopied DEF DataOf
    <3>4. LabelsDense(fitted.array.labels) => svc.model.data.labels = Labels(fitted.array.labels)
      BY <3>2, DenseLabelsAreCopied DEF DataOf
    <3>5. Dense(array) => DataOf(array, labels).points = Elements(array)
      BY <2>2, DenseIsCopied DEF DataOf
    <3>6. is = "score" /\ LabelsDense(array.labels) =>
            DataOf(array, labels).labels = Labels(array.labels)
      BY <2>2, DenseLabelsAreCopied DEF DataOf
    <3>7. /\ answer'.is = is /\ answer'.array = array
          /\ answer'.model = svc.model.data /\ answer'.params = svc.model.params
          /\ answer'.points = DataOf(array, labels).points
          /\ answer'.labels = DataOf(array, labels).labels
      BY <2>2 DEF Answer, UsedForPrediction
    <3>8. QED
      BY <2>1, <3>1, <3>3, <3>4, <3>5, <3>6, <3>7
  <2>3. CASE PredictLabels
    <3>1. PICK array \in Arrays : Fitted /\ answer' = Answer("labels", DataOf(array, <<>>), array)
      BY <1>0, <2>3 DEF PredictLabels, Predicts, Raises, Returns, Raised
    <3>2. QED
      BY <2>2, <3>1, Zenon
  <2>4. CASE Score
    <3>1. PICK array \in Arrays : \E labels \in pyarray_to_vector(array.labels) :
            Fitted /\ answer' = Answer("score", DataOf(array, labels), array)
      BY <1>0, <2>4 DEF Score, Predicts, Raises, Returns, Raised
    <3>2. PICK labels \in pyarray_to_vector(array.labels) :
            Fitted /\ answer' = Answer("score", DataOf(array, labels), array)
      BY <3>1
    <3>3. QED
      BY <2>2, <3>2, Zenon
  <2>5. QED
    BY <1>1, <2>3, <2>4
<1>2. CASE Construct \/ SetParams \/ Clone
  BY <1>0, <1>2 DEF Construct, SetParams, Clone, Raises, Returns, Raised, Nothing
<1>3. CASE Fit
  <2>1. answer' \in {Raised, Terminated} \cup {Fits(svc, array) : array \in Arrays}
    BY <1>3 DEF Fit, Raises, Returns
  <2>2. QED
    BY <1>0, <2>1 DEF Raised, Terminated, Fits
<1>4. CASE UNCHANGED python_vars
  BY <1>0, <1>4 DEF python_vars, AnswersForItsFit
<1>5. QED
  BY <1>0, <1>1, <1>2, <1>3, <1>4 DEF PythonNext

LEMMA SvcInvariant == PythonSpec => []SvcInv
<1>1. SvcInv /\ [PythonNext]_python_vars => SvcInv'
  BY StepHoldsItsFit, StepAnswers DEF SvcInv
<1>2. QED
  BY <1>1, InitSvcInv, PTL DEF PythonSpec

LEMMA SvcInvDescribes == SvcInv => AttributesDescribeModel
<1>0. SUFFICES ASSUME SvcInv, svc \notin {Nothing, Terminated}, "fit" \notin failed, Fitted
               PROVE  /\ shape_fit_ = <<Cardinality(support_), Len(support_vectors_[1])>>
                      /\ \A l \in classes_ :
                           n_support_[l] = Cardinality({i \in support_ : svc.model.data.labels[i] = l})
                      /\ support_ \subseteq DOMAIN svc.data.labels
  BY DEF AttributesDescribeModel
<1> DEFINE array == fitted.array
<1>1. PICK labels \in pyarray_to_vector(array.labels) :
        /\ array \in Arrays /\ Constructible(array, labels)
        /\ svc.model.data = DataOf(array, labels) /\ svc.data = svc.model.data
  BY <1>0 DEF SvcInv, HoldsItsFit, Fitted, DataOfFit
<1>2. array.rows \in Nat /\ DOMAIN labels = 1..array.rows
  <2> DEFINE size == array.labels.size
  <2>1. array.rows \in Nat /\ size \in Nat
    BY <1>1, ArraysAssumption
  <2>2. labels \in [1..size -> ToSet(array.labels.memory) \cup {Outside}]
    BY DEF pyarray_to_vector
  <2> HIDE DEF size
  <2>3. Len(labels) = size
    BY <2>1, <2>2
  <2>4. QED
    BY <1>1, <2>1, <2>2, <2>3 DEF Constructible
<1>3. NumPoints(svc.model.data) = array.rows
  <2> DEFINE matrix == pyarray_to_matrix(array)
             rows == {matrix[i] : i \in 1..array.rows}
  <2>1. matrix \in [1..array.rows -> rows]
    BY DEF pyarray_to_matrix
  <2> HIDE DEF matrix, rows
  <2>2. Len(matrix) = array.rows
    BY <1>2, <2>1
  <2>3. QED
    BY <1>1, <2>2 DEF NumPoints, DataOf, matrix
<1>4. Cardinality(support_) = array.rows
  BY <1>2, <1>3, FS_Interval DEF support_
<1>5. shape_fit_ = <<Cardinality(support_), Len(support_vectors_[1])>>
  BY <1>1, <1>3, <1>4 DEF shape_fit_, n_features_in_, NumFeatures, support_vectors_
<1>6. /\ support_ \subseteq DOMAIN svc.data.labels
      /\ \A i \in support_ : SupportLabel(i) = svc.model.data.labels[i]
  BY <1>1, <1>2, <1>3 DEF support_, SupportLabel, DataOf
<1>7. ASSUME NEW l \in classes_
      PROVE  n_support_[l] = Cardinality({i \in support_ : svc.model.data.labels[i] = l})
  <2>1. {i \in support_ : SupportLabel(i) = l} = {i \in support_ : svc.model.data.labels[i] = l}
    BY <1>6
  <2>2. QED
    BY <2>1 DEF n_support_
<1>8. QED
  BY <1>5, <1>6, <1>7

\* predict and score answer for the arrays of the last successful fit and of the
\* call as Python shows them, as far as rows and labels lie in one piece, with the
\* parameters of the time of the fit, after any calls between.
THEOREM AnswersCorrect == PythonSpec => []AnswersForItsFit
  BY SvcInvariant, PTL DEF SvcInv

\* Unless a fit has raised an exception since the last one that has not, the
\* attributes are those of the model that predict uses.
THEOREM AttributesCorrect == PythonSpec => []AttributesDescribeModel
  BY SvcInvariant, SvcInvDescribes, PTL

----------------------------------------------------------------------------
(***************************************************************************)
(* The shell.  A step of a process either leaves the files alone, or it    *)
(* changes one file, and whoever uses that file is not alone any more.     *)
(***************************************************************************)
TrainFields == {"program", "input", "output", "kernel", "backend", "target", "impl", "epsilon", "strings", "track"}
PredictFields == {"program", "input", "model", "output", "backend", "target", "impl", "strings", "track"}
ScaleFields == {"program", "input", "output", "save", "restore", "range", "format", "strings", "track"}

OptionsOK(opts) ==
    /\ \/ opts.program = "train" /\ DOMAIN opts = TrainFields
       \/ opts.program = "predict" /\ DOMAIN opts = PredictFields /\ opts.model # NoPath
       \/ opts.program = "scale" /\ DOMAIN opts = ScaleFields
    /\ opts.input # NoPath

Paths(opts) == Inputs(opts) \cup Outputs(opts)

\* What a model in a file says of the run that made it.
ModelOK(f) ==
    f.is = "model" =>
        /\ make_csvm(f.by.backend, f.by.target, f.kernel,
                     IF f.by.backend = "sycl" THEN f.by.impl ELSE "automatic") # Refused
        /\ DataReads(f.data, f.by.strings)
        /\ f.features = Whole(f.data).last /\ f.text = Whole(f.data).text

LogOK(f) == f.is = "log" => f.docs \in Seq(ToSet(f.docs))

FilesOK == \A path \in DOMAIN files : ModelOK(files[path]) /\ LogOK(files[path])

TodoOK(todo) ==
    /\ todo \in Seq(ToSet(todo))
    /\ \A n \in DOMAIN todo : ModelOK(todo[n][2]) /\ todo[n][2].is # "log"

\* What is to be written are outputs.
OnlyOutputs(r) == \A n \in DOMAIN r.todo : r.todo[n][1] \in Outputs(r.opts) \cup {NoPath}

\* A running process, whatever the others do.
RunsOK(r) ==
    /\ {"at", "opts", "alone", "saw"} \subseteq DOMAIN r
    /\ r.at \in {"restore", "read", "work", "predict", "open", "write"}
    /\ OptionsOK(r.opts) /\ DOMAIN r.saw = Paths(r.opts)
    /\ \A path \in DOMAIN r.saw : ModelOK(r.saw[path])
    /\ r.at = "restore" => r.opts.program = "scale" /\ r.opts.restore # NoPath
    /\ r.at = "predict" => r.opts.program = "predict"
    /\ "factors" \in DOMAIN r => r.opts.program = "scale" /\ r.factors.is \notin {"model", "log"}
    /\ r.at \in {"work", "predict"} => "data" \in DOMAIN r /\ DataReads(r.data, r.opts.strings)
    /\ r.at = "predict" => "model" \in DOMAIN r
    /\ r.at \in {"open", "write"} => "todo" \in DOMAIN r /\ TodoOK(r.todo) /\ OnlyOutputs(r)
    /\ r.at = "write" => r.todo # <<>>

ProcessesOK ==
    /\ DOMAIN proc = Processes
    /\ \A p \in Processes : Running(p) => RunsOK(proc[p])

\* Nobody writes a file of a process that is alone, and until it writes them
\* itself they are what it saw; inputs that are no outputs stay so.
AloneOK(p) ==
    Running(p) /\ proc[p].alone =>
        /\ \A q \in Processes \ {p}, path \in DOMAIN proc[p].saw : ~Writing(q, path)
        /\ \A path \in DOMAIN proc[p].saw :
             proc[p].at \notin {"open", "write"} \/ path \notin Outputs(proc[p].opts) =>
               File(path) = proc[p].saw[path]

\* What a process has read is what it saw.
ReadRight(r) ==
    /\ r.at \in {"work", "predict"} => r.data = r.saw[r.opts.input]
    /\ r.at = "predict" => r.model = r.saw[r.opts.model]
    /\ r.at \in {"read", "work"} /\ r.opts.program = "scale" =>
         IF r.opts.restore = NoPath THEN "factors" \notin DOMAIN r
         ELSE "factors" \in DOMAIN r /\ r.factors = r.saw[r.opts.restore]

\* The last that will be written to an output is what is expected, or it has
\* been written.
LastTo(todo, path, content) ==
    \E n \in DOMAIN todo :
        todo[n] = <<path, content>> /\ \A m \in DOMAIN todo : m > n => todo[m][1] # path

WritesRight(r, path) ==
    \/ LastTo(r.todo, path, Expected(r.opts, r.saw)[path])
    \/ /\ File(path) = Expected(r.opts, r.saw)[path]
       /\ \A n \in DOMAIN r.todo : r.todo[n][1] # path

QuietOK(p) ==
    Running(p) /\ Undisturbed(p) =>
        /\ ReadRight(proc[p])
        /\ proc[p].at \in {"open", "write"} =>
             \A path \in Outputs(proc[p].opts) : WritesRight(proc[p], path)
        /\ proc[p].at = "write" /\ Head(proc[p].todo)[1] \in Outputs(proc[p].opts) =>
             File(Head(proc[p].todo)[1]) = Cut(Head(proc[p].todo)[2])

ShellInv ==
    /\ FilesOK /\ ProcessesOK
    /\ \A p \in Processes : AloneOK(p) /\ QuietOK(p)

ShellStep(p) ==
    \/ Start(p) \/ ReadFactors(p) \/ ReadData(p)
    \/ Train(p) \/ ReadModel(p) \/ Predict(p) \/ Scale(p)
    \/ Open(p) \/ Write(p) \/ WriteFails(p) \/ Finish(p)

----------------------------------------------------------------------------
LEMMA FileIsOK == ASSUME FilesOK, NEW path PROVE ModelOK(File(path)) /\ LogOK(File(path))
  BY DEF FilesOK, File, NoFile, ModelOK, LogOK

LEMMA OptionsAreOK ==
    ASSUME NEW call \in Calls, ~Rejects(call)
    PROVE  OptionsOK(Options(call))
<1>1. "input" \in DOMAIN call => call.input # NoPath
  BY ShellAssumption DEF NoPath
<1>2. "model" \in DOMAIN call => call.model # NoPath
  BY ShellAssumption DEF NoPath
<1>3. CASE call.program = "train"
  BY <1>1, <1>3 DEF Rejects, TrainRejects, Options, TrainOptions, OptionsOK, TrainFields
<1>4. CASE call.program = "predict"
  BY <1>1, <1>2, <1>4 DEF Rejects, PredictRejects, Options, PredictOptions, OptionsOK, PredictFields
<1>5. CASE call.program \notin {"train", "predict"}
  BY <1>1, <1>5 DEF Rejects, ScaleRejects, Options, ScaleOptions, OptionsOK, ScaleFields
<1>6. QED
  BY <1>3, <1>4, <1>5

\* A process that has just started.
LEMMA StartRuns ==
    ASSUME FilesOK, ProcessesOK, NEW p \in Processes, Start(p), Running(p)'
    PROVE  \E opts, alone :
             /\ OptionsOK(opts)
             /\ alone => \A q \in Processes, path \in Paths(opts) : ~Writing(q, path)
             /\ "restore" \in DOMAIN opts => opts.program = "scale"
             /\ proc'[p] = [at |-> IF Opt(opts, "restore", NoPath) = NoPath THEN "read" ELSE "restore",
                           opts |-> opts, alone |-> alone,
                           saw |-> [path \in Paths(opts) |-> File(path)]]
<1>1. PICK call \in Calls :
         CASE Unparsable(call) -> Exit(p, "failure")
           [] ~Unparsable(call) /\ "help" \in DOMAIN call -> Exit(p, "success")
           [] ~Unparsable(call) /\ "help" \notin DOMAIN call /\ Rejects(call) -> Exit(p, "failure")
           [] OTHER ->
                LET opts == Options(call)
                IN  proc' = [proc EXCEPT ![p] =
                        [at |-> IF Opt(opts, "restore", NoPath) = NoPath THEN "read" ELSE "restore",
                         opts |-> opts,
                         alone |-> \A q \in Processes, path \in Inputs(opts) \cup Outputs(opts) :
                                       ~Writing(q, path),
                         saw |-> [path \in Inputs(opts) \cup Outputs(opts) |-> File(path)]]]
  BY DEF Start
<1>2. \A exit : ~Exit(p, exit)
  BY DEF Exit, Exited, Running, ProcessesOK
<1> DEFINE opts == Options(call)
           alone == \A q \in Processes, path \in Paths(opts) : ~Writing(q, path)
<1>3. ~Rejects(call) /\ proc' = [proc EXCEPT ![p] =
                        [at |-> IF Opt(opts, "restore", NoPath) = NoPath THEN "read" ELSE "restore",
                         opts |-> opts, alone |-> alone,
                         saw |-> [path \in Paths(opts) |-> File(path)]]]
  BY <1>1, <1>2 DEF Paths
<1>4. OptionsOK(opts)
  BY <1>3, OptionsAreOK
<1>5. "restore" \in DOMAIN opts => opts.program = "scale"
  BY <1>4 DEF OptionsOK, TrainFields, PredictFields
<1>6. proc'[p] = [at |-> IF Opt(opts, "restore", NoPath) = NoPath THEN "read" ELSE "restore",
                  opts |-> opts, alone |-> alone,
                  saw |-> [path \in Paths(opts) |-> File(path)]]
  BY <1>3 DEF ProcessesOK
<1>7. QED
  BY <1>4, <1>5, <1>6

LEMMA SameMachine == ASSUME UNCHANGED machine PROVE \A f : ModelOK(f)' <=> ModelOK(f)
<1>1. determine_default_backend' = determine_default_backend
  BY DEF determine_default_backend, available_backends, available_target_platforms, build
<1>2. \A target : openmp_csvm(target)' = openmp_csvm(target)
  BY DEF openmp_csvm, available_target_platforms, build, Refused, Csvm
<1>3. \A target : cuda_csvm(target)' = cuda_csvm(target)
  BY DEF cuda_csvm, available_target_platforms, build, Refused, Csvm, Offered
<1>4. \A target : hip_csvm(target)' = hip_csvm(target)
  BY DEF hip_csvm, available_target_platforms, build, Refused, Csvm, Offered
<1>5. \A target, t : opencl_csvm(target, t)' = opencl_csvm(target, t)
  BY DEF opencl_csvm, available_target_platforms, build, Refused, Csvm, Requestable, get_contexts,
         EnabledDevices, Selected
<1>6. \A target : dpcpp_csvm(target)' = dpcpp_csvm(target)
  BY DEF dpcpp_csvm, available_target_platforms, build, Refused, Csvm, Requestable,
         dpcpp_device_list, EnabledDevices, Selected
<1>7. \A target : hipsycl_csvm(target)' = hipsycl_csvm(target)
  BY DEF hipsycl_csvm, available_target_platforms, build, Refused, Csvm, Requestable,
         hipsycl_device_list, EnabledDevices, Selected
<1>8. \A impl, target : make_csvm_sycl(impl, target)' = make_csvm_sycl(impl, target)
  BY <1>6, <1>7 DEF make_csvm_sycl, build, Refused
<1>9. \A b, t, k, i : make_csvm(b, t, k, i)' = make_csvm(b, t, k, i)
  BY <1>1, <1>2, <1>3, <1>4, <1>5, <1>8 DEF make_csvm, available_backends, build, Refused
<1>10. QED
  BY <1>9 DEF ModelOK, Refused, DataReads, Whole

LEMMA SameRuns == ASSUME UNCHANGED machine PROVE \A r : RunsOK(r)' <=> RunsOK(r)
  BY SameMachine DEF RunsOK, TodoOK, OnlyOutputs, OptionsOK, Paths, Inputs, Outputs, DataReads, Whole,
         TrainFields, PredictFields, ScaleFields, NoPath

\* A process goes on without a file changed.
LEMMA GoesKeeps ==
    ASSUME ProcessesOK, NEW p \in Processes, Running(p), NEW at, NEW name, NEW computed,
           name \notin {"at", "opts", "alone", "saw"}, Goes(p, at, name, computed)
    PROVE  /\ files' = files /\ proc' = [proc EXCEPT ![p] = proc'[p]]
           /\ proc'[p].at = at /\ proc'[p][name] = computed
           /\ DOMAIN proc'[p] = DOMAIN proc[p] \cup {name}
           /\ \A x \in DOMAIN proc[p] \ {"at", name} : proc'[p][x] = proc[p][x]
<1> DEFINE next == [x \in DOMAIN proc[p] \cup {name} |->
                      CASE x = name -> computed [] x = "at" -> at [] OTHER -> proc[p][x]]
<1>1. proc' = [proc EXCEPT ![p] = next] /\ files' = files
  BY DEF Goes
<1>2. proc'[p] = next
  BY <1>1 DEF ProcessesOK
<1>3. "at" \in DOMAIN proc[p]
  BY DEF ProcessesOK, RunsOK
<1>4. QED
  BY <1>1, <1>2, <1>3
\* What a step of process q may do to the files and the other processes: S are
\* the paths it changes.
Affects(q, S) ==
    /\ DOMAIN proc' = Processes
    /\ \A path : path \notin S => File(path)' = File(path)
    /\ \A path : Writing(q, path)' => path \in S
    /\ \A p \in Processes \ {q} :
         \/ proc'[p] = proc[p] /\ \A path \in S : ~Touches(p, path)
         \/ Running(p) /\ proc'[p] = [proc[p] EXCEPT !.alone = FALSE]

LEMMA SilentAffects ==
    ASSUME ProcessesOK, NEW q \in Processes, files' = files, proc' = [proc EXCEPT ![q] = proc'[q]],
           proc'[q].at # "write"
    PROVE  Affects(q, {})
  BY DEF Affects, ProcessesOK, File, Writing

LEMMA ChangeAffects ==
    ASSUME ProcessesOK, NEW q \in Processes, NEW path, NEW content, NEW next,
           Change(q, path, content, next), next.at = "write" => Head(next.todo)[1] = path
    PROVE  Affects(q, {path}) /\ proc'[q] = next /\ File(path)' = content
<1>1. DOMAIN proc' = Processes /\ proc'[q] = next
  BY DEF Change
<1>2. File(path)' = content /\ \A x : x \notin {path} => File(x)' = File(x)
  BY DEF Change, File
<1>3. \A x : Writing(q, x)' => x \in {path}
  BY <1>1 DEF Writing
<1>4. ASSUME NEW p \in Processes \ {q}
      PROVE  \/ proc'[p] = proc[p] /\ \A x \in {path} : ~Touches(p, x)
             \/ Running(p) /\ proc'[p] = [proc[p] EXCEPT !.alone = FALSE]
  BY DEF Change, Touches
<1>5. QED
  BY <1>1, <1>2, <1>3, <1>4 DEF Affects

\* The others keep what they rely on.
LEMMA OthersKeep ==
    ASSUME ShellInv, UNCHANGED machine, NEW q \in Processes, NEW S, Affects(q, S),
           NEW p \in Processes \ {q}
    PROVE  /\ Running(p)' => RunsOK(proc[p])'
           /\ AloneOK(p)' /\ QuietOK(p)'
<1>1. \/ proc'[p] = proc[p] /\ \A path \in S : ~Touches(p, path)
      \/ Running(p) /\ proc'[p] = [proc[p] EXCEPT !.alone = FALSE]
  BY DEF Affects
<1>2. Running(p) => RunsOK(proc[p])
  BY DEF ShellInv, ProcessesOK
<1>3. CASE proc'[p] = proc[p] /\ \A path \in S : ~Touches(p, path)
  <2>1. Running(p)' <=> Running(p)
    BY <1>3 DEF Running
  <2>2. Running(p)' => RunsOK(proc[p])'
    BY <1>2, <1>3, <2>1, SameRuns
  <2>3. Running(p) => \A path \in DOMAIN proc[p].saw : path \notin S /\ File(path)' = File(path)
    BY <1>2, <1>3 DEF RunsOK, Touches, Paths, Affects
  <2>4. AloneOK(p)'
    <3>1. SUFFICES ASSUME Running(p)', proc'[p].alone
                   PROVE  /\ \A r \in Processes \ {p}, path \in DOMAIN proc'[p].saw : ~Writing(r, path)'
                          /\ \A path \in DOMAIN proc'[p].saw :
                               proc'[p].at \notin {"open", "write"} \/ path \notin Outputs(proc'[p].opts) =>
                                 File(path)' = proc'[p].saw[path]
      BY DEF AloneOK, Outputs
    <3>2. AloneOK(p)
      BY DEF ShellInv
    <3>3. ASSUME NEW r \in Processes \ {p}, NEW path \in DOMAIN proc'[p].saw
          PROVE  ~Writing(r, path)'
      <4>1. path \notin S /\ ~Writing(r, path)
        BY <1>3, <2>1, <2>3, <3>1, <3>2 DEF AloneOK
      <4>2. CASE r = q
        BY <4>1, <4>2 DEF Affects
      <4>3. CASE r # q
        <5>1. proc'[r] = proc[r] \/ (Running(r) /\ proc'[r] = [proc[r] EXCEPT !.alone = FALSE])
          BY <4>3 DEF Affects
        <5>2. Running(r) => RunsOK(proc[r])
          BY DEF ShellInv, ProcessesOK
        <5>3. /\ proc'[r].at = proc[r].at
              /\ proc[r].at = "write" => proc'[r].todo = proc[r].todo
          BY <5>1, <5>2 DEF RunsOK
        <5>4. QED
          BY <4>1, <5>3 DEF Writing
      <4>4. QED
        BY <4>2, <4>3
    <3>4. QED
      BY <1>3, <2>1, <2>3, <3>1, <3>2, <3>3 DEF AloneOK, Outputs
  <2>5. QuietOK(p)'
    <3>1. SUFFICES ASSUME Running(p)', Undisturbed(p)'
                   PROVE  /\ ReadRight(proc[p])'
                          /\ proc'[p].at \in {"open", "write"} =>
                               \A path \in Outputs(proc[p].opts)' : WritesRight(proc[p], path)'
                          /\ proc'[p].at = "write" /\ Head(proc'[p].todo)[1] \in Outputs(proc[p].opts)' =>
                               File(Head(proc[p].todo)[1])' = Cut(Head(proc'[p].todo)[2])
      BY DEF QuietOK, Outputs, WritesRight, Cut
    <3>2. QuietOK(p) /\ Undisturbed(p)
      BY <1>3, <3>1 DEF Undisturbed, ShellInv
    <3>3. \A path \in Outputs(proc[p].opts) : File(path)' = File(path)
      BY <1>2, <2>1, <2>3, <3>1 DEF RunsOK, Paths
    <3>4. ReadRight(proc[p])'
      BY <1>3, <2>1, <3>1, <3>2 DEF QuietOK, ReadRight
    <3>5. proc'[p].at \in {"open", "write"} =>
               \A path \in Outputs(proc[p].opts)' : WritesRight(proc[p], path)'
      BY <1>3, <2>1, <3>1, <3>2, <3>3 DEF QuietOK, WritesRight, Outputs
    <3>6. proc'[p].at = "write" /\ Head(proc'[p].todo)[1] \in Outputs(proc[p].opts)' =>
               File(Head(proc[p].todo)[1])' = Cut(Head(proc'[p].todo)[2])
      BY <1>3, <2>1, <3>1, <3>2, <3>3 DEF QuietOK, Cut, Outputs
    <3>7. QED
      BY <3>4, <3>5, <3>6
  <2>6. QED
    BY <2>2, <2>4, <2>5
<1>4. CASE Running(p) /\ proc'[p] = [proc[p] EXCEPT !.alone = FALSE]
  <2>1. ~proc'[p].alone
    BY <1>2, <1>4 DEF RunsOK
  <2>2. AloneOK(p)' /\ QuietOK(p)'
    BY <2>1 DEF AloneOK, QuietOK, Undisturbed
  <2> DEFINE r == proc[p]
             r2 == proc'[p]
  <2>3. RunsOK(r2)
    <3>1. DOMAIN r2 = DOMAIN r /\ \A x \in DOMAIN r \ {"alone"} : r2[x] = r[x]
      BY <1>4
    <3>2. RunsOK(r)
      BY <1>2, <1>4
    <3> HIDE DEF r, r2
    <3>3. /\ r2.at = r.at /\ r2.opts = r.opts /\ r2.saw = r.saw
          /\ \A x \in {"factors", "data", "model", "todo"} \cap DOMAIN r : r2[x] = r[x]
      BY <3>1, <3>2 DEF RunsOK
    <3>4. OnlyOutputs(r) /\ "todo" \in DOMAIN r => OnlyOutputs(r2)
      BY <3>3 DEF OnlyOutputs, Outputs
    <3>5. QED
      BY <3>1, <3>2, <3>3, <3>4 DEF RunsOK
  <2>4. QED
    BY <2>2, <2>3, SameRuns
<1>5. QED
  BY <1>1, <1>3, <1>4
----------------------------------------------------------------------------
(* The process that makes a step keeps what it relies on, too.             *)

Kept(p) ==
    /\ FilesOK' /\ (Running(p)' => RunsOK(proc[p])') /\ AloneOK(p)' /\ QuietOK(p)'
    /\ \E S : Affects(p, S)

LEMMA FilesStayOK == ASSUME FilesOK, UNCHANGED <<machine, files>> PROVE FilesOK'
  BY SameMachine DEF FilesOK, LogOK

LEMMA ExitKeeps ==
    ASSUME ShellInv, UNCHANGED <<machine, files>>, NEW p \in Processes, NEW exit, Exit(p, exit)
    PROVE  Kept(p)
<1>1. proc' = [proc EXCEPT ![p] = proc'[p]] /\ proc'[p].at = "exited"
  BY DEF ShellInv, ProcessesOK, Exit, Exited
<1>2. ~Running(p)'
  BY <1>1 DEF Running
<1>3. Affects(p, {})
  BY <1>1, SilentAffects DEF ShellInv
<1>4. QED
  BY <1>2, <1>3, FilesStayOK DEF Kept, AloneOK, QuietOK, ShellInv

\* As long as it has nothing to write, what a process has to show is what it
\* has read.
LEMMA GoesOn ==
    ASSUME ShellInv, UNCHANGED machine, NEW p \in Processes,
           Running(p), proc[p].at \notin {"open", "write"},
           NEW at, NEW name, NEW computed, name \notin {"at", "opts", "alone", "saw"},
           Goes(p, at, name, computed), at # "write", RunsOK(proc'[p]),
           Undisturbed(p) =>
             /\ ReadRight(proc'[p])
             /\ at = "open" => \A path \in Outputs(proc[p].opts) : WritesRight(proc'[p], path)
    PROVE  Kept(p)
<1>1. /\ files' = files /\ proc' = [proc EXCEPT ![p] = proc'[p]] /\ proc'[p].at = at
      /\ \A x \in DOMAIN proc[p] \ {"at", name} : proc'[p][x] = proc[p][x]
  BY GoesKeeps DEF ShellInv
<1>2. RunsOK(proc[p])
  BY DEF ShellInv, ProcessesOK
<1>3. /\ proc'[p].opts = proc[p].opts /\ proc'[p].alone = proc[p].alone /\ proc'[p].saw = proc[p].saw
  BY <1>1, <1>2 DEF RunsOK
<1>4. \A path : File(path)' = File(path)
  BY <1>1 DEF File
<1>5. AloneOK(p)'
  <2>1. AloneOK(p)
    BY DEF ShellInv
  <2>2. \A r \in Processes \ {p} : proc'[r] = proc[r]
    BY <1>1 DEF ShellInv, ProcessesOK
  <2>3. \A r \in Processes \ {p} : \A path : Writing(r, path)' <=> Writing(r, path)
    BY <2>2 DEF Writing
  <2>4. QED
    BY <1>3, <1>4, <2>1, <2>3 DEF AloneOK, Outputs
<1>6. QuietOK(p)'
  <2>1. Undisturbed(p)' <=> Undisturbed(p)
    BY <1>3 DEF Undisturbed, Inputs
  <2>2. SUFFICES ASSUME Undisturbed(p)
                 PROVE  /\ ReadRight(proc[p])'
                        /\ at = "open" => \A path \in Outputs(proc[p].opts)' : WritesRight(proc[p], path)'
    BY <1>1, <2>1 DEF QuietOK, Outputs, WritesRight
  <2>3. ReadRight(proc[p])'
    BY <2>2 DEF ReadRight
  <2>4. ASSUME at = "open", NEW path \in Outputs(proc[p].opts)'
        PROVE  WritesRight(proc[p], path)'
    <3>1. path \in Outputs(proc[p].opts)
      BY <1>3 DEF Outputs
    <3>2. WritesRight(proc'[p], path)
      BY <2>2, <2>4, <3>1
    <3>3. QED
      BY <1>4, <3>2 DEF WritesRight
  <2>5. QED
    BY <2>3, <2>4
<1>7. Affects(p, {})
  BY <1>1, SilentAffects DEF ShellInv
<1>8. QED
  BY <1>1, <1>5, <1>6, <1>7, FilesStayOK, SameRuns DEF Kept, ShellInv

\* A process that is undisturbed reads its inputs as they were.
LEMMA ReadsWhatItSaw ==
    ASSUME ShellInv, NEW p \in Processes, Running(p), Undisturbed(p),
           proc[p].at \notin {"open", "write"}, NEW path \in Inputs(proc[p].opts)
    PROVE  Read(path) = {proc[p].saw[path]} /\ Whole(proc[p].saw[path]) = proc[p].saw[path]
<1>1. path \in DOMAIN proc[p].saw
  BY DEF ShellInv, ProcessesOK, RunsOK, Paths
<1>2. File(path) = proc[p].saw[path]
  BY <1>1 DEF ShellInv, AloneOK, Undisturbed
<1>3. proc[p].saw[path].is # "cut"
  BY DEF Undisturbed
<1>4. QED
  BY <1>2, <1>3 DEF Read, Whole

LEMMA InputIsInput ==
    ASSUME NEW opts, OptionsOK(opts)
    PROVE  /\ opts.input \in Inputs(opts)
           /\ opts.program = "predict" => opts.model \in Inputs(opts)
           /\ opts.program = "scale" /\ opts.restore # NoPath => opts.restore \in Inputs(opts)
  BY DEF OptionsOK, Inputs, TrainFields, PredictFields, ScaleFields
LEMMA StartKeeps ==
    ASSUME ShellInv, UNCHANGED machine, NEW p \in Processes, Start(p)
    PROVE  Kept(p)
<1>0. FilesOK /\ ProcessesOK /\ files' = files
  BY DEF ShellInv, Start
<1>1. proc' = [proc EXCEPT ![p] = proc'[p]] /\ proc'[p].at # "write"
  <2> DEFINE Begun(opts, alone) ==
               [at |-> IF Opt(opts, "restore", NoPath) = NoPath THEN "read" ELSE "restore",
                opts |-> opts, alone |-> alone,
                saw |-> [path \in Inputs(opts) \cup Outputs(opts) |-> File(path)]]
  <2>1. \/ \E exit : proc' = [proc EXCEPT ![p] = Exited(exit)]
        \/ \E opts, alone : proc' = [proc EXCEPT ![p] = Begun(opts, alone)]
    <3>1. PICK call \in Calls :
            \/ \E exit : Exit(p, exit)
            \/ LET opts == Options(call)
               IN  proc' = [proc EXCEPT ![p] =
                     Begun(opts, \A q \in Processes, path \in Inputs(opts) \cup Outputs(opts) :
                                   ~Writing(q, path))]
      BY DEF Start
    <3>2. QED
      BY <3>1 DEF Exit
  <2>2. \A exit : Exited(exit).at # "write"
    BY DEF Exited
  <2>3. \A opts, alone : Begun(opts, alone).at # "write"
    OBVIOUS
  <2> HIDE DEF Begun
  <2>4. QED
    BY <1>0, <2>1, <2>2, <2>3 DEF ProcessesOK
<1>2. Affects(p, {}) /\ FilesOK'
  BY <1>0, <1>1, SilentAffects, FilesStayOK
<1>3. SUFFICES ASSUME Running(p)'
               PROVE  RunsOK(proc[p])' /\ AloneOK(p)' /\ QuietOK(p)'
  BY <1>2 DEF Kept, AloneOK, QuietOK
<1>4. PICK opts, alone :
             /\ OptionsOK(opts)
             /\ alone => \A q \in Processes, path \in Paths(opts) : ~Writing(q, path)
             /\ "restore" \in DOMAIN opts => opts.program = "scale"
             /\ proc'[p] = [at |-> IF Opt(opts, "restore", NoPath) = NoPath THEN "read" ELSE "restore",
                           opts |-> opts, alone |-> alone,
                           saw |-> [path \in Paths(opts) |-> File(path)]]
  BY <1>0, <1>3, StartRuns
<1>5. /\ proc'[p].opts = opts /\ proc'[p].alone = alone
      /\ proc'[p].saw = [path \in Paths(opts) |-> File(path)]
      /\ DOMAIN proc'[p] = {"at", "opts", "alone", "saw"}
      /\ proc'[p].at \in {"read", "restore"}
      /\ proc'[p].at = "restore" => opts.program = "scale" /\ opts.restore # NoPath
      /\ proc'[p].at = "read" /\ opts.program = "scale" => opts.restore = NoPath
  BY <1>4 DEF Opt, OptionsOK, ScaleFields, TrainFields, PredictFields
<1>6. RunsOK(proc[p])'
  <2>1. \A path : ModelOK(File(path))
    BY <1>0, FileIsOK
  <2>2. RunsOK(proc'[p])
    BY <1>4, <1>5, <2>1 DEF RunsOK
  <2>3. QED
    BY <2>2, SameRuns
<1>7. AloneOK(p)'
  <2>1. \A r \in Processes \ {p} : proc'[r] = proc[r]
    BY <1>0, <1>1 DEF ProcessesOK
  <2>2. \A path : File(path)' = File(path)
    BY <1>0 DEF File
  <2>3. alone => \A r \in Processes \ {p}, path \in DOMAIN proc'[p].saw : ~Writing(r, path)'
    BY <1>4, <1>5, <2>1 DEF Writing
  <2>4. QED
    BY <1>5, <2>2, <2>3 DEF AloneOK
<1>8. QuietOK(p)'
  BY <1>5 DEF QuietOK, ReadRight
<1>9. QED
  BY <1>6, <1>7, <1>8

LEMMA ReadFactorsKeeps ==
    ASSUME ShellInv, UNCHANGED machine, NEW p \in Processes, ReadFactors(p)
    PROVE  Kept(p)
<1> DEFINE opts == proc[p].opts
<1>1. proc[p].at = "restore" /\ Running(p) /\ RunsOK(proc[p]) /\ ProcessesOK
  BY DEF ReadFactors, Running, ShellInv, ProcessesOK
<1>2. PICK f \in Read(opts.restore) :
        \/ Whole(f).is = "factors" /\ Goes(p, "read", "factors", f)
        \/ Fails(p)
  BY DEF ReadFactors
<1>3. CASE Fails(p)
  BY <1>3, ExitKeeps DEF Fails
<1>4. CASE Whole(f).is = "factors" /\ Goes(p, "read", "factors", f)
  <2>1. /\ proc'[p].at = "read" /\ proc'[p].factors = f
        /\ DOMAIN proc'[p] = DOMAIN proc[p] \cup {"factors"}
        /\ \A x \in DOMAIN proc[p] \ {"at", "factors"} : proc'[p][x] = proc[p][x]
    BY <1>1, <1>4, GoesKeeps
  <2>2. /\ proc'[p].opts = opts /\ proc'[p].alone = proc[p].alone /\ proc'[p].saw = proc[p].saw
        /\ opts.program = "scale" /\ opts.restore # NoPath
    BY <1>1, <2>1 DEF RunsOK
  <2>3. RunsOK(proc'[p])
    BY <1>1, <1>4, <2>1, <2>2 DEF RunsOK, Whole
  <2>4. ASSUME Undisturbed(p) PROVE ReadRight(proc'[p])
    <3>1. f = proc[p].saw[opts.restore]
      BY <1>1, <1>2, <2>2, <2>4, ReadsWhatItSaw, InputIsInput DEF RunsOK
    <3>2. QED
      BY <2>1, <2>2, <3>1 DEF ReadRight
  <2>5. QED
    BY <1>1, <1>4, <2>3, <2>4, GoesOn
<1>5. QED
  BY <1>2, <1>3, <1>4

LEMMA ReadDataKeeps ==
    ASSUME ShellInv, UNCHANGED machine, NEW p \in Processes, ReadData(p)
    PROVE  Kept(p)
<1> DEFINE opts == proc[p].opts
<1>1. proc[p].at = "read" /\ Running(p) /\ RunsOK(proc[p]) /\ ProcessesOK
  BY DEF ReadData, Running, ShellInv, ProcessesOK
<1>2. PICK f \in Read(opts.input) :
        \/ DataReads(f, opts.strings) /\ Goes(p, "work", "data", f)
        \/ Fails(p)
  BY DEF ReadData
<1>3. CASE Fails(p)
  BY <1>3, ExitKeeps DEF Fails
<1>4. CASE DataReads(f, opts.strings) /\ Goes(p, "work", "data", f)
  <2>1. /\ proc'[p].at = "work" /\ proc'[p].data = f
        /\ DOMAIN proc'[p] = DOMAIN proc[p] \cup {"data"}
        /\ \A x \in DOMAIN proc[p] \ {"at", "data"} : proc'[p][x] = proc[p][x]
    BY <1>1, <1>4, GoesKeeps
  <2>2. /\ proc'[p].opts = opts /\ proc'[p].alone = proc[p].alone /\ proc'[p].saw = proc[p].saw
        /\ ("factors" \in DOMAIN proc'[p] <=> "factors" \in DOMAIN proc[p])
        /\ "factors" \in DOMAIN proc[p] => proc'[p].factors = proc[p].factors
    BY <1>1, <2>1 DEF RunsOK
  <2>3. RunsOK(proc'[p])
    BY <1>1, <1>4, <2>1, <2>2 DEF RunsOK
  <2>4. ASSUME Undisturbed(p) PROVE ReadRight(proc'[p])
    <3>1. f = proc[p].saw[opts.input]
      BY <1>1, <1>2, <2>4, ReadsWhatItSaw, InputIsInput DEF RunsOK
    <3>2. ReadRight(proc[p])
      BY <1>1, <2>4 DEF ShellInv, QuietOK
    <3>3. QED
      BY <1>1, <2>1, <2>2, <3>1, <3>2 DEF ReadRight
  <2>5. QED
    BY <1>1, <1>4, <2>3, <2>4, GoesOn
<1>5. QED
  BY <1>2, <1>3, <1>4
\* What is to be written may be one file.
LEMMA OneToWrite ==
    ASSUME NEW path, NEW content, ModelOK(content), content.is # "log"
    PROVE  TodoOK(<<<<path, content>>>>)
<1> DEFINE todo == <<<<path, content>>>>
<1>1. DOMAIN todo = {1} /\ todo[1][2] = content
  OBVIOUS
<1>2. todo \in Seq(ToSet(todo))
  BY DEF ToSet
<1>3. QED
  BY <1>1, <1>2 DEF TodoOK

LEMMA TrainKeeps ==
    ASSUME ShellInv, UNCHANGED machine, NEW p \in Processes, Train(p)
    PROVE  Kept(p)
<1> DEFINE opts == proc[p].opts
           content == Model(opts, proc[p].data)
           todo == <<<<opts.output, content>>>>
<1>1. /\ proc[p].at = "work" /\ Running(p) /\ RunsOK(proc[p]) /\ ProcessesOK
      /\ opts.program = "train" /\ DOMAIN opts = TrainFields
  BY DEF Train, Running, ShellInv, ProcessesOK, RunsOK, OptionsOK
<1>2. \/ TrainCsvm(opts) # Refused /\ Goes(p, "open", "todo", todo)
      \/ Fails(p)
  BY DEF Train
<1>3. CASE Fails(p)
  BY <1>3, ExitKeeps DEF Fails
<1>4. CASE TrainCsvm(opts) # Refused /\ Goes(p, "open", "todo", todo)
  <2> HIDE DEF content, todo
  <2>1. /\ proc'[p].at = "open" /\ proc'[p].todo = todo
        /\ DOMAIN proc'[p] = DOMAIN proc[p] \cup {"todo"}
        /\ \A x \in DOMAIN proc[p] \ {"at", "todo"} : proc'[p][x] = proc[p][x]
    BY <1>1, <1>4, GoesKeeps
  <2>2. /\ proc'[p].opts = opts /\ proc'[p].alone = proc[p].alone /\ proc'[p].saw = proc[p].saw
        /\ "factors" \notin DOMAIN proc'[p]
    BY <1>1, <2>1 DEF RunsOK
  <2>3. ModelOK(content) /\ content.is # "log"
    <3>1. /\ content.by.backend = opts.backend /\ content.by.target = opts.target
          /\ content.by.impl = opts.impl /\ content.by.strings = opts.strings
      BY <1>1 DEF content, Model, Selection, TrainFields
    <3>2. /\ content.is = "model" /\ content.kernel = opts.kernel /\ content.data = proc[p].data
          /\ content.features = Whole(proc[p].data).last /\ content.text = Whole(proc[p].data).text
      BY DEF content, Model
    <3>3. make_csvm(opts.backend, opts.target, opts.kernel,
                    IF opts.backend = "sycl" THEN opts.impl ELSE "automatic") # Refused
      BY <1>4 DEF TrainCsvm
    <3>4. DataReads(proc[p].data, opts.strings)
      BY <1>1 DEF RunsOK
    <3>5. QED
      BY <3>1, <3>2, <3>3, <3>4 DEF ModelOK
  <2>4. TodoOK(todo)
    BY <2>3, OneToWrite DEF todo
  <2>5. RunsOK(proc'[p])
    <3>1. DOMAIN todo = {1} /\ todo[1][1] = opts.output
      BY DEF todo
    <3>2. OnlyOutputs(proc'[p])
      BY <1>1, <2>1, <2>2, <3>1 DEF OnlyOutputs, Outputs, TrainFields
    <3>3. QED
      BY <1>1, <2>1, <2>2, <2>4, <3>2 DEF RunsOK
  <2>6. ASSUME Undisturbed(p)
        PROVE  /\ ReadRight(proc'[p])
               /\ \A path \in Outputs(opts) : WritesRight(proc'[p], path)
    <3>1. proc[p].data = proc[p].saw[opts.input]
      BY <1>1, <2>6 DEF ShellInv, QuietOK, ReadRight
    <3>2. ReadRight(proc'[p])
      BY <2>1 DEF ReadRight
    <3>3. \A path \in Outputs(opts) : path = opts.output
      BY <1>1 DEF Outputs, TrainFields
    <3>4. Expected(opts, proc[p].saw)[opts.output] = content
      BY <1>1, <3>1 DEF Expected, content
    <3>5. DOMAIN todo = {1} /\ todo[1] = <<opts.output, content>>
      BY DEF todo
    <3>6. \A path \in Outputs(opts) : WritesRight(proc'[p], path)
      BY <2>1, <2>2, <3>3, <3>4, <3>5 DEF WritesRight, LastTo
    <3>7. QED
      BY <3>2, <3>6
  <2>7. QED
    BY <1>1, <1>4, <2>5, <2>6, GoesOn
<1>5. QED
  BY <1>2, <1>3, <1>4

LEMMA ReadModelKeeps ==
    ASSUME ShellInv, UNCHANGED machine, NEW p \in Processes, ReadModel(p)
    PROVE  Kept(p)
<1> DEFINE opts == proc[p].opts
<1>1. /\ proc[p].at = "work" /\ Running(p) /\ RunsOK(proc[p]) /\ ProcessesOK
      /\ opts.program = "predict"
  BY DEF ReadModel, Running, ShellInv, ProcessesOK
<1>2. PICK f \in Read(opts.model) : Goes(p, "predict", "model", f) \/ Fails(p)
  BY DEF ReadModel
<1>3. CASE Fails(p)
  BY <1>3, ExitKeeps DEF Fails
<1>4. CASE Goes(p, "predict", "model", f)
  <2>1. /\ proc'[p].at = "predict" /\ proc'[p].model = f
        /\ DOMAIN proc'[p] = DOMAIN proc[p] \cup {"model"}
        /\ \A x \in DOMAIN proc[p] \ {"at", "model"} : proc'[p][x] = proc[p][x]
    BY <1>1, <1>4, GoesKeeps
  <2>2. /\ proc'[p].opts = opts /\ proc'[p].alone = proc[p].alone /\ proc'[p].saw = proc[p].saw
        /\ proc'[p].data = proc[p].data
        /\ "factors" \notin DOMAIN proc'[p]
    BY <1>1, <2>1 DEF RunsOK
  <2>3. RunsOK(proc'[p])
    BY <1>1, <2>1, <2>2 DEF RunsOK
  <2>4. ASSUME Undisturbed(p) PROVE ReadRight(proc'[p])
    <3>1. f = proc[p].saw[opts.model]
      BY <1>1, <1>2, <2>4, ReadsWhatItSaw, InputIsInput DEF RunsOK
    <3>2. proc[p].data = proc[p].saw[opts.input]
      BY <1>1, <2>4 DEF ShellInv, QuietOK, ReadRight
    <3>3. QED
      BY <1>1, <2>1, <2>2, <3>1, <3>2 DEF ReadRight
  <2>5. QED
    BY <1>1, <1>4, <2>3, <2>4, GoesOn
<1>5. QED
  BY <1>2, <1>3, <1>4

LEMMA PredictKeeps ==
    ASSUME ShellInv, UNCHANGED machine, NEW p \in Processes, Predict(p)
    PROVE  Kept(p)
<1> DEFINE opts == proc[p].opts
           content == Prediction(proc[p].data, proc[p].model)
           todo == <<<<opts.output, content>>>>
<1>1. /\ proc[p].at = "predict" /\ Running(p) /\ RunsOK(proc[p]) /\ ProcessesOK
      /\ opts.program = "predict" /\ DOMAIN opts = PredictFields
  BY DEF Predict, Running, ShellInv, ProcessesOK, RunsOK, OptionsOK
<1>2. Goes(p, "open", "todo", todo) \/ Fails(p)
  BY DEF Predict
<1>3. CASE Fails(p)
  BY <1>3, ExitKeeps DEF Fails
<1>4. CASE Goes(p, "open", "todo", todo)
  <2> HIDE DEF content, todo
  <2>1. /\ proc'[p].at = "open" /\ proc'[p].todo = todo
        /\ DOMAIN proc'[p] = DOMAIN proc[p] \cup {"todo"}
        /\ \A x \in DOMAIN proc[p] \ {"at", "todo"} : proc'[p][x] = proc[p][x]
    BY <1>1, <1>4, GoesKeeps
  <2>2. /\ proc'[p].opts = opts /\ proc'[p].alone = proc[p].alone /\ proc'[p].saw = proc[p].saw
        /\ "factors" \notin DOMAIN proc'[p]
    BY <1>1, <2>1 DEF RunsOK
  <2>3. ModelOK(content) /\ content.is # "log"
    BY DEF content, Prediction, ModelOK
  <2>4. TodoOK(todo)
    BY <2>3, OneToWrite DEF todo
  <2>5. RunsOK(proc'[p])
    <3>1. DOMAIN todo = {1} /\ todo[1][1] = opts.output
      BY DEF todo
    <3>2. OnlyOutputs(proc'[p])
      BY <1>1, <2>1, <2>2, <3>1 DEF OnlyOutputs, Outputs, PredictFields
    <3>3. QED
      BY <1>1, <2>1, <2>2, <2>4, <3>2 DEF RunsOK
  <2>6. ASSUME Undisturbed(p)
        PROVE  /\ ReadRight(proc'[p])
               /\ \A path \in Outputs(opts) : WritesRight(proc'[p], path)
    <3>1. proc[p].data = proc[p].saw[opts.input] /\ proc[p].model = proc[p].saw[opts.model]
      BY <1>1, <2>6 DEF ShellInv, QuietOK, ReadRight
    <3>2. ReadRight(proc'[p])
      BY <2>1 DEF ReadRight
    <3>3. \A path \in Outputs(opts) : path = opts.output
      BY <1>1 DEF Outputs, PredictFields
    <3>4. Expected(opts, proc[p].saw)[opts.output] = content
      BY <1>1, <3>1 DEF Expected, content
    <3>5. DOMAIN todo = {1} /\ todo[1] = <<opts.output, content>>
      BY DEF todo
    <3>6. \A path \in Outputs(opts) : WritesRight(proc'[p], path)
      BY <2>1, <2>2, <3>3, <3>4, <3>5 DEF WritesRight, LastTo
    <3>7. QED
      BY <3>2, <3>6
  <2>7. QED
    BY <1>1, <1>4, <2>5, <2>6, GoesOn
<1>5. QED
  BY <1>2, <1>3, <1>4
\* Or two: then what the second holds is left if both are one file.
LEMMA TwoToWrite ==
    ASSUME NEW o, NEW x, NEW s, NEW y, NEW todo, todo = Pending(o, x) \o Pending(s, y)
    PROVE  /\ todo \in Seq(ToSet(todo))
           /\ \A n \in DOMAIN todo : todo[n] \in {<<o, x>>, <<s, y>>}
           /\ o \notin {NoPath, s} => LastTo(todo, o, x)
           /\ s # NoPath => LastTo(todo, s, y)
<1> DEFINE first == <<o, x>>
           second == <<s, y>>
<1>0. first[1] = o /\ second[1] = s
  OBVIOUS
<1> HIDE DEF first, second
<1>1. /\ todo \in Seq({first, second})
      /\ o = NoPath /\ s = NoPath => Len(todo) = 0
      /\ o # NoPath /\ s = NoPath => Len(todo) = 1 /\ todo[1] = first
      /\ o = NoPath /\ s # NoPath => Len(todo) = 1 /\ todo[1] = second
      /\ o # NoPath /\ s # NoPath => Len(todo) = 2 /\ todo[1] = first /\ todo[2] = second
  <2>1. /\ Pending(o, x) = IF o = NoPath THEN <<>> ELSE <<first>>
        /\ Pending(s, y) = IF s = NoPath THEN <<>> ELSE <<second>>
    BY Zenon DEF Pending, first, second
  <2>2. <<>> \in Seq({first, second}) /\ <<first>> \in Seq({first, second}) /\ <<second>> \in Seq({first, second})
    OBVIOUS
  <2>3. <<>> \o <<>> = <<>> /\ <<first>> \o <<>> = <<first>> /\ <<>> \o <<second>> = <<second>>
    BY <2>2
  <2>4. /\ <<first>> \o <<second>> \in Seq({first, second}) /\ Len(<<first>> \o <<second>>) = 2
        /\ (<<first>> \o <<second>>)[1] = first /\ (<<first>> \o <<second>>)[2] = second
    BY <2>2
  <2>5. QED
    BY <2>1, <2>2, <2>3, <2>4
<1>2. todo \in Seq({todo[n] : n \in DOMAIN todo})
  BY <1>1
<1>3. \A n \in DOMAIN todo : todo[n] \in {first, second}
  BY <1>1
<1>4. ASSUME o \notin {NoPath, s}
      PROVE  \E n \in DOMAIN todo : todo[n] = first /\ \A m \in DOMAIN todo : m > n => todo[m][1] # o
  <2>1. 1 \in DOMAIN todo /\ todo[1] = first
    BY <1>1, <1>4
  <2>2. \A m \in DOMAIN todo : m > 1 => todo[m] = second
    BY <1>1, <1>4
  <2>3. QED
    BY <1>0, <1>4, <2>1, <2>2
<1>5. ASSUME s # NoPath
      PROVE  \E n \in DOMAIN todo : todo[n] = second /\ \A m \in DOMAIN todo : m > n => todo[m][1] # s
  <2>1. PICK n \in {1, 2} : DOMAIN todo = 1..n /\ todo[n] = second
    BY <1>1, <1>5
  <2>2. n \in DOMAIN todo /\ \A m \in DOMAIN todo : ~(m > n)
    BY <2>1
  <2>3. QED
    BY <2>1, <2>2
<1>6. QED
  BY <1>2, <1>3, <1>4, <1>5 DEF ToSet, LastTo, first, second

LEMMA ScaleKeeps ==
    ASSUME ShellInv, UNCHANGED machine, NEW p \in Processes, Scale(p)
    PROVE  Kept(p)
<1> DEFINE opts == proc[p].opts
           data == proc[p].data
           used == IF "factors" \in DOMAIN proc[p] THEN proc[p].factors ELSE Factors(data, opts.range)
           scaled == Scaled(data, used, opts.format)
           todo == Pending(opts.output, scaled) \o Pending(opts.save, used)
<1>1. /\ proc[p].at = "work" /\ Running(p) /\ RunsOK(proc[p]) /\ ProcessesOK
      /\ opts.program = "scale" /\ DOMAIN opts = ScaleFields
  BY DEF Scale, Running, ShellInv, ProcessesOK, RunsOK, OptionsOK
<1>2. Goes(p, "open", "todo", todo)
  BY DEF Scale
<1>3. used.is \notin {"model", "log"}
  BY <1>1 DEF RunsOK, Factors
<1>4. scaled.is \notin {"model", "log"}
  BY DEF Scaled
<1>5. ASSUME Undisturbed(p)
      PROVE  \A path \in Outputs(opts) :
               Expected(opts, proc[p].saw)[path] = IF path = opts.save THEN used ELSE scaled
  <2>1. data = proc[p].saw[opts.input]
    BY <1>1, <1>5 DEF ShellInv, QuietOK, ReadRight
  <2>2. used = IF opts.restore # NoPath THEN proc[p].saw[opts.restore] ELSE Factors(data, opts.range)
    BY <1>1, <1>5 DEF ShellInv, QuietOK, ReadRight
  <2> HIDE DEF used
  <2>3. Expected(opts, proc[p].saw) =
          [path \in {opts.output, opts.save} |-> IF path = opts.save THEN used ELSE scaled]
    BY <1>1, <2>1, <2>2 DEF Expected
  <2>4. Outputs(opts) \subseteq {opts.output, opts.save}
    BY <1>1 DEF Outputs
  <2>5. QED
    BY <2>3, <2>4
<1> HIDE DEF used, scaled, todo
<1>6. /\ proc'[p].at = "open" /\ proc'[p].todo = todo
      /\ DOMAIN proc'[p] = DOMAIN proc[p] \cup {"todo"}
      /\ \A x \in DOMAIN proc[p] \ {"at", "todo"} : proc'[p][x] = proc[p][x]
  BY <1>1, <1>2, GoesKeeps
<1>7. /\ proc'[p].opts = opts /\ proc'[p].alone = proc[p].alone /\ proc'[p].saw = proc[p].saw
      /\ ("factors" \in DOMAIN proc'[p] <=> "factors" \in DOMAIN proc[p])
      /\ "factors" \in DOMAIN proc[p] => proc'[p].factors = proc[p].factors
  BY <1>1, <1>6 DEF RunsOK
<1>8. TodoOK(todo)
  <2>1. /\ todo \in Seq(ToSet(todo))
        /\ \A n \in DOMAIN todo : todo[n] \in {<<opts.output, scaled>>, <<opts.save, used>>}
    BY TwoToWrite DEF todo
  <2>2. \A n \in DOMAIN todo : todo[n][2] \in {scaled, used}
    BY <2>1
  <2>3. QED
    BY <1>3, <1>4, <2>1, <2>2 DEF TodoOK, ModelOK
<1>9. RunsOK(proc'[p])
  <2>1. \A n \in DOMAIN todo : todo[n] \in {<<opts.output, scaled>>, <<opts.save, used>>}
    BY TwoToWrite DEF todo
  <2>2. \A n \in DOMAIN todo : todo[n][1] \in {opts.output, opts.save}
    BY <2>1
  <2>3. OnlyOutputs(proc'[p])
    BY <1>1, <1>6, <1>7, <2>2 DEF OnlyOutputs, Outputs, ScaleFields
  <2>4. QED
    BY <1>1, <1>6, <1>7, <1>8, <2>3 DEF RunsOK
<1>10. ASSUME Undisturbed(p)
       PROVE  ReadRight(proc'[p]) /\ \A path \in Outputs(opts) : WritesRight(proc'[p], path)
  <2>1. ReadRight(proc'[p])
    BY <1>6 DEF ReadRight
  <2>2. ASSUME NEW path \in Outputs(opts)
        PROVE  WritesRight(proc'[p], path)
    <3>1. path \in {opts.output, opts.save} \ {NoPath}
      BY <1>1, <2>2 DEF Outputs, ScaleFields
    <3>2. Expected(opts, proc[p].saw)[path] = IF path = opts.save THEN used ELSE scaled
      BY <1>5, <1>10, <2>2
    <3>3. /\ opts.output \notin {NoPath, opts.save} => LastTo(todo, opts.output, scaled)
          /\ opts.save # NoPath => LastTo(todo, opts.save, used)
      BY TwoToWrite DEF todo
    <3>4. LastTo(todo, path, Expected(opts, proc[p].saw)[path])
      BY <3>1, <3>2, <3>3
    <3>5. QED
      BY <1>6, <1>7, <3>4 DEF WritesRight
  <2>3. QED
    BY <2>1, <2>2
<1>11. QED
  BY <1>1, <1>2, <1>9, <1>10, GoesOn
LEMMA ChangedFilesOK ==
    ASSUME FilesOK, UNCHANGED machine, NEW p, NEW path, NEW content, NEW next,
           Change(p, path, content, next), ModelOK(content), LogOK(content)
    PROVE  FilesOK'
<1>1. \A x \in DOMAIN files' : files'[x] = content \/ (x \in DOMAIN files /\ files'[x] = files[x])
  BY DEF Change
<1>2. \A x \in DOMAIN files' : ModelOK(files'[x]) /\ LogOK(files'[x])
  BY <1>1 DEF FilesOK
<1>3. \A x \in DOMAIN files' : ModelOK(files[x])' /\ LogOK(files[x])'
  BY <1>2, SameMachine DEF LogOK
<1>4. QED
  BY <1>3 DEF FilesOK

LEMMA OthersWriteOn ==
    ASSUME ShellInv, NEW p \in Processes, NEW S, Affects(p, S), NEW r \in Processes \ {p}, NEW path
    PROVE  Writing(r, path)' => Writing(r, path)
<1>1. proc'[r] = proc[r] \/ (Running(r) /\ proc'[r] = [proc[r] EXCEPT !.alone = FALSE])
  BY DEF Affects
<1>2. Running(r) => RunsOK(proc[r])
  BY DEF ShellInv, ProcessesOK
<1>3. proc'[r].at = proc[r].at /\ (proc[r].at = "write" => proc'[r].todo = proc[r].todo)
  BY <1>1, <1>2 DEF RunsOK
<1>4. QED
  BY <1>3 DEF Writing

\* A process that changes a file is still alone if it was.
LEMMA ChangerIsAlone ==
    ASSUME ShellInv, NEW p \in Processes, Running(p), NEW S, Affects(p, S),
           proc'[p].at \in {"open", "write"},
           proc'[p].alone = proc[p].alone, proc'[p].saw = proc[p].saw, proc'[p].opts = proc[p].opts,
           S \subseteq Outputs(proc[p].opts) \cup {NoPath}
    PROVE  AloneOK(p)'
<1>1. AloneOK(p)
  BY DEF ShellInv
<1>2. \A r \in Processes \ {p} : \A path : Writing(r, path)' => Writing(r, path)
  BY OthersWriteOn
<1>3. NoPath \notin DOMAIN proc[p].saw
  BY DEF ShellInv, ProcessesOK, RunsOK, Paths, Inputs, Outputs
<1>4. \A path \in DOMAIN proc[p].saw :
        path \notin Outputs(proc[p].opts) => File(path)' = File(path)
  BY <1>3 DEF Affects
<1>5. QED
  BY <1>1, <1>2, <1>4 DEF AloneOK, Outputs

\* Fields of a process that writes.
LEMMA WriterFields ==
    ASSUME ShellInv, NEW p \in Processes, proc[p].at \in {"open", "write"}, proc[p].todo # <<>>
    PROVE  /\ Running(p) /\ RunsOK(proc[p]) /\ proc[p].todo \in Seq(ToSet(proc[p].todo))
           /\ 1 \in DOMAIN proc[p].todo /\ Head(proc[p].todo) = proc[p].todo[1]
           /\ ModelOK(Head(proc[p].todo)[2]) /\ LogOK(Head(proc[p].todo)[2])
           /\ Head(proc[p].todo)[1] \in Outputs(proc[p].opts) \cup {NoPath}
<1>1. Running(p) /\ RunsOK(proc[p])
  BY DEF Running, ShellInv, ProcessesOK
<1>2. TodoOK(proc[p].todo)
  BY <1>1 DEF RunsOK
<1>3. proc[p].todo \in Seq(ToSet(proc[p].todo))
  BY <1>2 DEF TodoOK
<1>4. 1 \in DOMAIN proc[p].todo /\ Head(proc[p].todo) = proc[p].todo[1]
  BY <1>3
<1>5. OnlyOutputs(proc[p])
  BY <1>1 DEF RunsOK
<1>6. QED
  BY <1>1, <1>2, <1>3, <1>4, <1>5 DEF TodoOK, LogOK, OnlyOutputs

LEMMA OpenKeeps ==
    ASSUME ShellInv, UNCHANGED machine, NEW p \in Processes, Open(p)
    PROVE  Kept(p)
<1> DEFINE opts == proc[p].opts
           todo == proc[p].todo
           path == Head(todo)[1]
           content == Head(todo)[2]
           next == [proc[p] EXCEPT !.at = "write"]
<1>1. /\ proc[p].at = "open" /\ todo # <<>> /\ Running(p) /\ RunsOK(proc[p])
      /\ todo \in Seq(ToSet(todo)) /\ 1 \in DOMAIN todo /\ Head(todo) = todo[1]
  BY WriterFields DEF Open
<1>2. Fails(p) \/ Change(p, path, Cut(content), next)
  BY DEF Open
<1>3. CASE Fails(p)
  BY <1>3, ExitKeeps DEF Fails
<1>4. CASE Change(p, path, Cut(content), next)
  <2>1. /\ next.at = "write" /\ next.todo = todo /\ next.opts = opts
        /\ next.alone = proc[p].alone /\ next.saw = proc[p].saw
        /\ DOMAIN next = DOMAIN proc[p]
        /\ "factors" \in DOMAIN proc[p] => next.factors = proc[p].factors
    BY <1>1 DEF RunsOK
  <2> HIDE DEF next
  <2>2. Affects(p, {path}) /\ proc'[p] = next /\ File(path)' = Cut(content)
    BY <1>4, <2>1, ChangeAffects DEF ShellInv
  <2>3. FilesOK'
    BY <1>4, ChangedFilesOK DEF Cut, ModelOK, LogOK, ShellInv
  <2>4. RunsOK(proc[p])'
    <3>1. RunsOK(next)
      BY <1>1, <2>1 DEF RunsOK, OnlyOutputs
    <3>2. QED
      BY <2>2, <3>1, SameRuns
  <2>5. AloneOK(p)'
    <3>1. {path} \subseteq Outputs(opts) \cup {NoPath}
      BY <1>1, WriterFields
    <3>2. QED
      BY <1>1, <2>1, <2>2, <3>1, ChangerIsAlone
  <2>6. ASSUME Undisturbed(p)'
        PROVE  \A o \in Outputs(opts) : WritesRight(proc[p], o)'
    <3>1. Undisturbed(p)
      BY <2>1, <2>2, <2>6 DEF Undisturbed, Inputs
    <3>2. SUFFICES ASSUME NEW o \in Outputs(opts)
                   PROVE  WritesRight(proc[p], o)'
      OBVIOUS
    <3>3. WritesRight(proc[p], o)
      BY <1>1, <3>1 DEF ShellInv, QuietOK
    <3>4. CASE LastTo(todo, o, Expected(opts, proc[p].saw)[o])
      BY <2>1, <2>2, <3>4 DEF WritesRight, LastTo
    <3>5. CASE File(o) = Expected(opts, proc[p].saw)[o] /\ \A n \in DOMAIN todo : todo[n][1] # o
      <4>1. File(o)' = File(o)
        BY <1>1, <2>2, <3>5 DEF Affects
      <4>2. QED
        BY <2>1, <2>2, <3>5, <4>1 DEF WritesRight
    <3>6. QED
      BY <3>3, <3>4, <3>5 DEF WritesRight
  <2>7. QuietOK(p)'
    <3>1. Undisturbed(p)' => \A o \in Outputs(proc[p].opts)' : WritesRight(proc[p], o)'
      BY <2>1, <2>2, <2>6 DEF Outputs
    <3>2. ReadRight(proc[p])'
      BY <2>1, <2>2 DEF ReadRight
    <3>3. File(Head(proc[p].todo)[1])' = Cut(Head(proc'[p].todo)[2])
      BY <2>1, <2>2
    <3>4. QED
      BY <3>1, <3>2, <3>3 DEF QuietOK, Cut
  <2>8. QED
    BY <2>2, <2>3, <2>4, <2>5, <2>7 DEF Kept
<1>5. QED
  BY <1>2, <1>3, <1>4
LEMMA TailOfSeq ==
    ASSUME NEW s, s \in Seq(ToSet(s)), s # <<>>
    PROVE  Tail(s) \in Seq(ToSet(Tail(s)))
<1> DEFINE S == ToSet(s)
<1> HIDE DEF S
<1>1. s \in Seq(S)
  BY DEF S
<1>2. Tail(s) \in Seq(S)
  BY <1>1
<1>3. \A t \in Seq(S) : t \in Seq({t[n] : n \in DOMAIN t})
  OBVIOUS
<1>4. QED
  BY <1>2, <1>3 DEF ToSet

LEMMA WriteKeeps ==
    ASSUME ShellInv, UNCHANGED machine, NEW p \in Processes, Write(p)
    PROVE  Kept(p)
<1> DEFINE opts == proc[p].opts
           todo == proc[p].todo
           path == Head(todo)[1]
           content == Head(todo)[2]
           next == [proc[p] EXCEPT !.at = "open", !.todo = Tail(@)]
           together == \/ File(path) # Cut(content)
                       \/ \E q \in Processes \ {p} : Writing(q, path)
<1>1. /\ proc[p].at = "write" /\ todo # <<>> /\ Running(p) /\ RunsOK(proc[p])
  BY DEF Write, Running, ShellInv, ProcessesOK, RunsOK
<1>2. /\ todo \in Seq(ToSet(todo)) /\ 1 \in DOMAIN todo /\ Head(todo) = todo[1]
      /\ ModelOK(content) /\ LogOK(content)
  BY <1>1, WriterFields
<1>3. PICK written \in {content} \cup (IF together THEN {Mixed} ELSE {}) : Change(p, path, written, next)
  BY DEF Write
<1>4. /\ next.at = "open" /\ next.todo = Tail(todo) /\ next.opts = opts
      /\ next.alone = proc[p].alone /\ next.saw = proc[p].saw
      /\ DOMAIN next = DOMAIN proc[p]
      /\ "factors" \in DOMAIN proc[p] => next.factors = proc[p].factors
  BY <1>1 DEF RunsOK
<1> HIDE DEF next
<1>5. Affects(p, {path}) /\ proc'[p] = next /\ \A x : x = path => File(x)' = written
  <2>1. \A x : x = path => Change(p, x, written, next)
    BY <1>3
  <2>2. next.at # "write" /\ ProcessesOK
    BY <1>4 DEF ShellInv
  <2>3. \A x : x = path => Affects(p, {x}) /\ proc'[p] = next /\ File(x)' = written
    BY <2>1, <2>2, ChangeAffects
  <2>4. QED
    BY <2>3
<1>6. FilesOK'
  <2>1. ModelOK(written) /\ LogOK(written)
    BY <1>2, <1>3 DEF Mixed, ModelOK, LogOK
  <2>2. QED
    BY <1>3, <2>1, ChangedFilesOK DEF ShellInv
<1>7. /\ \A n \in DOMAIN Tail(todo) : n + 1 \in DOMAIN todo /\ Tail(todo)[n] = todo[n + 1]
      /\ \A n \in DOMAIN todo : n # 1 => n - 1 \in DOMAIN Tail(todo) /\ Tail(todo)[n - 1] = todo[n]
      /\ DOMAIN Tail(todo) \subseteq Nat /\ DOMAIN todo \subseteq Nat
  BY <1>2
<1>8. RunsOK(proc[p])'
  <2>1. Tail(todo) \in Seq(ToSet(Tail(todo)))
    BY <1>1, <1>2, TailOfSeq
  <2>2. TodoOK(todo)
    BY <1>1 DEF RunsOK
  <2>3. TodoOK(Tail(todo))
    BY <1>7, <2>1, <2>2 DEF TodoOK, ToSet
  <2>4. OnlyOutputs(next)
    <3>1. OnlyOutputs(proc[p])
      BY <1>1 DEF RunsOK
    <3>2. QED
      BY <1>4, <1>7, <3>1 DEF OnlyOutputs
  <2>5. RunsOK(next)
    BY <1>1, <1>4, <2>3, <2>4 DEF RunsOK
  <2>6. QED
    BY <1>5, <2>5, SameRuns
<1>9. AloneOK(p)'
  <2>1. {path} \subseteq Outputs(opts) \cup {NoPath}
    BY <1>1, WriterFields
  <2>2. QED
    BY <1>1, <1>4, <1>5, <2>1, ChangerIsAlone
<1>10. ASSUME Undisturbed(p)', NEW o \in Outputs(opts)
       PROVE  WritesRight(proc[p], o)'
  <2> DEFINE expected == Expected(opts, proc[p].saw)[o]
  <2>1. Undisturbed(p)
    BY <1>4, <1>5, <1>10 DEF Undisturbed, Inputs
  <2>2. WritesRight(proc[p], o)
    BY <1>1, <2>1 DEF ShellInv, QuietOK
  <2>3. ASSUME o = path PROVE written = content
    <3>1. File(path) = Cut(content)
      BY <1>1, <1>10, <2>1, <2>3 DEF ShellInv, QuietOK
    <3>2. path \in DOMAIN proc[p].saw /\ proc[p].alone
      BY <1>1, <1>10, <2>1, <2>3 DEF RunsOK, Paths, Undisturbed
    <3>3. \A q \in Processes \ {p} : ~Writing(q, path)
      BY <1>1, <3>2 DEF ShellInv, AloneOK
    <3>4. QED
      BY <1>3, <3>1, <3>3
  <2>4. CASE LastTo(todo, o, expected)
    <3>1. PICK n \in DOMAIN todo :
            todo[n] = <<o, expected>> /\ \A m \in DOMAIN todo : m > n => todo[m][1] # o
      BY <2>4 DEF LastTo
    <3>2. CASE n = 1
      <4>1. o = path /\ content = expected
        BY <1>2, <3>1, <3>2
      <4>2. File(o)' = expected
        BY <1>5, <2>3, <4>1
      <4>3. \A m \in DOMAIN Tail(todo) : Tail(todo)[m][1] # o
        <5>1. SUFFICES ASSUME NEW m \in DOMAIN Tail(todo) PROVE Tail(todo)[m][1] # o
          OBVIOUS
        <5>2. m + 1 \in DOMAIN todo /\ Tail(todo)[m] = todo[m + 1] /\ m \in Nat /\ m # 0
          BY <1>2, <1>7
        <5>3. m + 1 > n
          BY <3>2, <5>2
        <5>4. QED
          BY <3>1, <5>2, <5>3
      <4>4. QED
        BY <1>4, <1>5, <4>2, <4>3 DEF WritesRight
    <3>3. CASE n # 1
      <4>1. n - 1 \in DOMAIN Tail(todo) /\ Tail(todo)[n - 1] = <<o, expected>>
        BY <1>7, <3>1, <3>3
      <4>2. \A m \in DOMAIN Tail(todo) : m > n - 1 => Tail(todo)[m][1] # o
        <5>1. SUFFICES ASSUME NEW m \in DOMAIN Tail(todo), m > n - 1 PROVE Tail(todo)[m][1] # o
          OBVIOUS
        <5>2. m + 1 \in DOMAIN todo /\ Tail(todo)[m] = todo[m + 1] /\ m \in Nat /\ n \in Nat
          BY <1>7
        <5>3. m + 1 > n
          BY <5>1, <5>2
        <5>4. QED
          BY <3>1, <5>2, <5>3
      <4>3. LastTo(Tail(todo), o, expected)
        BY <4>1, <4>2 DEF LastTo
      <4>4. QED
        BY <1>4, <1>5, <4>3 DEF WritesRight, LastTo
    <3>4. QED
      BY <3>2, <3>3
  <2>5. CASE File(o) = expected /\ \A n \in DOMAIN todo : todo[n][1] # o
    <3>1. File(o)' = File(o)
      BY <1>2, <1>5, <2>5 DEF Affects
    <3>2. \A n \in DOMAIN Tail(todo) : Tail(todo)[n][1] # o
      BY <1>7, <2>5
    <3>3. QED
      BY <1>4, <1>5, <2>5, <3>1, <3>2 DEF WritesRight
  <2>6. QED
    BY <2>2, <2>4, <2>5 DEF WritesRight
<1>11. QuietOK(p)'
  <2>1. Undisturbed(p)' => \A o \in Outputs(proc[p].opts)' : WritesRight(proc[p], o)'
    BY <1>4, <1>5, <1>10 DEF Outputs
  <2>2. ReadRight(proc[p])' /\ proc'[p].at # "write"
    BY <1>4, <1>5 DEF ReadRight
  <2>3. QED
    BY <2>1, <2>2 DEF QuietOK
<1>12. QED
  BY <1>5, <1>6, <1>8, <1>9, <1>11 DEF Kept

LEMMA WriteFailsKeeps ==
    ASSUME ShellInv, UNCHANGED machine, NEW p \in Processes, WriteFails(p)
    PROVE  Kept(p)
  BY ExitKeeps DEF WriteFails

\* What the performance tracker leaves of a log is a longer one.
LEMMA TrackedIsLog ==
    ASSUME NEW f, LogOK(f), NEW opts
    PROVE  /\ ModelOK(Tracked(f, opts)) /\ LogOK(Tracked(f, opts))
           /\ f.is = "log" => IsStrictPrefix(f.docs, Tracked(f, opts).docs)
<1>1. CASE f = NoFile
  BY <1>1 DEF Tracked, ModelOK, LogOK, NoFile, ToSet
<1>2. CASE f # NoFile /\ f.is = "log"
  <2>1. /\ Tracked(f, opts).is = "log" /\ Tracked(f, opts).docs = Append(f.docs, opts)
        /\ f.docs \in Seq(ToSet(f.docs))
    BY <1>2 DEF Tracked, LogOK
  <2> DEFINE docs == f.docs
             more == Append(docs, opts)
  <2>2. more \in Seq(ToSet(docs) \cup {opts}) /\ Len(more) = Len(docs) + 1 /\ docs \in Seq(ToSet(docs) \cup {opts})
    BY <2>1
  <2>3. \A n \in DOMAIN docs : more[n] = docs[n]
    BY <2>1
  <2> HIDE DEF docs, more
  <2>4. more \in Seq(ToSet(more))
    BY <2>2 DEF ToSet
  <2>5. SubSeq(more, 1, Len(docs)) = docs
    BY <2>2, <2>3
  <2>6. IsStrictPrefix(docs, more)
    BY <2>2, <2>5 DEF IsStrictPrefix, IsPrefix
  <2>7. QED
    BY <2>1, <2>4, <2>6 DEF ModelOK, LogOK, docs, more
<1>3. CASE f # NoFile /\ f.is # "log"
  BY <1>3 DEF Tracked, ModelOK, LogOK, Mixed
<1>4. QED
  BY <1>1, <1>2, <1>3

LEMMA FinishKeeps ==
    ASSUME ShellInv, UNCHANGED machine, NEW p \in Processes, Finish(p)
    PROVE  Kept(p)
<1> DEFINE opts == proc[p].opts
           content == Tracked(File(opts.track), opts)
<1>1. \/ Exit(p, "success") /\ UNCHANGED files
      \/ Change(p, opts.track, content, Exited("success"))
  BY DEF Finish
<1>2. CASE Exit(p, "success") /\ UNCHANGED files
  BY <1>2, ExitKeeps
<1>3. CASE Change(p, opts.track, content, Exited("success"))
  <2>1. Affects(p, {opts.track}) /\ proc'[p] = Exited("success")
    <3>1. Exited("success").at # "write" /\ ProcessesOK
      BY DEF Exited, ShellInv
    <3>2. \A x : x = opts.track => Change(p, x, content, Exited("success"))
      BY <1>3
    <3>3. \A x : x = opts.track => Affects(p, {x}) /\ proc'[p] = Exited("success")
      BY <3>1, <3>2, ChangeAffects
    <3>4. QED
      BY <3>3
  <2>2. ~Running(p)'
    BY <2>1 DEF Running, Exited
  <2>3. FilesOK'
    <3>1. ModelOK(content) /\ LogOK(content)
      BY FileIsOK, TrackedIsLog DEF ShellInv
    <3>2. QED
      BY <1>3, <3>1, ChangedFilesOK DEF ShellInv
  <2>4. QED
    BY <2>1, <2>2, <2>3 DEF Kept, AloneOK, QuietOK
<1>4. QED
  BY <1>1, <1>2, <1>3
LEMMA StepKeeps ==
    ASSUME ShellInv, UNCHANGED machine, NEW p \in Processes, ShellStep(p)
    PROVE  Kept(p)
  BY StartKeeps, ReadFactorsKeeps, ReadDataKeeps, TrainKeeps, ReadModelKeeps, PredictKeeps,
     ScaleKeeps, OpenKeeps, WriteKeeps, WriteFailsKeeps, FinishKeeps DEF ShellStep

LEMMA InitShell == ShellInit => ShellInv
<1> SUFFICES ASSUME ShellInit PROVE ShellInv
  OBVIOUS
<1>1. FilesOK
  BY ShellAssumption DEF ShellInit, FilesOK, ModelOK, LogOK
<1>2. \A p \in Processes : ~Running(p)
  BY DEF ShellInit, Running, Idle
<1>3. ProcessesOK
  BY <1>2 DEF ProcessesOK, ShellInit
<1>4. QED
  BY <1>1, <1>2, <1>3 DEF ShellInv, AloneOK, QuietOK

LEMMA StutterKeepsShell == ASSUME ShellInv, UNCHANGED <<machine, shell_vars>> PROVE ShellInv'
<1>1. files' = files /\ proc' = proc /\ UNCHANGED machine
  BY DEF shell_vars
<1>2. \A p : (Running(p)' <=> Running(p)) /\ (Undisturbed(p)' <=> Undisturbed(p))
  BY <1>1 DEF Running, Undisturbed, Inputs
<1>3. \A path : File(path)' = File(path)
  BY <1>1 DEF File
<1>4. FilesOK'
  BY <1>1, FilesStayOK DEF ShellInv
<1>5. ProcessesOK'
  BY <1>1, <1>2, SameRuns DEF ShellInv, ProcessesOK
<1>6. ASSUME NEW p \in Processes PROVE AloneOK(p)'
  BY <1>1, <1>2, <1>3 DEF ShellInv, AloneOK, Writing
<1>7. ASSUME NEW p \in Processes PROVE QuietOK(p)'
  BY <1>1, <1>2, <1>3 DEF ShellInv, QuietOK, ReadRight, WritesRight, Outputs, Cut
<1>8. QED
  BY <1>4, <1>5, <1>6, <1>7 DEF ShellInv

LEMMA StepKeepsShell ==
    ShellInv /\ [ShellNext /\ UNCHANGED machine]_<<machine, shell_vars>> => ShellInv'
<1> SUFFICES ASSUME ShellInv, [ShellNext /\ UNCHANGED machine]_<<machine, shell_vars>> PROVE ShellInv'
  OBVIOUS
<1>1. CASE UNCHANGED <<machine, shell_vars>>
  BY <1>1, StutterKeepsShell
<1>2. CASE ShellNext /\ UNCHANGED machine
  <2>1. PICK q \in Processes : ShellStep(q)
    BY <1>2 DEF ShellNext, ShellStep
  <2>2. Kept(q)
    BY <1>2, <2>1, StepKeeps
  <2>3. ASSUME NEW p \in Processes
        PROVE  (Running(p)' => RunsOK(proc[p])') /\ AloneOK(p)' /\ QuietOK(p)'
    <3>1. PICK S : Affects(q, S)
      BY <2>2 DEF Kept
    <3>2. CASE p = q
      BY <2>2, <3>2 DEF Kept
    <3>3. CASE p # q
      BY <1>2, <3>1, <3>3, OthersKeep
    <3>4. QED
      BY <3>2, <3>3
  <2>4. ProcessesOK'
    BY <2>2, <2>3 DEF ProcessesOK, Kept, Affects
  <2>5. QED
    BY <2>2, <2>3, <2>4 DEF ShellInv, Kept
<1>3. QED
  BY <1>1, <1>2

LEMMA ShellInvariant == ShellSpec => []ShellInv
  BY InitShell, StepKeepsShell, PTL DEF ShellSpec

\* Who ends, ends in a step of its own.
LEMMA EndsItself ==
    ASSUME ShellInv, [ShellNext /\ UNCHANGED machine]_<<machine, shell_vars>>,
           NEW p \in Processes, Running(p), ~Running(p)'
    PROVE  ShellStep(p) /\ UNCHANGED machine
<1>1. ~UNCHANGED proc
  BY DEF Running
<1>2. PICK q \in Processes : ShellStep(q) /\ UNCHANGED machine
  BY <1>1 DEF ShellNext, ShellStep, shell_vars
<1>3. PICK S : Affects(q, S)
  BY <1>2, StepKeeps DEF Kept
<1>4. ASSUME p # q PROVE FALSE
  <2>1. proc'[p] = proc[p] \/ proc'[p] = [proc[p] EXCEPT !.alone = FALSE]
    BY <1>3, <1>4 DEF Affects
  <2>2. RunsOK(proc[p])
    BY DEF ShellInv, ProcessesOK
  <2>3. proc'[p].at = proc[p].at
    BY <2>1, <2>2 DEF RunsOK
  <2>4. QED
    BY <2>3 DEF Running
<1>5. QED
  BY <1>2, <1>4

\* Before there is something to write, a process leaves the files alone.
LEMMA ReadersKeepFiles ==
    ASSUME NEW p \in Processes, ShellStep(p), Running(p), proc[p].at \notin {"open", "write"}
    PROVE  files' = files
  BY DEF ShellStep, Start, ReadFactors, ReadData, Train, ReadModel, Predict, Scale, Open, Write,
         WriteFails, Finish, Goes, Fails

LEMMA FailureStep ==
    ASSUME ShellInv, [ShellNext /\ UNCHANGED machine]_<<machine, shell_vars>>,
           NEW p \in Processes, Running(p), ~Running(p)',
           proc[p].at \notin {"open", "write"}, proc[p].alone, NEW path \in DOMAIN proc[p].saw
    PROVE  File(path)' = proc[p].saw[path]
<1>1. files' = files
  BY EndsItself, ReadersKeepFiles
<1>2. File(path) = proc[p].saw[path]
  BY DEF ShellInv, AloneOK
<1>3. QED
  BY <1>1, <1>2 DEF File

\* Whoever fails before it writes, for any command lines and any number of
\* processes, leaves its files as they were.
THEOREM FailureCorrect == ShellSpec => FailureKeepsFiles
<1>1. ShellInv /\ [ShellNext /\ UNCHANGED machine]_<<machine, shell_vars>> =>
        [\A p \in Processes :
            Running(p) /\ ~Running(p)' /\ proc'[p].exit # "success"
                /\ proc[p].at \notin {"open", "write"} /\ proc[p].alone =>
            \A path \in DOMAIN proc[p].saw : File(path)' = proc[p].saw[path]]_shell_vars
  BY FailureStep
<1>2. QED
  BY <1>1, ShellInvariant, PTL DEF ShellSpec, FailureKeepsFiles
\* Success is only reached by writing everything.
LEMMA SuccessIsFinish ==
    ASSUME ShellInv, NEW p \in Processes, ShellStep(p), Running(p), proc'[p] = Exited("success")
    PROVE  Finish(p)
<1>1. DOMAIN proc = Processes /\ proc'[p].at = "exited" /\ proc'[p].exit = "success"
  BY DEF ShellInv, ProcessesOK, Exited
<1>2. ASSUME NEW exit, Exit(p, exit) PROVE exit = "success"
  BY <1>1, <1>2 DEF Exit, Exited
<1>3. ASSUME NEW at, NEW name, NEW computed, name \notin {"at", "opts", "alone", "saw"}, Goes(p, at, name, computed)
      PROVE  at = "exited"
  BY <1>1, <1>3, GoesKeeps DEF ShellInv
<1>4. ~Fails(p)
  BY <1>2 DEF Fails
<1>5. ~(Start(p) \/ WriteFails(p))
  BY <1>2 DEF Start, WriteFails
<1>6. ~ReadFactors(p) /\ ~ReadData(p) /\ ~Train(p) /\ ~ReadModel(p) /\ ~Predict(p) /\ ~Scale(p)
  BY <1>3, <1>4 DEF ReadFactors, ReadData, Train, ReadModel, Predict, Scale
<1>7. ~Open(p)
  <2> DEFINE next == [proc[p] EXCEPT !.at = "write"]
  <2>1. SUFFICES ASSUME proc[p].at = "open", NEW path, NEW content, Change(p, path, content, next)
                 PROVE  FALSE
    BY <1>4 DEF Open
  <2>2. "at" \in DOMAIN proc[p]
    BY DEF ShellInv, ProcessesOK, RunsOK
  <2>3. proc'[p].at = "write"
    BY <2>1, <2>2 DEF Change
  <2>4. QED
    BY <1>1, <2>3
<1>8. ~Write(p)
  <2> DEFINE next == [proc[p] EXCEPT !.at = "open", !.todo = Tail(@)]
  <2>1. SUFFICES ASSUME NEW path, NEW content, Change(p, path, content, next)
                 PROVE  FALSE
    BY DEF Write
  <2>2. "at" \in DOMAIN proc[p]
    BY DEF ShellInv, ProcessesOK, RunsOK
  <2>3. next.at = "open"
    BY <2>2
  <2>4. proc'[p].at = "open"
    BY <2>1, <2>3 DEF Change
  <2>5. QED
    BY <1>1, <2>4
<1>9. QED
  BY <1>5, <1>6, <1>7, <1>8 DEF ShellStep

LEMMA SuccessStep ==
    ASSUME ShellInv, [ShellNext /\ UNCHANGED machine]_<<machine, shell_vars>>,
           NEW p \in Processes, Running(p), proc'[p] = Exited("success"), Undisturbed(p)
    PROVE  LET opts == proc[p].opts
           IN  /\ \A path \in Outputs(opts) \ {opts.track} :
                    File(path)' = Expected(opts, proc[p].saw)[path]
               /\ \A path \in Inputs(opts) \ (Outputs(opts) \cup {opts.track}) :
                    File(path)' = proc[p].saw[path]
               /\ \A track \in {opts.track} \ (ReadOnly \cup {NoPath}) :
                    File(track).is = "log" =>
                        IsStrictPrefix(File(track).docs, File(track)'.docs)
<1> DEFINE opts == proc[p].opts
<1>1. ~Running(p)'
  BY DEF Running, Exited
<1>2. Finish(p)
  BY <1>1, EndsItself, SuccessIsFinish
<1>3. proc[p].at = "open" /\ proc[p].todo = <<>>
  BY <1>2 DEF Finish
<1>4. \A x : x # opts.track => File(x)' = File(x)
  <2>1. CASE UNCHANGED files
    BY <2>1 DEF File
  <2>2. CASE Change(p, opts.track, Tracked(File(opts.track), opts), Exited("success"))
    BY <2>2 DEF Change, File
  <2>3. QED
    BY <1>2, <2>1, <2>2 DEF Finish
<1>5. ASSUME NEW path \in Outputs(opts) \ {opts.track}
      PROVE  File(path)' = Expected(opts, proc[p].saw)[path]
  <2>1. WritesRight(proc[p], path)
    BY <1>3, <1>5 DEF ShellInv, QuietOK
  <2>2. File(path) = Expected(opts, proc[p].saw)[path]
    BY <1>3, <2>1 DEF WritesRight, LastTo
  <2>3. QED
    BY <1>4, <1>5, <2>2
<1>6. ASSUME NEW track, track = opts.track, track \notin ReadOnly \cup {NoPath}, File(track).is = "log"
      PROVE  IsStrictPrefix(File(track).docs, File(track)'.docs)
  <2>1. Change(p, track, Tracked(File(track), opts), Exited("success"))
    BY <1>2, <1>6 DEF Finish
  <2>2. File(track)' = Tracked(File(track), opts)
    BY <2>1 DEF Change, File
  <2>3. LogOK(File(track))
    BY FileIsOK DEF ShellInv
  <2>4. QED
    BY <1>6, <2>2, <2>3, TrackedIsLog
<1>7. ASSUME NEW path \in Inputs(opts) \ (Outputs(opts) \cup {opts.track})
      PROVE  File(path)' = proc[p].saw[path]
  <2>1. path \in DOMAIN proc[p].saw /\ proc[p].alone
    BY <1>7 DEF ShellInv, ProcessesOK, RunsOK, Paths, Undisturbed
  <2>2. File(path) = proc[p].saw[path]
    BY <1>7, <2>1 DEF ShellInv, AloneOK
  <2>3. QED
    BY <1>4, <1>7, <2>2
<1>8. QED
  BY <1>5, <1>6, <1>7

\* A program that ends with success has written what follows from the files it
\* found, and neither its other inputs nor what others have tracked is lost:
\* also with the output in an input's place, and with others at work on other
\* files.
THEOREM SuccessCorrect == ShellSpec => SuccessMeansResults
<1>1. ShellInv /\ [ShellNext /\ UNCHANGED machine]_<<machine, shell_vars>> =>
        [\A p \in Processes :
            LET opts == proc[p].opts
            IN  Running(p) /\ proc'[p] = Exited("success") /\ Undisturbed(p) =>
                  /\ \A path \in Outputs(opts) \ {opts.track} :
                        File(path)' = Expected(opts, proc[p].saw)[path]
                  /\ \A path \in Inputs(opts) \ (Outputs(opts) \cup {opts.track}) :
                        File(path)' = proc[p].saw[path]
                  /\ \A track \in {opts.track} \ (ReadOnly \cup {NoPath}) :
                        File(track).is = "log" =>
                            IsStrictPrefix(File(track).docs, File(track)'.docs)]_shell_vars
  BY SuccessStep
<1>2. QED
  BY <1>1, ShellInvariant, PTL DEF ShellSpec, SuccessMeansResults
\* The kernel function does not decide whether there is a csvm, and neither
\* does the SYCL implementation unless another one than the preferred is asked
\* for.
LEMMA PredictHasCsvm ==
    ASSUME NEW backend, NEW target, NEW kernel, NEW impl,
           impl \in {"automatic", build.preferred} \/ backend # "sycl",
           make_csvm(backend, target, kernel,
                     IF backend = "sycl" THEN impl ELSE "automatic") # Refused
    PROVE  make_csvm(backend, target, "linear", "automatic") # Refused
<1> DEFINE used == IF backend = "automatic" THEN determine_default_backend ELSE backend
           given == IF backend = "sycl" THEN impl ELSE "automatic"
<1>1. \A t, k : opencl_csvm(t, k) # Refused => opencl_csvm(t, "linear") # Refused
  BY DEF opencl_csvm, Refused, Csvm
<1>2. given \in {"automatic", build.preferred}
  OBVIOUS
<1>3. \A t : make_csvm_sycl(given, t) # Refused => make_csvm_sycl("automatic", t) # Refused
  BY <1>2 DEF make_csvm_sycl
<1> HIDE DEF used, given
<1>4. make_csvm(backend, target, kernel, given) # Refused
  BY DEF given
<1>5. used \in available_backends
  BY <1>4 DEF make_csvm, used
<1>6. CASE used \in {"openmp", "cuda", "hip"}
  <2>1. make_csvm(backend, target, kernel, given) = make_csvm(backend, target, "linear", "automatic")
    BY <1>6 DEF make_csvm, used
  <2>2. QED
    BY <1>4, <2>1
<1>7. CASE used = "opencl"
  <2>1. /\ make_csvm(backend, target, kernel, given) = opencl_csvm(target, kernel)
        /\ make_csvm(backend, target, "linear", "automatic") = opencl_csvm(target, "linear")
    BY <1>5, <1>7 DEF make_csvm, used
  <2>2. QED
    BY <1>1, <1>4, <2>1
<1>8. CASE used \notin {"openmp", "cuda", "hip", "opencl"}
  <2>1. /\ make_csvm(backend, target, kernel, given) = make_csvm_sycl(given, target)
        /\ make_csvm(backend, target, "linear", "automatic") = make_csvm_sycl("automatic", target)
    BY <1>5, <1>8 DEF make_csvm, used
  <2>2. QED
    BY <1>3, <1>4, <2>1
<1>9. QED
  BY <1>6, <1>7, <1>8

\* And a csvm that is there runs the kernels, but for those of OpenCL.
LEMMA CsvmPredicts ==
    ASSUME NEW backend, NEW target, NEW svm, NEW kernel,
           svm = make_csvm(backend, target, "linear", "automatic"), svm # Refused,
           svm.backend = "opencl" => kernel = "linear"
    PROVE  PredictEnds(svm, kernel) = "ok"
<1>1. \/ \E t, i : svm = Csvm("openmp", t, "all", i) \/ svm = Csvm("cuda", t, "all", i)
                 \/ svm = Csvm("hip", t, "all", i) \/ svm = Csvm("sycl", t, "all", i)
      \/ \E t : svm = Csvm("opencl", t, "linear", "none")
  BY DEF make_csvm, openmp_csvm, cuda_csvm, hip_csvm, opencl_csvm, make_csvm_sycl, dpcpp_csvm, hipsycl_csvm
<1>2. svm.compiled = "all" \/ (svm.backend = "opencl" /\ svm.compiled = "linear")
  BY <1>1 DEF Csvm
<1>3. QED
  BY <1>2 DEF PredictEnds, RunsKernel, kernel_type_to_function_names
LEMMA PredictStep ==
    ASSUME ShellInv, [ShellNext /\ UNCHANGED machine]_<<machine, shell_vars>>,
           NEW p \in Processes, Running(p), ~Running(p)',
           proc[p].opts.program = "predict", proc[p].at \notin {"open", "write"}, Undisturbed(p),
           NEW model, model = proc[p].saw[proc[p].opts.model], model.is = "model",
           model.by = Selection(proc[p].opts),
           NEW data, data = proc[p].saw[proc[p].opts.input], model.data = data,
           NEW svm, svm = PredictCsvm(proc[p].opts),
           svm # Refused /\ svm.backend = "opencl" => model.kernel = "linear",
           proc[p].opts.backend = "sycl" => proc[p].opts.impl \in {"automatic", build.preferred},
           data.last = data.features
    PROVE  FALSE
<1> DEFINE opts == proc[p].opts
<1>1. ShellStep(p) /\ ProcessesOK /\ RunsOK(proc[p])
  BY EndsItself DEF ShellInv, ProcessesOK
<1>2. DOMAIN opts = PredictFields /\ OptionsOK(opts)
  BY <1>1 DEF RunsOK, OptionsOK
<1>3. /\ Read(opts.input) = {data} /\ Whole(data) = data
      /\ Read(opts.model) = {model} /\ Whole(model) = model
  BY <1>2, ReadsWhatItSaw, InputIsInput
<1>4. /\ model.by.backend = opts.backend /\ model.by.target = opts.target
      /\ model.by.impl = opts.impl /\ model.by.strings = opts.strings
  BY <1>2 DEF Selection, PredictFields
<1>5. ModelOK(model)
  BY <1>1, <1>2 DEF RunsOK, Paths, Inputs, PredictFields, OptionsOK
<1>6. /\ DataReads(data, opts.strings) /\ model.features = data.last /\ model.text = data.text
      /\ make_csvm(opts.backend, opts.target, model.kernel,
                   IF opts.backend = "sycl" THEN opts.impl ELSE "automatic") # Refused
  BY <1>3, <1>4, <1>5 DEF ModelOK
<1>7. svm # Refused /\ PredictEnds(svm, model.kernel) = "ok"
  <2>1. svm = make_csvm(opts.backend, opts.target, "linear", "automatic")
    BY DEF PredictCsvm
  <2>2. svm # Refused
    BY <1>6, <2>1, PredictHasCsvm
  <2>3. QED
    BY <2>1, <2>2, CsvmPredicts
<1>8. ASSUME NEW at, NEW name, NEW computed, name \notin {"at", "opts", "alone", "saw"},
             at \notin {"idle", "exited"}, Goes(p, at, name, computed)
      PROVE  FALSE
  BY <1>1, <1>8, GoesKeeps DEF Running
<1>9. ~ReadData(p)
  <2>1. "factors" \notin DOMAIN proc[p]
    BY <1>1 DEF RunsOK
  <2>2. QED
    BY <1>3, <1>6, <1>8, <2>1 DEF ReadData
<1>10. ~ReadModel(p)
  BY <1>3, <1>6, <1>8 DEF ReadModel, DataReads
<1>11. ~Predict(p)
  <2>1. SUFFICES ASSUME Predict(p) PROVE FALSE
    OBVIOUS
  <2>2. proc[p].data = data /\ proc[p].model = model
    BY <2>1 DEF Predict, ShellInv, QuietOK, ReadRight
  <2>3. Goes(p, "open", "todo", <<<<opts.output, Prediction(data, model)>>>>)
    BY <1>3, <1>6, <1>7, <2>1, <2>2 DEF Predict
  <2>4. QED
    BY <1>8, <2>3
<1>12. ~ReadFactors(p) /\ ~Train(p) /\ ~Scale(p)
  BY <1>1 DEF ReadFactors, Train, Scale, RunsOK
<1>13. QED
  BY <1>1, <1>9, <1>10, <1>11, <1>12 DEF ShellStep, Start, Open, Write, WriteFails, Finish

\* On one machine and the same data, plssvm-predict succeeds with the options
\* plssvm-train succeeded with, whatever the machine, up to the three
\* exceptions.
THEOREM PredictsCorrect == ShellSpec => PredictsWhatItTrained
<1>1. ShellInv /\ [ShellNext /\ UNCHANGED machine]_<<machine, shell_vars>> =>
        [\A p \in Processes :
            LET opts == proc[p].opts
                model == proc[p].saw[opts.model]
                data == proc[p].saw[opts.input]
                svm == PredictCsvm(opts)
            IN  /\ Running(p) /\ ~Running(p)' /\ proc'[p].exit # "success"
                /\ opts.program = "predict" /\ proc[p].at \notin {"open", "write"}
                /\ Undisturbed(p) /\ model.is = "model"
                /\ model.by = Selection(opts) /\ model.data = data
                => \/ svm # Refused /\ svm.backend = "opencl" /\ model.kernel # "linear"
                   \/ opts.backend = "sycl" /\ opts.impl \notin {"automatic", build.preferred}
                   \/ data.last # data.features]_shell_vars
  BY PredictStep
<1>2. QED
  BY <1>1, ShellInvariant, PTL DEF ShellSpec, PredictsWhatItTrained

----------------------------------------------------------------------------
(* Parameter objects.                                                      *)

Typed(p) ==
    /\ p = [m \in Members |-> p[m]]
    /\ \A m \in Members : p[m] \in value_type(m) \cup {Default}

ParameterInv == Typed(object) /\ Typed(params_)

LEMMA DefaultIsNoValue ==
    \A m \in Members : Default \notin value_type(m) /\ default_init[m] \in value_type(m)
  BY ParameterAssumption DEF Members, value_type, default_init, kernel_function_type

LEMMA ValueTyped ==
    ASSUME NEW p, Typed(p), NEW m \in Members
    PROVE  value(p, m) \in value_type(m)
  BY DefaultIsNoValue DEF Typed, value, is_default

LEMMA AssignTyped ==
    ASSUME NEW p, Typed(p), NEW values,
           \A m \in Members \cap DOMAIN values : values[m] \in value_type(m)
    PROVE  Typed(Assign(p, values))
  BY DEF Typed, Assign

LEMMA NoneGiven == Typed(parameter)
  BY DEF Typed, parameter

\* Named arguments have values of their members' types.
LEMMA ArgumentsTyped ==
    ASSUME ParameterInv, NEW values \in AllNamedArguments, NEW m \in DOMAIN values
    PROVE  values[m] \in value_type(m)
<1>1. ASSUME NEW given \in GivenMembers, values = [x \in {given[1]} |-> given[2]]
      PROVE  values[m] \in value_type(m)
  BY <1>1, ParameterAssumption
<1>2. ASSUME NEW p, Typed(p), NEW x \in Members, values = Values(p, {x})
      PROVE  values[m] \in value_type(m)
  <2>1. m = x /\ values[m] = value(p, x)
    BY <1>2 DEF Values
  <2>2. QED
    BY <1>2, <2>1, ValueTyped
<1>3. QED
  BY <1>1, <1>2 DEF AllNamedArguments, NamedArguments, ParameterInv

LEMMA ConvertedTyped ==
    ASSUME NEW p, Typed(p), NEW from, NEW to
    PROVE  Typed(Converted(p, from, to))
<1>1. \A m \in Members : value(p, m) \in value_type(m)
  BY ValueTyped
<1>2. \A m \in Floating : value_type(m) = Reals
  BY DEF Floating, value_type
<1>3. Floating \subseteq Members
  BY DEF Floating, Members
<1>4. ASSUME from # to PROVE Typed(Converted(p, from, to))
  <2> DEFINE values == [m \in Members |-> IF m \in Floating /\ to = "float" THEN AsFloat[value(p, m)]
                                          ELSE value(p, m)]
  <2>1. \A m \in Members \cap DOMAIN values : values[m] \in value_type(m)
    BY <1>1, <1>2, <1>3, ParameterAssumption
  <2>2. Typed(Assign(parameter, values))
    BY <2>1, NoneGiven, AssignTyped
  <2>3. QED
    BY <1>4, <2>2 DEF Converted
<1>5. QED
  BY <1>4 DEF Converted

LEMMA ParameterInvariant == ParameterSpec => []ParameterInv
<1>1. ParameterInit => ParameterInv
  BY NoneGiven DEF ParameterInit, ParameterInv
<1>2. ParameterInv /\ [ParameterNext]_parameter_vars => ParameterInv'
  <2> SUFFICES ASSUME ParameterInv, [ParameterNext]_parameter_vars PROVE ParameterInv'
    OBVIOUS
  <2> USE DEF ParameterInv
  <2>1. ASSUME NEW p, Typed(p), NEW values \in AllNamedArguments
        PROVE  Typed(Assign(p, values))
    BY <2>1, ArgumentsTyped, AssignTyped
  <2>2. CASE ConstructParameter
    BY <2>1, <2>2, NoneGiven DEF ConstructParameter
  <2>3. CASE Reset
    BY <2>3 DEF Reset, reset, Typed
  <2>4. CASE AssignMember
    BY <2>4 DEF AssignMember, Typed
  <2>5. CASE Convert
    BY <2>5, ConvertedTyped DEF Convert
  <2>6. CASE NewCsvm
    <3>1. Assign(object, <<>>) = object
      <4>1. \A m : m \notin DOMAIN <<>>
        <5>1. DOMAIN <<>> = {}
          OBVIOUS
        <5>2. QED
          BY <5>1
      <4>2. Assign(object, <<>>) = [m \in Members |-> object[m]]
        BY <4>1 DEF Assign
      <4>3. QED
        BY <4>2 DEF Typed
    <3>2. PICK values \in {<<>>} \cup AllNamedArguments :
            params_' = Assign(object, values) /\ UNCHANGED object
      BY <2>6 DEF NewCsvm
    <3>3. Typed(params_')
      BY <2>1, <3>1, <3>2
    <3>4. QED
      BY <3>2, <3>3
  <2>7. CASE SetCsvmParams
    BY <2>1, <2>7 DEF SetCsvmParams
  <2>8. CASE ReplaceParams \/ GetCsvmParams \/ UNCHANGED parameter_vars
    BY <2>8 DEF ReplaceParams, GetCsvmParams, parameter_vars
  <2>9. QED
    BY <2>2, <2>3, <2>4, <2>5, <2>6, <2>7, <2>8 DEF ParameterNext
<1>3. QED
  BY <1>1, <1>2, PTL DEF ParameterSpec

\* What fit makes of a member of the parameters.
FitValue(p, n, real_type, m) ==
    LET given == value(WithDefaultGamma(p, n), m)
    IN  IF m \in Floating /\ real_type = "float" THEN AsFloat[given] ELSE given

LEMMA GammaTyped ==
    ASSUME NEW p, Typed(p), NEW n \in FeatureNumbers
    PROVE  Typed(WithDefaultGamma(p, n))
<1>1. OneOver[n] \in value_type("gamma")
  BY ParameterAssumption DEF value_type
<1>2. Typed(Assign(p, [gamma |-> OneOver[n]]))
  BY <1>1, AssignTyped
<1>3. QED
  BY <1>2 DEF WithDefaultGamma

LEMMA FitValues ==
    ASSUME NEW p, Typed(p), NEW n \in FeatureNumbers, NEW real_type, NEW m \in Members
    PROVE  value(fit(p, n, real_type), m) = FitValue(p, n, real_type, m)
<1> DEFINE w == WithDefaultGamma(p, n)
<1>1. Typed(w)
  BY GammaTyped
<1>2. value(w, m) \in value_type(m)
  BY <1>1, ValueTyped
<1>3. CASE real_type = "double"
  BY <1>3 DEF fit, Converted, FitValue
<1>4. CASE real_type # "double"
  <2> DEFINE converted == IF m \in Floating /\ real_type = "float" THEN AsFloat[value(w, m)]
                          ELSE value(w, m)
  <2>1. fit(p, n, real_type)[m] = converted
    BY <1>4 DEF fit, Converted, Assign
  <2>2. converted \in value_type(m)
    BY <1>2, ParameterAssumption DEF Floating, value_type
  <2>3. converted # Default
    BY <2>2, DefaultIsNoValue
  <2>4. value(fit(p, n, real_type), m) = converted
    BY <2>1, <2>3 DEF value, is_default
  <2>5. QED
    BY <2>4 DEF FitValue
<1>5. QED
  BY <1>3, <1>4

\* Only gamma changes before the conversion.
LEMMA OnlyGamma ==
    ASSUME NEW p, Typed(p), NEW n \in FeatureNumbers, NEW m \in Members \ {"gamma"}
    PROVE  value(WithDefaultGamma(p, n), m) = value(p, m)
  BY DEF WithDefaultGamma, Assign, value, is_default

LEMMA GammaIs ==
    ASSUME NEW p, Typed(p), NEW n \in FeatureNumbers
    PROVE  value(WithDefaultGamma(p, n), "gamma") =
             IF is_default(p, "gamma") THEN OneOver[n] ELSE value(p, "gamma")
<1>1. OneOver[n] # Default
  BY ParameterAssumption
<1>2. "gamma" \in Members
  BY DEF Members
<1>3. QED
  BY <1>1, <1>2 DEF WithDefaultGamma, Assign, value, is_default

\* What equivalence compares decides what the kernels are called with.
LEMMA EquivalentCalls ==
    ASSUME NEW p, Typed(p), NEW r, Typed(r), NEW n \in FeatureNumbers, NEW real_type,
           sanity_check_parameter(p), sanity_check_parameter(r), equivalent(p, r)
    PROVE  KernelCalls(fit(p, n, real_type)) = KernelCalls(fit(r, n, real_type))
<1> DEFINE c == fit(p, n, real_type)
           d == fit(r, n, real_type)
           kernel == value(p, "kernel_type")
<1>1. kernel \in kernel_function_type /\ value(r, "kernel_type") = kernel
  <2>1. "kernel_type" \in Members /\ value_type("kernel_type") = kernel_function_type
    BY DEF Members, value_type
  <2>2. QED
    BY <2>1, ValueTyped DEF equivalent
<1>2. \A m \in Mattering(kernel) : m \in Members /\ value(p, m) = value(r, m)
  <2>1. Values(p, Mattering(kernel)) = Values(r, Mattering(kernel))
    BY DEF equivalent, same
  <2>2. Mattering(kernel) \subseteq Members
    BY <1>1 DEF Mattering, Members, kernel_function_type
  <2>3. \A m \in Mattering(kernel) : Values(p, Mattering(kernel))[m] = value(p, m)
                                     /\ Values(r, Mattering(kernel))[m] = value(r, m)
    BY DEF Values
  <2>4. QED
    BY <2>1, <2>2, <2>3
<1>3. "gamma" \in Mattering(kernel) =>
        value(WithDefaultGamma(p, n), "gamma") = value(WithDefaultGamma(r, n), "gamma")
  <2>1. SUFFICES ASSUME "gamma" \in Mattering(kernel)
                 PROVE  value(WithDefaultGamma(p, n), "gamma") = value(WithDefaultGamma(r, n), "gamma")
    OBVIOUS
  <2>2. kernel \in {"polynomial", "rbf"}
    BY <1>1, <2>1 DEF Mattering, kernel_function_type
  <2>3. value(p, "gamma") = value(r, "gamma")
    BY <1>2, <2>1
  <2>4. \A x : is_default(x, "gamma") => value(x, "gamma") = 0
    BY DEF value, default_init
  <2>5. is_default(p, "gamma") <=> is_default(r, "gamma")
    BY <1>1, <2>2, <2>3, <2>4 DEF sanity_check_parameter
  <2>6. QED
    BY <2>3, <2>5, GammaIs
<1>4. \A m \in Mattering(kernel) : value(c, m) = value(d, m)
  <2>1. TAKE m \in Mattering(kernel)
  <2>2. value(WithDefaultGamma(p, n), m) = value(WithDefaultGamma(r, n), m)
    BY <1>2, <1>3, <2>1, OnlyGamma
  <2>3. QED
    BY <1>2, <2>1, <2>2, FitValues DEF FitValue
<1>5. value(c, "kernel_type") = kernel /\ value(d, "kernel_type") = kernel
  <2>1. "kernel_type" \in Members \ {"gamma"} /\ "kernel_type" \notin Floating
    BY DEF Members, Floating
  <2>2. QED
    BY <1>1, <2>1, FitValues, OnlyGamma DEF FitValue
<1>6. generate_q(c) = generate_q(d)
  BY <1>1, <1>4, <1>5 DEF generate_q, Mattering, kernel_function_type
<1>7. value(c, "cost") = value(d, "cost")
  BY <1>1, <1>4 DEF Mattering, kernel_function_type
<1>8. run_device_kernel(c) = run_device_kernel(d)
  BY <1>6, <1>7, Zenon DEF run_device_kernel
<1>9. predict_values(c) = predict_values(d)
  BY <1>5, <1>6 DEF predict_values
<1>10. QED
  BY <1>6, <1>8, <1>9 DEF KernelCalls

\* Equal or equivalent parameters that a csvm accepts train and predict the
\* same, for any reals and numbers of features and whatever the program does
\* with its objects, and a kernel gets a gamma that it accepts.
THEOREM EquivalenceCorrect == ParameterSpec => []EquivalentTrainsTheSame
<1>1. ParameterInv => EquivalentTrainsTheSame
  <2> SUFFICES ASSUME ParameterInv, NEW p \in {object, params_}, NEW r \in {object, params_}
               PROVE  /\ equal(p, r) => equivalent(p, r)
                      /\ sanity_check_parameter(p) /\ sanity_check_parameter(r) /\ equivalent(p, r) =>
                           \A n \in FeatureNumbers, real_type \in RealTypes :
                              LET c == fit(p, n, real_type)
                              IN  /\ KernelCalls(c) = KernelCalls(fit(r, n, real_type))
                                  /\ value(c, "kernel_type") = "linear" \/ value(c, "gamma") > 0
                                     \/ AsFloat[value(WithDefaultGamma(p, n), "gamma")] <= 0
    BY DEF EquivalentTrainsTheSame
  <2>1. Typed(p) /\ Typed(r)
    BY DEF ParameterInv
  <2>2. equal(p, r) => equivalent(p, r)
    <3>1. SUFFICES ASSUME equal(p, r) PROVE equivalent(p, r)
      OBVIOUS
    <3>2. \A m \in Members : Values(p, Members)[m] = value(p, m) /\ Values(r, Members)[m] = value(r, m)
      BY DEF Values
    <3>3. \A m \in Members : value(p, m) = value(r, m)
      BY <3>1, <3>2 DEF equal, same
    <3>4. "kernel_type" \in Members /\ value(p, "kernel_type") \in kernel_function_type
      BY <2>1, ValueTyped DEF Members, value_type
    <3>5. Mattering(value(p, "kernel_type")) \subseteq Members
      BY <3>4 DEF Mattering, Members, kernel_function_type
    <3>6. QED
      BY <3>3, <3>4, <3>5 DEF equivalent, same, Values
  <2>3. ASSUME sanity_check_parameter(p), NEW n \in FeatureNumbers, NEW real_type \in RealTypes,
               value(fit(p, n, real_type), "kernel_type") # "linear",
               AsFloat[value(WithDefaultGamma(p, n), "gamma")] > 0
        PROVE  value(fit(p, n, real_type), "gamma") > 0
    <3>1. {"kernel_type", "gamma"} \subseteq Members /\ "kernel_type" \notin Floating
      BY DEF Members, Floating
    <3>2. value(fit(p, n, real_type), "kernel_type") = value(p, "kernel_type")
      BY <2>1, <3>1, FitValues, OnlyGamma DEF FitValue
    <3>3. value(p, "kernel_type") \in {"polynomial", "rbf"}
      BY <2>1, <2>3, <3>1, <3>2, ValueTyped DEF value_type, kernel_function_type
    <3>4. value(WithDefaultGamma(p, n), "gamma") > 0
      BY <2>1, <2>3, <3>3, GammaIs, ParameterAssumption DEF sanity_check_parameter
    <3>5. QED
      BY <2>1, <2>3, <3>1, <3>4, FitValues DEF FitValue
  <2>4. ASSUME NEW n \in FeatureNumbers
        PROVE  AsFloat[value(WithDefaultGamma(p, n), "gamma")] \in Int
    <3>1. value(WithDefaultGamma(p, n), "gamma") \in Reals
      BY <2>1, GammaTyped, ValueTyped DEF Members, value_type
    <3>2. QED
      BY <3>1, ParameterAssumption
  <2>5. QED
    BY <2>1, <2>2, <2>3, <2>4, EquivalentCalls
<1>2. QED
  BY <1>1, ParameterInvariant, PTL
=============================================================================
