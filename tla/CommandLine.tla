---------------------------- MODULE CommandLine -----------------------------
(***************************************************************************)
(* plssvm-train, plssvm-predict and plssvm-scale, started in a shell on    *)
(* common files, maybe several at a time.                                  *)
(*                                                                         *)
(* A file holds what was written to it, as a record of where this came     *)
(* from.  What the points are is left out but for what the programs fail   *)
(* for: the labels, and the features with the last one that is not zero.   *)
(* A file that is opened for writing is cut until its writer has written   *)
(* it, and stays cut if that fails.                                        *)
(***************************************************************************)
EXTENDS Backends, SequencesExt

CONSTANTS
    Processes,
    Calls,          \* command lines, [program, input, ...]; an option that is
                    \* not given is not in the domain
    GivenFiles,     \* files there at the start, by path
    ReadOnly,       \* paths that cannot be opened for writing
    MaxStarts       \* bound on the started programs

\* What a program reads has a name.  The models are those of plssvm-train, and
\* a log is a sequence of documents.
ASSUME ShellAssumption ==
    /\ \A call \in Calls : \A x \in {"input", "model"} \cap DOMAIN call : call[x] # <<>>
    /\ \A path \in DOMAIN GivenFiles :
         LET f == GivenFiles[path]
         IN  f.is # "model" /\ (f.is = "log" => f.docs \in Seq(ToSet(f.docs)))

VARIABLES files, proc, starts

shell_vars == <<files, proc, starts>>

NoFile == [is |-> "none"]
NoPath == <<>>
Cut(content) == [is |-> "cut", of |-> content]
Mixed == [is |-> "mixed"]           \* written by two processes at a time

File(path) == IF path \in DOMAIN files THEN files[path] ELSE NoFile

----------------------------------------------------------------------------
(* Command lines.  A path is <<directory, name>>; names are sequences, to   *)
(* add the endings of the defaults.                                         *)

Opt(call, name, default) == IF name \in DOMAIN call THEN call[name] ELSE default

\* Defaults are in the working directory, whatever the input's is.
DefaultPath(input, ending) == <<".", Append(input[2], ending)>>

\* Errors of cxxopts and of operator>>, before anything else is looked at.  The
\* build has the performance tracker.
Unparsable(call) ==
    \/ "unknown" \in DOMAIN call
    \/ "impl" \in DOMAIN call /\ "sycl" \notin build.backends
    \/ Opt(call, "backend", "automatic") \notin BackendNames
    \/ Opt(call, "target", "automatic") \notin TargetNames
    \/ Opt(call, "impl", "automatic") \notin ImplementationNames

\* parser_train
TrainOptions(call) ==
    [program |-> "train", input |-> call.input,
     output |-> Opt(call, "output", DefaultPath(call.input, "model")),
     kernel |-> Opt(call, "kernel", "linear"),
     backend |-> Opt(call, "backend", "automatic"), target |-> Opt(call, "target", "automatic"),
     impl |-> Opt(call, "impl", "automatic"), epsilon |-> Opt(call, "epsilon", 1),
     strings |-> "strings" \in DOMAIN call, track |-> Opt(call, "track", NoPath)]

\* Not for epsilon, which fit refuses.
TrainRejects(call) ==
    \/ "extra" \in DOMAIN call
    \/ Opt(call, "gamma", 1) <= 0
    \/ Opt(call, "max_iter", 1) <= 0
    \/ "input" \notin DOMAIN call

\* parser_predict
PredictOptions(call) ==
    [program |-> "predict", input |-> call.input, model |-> call.model,
     output |-> Opt(call, "output", DefaultPath(call.input, "predict")),
     backend |-> Opt(call, "backend", "automatic"), target |-> Opt(call, "target", "automatic"),
     impl |-> Opt(call, "impl", "automatic"), strings |-> "strings" \in DOMAIN call,
     track |-> Opt(call, "track", NoPath)]

PredictRejects(call) ==
    "extra" \in DOMAIN call \/ "input" \notin DOMAIN call \/ "model" \notin DOMAIN call

\* parser_scale: without an output the data are printed.
ScaleOptions(call) ==
    [program |-> "scale", input |-> call.input, output |-> Opt(call, "output", NoPath),
     save |-> Opt(call, "save", NoPath), restore |-> Opt(call, "restore", NoPath),
     range |-> <<Opt(call, "lower", -1), Opt(call, "upper", 1)>>,
     format |-> Opt(call, "format", "libsvm"), strings |-> "strings" \in DOMAIN call,
     track |-> Opt(call, "track", NoPath)]

ScaleRejects(call) ==
    \/ "extra" \in DOMAIN call
    \/ Opt(call, "lower", -1) >= Opt(call, "upper", 1)
    \/ "input" \notin DOMAIN call
    \/ {"save", "restore"} \subseteq DOMAIN call

Rejects(call) ==
    CASE call.program = "train" -> TrainRejects(call)
      [] call.program = "predict" -> PredictRejects(call)
      [] OTHER -> ScaleRejects(call)

Options(call) ==
    CASE call.program = "train" -> TrainOptions(call)
      [] call.program = "predict" -> PredictOptions(call)
      [] OTHER -> ScaleOptions(call)

Inputs(opts) ==
    ({opts.input} \cup {opts[x] : x \in {"model", "restore"} \cap DOMAIN opts}) \ {NoPath}
Outputs(opts) ==
    {opts[x] : x \in {"output", "save"} \cap DOMAIN opts} \ {NoPath}

----------------------------------------------------------------------------
(* Processes.                                                              *)

Idle == [at |-> "idle"]
Exited(exit) == [at |-> "exited", exit |-> exit]

Running(p) == proc[p].at \notin {"idle", "exited"}

Writing(q, path) == proc[q].at = "write" /\ Head(proc[q].todo)[1] = path

Exit(p, exit) == proc' = [proc EXCEPT ![p] = Exited(exit)]

\* saw and alone are history: the files at the start, and whether nobody else
\* has written one of them since.
Start(p) ==
    /\ ~Running(p) /\ starts < MaxStarts
    /\ starts' = starts + 1
    /\ \E call \in Calls :
         CASE Unparsable(call) -> Exit(p, "failure")
           [] ~Unparsable(call) /\ "help" \in DOMAIN call -> Exit(p, "success")
           [] ~Unparsable(call) /\ "help" \notin DOMAIN call /\ Rejects(call) -> Exit(p, "failure")
           [] OTHER ->
                LET opts == Options(call)
                IN  proc' = [proc EXCEPT ![p] =
                        [at |-> IF Opt(opts, "restore", NoPath) = NoPath THEN "read" ELSE "restore",
                         opts |-> opts,
                         alone |-> \A q \in Processes, path \in Inputs(opts) \cup Outputs(opts) :
                                       ~Writing(q, path),
                         saw |-> [path \in Inputs(opts) \cup Outputs(opts) |-> File(path)]]]
    /\ UNCHANGED files

\* What reading a file may give.  A cut file may read as a shorter one.
Read(path) ==
    LET f == File(path)
    IN  IF f.is = "cut" THEN {Cut(f.of), NoFile} ELSE {f}

Touches(q, path) ==
    Running(q) /\ path \in Inputs(proc[q].opts) \cup Outputs(proc[q].opts)

\* Process p changes a file and goes on.
Change(p, path, content, next) ==
    /\ files' = [x \in DOMAIN files \cup {path} |-> IF x = path THEN content ELSE files[x]]
    /\ proc' = [q \in Processes |->
         CASE q = p -> next
           [] q # p /\ Touches(q, path) -> [proc[q] EXCEPT !.alone = FALSE]
           [] OTHER -> proc[q]]
    /\ UNCHANGED starts

Whole(f) == IF f.is = "cut" THEN f.of ELSE f

Fails(p) == Exit(p, "failure") /\ UNCHANGED <<files, starts>>

\* Process p goes on with a new value.
Goes(p, at, name, value) ==
    /\ proc' = [proc EXCEPT ![p] = [x \in DOMAIN @ \cup {name} |->
                    CASE x = name -> value [] x = "at" -> at [] OTHER -> @[x]]]
    /\ UNCHANGED <<files, starts>>

\* scale(): the last feature with a factor must be one of the data's.
FactorsFit(factors, data) == Whole(factors).last <= Whole(data).features

\* The constructor of scaling for a file comes before the data are read.
ReadFactors(p) ==
    /\ proc[p].at = "restore"
    /\ \E f \in Read(proc[p].opts.restore) :
         IF Whole(f).is = "factors" THEN Goes(p, "read", "factors", f) ELSE Fails(p)

\* The constructor of data_set for a file: a label that is no number is only
\* read as a string, and there are no or two different labels.
DataReads(f, strings) ==
    /\ Whole(f).is = "data"
    /\ Whole(f).classes \in {0, 2}
    /\ Whole(f).text => strings

ReadData(p) ==
    /\ proc[p].at = "read"
    /\ \E f \in Read(proc[p].opts.input) :
         IF /\ DataReads(f, proc[p].opts.strings)
            /\ "factors" \in DOMAIN proc[p] => FactorsFit(proc[p].factors, f)
         THEN Goes(p, "work", "data", f)
         ELSE Fails(p)

----------------------------------------------------------------------------
(* What the programs compute.                                              *)

\* Only plssvm-train gives the SYCL implementation to make_csvm, and only
\* plssvm-train the kernel type.
TrainCsvm(opts) ==
    make_csvm(opts.backend, opts.target, opts.kernel,
              IF opts.backend = "sycl" THEN opts.impl ELSE "automatic")

\* Mutant: the backend is not given either.
PredictCsvm_NoBackend(opts) == make_csvm("automatic", opts.target, "linear", "automatic")

PredictCsvm(opts) == make_csvm(opts.backend, opts.target, "linear", "automatic")

Selection(opts) == [x \in {"backend", "target", "impl", "strings"} |-> opts[x]]

\* by is history.  Zeros are not written, so that the model has no features
\* behind the last one that is not zero.
Model(opts, data) ==
    [is |-> "model", kernel |-> opts.kernel, data |-> data,
     features |-> Whole(data).last, text |-> Whole(data).text, by |-> Selection(opts)]

Prediction(data, model) == [is |-> "prediction", data |-> data, model |-> model]

\* The data set as it was scaled, and the factors for others.  Scaling keeps
\* the features that are not zero everywhere.
Scaled(data, scaling, format) ==
    [is |-> "data", classes |-> Whole(data).classes, text |-> Whole(data).text,
     features |-> IF format = "arff" THEN Whole(data).features ELSE Whole(data).last,
     last |-> Whole(data).last, from |-> data, scaling |-> scaling]

Factors(data, range) == [is |-> "factors", last |-> Whole(data).last, from |-> data, range |-> range]

Train(p) ==
    LET opts == proc[p].opts
        svm == TrainCsvm(opts)
    IN  /\ proc[p].at = "work" /\ opts.program = "train"
        /\ CASE svm = Refused -> Fails(p)
             [] svm # Refused /\ (opts.epsilon <= 0 \/ Whole(proc[p].data).classes = 0) -> Fails(p)
             [] OTHER ->
                  IF FitEnds(svm, opts.kernel) # "ok" THEN Fails(p)
                  ELSE Goes(p, "open", "todo", <<<<opts.output, Model(opts, proc[p].data)>>>>)

\* The model's labels must be read as what they are.
ReadModel(p) ==
    LET opts == proc[p].opts
    IN  /\ proc[p].at = "work" /\ opts.program = "predict"
        /\ \E f \in Read(opts.model) :
             IF Whole(f).is = "model" /\ (Whole(f).text => opts.strings)
             THEN Goes(p, "predict", "model", f)
             ELSE Fails(p)

\* Mutant: the output file is opened before it is known what to write.
Predict_OpenFirst(p) ==
    LET opts == proc[p].opts
        model == proc[p].model
        svm == PredictCsvm(opts)
    IN  /\ proc[p].at = "predict"
        /\ IF \/ svm = Refused
              \/ Whole(model).features # Whole(proc[p].data).features
              \/ PredictEnds(svm, Whole(model).kernel) # "ok"
           THEN Change(p, opts.output, Cut(NoFile), Exited("failure"))
           ELSE Goes(p, "open", "todo", <<<<opts.output, Prediction(proc[p].data, model)>>>>)

Predict(p) ==
    LET opts == proc[p].opts
        model == proc[p].model
        svm == PredictCsvm(opts)
    IN  /\ proc[p].at = "predict"
        /\ IF \/ svm = Refused
              \/ Whole(model).features # Whole(proc[p].data).features
              \/ PredictEnds(svm, Whole(model).kernel) # "ok"
           THEN Fails(p)
           ELSE Goes(p, "open", "todo", <<<<opts.output, Prediction(proc[p].data, model)>>>>)

\* What is to be written to a file, if it was asked for.
Pending(path, content) == IF path = NoPath THEN <<>> ELSE <<<<path, content>>>>

\* Mutant: the factors are saved before the data.
Scale_FactorsFirst(p) ==
    LET opts == proc[p].opts
        data == proc[p].data
        used == IF "factors" \in DOMAIN proc[p] THEN proc[p].factors ELSE Factors(data, opts.range)
    IN  /\ proc[p].at = "work" /\ opts.program = "scale"
        /\ Goes(p, "open", "todo",
                Pending(opts.save, used) \o Pending(opts.output, Scaled(data, used, opts.format)))

\* -l and -u are ignored with -r.
Scale(p) ==
    LET opts == proc[p].opts
        data == proc[p].data
        used == IF "factors" \in DOMAIN proc[p] THEN proc[p].factors ELSE Factors(data, opts.range)
    IN  /\ proc[p].at = "work" /\ opts.program = "scale"
        /\ Goes(p, "open", "todo",
                Pending(opts.output, Scaled(data, used, opts.format)) \o Pending(opts.save, used))

----------------------------------------------------------------------------
(* Writing.                                                                *)

Open(p) ==
    /\ proc[p].at = "open" /\ proc[p].todo # <<>>
    /\ LET path == Head(proc[p].todo)[1]
       IN  IF path \in ReadOnly THEN Fails(p)
           ELSE Change(p, path, Cut(Head(proc[p].todo)[2]), [proc[p] EXCEPT !.at = "write"])

\* Two processes write from the start of one file.
Write(p) ==
    /\ proc[p].at = "write"
    /\ LET path == Head(proc[p].todo)[1]
           content == Head(proc[p].todo)[2]
           Together == \/ File(path) # Cut(content)
                       \/ \E q \in Processes \ {p} : Writing(q, path)
       IN  \E written \in {content} \cup (IF Together THEN {Mixed} ELSE {}) :
             Change(p, path, written, [proc[p] EXCEPT !.at = "open", !.todo = Tail(@)])

\* An error while the buffer is written ends the program, in a destructor or a
\* parallel region by std::terminate.
WriteFails(p) ==
    /\ proc[p].at = "write"
    /\ \E exit \in {"failure", "terminated"} : Exit(p, exit)
    /\ UNCHANGED <<files, starts>>

\* The performance tracker appends a document.
Tracked(f, opts) ==
    CASE f = NoFile -> [is |-> "log", docs |-> <<opts>>]
      [] f.is = "log" -> [is |-> "log", docs |-> Append(f.docs, opts)]
      [] OTHER -> Mixed

\* That the tracker's file cannot be opened is not noticed.
Finish(p) ==
    /\ proc[p].at = "open" /\ proc[p].todo = <<>>
    /\ LET track == proc[p].opts.track
       IN  IF track \in ReadOnly \cup {NoPath}
           THEN Exit(p, "success") /\ UNCHANGED <<files, starts>>
           ELSE Change(p, track, Tracked(File(track), proc[p].opts), Exited("success"))

----------------------------------------------------------------------------

ShellInit ==
    /\ files = GivenFiles
    /\ proc = [p \in Processes |-> Idle]
    /\ starts = 0

ShellNext ==
    \E p \in Processes :
        \/ Start(p) \/ ReadFactors(p) \/ ReadData(p)
        \/ Train(p) \/ ReadModel(p) \/ Predict(p) \/ Scale(p)
        \/ Open(p) \/ Write(p) \/ WriteFails(p) \/ Finish(p)

\* The machine stays what it is.
ShellSpec == ShellInit /\ [][ShellNext /\ UNCHANGED machine]_<<machine, shell_vars>>

----------------------------------------------------------------------------
(* Properties.                                                             *)

\* Nobody else has touched the files of p, and they were whole.
Undisturbed(p) ==
    /\ proc[p].alone
    /\ \A path \in Inputs(proc[p].opts) : proc[p].saw[path].is \notin {"cut", "mixed"}

\* What the outputs should hold, from the files at the start.
Expected(opts, saw) ==
    LET data == saw[opts.input]
    IN  CASE opts.program = "train" -> [path \in {opts.output} |-> Model(opts, data)]
          [] opts.program = "predict" -> [path \in {opts.output} |-> Prediction(data, saw[opts.model])]
          [] OTHER ->
               LET used == IF opts.restore # NoPath THEN saw[opts.restore]
                           ELSE Factors(data, opts.range)
               IN  [path \in {opts.output, opts.save} |->
                        IF path = opts.save THEN used ELSE Scaled(data, used, opts.format)]

\* A program that ends with success has left in its output files what follows
\* from the files there were when it started, also when it writes over an input;
\* its other inputs are what they were, and what others have tracked is kept.
\* With -s and the scaled file in one, the factors are left.
SuccessMeansResults ==
    [][\A p \in Processes :
        LET opts == proc[p].opts
        IN  Running(p) /\ proc'[p] = Exited("success") /\ Undisturbed(p) =>
              /\ \A path \in Outputs(opts) \ {opts.track} :
                    File(path)' = Expected(opts, proc[p].saw)[path]
              /\ \A path \in Inputs(opts) \ (Outputs(opts) \cup {opts.track}) :
                    File(path)' = proc[p].saw[path]
              /\ \A track \in {opts.track} \ (ReadOnly \cup {NoPath}) :
                    File(track).is = "log" =>
                        IsStrictPrefix(File(track).docs, File(track)'.docs)]_shell_vars

\* A program that fails before it has to write leaves its files as they were.
FailureKeepsFiles ==
    [][\A p \in Processes :
        Running(p) /\ ~Running(p)' /\ proc'[p].exit # "success"
            /\ proc[p].at \notin {"open", "write"} /\ proc[p].alone =>
        \A path \in DOMAIN proc[p].saw : File(path)' = proc[p].saw[path]]_shell_vars

\* What plssvm-train could train on a machine, plssvm-predict can predict there
\* with the same options on the same data, unless OpenCL was compiled for the
\* other kernel functions, the SYCL implementation was chosen, or the last
\* feature is lost in the model file.
PredictsWhatItTrained ==
    [][\A p \in Processes :
        LET opts == proc[p].opts
            model == proc[p].saw[opts.model]
            data == proc[p].saw[opts.input]
            svm == PredictCsvm(opts)
        IN  /\ Running(p) /\ ~Running(p)' /\ proc'[p].exit # "success"
            /\ opts.program = "predict" /\ proc[p].at \notin {"open", "write"}
            /\ Undisturbed(p) /\ model.is = "model"
            /\ model.by = Selection(opts) /\ model.data = data
            => \/ svm # Refused /\ svm.backend = "opencl" /\ model.kernel # "linear"
               \/ opts.backend = "sycl" /\ opts.impl \notin {"automatic", build.preferred}
               \/ data.last # data.features]_shell_vars
=============================================================================
