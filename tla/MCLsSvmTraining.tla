-------------------------- MODULE MCLsSvmTraining --------------------------
(* Training on small problems: every kernel matrix over the entries in     *)
(* Gram, with every labelling that uses both labels.                       *)
EXTENDS LsSvmTraining

CONSTANTS
    Gram,       \* entries of the kernel matrices
    Costs,      \* values of 1 / cost
    MaxIters    \* values of max_iter

MinusOne == p - 1

Labels == {y \in [1..NumPoints -> {1, MinusOne}] :
             \E i, j \in 1..NumPoints : y[i] # y[j]}

Symmetric ==
    {g \in [1..NumPoints -> [1..NumPoints -> Gram]] :
        \A i, j \in 1..NumPoints : g[i][j] = g[j][i]}

Problem(gram, y, cost, max_iter) ==
    [gram |-> gram, y |-> y, cost |-> cost, max_iter |-> max_iter]

\* What the kernel matrix is like in the reals: v^T A v vanishes for v = 0
\* only.  With two unknowns that is so when the discriminant of the form is no
\* square.  Neither the labels nor max_iter matter for that.
Squares == {Times(a, a) : a \in Numbers}

Anisotropic(s) ==
    IF dept(s) = 1 THEN Entry(s, 1, 1) # 0
    ELSE Minus(Times(Entry(s, 1, 2), Entry(s, 1, 2)),
               Times(Entry(s, 1, 1), Entry(s, 2, 2))) \notin Squares

\* The same of v^T v.
ASSUME LengthsDefinite == NumPoints > 2 => MinusOne \notin Squares

Kernels ==
    {gc \in Symmetric \X Costs :
        Anisotropic(Problem(gc[1], [i \in 1..NumPoints |-> 1], gc[2], 1))}

MCProblems ==
    {Problem(gc[1], y, gc[2], m) : gc \in Kernels, y \in Labels, m \in MaxIters}

MCVectors == [1..(NumPoints - 1) -> Values]

\* The hypotheses of the theorems of LsSvmTrainingProofs, checked for every kernel
\* matrix with one labelling and one max_iter: they say the same of the others.
OneOfEach ==
    {Problem(gc[1], [i \in 1..NumPoints |-> IF i = 1 THEN MinusOne ELSE 1], gc[2], 1) :
        gc \in Kernels}

Sample == INSTANCE LsSvmTraining WITH Systems <- OneOfEach

ASSUME FitTrains ==
    /\ Systems \subseteq Problems
    /\ Sample!Trains
    /\ \A s \in OneOfEach : Definite(s)
=============================================================================
