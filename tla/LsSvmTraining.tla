--------------------------- MODULE LsSvmTraining ---------------------------
(***************************************************************************)
(* fit on the OpenMP backend: the conjugate gradient loop on the reduced   *)
(* system of a training problem.  The constants of the loop are the        *)
(* operators Svm... of LsSvm and the exact arithmetic of PrimeField.       *)
(***************************************************************************)
EXTENDS LsSvm, ConjugateGradient

CONSTANTS
    NumPoints,          \* points of every training problem in Systems
    Tolerated           \* values of delta that pass as small enough; with 0

SvmWithin(new, start) == new \in Tolerated

\* Two points and more.  A delta of zero is never too large, NaN always is.
ASSUME TrainingAssumption ==
    /\ NumPoints \in Nat /\ NumPoints > 1
    /\ 0 \in Tolerated /\ Tolerated \subseteq Numbers

----------------------------------------------------------------------------
(* What Systems and the constants of the loop are for the theorems.        *)

Problems ==
    {s \in [gram : [1..NumPoints -> [1..NumPoints -> Numbers]],
            y : [1..NumPoints -> {1, p - 1}], cost : Numbers, max_iter : Nat \ {0}] :
        \A i, j \in 1..NumPoints : s.gram[i][j] = s.gram[j][i]}

Trains ==
    /\ Systems \subseteq Problems /\ RestartInterval \in Nat \ {0}
    /\ Scalars = Values /\ Vectors = [1..(NumPoints - 1) -> Values]
    /\ \A s \in Systems : Ones(s) = SvmOnes(s) /\ MaxIter(s) = SvmMaxIter(s)
    /\ \A s \in Systems, v \in Vectors :
         Residual(s, v) = SvmResidual(s, v) /\ Product(s, v) = SvmProduct(s, v)
    /\ \A u, v \in Vectors :
         Add(u, v) = VecAdd(u, v) /\ Sub(u, v) = VecSub(u, v) /\ Inner(u, v) = Dot(u, v)
    /\ \A a \in Scalars, v \in Vectors : Scale(a, v) = VecScale(a, v)
    /\ \A a, b \in Scalars :
         Quotient(a, b) = Over(a, b) /\ Within(a, b) = SvmWithin(a, b)

\* A kernel matrix with its relaxation, as in the reals: v^T A v vanishes for
\* v = 0 only.
Definite(s) ==
    \A v \in [1..(NumPoints - 1) -> Numbers] :
        Dot(v, SvmProduct(s, v)) = 0 => \A i \in DOMAIN v : v[i] = 0

----------------------------------------------------------------------------
(* Properties.                                                             *)

\* The left-hand side of row i of the full LS-SVM system, for the weights and
\* the rho that fit returns: the decision function plus the relaxation.
FullRow(s, i) ==
    LET alpha == weights(s, x)
    IN  Minus(Plus(Dot(alpha, s.gram[i]), Times(s.cost, alpha[i])), rho(s, x))

\* Eliminating the last row loses nothing: at every exit of the loop the
\* weights sum to zero, the last row of the full system holds exactly and the
\* other rows miss their label by the residual that the loop has tested.
ReducedSolvesFull ==
    pc = "done" /\ ~IsNaN(delta) =>
        /\ Sum(weights(system, x)) = 0
        /\ FullRow(system, NumPoints) = system.y[NumPoints]
        /\ \A i \in 1..(NumPoints - 1) :
             Minus(system.y[i], FullRow(system, i)) = r[i]

\* In exact arithmetic the residual is zero after as many iterations as there
\* are unknowns, so the default max_iter is never what ends the loop.
ConvergesInTime == iter >= NumPoints - 1 => IsNaN(delta)

\* The only division that can fail is the one after an exact start.
NaNOnlyFromExactStart == IsNaN(delta) => delta0 = 0

\* Successive residuals are orthogonal and successive directions conjugate.
DirectionsConjugate ==
    [][iter' # iter /\ ~IsNaN(delta') =>
          /\ Dot(r', r) = 0
          /\ Dot(d', SvmProduct(system, d)) = 0]_vars
=============================================================================
