------------------------------- MODULE LsSvm -------------------------------
(***************************************************************************)
(* The least squares SVM: the reduced system that fit solves in place of   *)
(* the full one (its last row and the bias are eliminated), and the way    *)
(* back from its solution to the weights and to rho.                       *)
(*                                                                         *)
(* A training problem s is a record: s.gram[i][j] is the kernel function   *)
(* of points i and j, whichever kernel it is; s.y the labels mapped to -1  *)
(* and 1; s.cost the reciprocal 1 / cost; s.max_iter the iteration limit.  *)
(***************************************************************************)
EXTENDS PrimeField

Points(s) == Len(s.y)
dept(s) == Points(s) - 1

q(s) == [i \in 1..dept(s) |-> s.gram[i][Points(s)]]

\* Mutant: the relaxation of the last row is forgotten.
QA_cost_NoCost(s) == s.gram[Points(s)][Points(s)]

QA_cost(s) == Plus(s.gram[Points(s)][Points(s)], s.cost)

\* b without its last value, minus that value.
ReducedB(s) == [i \in 1..dept(s) |-> Minus(s.y[i], s.y[Points(s)])]

\* What device_kernel multiplies d[j] by for row i (before add).
Entry(s, i, j) ==
    LET temp == Minus(Minus(Plus(s.gram[i][j], QA_cost(s)), q(s)[i]), q(s)[j])
    IN  IF i = j THEN Plus(temp, s.cost) ELSE temp

\* device_kernel: its triangular loop uses every pair for both its rows.
device_kernel(s, ret, v, add) ==
    [i \in 1..dept(s) |->
        Plus(ret[i], Sum([j \in 1..dept(s) |-> Times(Times(Entry(s, i, j), add), v[j])]))]

\* The reduced system, as the conjugate gradient loop sees it.
SvmOnes(s) == [i \in 1..dept(s) |-> 1]
SvmResidual(s, v) == device_kernel(s, ReducedB(s), v, Minus(0, 1))
SvmProduct(s, v) == device_kernel(s, [i \in 1..dept(s) |-> 0], v, 1)
SvmMaxIter(s) == s.max_iter

----------------------------------------------------------------------------
(* The solution of the full system from the x of the reduced one.          *)

bias(s, x) ==
    Minus(Plus(s.y[Points(s)], Times(QA_cost(s), Sum(x))), Dot(q(s), x))

rho(s, x) == Negate(bias(s, x))

weights(s, x) == Append(x, Negate(Sum(x)))
=============================================================================
