------------------------- MODULE ConjugateGradient -------------------------
(***************************************************************************)
(* The conjugate gradient loop shared by all backends, here as the OpenMP  *)
(* and the HPX backend run it (solve_system_of_linear_equations_impl); the *)
(* GPU backends implement the same loop on device memory.                  *)
(*                                                                         *)
(* The module fixes the control of the loop and the order of its vector    *)
(* operations.  What a vector is, how the matrix is applied and how a      *)
(* scalar is divided is left to the constants, so that the loop can be     *)
(* model-checked in a finite field and proved about for any arithmetic.    *)
(***************************************************************************)
EXTENDS Naturals

CONSTANTS
    Systems,            \* the linear systems that may be solved
    Scalars, Vectors,   \* values of real_type and of std::vector<real_type>
    Ones(_),            \* the start vector of a system
    Residual(_, _),     \* run_device_kernel: ret = b, add = -1, i.e. b - A x
    Product(_, _),      \* run_device_kernel: ret = 0, add = 1, i.e. A d
    Add(_, _), Sub(_, _), Scale(_, _), Inner(_, _),
    Quotient(_, _),
    Within(_, _),       \* delta <= eps * eps * delta0
    MaxIter(_),         \* max_iter of a call
    RestartInterval     \* 50: the residual is recomputed every so often

VARIABLES
    system,     \* the arguments of the call
    pc,         \* "iterate" in the loop, "done" behind it
    iter,
    x,          \* alpha
    r, d,
    delta, delta0

vars == <<system, pc, iter, x, r, d, delta, delta0>>

----------------------------------------------------------------------------
\* Everything up to the loop: x = 1, r = b - A x, d = r, delta = r^T r.
Init ==
    /\ system \in Systems
    /\ pc = "iterate"
    /\ iter = 0
    /\ x = Ones(system)
    /\ r = Residual(system, x)
    /\ d = r
    /\ delta = Inner(r, r)
    /\ delta0 = delta

\* iter % 50 == 49
Restarts == iter % RestartInterval = RestartInterval - 1

\* Mutant: a restart takes the residual of the x before the step.
Advance_StaleRestart ==
    /\ pc = "iterate"
    /\ iter < MaxIter(system)
    /\ LET Ad == Product(system, d)
           alpha_cd == Quotient(delta, Inner(d, Ad))
       IN  /\ x' = Add(x, Scale(alpha_cd, d))
           /\ r' = IF Restarts THEN Residual(system, x)
                   ELSE Sub(r, Scale(alpha_cd, Ad))
    /\ delta' = Inner(r', r')
    /\ UNCHANGED <<system, delta0>>

\* One iteration up to the new delta.
Advance ==
    /\ pc = "iterate"
    /\ iter < MaxIter(system)
    /\ LET Ad == Product(system, d)
           alpha_cd == Quotient(delta, Inner(d, Ad))
       IN  /\ x' = Add(x, Scale(alpha_cd, d))
           /\ r' = IF Restarts THEN Residual(system, x')
                   ELSE Sub(r, Scale(alpha_cd, Ad))
    /\ delta' = Inner(r', r')
    /\ UNCHANGED <<system, delta0>>

\* Mutant: the delta of the iteration before is tested.
ExactEnough_Late == Within(delta, delta0)

ExactEnough == Within(delta', delta0)

\* Exact enough: the loop is left before d and iter change.
Converge ==
    /\ Advance
    /\ ExactEnough
    /\ pc' = "done"
    /\ UNCHANGED <<d, iter>>

\* Mutants: beta upside down, and no beta at all (steepest descent).
NextDirection_Swapped == Add(Scale(Quotient(delta, delta'), d), r')
NextDirection_Steepest == r'

\* d = beta * d + r
NextDirection == Add(Scale(Quotient(delta', delta), d), r')

Continue ==
    /\ Advance
    /\ ~ExactEnough
    /\ d' = NextDirection
    /\ iter' = iter + 1
    /\ UNCHANGED pc

\* The iterations are used up.
GiveUp ==
    /\ pc = "iterate"
    /\ iter >= MaxIter(system)
    /\ pc' = "done"
    /\ UNCHANGED <<system, iter, x, r, d, delta, delta0>>

Terminated == pc = "done" /\ UNCHANGED vars

Next == Converge \/ Continue \/ GiveUp \/ Terminated

Spec == Init /\ [][Next]_vars

FairSpec == Spec /\ WF_vars(Next)

----------------------------------------------------------------------------
(* What the constants have to satisfy for the theorems.                    *)

LoopBounds ==
    /\ \A s \in Systems : MaxIter(s) \in Nat \ {0}
    /\ RestartInterval \in Nat \ {0}

Closed ==
    /\ \A s \in Systems : Ones(s) \in Vectors
    /\ \A s \in Systems, v \in Vectors :
         Residual(s, v) \in Vectors /\ Product(s, v) \in Vectors
    /\ \A u, v \in Vectors :
         Add(u, v) \in Vectors /\ Sub(u, v) \in Vectors /\ Inner(u, v) \in Scalars
    /\ \A a \in Scalars, v \in Vectors : Scale(a, v) \in Vectors
    /\ \A a, b \in Scalars : Quotient(a, b) \in Scalars

\* No rounding: b - A (x + a d) = (b - A x) - a A d.
ExactProduct ==
    \A s \in Systems, u, v \in Vectors, a \in Scalars :
        Residual(s, Add(u, Scale(a, v)))
            = Sub(Residual(s, u), Scale(a, Product(s, v)))

----------------------------------------------------------------------------
(* Properties of the loop in any exact arithmetic.                         *)

TypeOK ==
    /\ pc \in {"iterate", "done"}
    /\ iter \in 0..MaxIter(system)
    /\ x \in Vectors /\ r \in Vectors /\ d \in Vectors
    /\ delta \in Scalars /\ delta0 \in Scalars

\* r, which most iterations only update by a recurrence, is the residual of
\* the current x, and the tested delta its square: a restart only removes
\* rounding, and the loop never stops on the residual of another x.
ResidualIsTrue == r = Residual(system, x) /\ delta = Inner(r, r)
=============================================================================
