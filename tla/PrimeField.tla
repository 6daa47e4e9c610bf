----------------------------- MODULE PrimeField -----------------------------
(***************************************************************************)
(* real_type without rounding, small enough to enumerate: the field with p *)
(* elements, and NaN for what a division by zero leaves behind.  NaN       *)
(* absorbs everything, as in IEEE 754.  What the field keeps of the reals  *)
(* are the identities of their arithmetic; it has no order, so norms can   *)
(* only be compared with zero.                                             *)
(***************************************************************************)
EXTENDS Naturals, SequencesExt

CONSTANT p      \* an odd prime

ASSUME PrimeAssumption ==
    p \in Nat /\ p > 2 /\ \A n \in 2..(p - 1) : p % n # 0

NaN == p
Numbers == 0..(p - 1)
Values == 0..p

IsNaN(a) == a = NaN

\* The tables of the operations: value(a, b) unless an operand is NaN.
Table(value(_, _)) ==
    [a \in Values |-> [b \in Values |-> IF IsNaN(a) \/ IsNaN(b) THEN NaN ELSE value(a, b)]]

Sums == Table(LAMBDA a, b : (a + b) % p)
Differences == Table(LAMBDA a, b : (a + p - b) % p)
Multiples == Table(LAMBDA a, b : (a * b) % p)
Quotients ==
    Table(LAMBDA a, b : IF b = 0 THEN NaN ELSE CHOOSE c \in Numbers : (b * c) % p = a)

Plus(a, b) == Sums[a][b]
Minus(a, b) == Differences[a][b]
Times(a, b) == Multiples[a][b]
Over(a, b) == Quotients[a][b]
Negate(a) == Minus(0, a)

----------------------------------------------------------------------------
(* Vectors are sequences of scalars, with the operators of operators.hpp.  *)

Sum(v) == FoldLeft(Plus, 0, v)

VecAdd(u, v) == [i \in DOMAIN u |-> Plus(u[i], v[i])]
VecSub(u, v) == [i \in DOMAIN u |-> Minus(u[i], v[i])]
VecScale(a, v) == [i \in DOMAIN v |-> Times(a, v[i])]
Dot(u, v) == Sum([i \in DOMAIN u |-> Times(u[i], v[i])])
=============================================================================
