------------------------- MODULE LsSvmTrainingProofs -------------------------
(***************************************************************************)
(* The training loop, for every prime, every number of points, every set   *)
(* of training problems and every restart interval.  Two theorems need     *)
(* nothing of the arithmetic but that it is exact: the types and the       *)
(* residual.  The others are about the operators of fit: the reduced       *)
(* system solves the full one, the directions stay conjugate, the loop     *)
(* ends in time, and NaN has one origin.                                   *)
(***************************************************************************)
EXTENDS LsSvmTraining, PrimeFieldProofs

----------------------------------------------------------------------------
(* The loop in any exact arithmetic.                                       *)

IInv == system \in Systems /\ TypeOK /\ ResidualIsTrue

LEMMA InitIInv == ASSUME LoopBounds, Closed PROVE Init => IInv
  BY DEF Init, IInv, TypeOK, ResidualIsTrue, LoopBounds, Closed

\* One iteration keeps the types and, by the recurrence or by a restart, the
\* residual.
LEMMA AdvanceKeepsResidual ==
    ASSUME Closed, ExactProduct, IInv, Advance
    PROVE  /\ x' \in Vectors /\ r' \in Vectors /\ delta' \in Scalars
           /\ r' = Residual(system, x')
           /\ delta' = Inner(r', r')
<1> DEFINE Ad == Product(system, d)
           alpha_cd == Quotient(delta, Inner(d, Ad))
<1>1. /\ system \in Systems /\ x \in Vectors /\ r \in Vectors /\ d \in Vectors
      /\ delta \in Scalars /\ r = Residual(system, x)
  BY DEF IInv, TypeOK, ResidualIsTrue
<1>2. Ad \in Vectors /\ alpha_cd \in Scalars
  BY <1>1 DEF Closed
<1>3. x' = Add(x, Scale(alpha_cd, d)) /\ x' \in Vectors
  BY <1>1, <1>2 DEF Advance, Closed
<1>4. Residual(system, x') = Sub(r, Scale(alpha_cd, Ad))
  BY <1>1, <1>2, <1>3 DEF ExactProduct
<1>5. r' = Residual(system, x')
  BY <1>4 DEF Advance
<1>6. r' \in Vectors
  BY <1>1, <1>3, <1>5 DEF Closed
<1>7. delta' = Inner(r', r') /\ delta' \in Scalars
  BY <1>6 DEF Advance, Closed
<1>8. QED
  BY <1>3, <1>5, <1>6, <1>7

LEMMA StepIInv ==
    ASSUME LoopBounds, Closed, ExactProduct
    PROVE  IInv /\ [Next]_vars => IInv'
<1>0. SUFFICES ASSUME IInv, [Next]_vars PROVE IInv'
  OBVIOUS
<1>1. MaxIter(system) \in Nat
  BY <1>0 DEF IInv, LoopBounds
<1>2. CASE Converge
  <2>1. Advance /\ pc' = "done" /\ UNCHANGED <<system, iter, d, delta0>>
    BY <1>2 DEF Converge, Advance
  <2>2. QED
    BY <1>0, <2>1, AdvanceKeepsResidual DEF IInv, TypeOK, ResidualIsTrue
<1>3. CASE Continue
  <2>1. /\ Advance /\ UNCHANGED <<system, pc, delta0>>
        /\ iter' = iter + 1 /\ iter < MaxIter(system)
        /\ d' = Add(Scale(Quotient(delta', delta), d), r')
    BY <1>3 DEF Continue, Advance, NextDirection
  <2>2. /\ x' \in Vectors /\ r' \in Vectors /\ delta' \in Scalars
        /\ r' = Residual(system, x') /\ delta' = Inner(r', r')
    BY <1>0, <2>1, AdvanceKeepsResidual
  <2>3. d' \in Vectors
    BY <1>0, <2>1, <2>2 DEF IInv, TypeOK, Closed
  <2>4. iter' \in 0..MaxIter(system)
    BY <1>0, <1>1, <2>1 DEF IInv, TypeOK
  <2>5. QED
    BY <1>0, <2>1, <2>2, <2>3, <2>4 DEF IInv, TypeOK, ResidualIsTrue
<1>4. CASE GiveUp
  BY <1>0, <1>4 DEF GiveUp, IInv, TypeOK, ResidualIsTrue
<1>5. CASE UNCHANGED vars
  BY <1>0, <1>5 DEF vars, IInv, TypeOK, ResidualIsTrue
<1>6. QED
  BY <1>0, <1>2, <1>3, <1>4, <1>5 DEF Next, Terminated

LEMMA InductiveInvariant ==
    ASSUME LoopBounds, Closed, ExactProduct PROVE Spec => []IInv
<1>1. Init => IInv
  BY InitIInv
<1>2. IInv /\ [Next]_vars => IInv'
  BY StepIInv
<1>3. QED
  BY <1>1, <1>2, PTL DEF Spec

\* The iteration counter never passes max_iter and every vector keeps its
\* size.
THEOREM TypeCorrect ==
    ASSUME LoopBounds, Closed, ExactProduct PROVE Spec => []TypeOK
<1>1. IInv => TypeOK
  BY DEF IInv
<1>2. QED
  BY <1>1, InductiveInvariant, PTL

\* In exact arithmetic the updated residual is the residual of the returned x,
\* whatever the restart interval.
THEOREM ResidualCorrect ==
    ASSUME LoopBounds, Closed, ExactProduct PROVE Spec => []ResidualIsTrue
<1>1. IInv => ResidualIsTrue
  BY DEF IInv
<1>2. QED
  BY <1>1, InductiveInvariant, PTL

----------------------------------------------------------------------------
(* The matrix of the reduced system is symmetric, its arithmetic exact.    *)

Unknowns == NumPoints - 1

\* Row i of the matrix of the reduced system.
Row(s, i) == [j \in 1..Unknowns |-> Entry(s, i, j)]

LEMMA Size == Unknowns \in Nat \ {0} /\ NumPoints = Unknowns + 1 /\ NumPoints \in Nat
  BY TrainingAssumption DEF Unknowns

LEMMA Parts ==
    ASSUME NEW s \in Problems
    PROVE  /\ Points(s) = NumPoints /\ dept(s) = Unknowns
           /\ \A i, j \in 1..NumPoints : s.gram[i][j] \in Numbers /\ s.gram[i][j] = s.gram[j][i]
           /\ s.cost \in Numbers /\ QA_cost(s) = Plus(s.gram[NumPoints][NumPoints], s.cost)
           /\ QA_cost(s) \in Numbers
           /\ \A i \in 1..NumPoints : s.y[i] \in Numbers
           /\ q(s) = [i \in 1..Unknowns |-> s.gram[i][NumPoints]]
           /\ ReducedB(s) = [i \in 1..Unknowns |-> Minus(s.y[i], s.y[NumPoints])]
           /\ \A i \in 1..Unknowns : i \in 1..NumPoints /\ q(s)[i] \in Numbers /\ ReducedB(s)[i] \in Numbers
<1>1. /\ s.y \in [1..NumPoints -> {1, p - 1}] /\ s.cost \in Numbers
      /\ s.gram \in [1..NumPoints -> [1..NumPoints -> Numbers]]
      /\ \A i, j \in 1..NumPoints : s.gram[i][j] = s.gram[j][i]
  BY DEF Problems
<1>2. Points(s) = NumPoints
  <2>1. s.y \in Seq({1, p - 1}) /\ DOMAIN s.y = 1..NumPoints
    BY <1>1, Size
  <2>2. Len(s.y) = NumPoints
    BY <2>1, Size, LenProperties
  <2> QED
    BY <2>2 DEF Points
<1>3. dept(s) = Unknowns
  BY <1>2 DEF dept, Unknowns
<1>4. 1 \in Numbers /\ p - 1 \in Numbers
  BY Prime DEF Numbers
<1>5. \A i \in 1..NumPoints : s.y[i] \in Numbers
  BY <1>1, <1>4
<1>6. NumPoints \in 1..NumPoints /\ \A i \in 1..Unknowns : i \in 1..NumPoints
  BY Size
<1>7. q(s) = [i \in 1..Unknowns |-> s.gram[i][NumPoints]]
  BY <1>2, <1>3 DEF q
<1>8. ReducedB(s) = [i \in 1..Unknowns |-> Minus(s.y[i], s.y[NumPoints])]
  BY <1>2, <1>3 DEF ReducedB
<1>9. QA_cost(s) = Plus(s.gram[NumPoints][NumPoints], s.cost)
  BY <1>2 DEF QA_cost
<1>10. \A i, j \in 1..NumPoints : s.gram[i][j] \in Numbers
  BY <1>1
<1>11. QA_cost(s) \in Numbers
  BY <1>1, <1>6, <1>9, <1>10, NumbersClosed
<1>12. ASSUME NEW i \in 1..Unknowns PROVE q(s)[i] \in Numbers /\ ReducedB(s)[i] \in Numbers
  <2>1. q(s)[i] = s.gram[i][NumPoints] /\ ReducedB(s)[i] = Minus(s.y[i], s.y[NumPoints])
    BY <1>7, <1>8
  <2> QED
    BY <1>5, <1>6, <1>10, <2>1, NumbersClosed
<1> QED
  BY <1>1, <1>2, <1>3, <1>5, <1>6, <1>7, <1>8, <1>9, <1>10, <1>11, <1>12

LEMMA Entries ==
    ASSUME NEW s \in Problems, NEW i \in 1..Unknowns, NEW j \in 1..Unknowns
    PROVE  /\ Entry(s, i, j) = Plus(Minus(Minus(Plus(s.gram[i][j], QA_cost(s)), q(s)[i]), q(s)[j]),
                                    IF i = j THEN s.cost ELSE 0)
           /\ Entry(s, i, j) \in Numbers /\ Entry(s, i, j) = Entry(s, j, i)
<1> DEFINE t(k, l) == Minus(Minus(Plus(s.gram[k][l], QA_cost(s)), q(s)[k]), q(s)[l])
<1>1. /\ i \in 1..NumPoints /\ j \in 1..NumPoints
      /\ s.gram[i][j] \in Numbers /\ s.gram[i][j] = s.gram[j][i] /\ QA_cost(s) \in Numbers
      /\ q(s)[i] \in Numbers /\ q(s)[j] \in Numbers /\ s.cost \in Numbers
  BY Parts
<1>2. t(i, j) \in Numbers
  <2>1. Plus(s.gram[i][j], QA_cost(s)) \in Numbers
    BY <1>1, NumbersClosed
  <2>2. Minus(Plus(s.gram[i][j], QA_cost(s)), q(s)[i]) \in Numbers
    BY <1>1, <2>1, NumbersClosed
  <2> QED
    BY <1>1, <2>2, NumbersClosed
<1>3. t(i, j) = t(j, i)
  <2> DEFINE a == Plus(s.gram[i][j], QA_cost(s))
             b == q(s)[i]
             c == q(s)[j]
  <2>1. a \in Values /\ b \in Values /\ c \in Values
    BY <1>1, NumbersClosed, ValuesHere
  <2>2. t(i, j) = Minus(Minus(a, b), c) /\ t(j, i) = Minus(Minus(a, c), b)
    BY <1>1
  <2> HIDE DEF a, b, c, t
  <2>3. Minus(a, Plus(b, c)) = Minus(Minus(a, b), c) /\ Minus(a, Plus(c, b)) = Minus(Minus(a, c), b)
        /\ Plus(b, c) = Plus(c, b)
    BY <2>1, ThreeValues, TwoValues
  <2> QED
    BY <2>2, <2>3
<1>4. Entry(s, i, j) = (IF i = j THEN Plus(t(i, j), s.cost) ELSE t(i, j))
      /\ Entry(s, j, i) = (IF j = i THEN Plus(t(j, i), s.cost) ELSE t(j, i))
  BY DEF Entry
<1> HIDE DEF t
<1>5. Plus(t(i, j), 0) = t(i, j) /\ Plus(t(i, j), s.cost) \in Numbers
  BY <1>1, <1>2, NumbersClosed, TwoValues, ValuesHere
<1>6. Entry(s, i, j) = Plus(t(i, j), IF i = j THEN s.cost ELSE 0)
  BY <1>4, <1>5
<1> QED
  BY <1>2, <1>3, <1>4, <1>5, <1>6 DEF t

LEMMA Rows ==
    ASSUME NEW s \in Problems, NEW i \in 1..Unknowns
    PROVE  /\ Row(s, i) \in Vec(Unknowns)
           /\ \A j \in 1..Unknowns : Row(s, i)[j] = Entry(s, i, j) /\ Row(s, i)[j] \in Numbers
           /\ Row(s, i) = [j \in 1..Unknowns |-> Row(s, i)[j]]
<1>1. \A j \in 1..Unknowns : Row(s, i)[j] = Entry(s, i, j) /\ Row(s, i)[j] \in Numbers
  BY Entries DEF Row
<1> QED
  BY <1>1, ValuesHere DEF Vec, Row

\* What device_kernel computes: the rows applied to v, added to or subtracted
\* from ret.
LEMMA Applied ==
    ASSUME NEW s \in Problems, NEW v \in Vec(Unknowns)
    PROVE  /\ SvmProduct(s, v) = [i \in 1..Unknowns |-> Dot(Row(s, i), v)]
           /\ SvmResidual(s, v) = [i \in 1..Unknowns |-> Minus(ReducedB(s)[i], Dot(Row(s, i), v))]
           /\ \A i \in 1..Unknowns : Dot(Row(s, i), v) \in Values /\ ReducedB(s)[i] \in Numbers
<1> DEFINE Term(i, add) == Sum([j \in 1..Unknowns |-> Times(Times(Entry(s, i, j), add), v[j])])
           minus == Minus(0, 1)
<1>0. \A j \in 1..Unknowns : v[j] \in Values
  BY DEF Vec
<1>1. ASSUME NEW i \in 1..Unknowns PROVE Dot(Row(s, i), v) \in Values /\ ReducedB(s)[i] \in Numbers
  BY Rows, Parts, Size, VectorTerms
<1>2. ASSUME NEW i \in 1..Unknowns, NEW add \in Numbers PROVE Term(i, add) = Times(add, Dot(Row(s, i), v))
  <2> DEFINE w == [j \in 1..Unknowns |-> Times(Row(s, i)[j], v[j])]
  <2>1. Row(s, i) \in Vec(Unknowns) /\ w \in Vec(Unknowns) /\ Dot(Row(s, i), v) = Sum(w)
    <3>1. Row(s, i) \in Vec(Unknowns) /\ Unknowns \in Nat \ {0}
      BY Rows, Size
    <3> QED
      BY <3>1, VectorTerms, Zenon
  <2>2. ASSUME NEW j \in 1..Unknowns
        PROVE  Times(Times(Entry(s, i, j), add), v[j]) = Times(add, w[j])
    <3>1. /\ Entry(s, i, j) \in Values /\ v[j] \in Values /\ add \in Values
          /\ w[j] = Times(Entry(s, i, j), v[j])
      BY <1>0, Rows, ValuesHere
    <3> HIDE DEF w
    <3>2. /\ Times(Entry(s, i, j), add) = Times(add, Entry(s, i, j))
          /\ Times(Times(add, Entry(s, i, j)), v[j]) = Times(add, Times(Entry(s, i, j), v[j]))
      BY <3>1, TwoValues, ThreeValues
    <3> QED
      BY <3>1, <3>2
  <2> HIDE DEF w
  <2>3. [j \in 1..Unknowns |-> Times(Times(Entry(s, i, j), add), v[j])] = [j \in 1..Unknowns |-> Times(add, w[j])]
    BY <2>2
  <2>4. Sum([j \in 1..Unknowns |-> Times(add, w[j])]) = Times(add, Sum(w))
    BY <2>1, Size, ValuesHere, SumTimes
  <2> QED
    BY <2>1, <2>3, <2>4
<1>3. dept(s) = Unknowns
  BY Parts
<1>4. SvmProduct(s, v) = [i \in 1..Unknowns |-> Plus(0, Term(i, 1))]
  BY <1>3 DEF SvmProduct, device_kernel
<1>5. SvmResidual(s, v) = [i \in 1..Unknowns |-> Plus(ReducedB(s)[i], Term(i, minus))]
  BY <1>3 DEF SvmResidual, device_kernel
<1>6. 1 \in Numbers /\ minus \in Numbers
  BY ValuesHere
<1> HIDE DEF Term
<1>7. ASSUME NEW i \in 1..Unknowns
      PROVE  /\ Plus(0, Term(i, 1)) = Dot(Row(s, i), v)
             /\ Plus(ReducedB(s)[i], Term(i, minus)) = Minus(ReducedB(s)[i], Dot(Row(s, i), v))
  <2> DEFINE a == Dot(Row(s, i), v)
             b == ReducedB(s)[i]
  <2>1. a \in Values /\ b \in Values
    BY <1>1, ValuesHere
  <2>2. Term(i, 1) = Times(1, a) /\ Term(i, minus) = Times(minus, a)
    BY <1>2, <1>6
  <2> HIDE DEF a, b
  <2>3. Times(1, a) = a /\ Plus(0, a) = a /\ Plus(b, Times(minus, a)) = Minus(b, a)
    BY <2>1, TwoValues
  <2> HIDE DEF minus
  <2> QED
    BY <2>2, <2>3 DEF a, b
<1> QED
  BY <1>1, <1>4, <1>5, <1>7

\* The operators of fit return vectors of the unknowns.
LEMMA SvmVectors ==
    ASSUME NEW s \in Problems, NEW v \in Vec(Unknowns)
    PROVE  SvmOnes(s) \in Vec(Unknowns) /\ SvmProduct(s, v) \in Vec(Unknowns) /\ SvmResidual(s, v) \in Vec(Unknowns)
<1>1. SvmOnes(s) = [i \in 1..Unknowns |-> 1]
  BY Parts DEF SvmOnes
<1>2. SvmOnes(s) \in Vec(Unknowns)
  BY <1>1, ValuesHere DEF Vec
<1>3. \A i \in 1..Unknowns : Dot(Row(s, i), v) \in Values /\ Minus(ReducedB(s)[i], Dot(Row(s, i), v)) \in Values
  BY Applied, NaNLaws, ValuesHere
<1>4. SvmProduct(s, v) \in Vec(Unknowns)
  BY <1>3, Applied DEF Vec
<1>5. SvmResidual(s, v) \in Vec(Unknowns)
  BY <1>3, Applied DEF Vec
<1> QED
  BY <1>2, <1>4, <1>5

\* Without rounding the residual can be updated: b - A (u + a v) is
\* (b - A u) - a A v.
LEMMA SvmExact ==
    ASSUME NEW s \in Problems, NEW u \in Vec(Unknowns), NEW v \in Vec(Unknowns), NEW a \in Values
    PROVE  SvmResidual(s, VecAdd(u, VecScale(a, v)))
             = VecSub(SvmResidual(s, u), VecScale(a, SvmProduct(s, v)))
<1> DEFINE av == VecScale(a, v)
           w == VecAdd(u, av)
           A(i, z) == Dot(Row(s, i), z)
           right == VecSub(SvmResidual(s, u), VecScale(a, SvmProduct(s, v)))
<1>0. Unknowns \in Nat \ {0}
  BY Size
<1>1. av \in Vec(Unknowns)
  BY <1>0, ScaleTerms
<1> HIDE DEF av
<1>2. w \in Vec(Unknowns)
  BY <1>0, <1>1, VectorTerms
<1> HIDE DEF w
<1>3. ASSUME NEW i \in 1..Unknowns PROVE A(i, w) = Plus(A(i, u), Times(a, A(i, v))) /\ A(i, u) \in Values /\ A(i, v) \in Values
  <2>1. Row(s, i) \in Vec(Unknowns)
    BY Rows
  <2>2. A(i, w) = Plus(A(i, u), A(i, av))
    BY <1>0, <1>1, <2>1, DotSums DEF w
  <2>3. A(i, av) = Times(a, A(i, v))
    BY <1>0, <2>1, DotScaled DEF av
  <2>4. A(i, u) \in Values /\ A(i, v) \in Values
    BY <1>0, <2>1, VectorTerms, Zenon
  <2> QED
    BY <2>2, <2>3, <2>4
<1>4. SvmResidual(s, w) = [i \in 1..Unknowns |-> Minus(ReducedB(s)[i], A(i, w))]
  BY <1>2, Applied
<1>5. right = [i \in 1..Unknowns |-> Minus(Minus(ReducedB(s)[i], A(i, u)), Times(a, A(i, v)))]
  <2>1. SvmResidual(s, u) = [i \in 1..Unknowns |-> Minus(ReducedB(s)[i], A(i, u))]
        /\ SvmProduct(s, v) = [i \in 1..Unknowns |-> A(i, v)]
    BY Applied
  <2>2. SvmResidual(s, u) \in Vec(Unknowns) /\ SvmProduct(s, v) \in Vec(Unknowns)
    BY SvmVectors
  <2> DEFINE c == VecScale(a, SvmProduct(s, v))
  <2>3. c \in Vec(Unknowns) /\ c = [i \in 1..Unknowns |-> Times(a, SvmProduct(s, v)[i])]
    BY <1>0, <2>2, ScaleTerms
  <2> HIDE DEF c
  <2>4. VecSub(SvmResidual(s, u), c) = [i \in 1..Unknowns |-> Minus(SvmResidual(s, u)[i], c[i])]
    BY <1>0, <2>2, <2>3, VectorTerms
  <2> HIDE DEF A
  <2>5. \A i \in 1..Unknowns : SvmResidual(s, u)[i] = Minus(ReducedB(s)[i], A(i, u)) /\ c[i] = Times(a, A(i, v))
    BY <2>1, <2>3
  <2> QED
    BY <2>4, <2>5 DEF c
<1>6. ASSUME NEW i \in 1..Unknowns
      PROVE  Minus(ReducedB(s)[i], A(i, w)) = Minus(Minus(ReducedB(s)[i], A(i, u)), Times(a, A(i, v)))
  <2>1. ReducedB(s)[i] \in Values
    BY Parts, ValuesHere
  <2>2. A(i, u) \in Values /\ Times(a, A(i, v)) \in Values
    BY <1>3, NaNLaws
  <2> HIDE DEF A
  <2> QED
    BY <1>3, <2>1, <2>2, ThreeValues
<1> HIDE DEF A, right
<1>7. SvmResidual(s, w) = right
  BY <1>4, <1>5, <1>6
<1> QED
  BY <1>7 DEF w, av, right

\* The kernel matrix is symmetric.
LEMMA ProductSymmetric ==
    ASSUME NEW s \in Problems, NEW u \in Vec(Unknowns), NEW v \in Vec(Unknowns)
    PROVE  Dot(u, SvmProduct(s, v)) = Dot(v, SvmProduct(s, u))
<1> DEFINE n == Unknowns
           Cell(a, b, i, j) == Times(a[i], Times(Entry(s, i, j), b[j]))
           Grid(a, b) == [i \in 1..n |-> [j \in 1..n |-> Cell(a, b, i, j)]]
<1>0. n \in Nat \ {0} /\ n \in Nat
  BY Size
<1>1. ASSUME NEW a \in Vec(n), NEW b \in Vec(n)
      PROVE  /\ Grid(a, b) \in [1..n -> Vec(n)]
             /\ Dot(a, SvmProduct(s, b)) = Sum([i \in 1..n |-> Sum(Grid(a, b)[i])])
  <2>1. \A i \in 1..n : a[i] \in Values /\ b[i] \in Values
    BY DEF Vec
  <2>2. \A i, j \in 1..n : Entry(s, i, j) \in Values
    BY Entries, ValuesHere
  <2>3. \A i, j \in 1..n : Times(Entry(s, i, j), b[j]) \in Values /\ Cell(a, b, i, j) \in Values
    BY <2>1, <2>2, NaNLaws
  <2>4. Grid(a, b) \in [1..n -> Vec(n)]
    <3> HIDE DEF Cell
    <3> QED
      BY <2>3 DEF Vec
  <2>5. ASSUME NEW i \in 1..n PROVE Sum(Grid(a, b)[i]) = Times(a[i], Dot(Row(s, i), b))
    <3> DEFINE w == [j \in 1..n |-> Times(Row(s, i)[j], b[j])]
    <3>1. Row(s, i) \in Vec(n)
      BY Rows
    <3>2. w \in Vec(n) /\ Dot(Row(s, i), b) = Sum(w)
      BY <1>0, <3>1, VectorTerms, Zenon
    <3>3. Grid(a, b)[i] = [j \in 1..n |-> Times(a[i], w[j])]
      <4>1. \A j \in 1..n : Row(s, i)[j] = Entry(s, i, j)
        BY Rows
      <4>2. \A j \in 1..n : w[j] = Times(Entry(s, i, j), b[j])
        BY <4>1
      <4> HIDE DEF w
      <4> QED
        BY <4>2
    <3> HIDE DEF w, Grid
    <3>4. Sum([j \in 1..n |-> Times(a[i], w[j])]) = Times(a[i], Sum(w))
      BY <1>0, <2>1, <3>2, SumTimes
    <3> QED
      BY <3>2, <3>3, <3>4
  <2>6. Dot(a, SvmProduct(s, b)) = Sum([i \in 1..n |-> Times(a[i], SvmProduct(s, b)[i])])
    <3>1. SvmProduct(s, b) \in Vec(n)
      BY SvmVectors
    <3> QED
      BY <1>0, <3>1, VectorTerms, Zenon
  <2>7. [i \in 1..n |-> Times(a[i], SvmProduct(s, b)[i])] = [i \in 1..n |-> Sum(Grid(a, b)[i])]
    <3>1. \A i \in 1..n : SvmProduct(s, b)[i] = Dot(Row(s, i), b)
      BY Applied
    <3> HIDE DEF Grid
    <3> QED
      BY <2>5, <3>1
  <2> HIDE DEF Grid
  <2> QED
    BY <2>4, <2>6, <2>7
<1>2. Sum([i \in 1..n |-> Sum(Grid(u, v)[i])]) = Sum([j \in 1..n |-> Sum([i \in 1..n |-> Grid(u, v)[i][j]])])
  <2>1. Grid(u, v) \in [1..n -> Vec(n)]
    BY <1>1
  <2> HIDE DEF Grid
  <2> QED
    BY <1>0, <2>1, SumExchange
<1>3. ASSUME NEW j \in 1..n PROVE [i \in 1..n |-> Grid(u, v)[i][j]] = Grid(v, u)[j]
  <2>1. ASSUME NEW i \in 1..n PROVE Cell(u, v, i, j) = Cell(v, u, j, i)
    <3>1. Entry(s, i, j) = Entry(s, j, i) /\ Entry(s, i, j) \in Values
      BY Entries, ValuesHere
    <3>2. u[i] \in Values /\ v[j] \in Values
      BY DEF Vec
    <3> DEFINE e == Entry(s, i, j)
               f == u[i]
               g == v[j]
    <3>3. Cell(u, v, i, j) = Times(f, Times(e, g)) /\ Cell(v, u, j, i) = Times(g, Times(e, f))
      BY <3>1
    <3>4. e \in Values /\ f \in Values /\ g \in Values
      BY <3>1, <3>2
    <3> HIDE DEF e, f, g, Cell
    <3>5. Times(f, Times(e, g)) = Times(Times(f, e), g) /\ Times(f, e) = Times(e, f) /\ Times(e, f) \in Values
      BY <3>4, ThreeValues, TwoValues, NaNLaws
    <3>6. Times(Times(e, f), g) = Times(g, Times(e, f))
      BY <3>4, <3>5, TwoValues
    <3> QED
      BY <3>3, <3>5, <3>6
  <2> HIDE DEF Cell
  <2> QED
    BY <2>1
<1>4. [j \in 1..n |-> Sum([i \in 1..n |-> Grid(u, v)[i][j]])] = [j \in 1..n |-> Sum(Grid(v, u)[j])]
  <2> HIDE DEF Grid
  <2> QED
    BY <1>3
<1> HIDE DEF Grid
<1>5. Dot(u, SvmProduct(s, v)) = Sum([i \in 1..n |-> Sum(Grid(u, v)[i])])
      /\ Dot(v, SvmProduct(s, u)) = Sum([i \in 1..n |-> Sum(Grid(v, u)[i])])
  BY <1>1
<1> QED
  BY <1>2, <1>4, <1>5

\* The arithmetic of the model satisfies what the theorems about the loop ask.
LEMMA ExactArithmetic ==
    ASSUME Trains
    PROVE  Closed /\ ExactProduct /\ \A s \in Systems : MaxIter(s) \in Nat \ {0}
<1>0. /\ Scalars = Values /\ Vectors = Vec(Unknowns) /\ Unknowns \in Nat \ {0}
      /\ \A s \in Systems : s \in Problems
  BY Size DEF Trains, Vec, Unknowns
<1>1. ASSUME NEW s \in Systems PROVE Ones(s) \in Vectors
  <2>1. Ones(s) = SvmOnes(s) /\ s \in Problems
    BY <1>0 DEF Trains
  <2>2. Ones(s) = [i \in 1..Unknowns |-> 1]
    BY <2>1, Parts DEF SvmOnes
  <2> QED
    BY <1>0, <2>2, ValuesHere DEF Vec
<1>2. ASSUME NEW s \in Systems, NEW v \in Vectors
      PROVE  /\ Residual(s, v) \in Vectors /\ Product(s, v) \in Vectors
             /\ Residual(s, v) = SvmResidual(s, v) /\ Product(s, v) = SvmProduct(s, v)
  <2>1. Residual(s, v) = SvmResidual(s, v) /\ Product(s, v) = SvmProduct(s, v)
    BY DEF Trains
  <2> QED
    BY <1>0, <2>1, SvmVectors
<1>3. ASSUME NEW u \in Vectors, NEW v \in Vectors
      PROVE  /\ Add(u, v) \in Vectors /\ Sub(u, v) \in Vectors /\ Inner(u, v) \in Scalars
             /\ Add(u, v) = VecAdd(u, v) /\ Sub(u, v) = VecSub(u, v)
  <2>1. Add(u, v) = VecAdd(u, v) /\ Sub(u, v) = VecSub(u, v) /\ Inner(u, v) = Dot(u, v)
    BY DEF Trains
  <2>2. u \in Vec(Unknowns) /\ v \in Vec(Unknowns)
    BY <1>0
  <2>3. VecAdd(u, v) \in Vec(Unknowns) /\ VecSub(u, v) \in Vec(Unknowns) /\ Dot(u, v) \in Values
    BY <1>0, <2>2, VectorTerms, Zenon
  <2> QED
    BY <1>0, <2>1, <2>3
<1>4. ASSUME NEW a \in Scalars, NEW v \in Vectors PROVE Scale(a, v) \in Vectors /\ Scale(a, v) = VecScale(a, v)
  <2>1. Scale(a, v) = VecScale(a, v)
    BY DEF Trains
  <2> QED
    BY <1>0, <2>1, ScaleTerms
<1>5. ASSUME NEW a \in Scalars, NEW b \in Scalars PROVE Quotient(a, b) \in Scalars
  <2>1. Quotient(a, b) = Over(a, b)
    BY DEF Trains
  <2>2. a \in Values /\ b \in Values
    BY <1>0
  <2>3. Over(a, b) \in Values
    <3>1. CASE a \in Numbers /\ b \in Numbers /\ b # 0
      BY <3>1, Division, ValuesHere
    <3>2. CASE a = NaN \/ b = NaN \/ b = 0
      BY <2>2, <3>2, Operations, ValuesHere
    <3> QED
      BY <2>2, <3>1, <3>2, ValuesHere
  <2> QED
    BY <1>0, <2>1, <2>3
<1>6. ASSUME NEW s \in Systems, NEW u \in Vectors, NEW v \in Vectors, NEW a \in Scalars
      PROVE  Residual(s, Add(u, Scale(a, v))) = Sub(Residual(s, u), Scale(a, Product(s, v)))
  <2>1. Scale(a, v) = VecScale(a, v) /\ Scale(a, v) \in Vectors
    BY <1>4
  <2>2. Add(u, Scale(a, v)) = VecAdd(u, Scale(a, v)) /\ Add(u, Scale(a, v)) \in Vectors
    BY <1>3, <2>1
  <2>3. Residual(s, Add(u, Scale(a, v))) = SvmResidual(s, VecAdd(u, VecScale(a, v)))
    BY <1>2, <2>1, <2>2
  <2>4. Residual(s, u) = SvmResidual(s, u) /\ Residual(s, u) \in Vectors
        /\ Product(s, v) = SvmProduct(s, v) /\ Product(s, v) \in Vectors
    BY <1>2
  <2>5. Scale(a, Product(s, v)) = VecScale(a, SvmProduct(s, v)) /\ Scale(a, Product(s, v)) \in Vectors
    BY <1>4, <2>4
  <2>6. Sub(Residual(s, u), Scale(a, Product(s, v))) = VecSub(SvmResidual(s, u), VecScale(a, SvmProduct(s, v)))
    BY <1>3, <2>4, <2>5
  <2> QED
    BY <1>0, <2>3, <2>6, SvmExact
<1>7. ASSUME NEW s \in Systems PROVE MaxIter(s) \in Nat \ {0}
  BY <1>0 DEF Trains, Problems, SvmMaxIter
<1>8. Closed
  BY <1>1, <1>2, <1>3, <1>4, <1>5 DEF Closed
<1>9. ExactProduct
  BY <1>6 DEF ExactProduct
<1> QED
  BY <1>7, <1>8, <1>9

----------------------------------------------------------------------------
(* The full system, of which the reduced one eliminates the last row.      *)

\* The kernel values of point i with the points that keep their row.
Known(s, i) == [j \in 1..Unknowns |-> s.gram[i][j]]

LEMMA KnownRow ==
    ASSUME NEW s \in Problems, NEW i \in 1..NumPoints
    PROVE  Known(s, i) \in Vec(Unknowns) /\ \A j \in 1..Unknowns : Known(s, i)[j] \in Numbers
<1>1. \A j \in 1..Unknowns : j \in 1..NumPoints
  BY Size
<1>2. \A j \in 1..Unknowns : s.gram[i][j] \in Numbers
  BY <1>1, Parts
<1> QED
  BY <1>2, ValuesHere DEF Vec, Known

\* A row of the reduced matrix applied to v, in terms of the full one.
LEMMA RowApplied ==
    ASSUME NEW s \in Problems, NEW v \in Vec(Unknowns), NEW i \in 1..Unknowns,
           \A j \in 1..Unknowns : v[j] \in Numbers
    PROVE  Dot(Row(s, i), v)
             = Plus(Minus(Minus(Plus(Dot(Known(s, i), v), Times(QA_cost(s), Sum(v))), Times(q(s)[i], Sum(v))),
                          Dot(q(s), v)),
                    Times(s.cost, v[i]))
<1> DEFINE n == Unknowns
           A == [j \in 1..n |-> Times(Known(s, i)[j], v[j])]
           B == [j \in 1..n |-> Times(QA_cost(s), v[j])]
           C == [j \in 1..n |-> Times(q(s)[i], v[j])]
           D == [j \in 1..n |-> Times(q(s)[j], v[j])]
           E == [j \in 1..n |-> IF j = i THEN Times(s.cost, v[i]) ELSE 0]
           AB == [j \in 1..n |-> Plus(A[j], B[j])]
           ABC == [j \in 1..n |-> Minus(AB[j], C[j])]
           ABCD == [j \in 1..n |-> Minus(ABC[j], D[j])]
           R == [j \in 1..n |-> Times(Row(s, i)[j], v[j])]
<1>0. n \in Nat \ {0} /\ n \in Nat /\ i \in 1..NumPoints
  BY Size
<1>1. /\ QA_cost(s) \in Values /\ s.cost \in Values /\ \A j \in 1..n : q(s)[j] \in Values /\ v[j] \in Values
  BY Parts, ValuesHere DEF Vec
<1>2. Known(s, i) \in Vec(n) /\ q(s) \in Vec(n) /\ Row(s, i) \in Vec(n)
  <2>1. Known(s, i) \in Vec(n) /\ Row(s, i) \in Vec(n)
    BY <1>0, KnownRow, Rows
  <2>2. q(s) = [j \in 1..n |-> q(s)[j]]
    BY Parts
  <2> QED
    BY <1>1, <2>1, <2>2 DEF Vec
<1>3. A \in Vec(n) /\ Dot(Known(s, i), v) = Sum(A)
  BY <1>0, <1>2, VectorTerms, Zenon
<1>4. D \in Vec(n) /\ Dot(q(s), v) = Sum(D)
  BY <1>0, <1>2, VectorTerms, Zenon
<1>5. R \in Vec(n) /\ Dot(Row(s, i), v) = Sum(R)
  BY <1>0, <1>2, VectorTerms, Zenon
<1>6. B \in Vec(n) /\ Sum(B) = Times(QA_cost(s), Sum(v))
  <2>1. Sum(B) = Times(QA_cost(s), Sum(v))
    BY <1>0, <1>1, SumTimes
  <2>2. \A j \in 1..n : Times(QA_cost(s), v[j]) \in Values
    BY <1>1, NaNLaws
  <2> QED
    BY <2>1, <2>2 DEF Vec
<1>7. C \in Vec(n) /\ Sum(C) = Times(q(s)[i], Sum(v))
  <2>1. Sum(C) = Times(q(s)[i], Sum(v))
    BY <1>0, <1>1, SumTimes
  <2>2. \A j \in 1..n : Times(q(s)[i], v[j]) \in Values
    BY <1>1, NaNLaws
  <2> QED
    BY <2>1, <2>2 DEF Vec
<1>8. E \in Vec(n) /\ Sum(E) = Times(s.cost, v[i])
  <2>1. Times(s.cost, v[i]) \in Values
    BY <1>1, NaNLaws
  <2>2. Sum(E) = Times(s.cost, v[i])
    BY <1>0, <2>1, SumSingle
  <2> QED
    BY <2>1, <2>2, ValuesHere DEF Vec
<1>9. ASSUME NEW j \in 1..n PROVE R[j] = Plus(ABCD[j], E[j])
  <2> DEFINE g == s.gram[i][j]
             k == QA_cost(s)
             a == q(s)[i]
             b == q(s)[j]
             c == IF i = j THEN s.cost ELSE 0
             u == v[j]
             t == Minus(Minus(Plus(g, k), a), b)
  <2>1. g \in Values /\ k \in Values /\ a \in Values /\ b \in Values /\ c \in Values /\ u \in Values
    <3>1. g \in Numbers
      BY <1>0, Parts
    <3> QED
      BY <1>1, <3>1, ValuesHere
  <2>2. R[j] = Times(Plus(t, c), u)
    <3>1. Row(s, i)[j] = Plus(t, c)
      BY Rows, Entries
    <3> HIDE DEF t, c
    <3> QED
      BY <3>1
  <2>3. A[j] = Times(g, u) /\ B[j] = Times(k, u) /\ C[j] = Times(a, u) /\ D[j] = Times(b, u)
    BY DEF Known
  <2>4. ABCD[j] = Minus(Minus(Plus(A[j], B[j]), C[j]), D[j])
    <3> HIDE DEF A, B, C, D
    <3> QED
      OBVIOUS
  <2>5. E[j] = Times(c, u)
    <3>1. CASE i = j
      BY <3>1
    <3>2. CASE i # j
      <4>1. Times(0, u) = 0
        BY ZeroTimes
      <4> QED
        BY <3>2, <4>1
    <3> QED
      BY <3>1, <3>2
  <2> HIDE DEF A, B, C, D, E, ABCD, R, g, k, a, b, c, u
  <2>6. Plus(g, k) \in Values /\ Minus(Plus(g, k), a) \in Values /\ t \in Values
    BY <2>1, NaNLaws
  <2>7. Times(Plus(g, k), u) = Plus(Times(g, u), Times(k, u))
    BY <2>1, RightDistributes
  <2>8. Times(Minus(Plus(g, k), a), u) = Minus(Times(Plus(g, k), u), Times(a, u))
    BY <2>1, <2>6, RightDistributes
  <2>9. Times(t, u) = Minus(Times(Minus(Plus(g, k), a), u), Times(b, u))
    BY <2>1, <2>6, RightDistributes
  <2> HIDE DEF t
  <2>10. Times(Plus(t, c), u) = Plus(Times(t, u), Times(c, u))
    BY <2>1, <2>6, RightDistributes
  <2> QED
    BY <2>2, <2>3, <2>4, <2>5, <2>7, <2>8, <2>9, <2>10
<1> HIDE DEF A, B, C, D, E
<1>10. AB \in Vec(n) /\ Sum(AB) = Plus(Sum(A), Sum(B))
  <2>1. \A j \in 1..n : Plus(A[j], B[j]) \in Values
    BY <1>3, <1>6, NaNLaws DEF Vec
  <2> QED
    BY <1>0, <1>3, <1>6, <2>1, SumPlus DEF Vec
<1> HIDE DEF AB
<1>11. ABC \in Vec(n) /\ Sum(ABC) = Minus(Sum(AB), Sum(C))
  <2>1. \A j \in 1..n : Minus(AB[j], C[j]) \in Values
    BY <1>10, <1>7, NaNLaws DEF Vec
  <2> QED
    BY <1>0, <1>10, <1>7, <2>1, SumMinus DEF Vec
<1> HIDE DEF ABC
<1>12. ABCD \in Vec(n) /\ Sum(ABCD) = Minus(Sum(ABC), Sum(D))
  <2>1. \A j \in 1..n : Minus(ABC[j], D[j]) \in Values
    BY <1>11, <1>4, NaNLaws DEF Vec
  <2> QED
    BY <1>0, <1>11, <1>4, <2>1, SumMinus DEF Vec
<1> HIDE DEF ABCD
<1>13. R = [j \in 1..n |-> Plus(ABCD[j], E[j])]
  BY <1>9
<1> HIDE DEF R
<1>14. Sum(R) = Plus(Sum(ABCD), Sum(E))
  BY <1>0, <1>8, <1>12, <1>13, SumPlus
<1> QED
  BY <1>3, <1>4, <1>5, <1>6, <1>7, <1>8, <1>10, <1>11, <1>12, <1>14

\* Row i of the full system, in terms of the x of the reduced one.
LEMMA FullRowIs ==
    ASSUME NEW i \in 1..NumPoints, system \in Problems, x \in Vec(Unknowns),
           \A j \in 1..Unknowns : x[j] \in Numbers
    PROVE  /\ Sum(weights(system, x)) = 0
           /\ weights(system, x)[i] = IF i = NumPoints THEN Negate(Sum(x)) ELSE x[i]
           /\ FullRow(system, i)
                = Minus(Plus(Plus(Dot(Known(system, i), x), Times(Negate(Sum(x)), system.gram[i][NumPoints])),
                             Times(system.cost, weights(system, x)[i])),
                        rho(system, x))
<1> DEFINE n == Unknowns
           e == Negate(Sum(x))
           alpha == weights(system, x)
           gi == system.gram[i]
           t == [j \in 1..NumPoints |-> Times(alpha[j], gi[j])]
           t1 == [j \in 1..n |-> t[j]]
           k == [j \in 1..n |-> Times(Known(system, i)[j], x[j])]
<1>0. n \in Nat \ {0} /\ n \in Nat /\ NumPoints = n + 1 /\ NumPoints \in Nat \ {0}
  BY Size
<1>1. Sum(x) \in Numbers /\ e \in Numbers
  <2>1. Sum(x) \in Numbers
    <3>1. \A j \in 1..n : x[j] # NaN
      BY ValuesHere
    <3> QED
      BY <1>0, <3>1, SumValue, ValuesHere
  <2> QED
    BY <2>1, NumbersClosed, ValuesHere DEF Negate
<1>2. alpha = [j \in 1..NumPoints |-> IF j = NumPoints THEN e ELSE x[j]]
  <2>1. x \in Seq(Values) /\ Len(x) = n
    <3>1. x \in Seq(Values) /\ DOMAIN x = 1..n
      BY <1>0 DEF Vec
    <3> QED
      BY <1>0, <3>1, LenProperties
  <2>2. alpha = Append(x, e)
    BY DEF weights
  <2>3. /\ alpha \in Seq(Values) /\ Len(alpha) = n + 1
        /\ \A j \in 1..Len(x) : alpha[j] = x[j]
        /\ alpha[Len(x) + 1] = e
    <3>1. e \in Values
      BY <1>1, ValuesHere
    <3> HIDE DEF e, alpha
    <3> QED
      BY <2>1, <2>2, <3>1, AppendProperties
  <2>4. alpha = [j \in 1..NumPoints |-> alpha[j]]
    <3> HIDE DEF alpha
    <3> QED
      BY <1>0, <2>3
  <2>5. \A j \in 1..NumPoints : alpha[j] = IF j = NumPoints THEN e ELSE x[j]
    <3> HIDE DEF alpha, e
    <3> QED
      BY <1>0, <2>1, <2>3
  <2> HIDE DEF alpha, e
  <2> QED
    BY <2>4, <2>5
<1> HIDE DEF alpha
<1>3. alpha \in Vec(NumPoints) /\ alpha[NumPoints] = e /\ [j \in 1..n |-> alpha[j]] = x
  <2>1. \A j \in 1..n : j \in 1..NumPoints /\ j # NumPoints
    BY <1>0
  <2>2. x = [j \in 1..n |-> x[j]] /\ \A j \in 1..n : x[j] \in Values
    BY DEF Vec
  <2>3. \A j \in 1..NumPoints : j = NumPoints \/ j \in 1..n
    BY <1>0
  <2>4. NumPoints \in 1..NumPoints
    BY <1>0
  <2> HIDE DEF e
  <2>5. alpha \in Vec(NumPoints)
    BY <1>1, <1>2, <2>2, <2>3, ValuesHere DEF Vec
  <2>6. [j \in 1..n |-> alpha[j]] = x
    BY <1>2, <2>1, <2>2
  <2> QED
    BY <1>2, <2>4, <2>5, <2>6
<1>4. Sum(alpha) = 0
  <2>1. Sum(alpha) = Plus(Sum(x), e)
    <3> HIDE DEF e
    <3> QED
      BY <1>0, <1>3, VecFront
  <2> QED
    BY <1>1, <2>1, ZeroTimes
<1>5. gi \in Vec(NumPoints) /\ \A j \in 1..NumPoints : gi[j] \in Values
  <2>1. gi \in [1..NumPoints -> Numbers]
    BY DEF Problems
  <2> QED
    BY <2>1, ValuesHere DEF Vec
<1>6. t \in Vec(NumPoints) /\ Dot(alpha, gi) = Sum(t)
  <2> HIDE DEF gi
  <2> QED
    BY <1>0, <1>3, <1>5, VectorTerms, Zenon
<1>7. Sum(t) = Plus(Sum(t1), t[NumPoints])
  <2> HIDE DEF t
  <2> QED
    BY <1>0, <1>6, VecFront
<1>8. t[NumPoints] = Times(e, gi[NumPoints])
  <2>1. NumPoints \in 1..NumPoints
    BY <1>0
  <2> HIDE DEF e, gi
  <2> QED
    BY <1>3, <2>1
<1>9. t1 = k
  <2>1. \A j \in 1..n : j \in 1..NumPoints /\ alpha[j] = x[j] /\ x[j] \in Values
    BY <1>0, <1>2 DEF Vec
  <2>2. \A j \in 1..n : Known(system, i)[j] = gi[j]
    BY DEF Known
  <2>3. \A j \in 1..n : Times(x[j], gi[j]) = Times(gi[j], x[j])
    BY <1>5, <2>1, TwoValues
  <2>4. \A j \in 1..n : t1[j] = Times(x[j], gi[j]) /\ k[j] = Times(gi[j], x[j])
    <3> HIDE DEF gi
    <3> QED
      BY <2>1, <2>2
  <2>5. t1 = [j \in 1..n |-> t1[j]] /\ k = [j \in 1..n |-> k[j]]
    OBVIOUS
  <2> HIDE DEF t1, k, gi
  <2> QED
    BY <2>3, <2>4, <2>5
<1>10. Dot(Known(system, i), x) = Sum(k)
  <2>1. Known(system, i) \in Vec(n)
    BY KnownRow
  <2> QED
    BY <1>0, <2>1, VectorTerms, Zenon
<1> HIDE DEF t, t1, k, e
<1>11. Dot(alpha, gi) = Plus(Dot(Known(system, i), x), Times(e, gi[NumPoints]))
  BY <1>6, <1>7, <1>8, <1>9, <1>10
<1>12. FullRow(system, i) = Minus(Plus(Dot(alpha, gi), Times(system.cost, alpha[i])), rho(system, x))
  BY DEF FullRow, alpha
<1>13. alpha[i] = IF i = NumPoints THEN e ELSE x[i]
  BY <1>2
<1> QED
  BY <1>4, <1>11, <1>12, <1>13 DEF alpha, e

\* The scalar u is the number that the integer m leaves modulo p.
Means(u, m) == m \in Int /\ Is(u, m)

LEMMA MeansTerms ==
    \A u, v, m, n : Means(u, m) /\ Means(v, n) =>
        Means(Plus(u, v), m + n) /\ Means(Minus(u, v), m - n) /\ Means(Times(u, v), m * n)
<1> SUFFICES ASSUME NEW u, NEW v, NEW m, NEW n, Means(u, m), Means(v, n)
             PROVE  Means(Plus(u, v), m + n) /\ Means(Minus(u, v), m - n) /\ Means(Times(u, v), m * n)
  OBVIOUS
<1>1. m \in Int /\ n \in Int /\ Is(u, m) /\ Is(v, n)
  BY DEF Means
<1>2. m + n \in Int /\ m - n \in Int /\ m * n \in Int
  BY <1>1
<1> QED
  BY <1>1, <1>2, Evaluated DEF Means

LEMMA MeansItself == \A a \in Numbers : Means(a, a) /\ a \in Int
  BY IsItself DEF Means

LEMMA MeansSame == \A u, v, m : Means(u, m) /\ Means(v, m) => u = v
  BY SameIs DEF Means

\* The elimination of the last row, worked out.
LEMMA Eliminated ==
    ASSUME system \in Problems, x \in Vec(Unknowns), \A j \in 1..Unknowns : x[j] \in Numbers
    PROVE  /\ Sum(weights(system, x)) = 0
           /\ FullRow(system, NumPoints) = system.y[NumPoints]
           /\ \A i \in 1..(NumPoints - 1) :
                Minus(system.y[i], FullRow(system, i)) = SvmResidual(system, x)[i]
<1> DEFINE n == Unknowns
           S == Sum(x)
           Q == Dot(q(system), x)
           K == QA_cost(system)
           c == system.cost
           yn == system.y[NumPoints]
           gnn == system.gram[NumPoints][NumPoints]
<1>0. n \in Nat \ {0} /\ n \in Nat /\ NumPoints = n + 1 /\ NumPoints \in 1..NumPoints /\ NumPoints - 1 = n
      /\ \A j \in 1..n : j \in 1..NumPoints /\ j # NumPoints
  BY Size
<1>1. S \in Numbers
  <2>1. \A j \in 1..n : x[j] # NaN
    BY ValuesHere
  <2> QED
    BY <1>0, <2>1, SumValue, ValuesHere
<1>2. c \in Numbers /\ yn \in Numbers /\ gnn \in Numbers /\ K \in Numbers /\ K = Plus(gnn, c)
  BY <1>0, Parts
<1>3. q(system) \in Vec(n) /\ \A j \in 1..n : q(system)[j] \in Numbers
  <2>1. \A j \in 1..n : q(system)[j] \in Numbers
    BY Parts
  <2>2. q(system) = [j \in 1..n |-> q(system)[j]]
    BY Parts
  <2> QED
    BY <2>1, <2>2, ValuesHere DEF Vec
<1>4. Q \in Numbers
  BY <1>0, <1>3, DotNumber
<1>5. rho(system, x) = Minus(0, Minus(Plus(yn, Times(K, S)), Q))
  <2>1. Points(system) = NumPoints
    BY Parts
  <2> QED
    BY <2>1 DEF rho, bias, Negate
<1>6. Sum(weights(system, x)) = 0
  BY <1>0, FullRowIs
<1>7. ASSUME NEW i \in 1..NumPoints
      PROVE  FullRow(system, i)
               = Minus(Plus(Plus(Dot(Known(system, i), x), Times(Minus(0, S), system.gram[i][NumPoints])),
                            Times(c, weights(system, x)[i])),
                       Minus(0, Minus(Plus(yn, Times(K, S)), Q)))
  BY <1>5, FullRowIs DEF Negate
<1>8. Known(system, NumPoints) = q(system)
  <2>1. \A j \in 1..n : system.gram[NumPoints][j] = system.gram[j][NumPoints]
    BY <1>0, Parts
  <2>2. q(system) = [j \in 1..n |-> system.gram[j][NumPoints]]
    BY Parts
  <2> QED
    BY <2>1, <2>2 DEF Known
<1>9. weights(system, x)[NumPoints] = Minus(0, S)
  BY <1>0, FullRowIs DEF Negate
<1>10. FullRow(system, NumPoints)
         = Minus(Plus(Plus(Q, Times(Minus(0, S), gnn)), Times(c, Minus(0, S))),
                 Minus(0, Minus(Plus(yn, Times(K, S)), Q)))
  BY <1>0, <1>7, <1>8, <1>9
<1>11. ASSUME NEW i \in 1..n
       PROVE  /\ FullRow(system, i)
                   = Minus(Plus(Plus(Dot(Known(system, i), x), Times(Minus(0, S), q(system)[i])), Times(c, x[i])),
                           Minus(0, Minus(Plus(yn, Times(K, S)), Q)))
              /\ SvmResidual(system, x)[i]
                   = Minus(Minus(system.y[i], yn),
                           Plus(Minus(Minus(Plus(Dot(Known(system, i), x), Times(K, S)), Times(q(system)[i], S)), Q),
                                Times(c, x[i])))
              /\ Dot(Known(system, i), x) \in Numbers /\ system.y[i] \in Numbers
  <2>1. i \in 1..NumPoints /\ i # NumPoints
    BY <1>0
  <2>2. weights(system, x)[i] = x[i]
    BY <2>1, FullRowIs
  <2>3. q(system)[i] = system.gram[i][NumPoints] /\ ReducedB(system)[i] = Minus(system.y[i], yn)
    BY Parts
  <2>4. FullRow(system, i)
          = Minus(Plus(Plus(Dot(Known(system, i), x), Times(Minus(0, S), q(system)[i])), Times(c, x[i])),
                  Minus(0, Minus(Plus(yn, Times(K, S)), Q)))
    BY <1>7, <2>1, <2>2, <2>3
  <2>5. SvmResidual(system, x)[i] = Minus(ReducedB(system)[i], Dot(Row(system, i), x))
    BY Applied
  <2>6. Dot(Row(system, i), x)
          = Plus(Minus(Minus(Plus(Dot(Known(system, i), x), Times(K, S)), Times(q(system)[i], S)), Q), Times(c, x[i]))
    BY RowApplied
  <2>7. Dot(Known(system, i), x) \in Numbers
    <3>1. Known(system, i) \in Vec(n) /\ \A j \in 1..n : Known(system, i)[j] \in Numbers
      BY <2>1, KnownRow
    <3> QED
      BY <1>0, <3>1, DotNumber
  <2>8. system.y[i] \in Numbers
    BY <2>1, Parts
  <2> QED
    BY <2>3, <2>4, <2>5, <2>6, <2>7, <2>8
<1> HIDE DEF S, Q, K, c, yn, gnn
<1>12. /\ Means(S, S) /\ Means(Q, Q) /\ Means(K, K) /\ Means(c, c) /\ Means(yn, yn) /\ Means(gnn, gnn)
       /\ Means(0, 0)
       /\ S \in Int /\ Q \in Int /\ K \in Int /\ c \in Int /\ yn \in Int /\ gnn \in Int
  BY <1>1, <1>2, <1>4, MeansItself, ValuesHere
<1>13. Means(Minus(0, S), 0 - S)
  BY <1>12, MeansTerms, Zenon
<1>14. ASSUME NEW k, Means(K, k)
       PROVE  Means(Minus(0, Minus(Plus(yn, Times(K, S)), Q)), 0 - ((yn + k * S) - Q))
  <2>1. Means(Plus(yn, Times(K, S)), yn + k * S)
    BY <1>12, <1>14, MeansTerms, Zenon
  <2>2. Means(Minus(Plus(yn, Times(K, S)), Q), (yn + k * S) - Q)
    BY <1>12, <2>1, MeansTerms, Zenon
  <2> QED
    BY <1>12, <2>2, MeansTerms, Zenon
<1>15. FullRow(system, NumPoints) = yn
  <2>1. Means(K, gnn + c)
    BY <1>2, <1>12, MeansTerms, Zenon
  <2>2. Means(Plus(Q, Times(Minus(0, S), gnn)), Q + (0 - S) * gnn)
    BY <1>12, <1>13, MeansTerms, Zenon
  <2>3. Means(Plus(Plus(Q, Times(Minus(0, S), gnn)), Times(c, Minus(0, S))), (Q + (0 - S) * gnn) + c * (0 - S))
    BY <1>12, <1>13, <2>2, MeansTerms, Zenon
  <2>4. Means(FullRow(system, NumPoints),
              ((Q + (0 - S) * gnn) + c * (0 - S)) - (0 - ((yn + (gnn + c) * S) - Q)))
    BY <1>10, <1>14, <2>1, <2>3, MeansTerms, Zenon
  <2>5. ((Q + (0 - S) * gnn) + c * (0 - S)) - (0 - ((yn + (gnn + c) * S) - Q)) = yn
    BY <1>12
  <2> QED
    BY <1>12, <2>4, <2>5, MeansSame
<1>16. ASSUME NEW i \in 1..n PROVE Minus(system.y[i], FullRow(system, i)) = SvmResidual(system, x)[i]
  <2> DEFINE g == Dot(Known(system, i), x)
             qi == q(system)[i]
             xi == x[i]
             yi == system.y[i]
             F == FullRow(system, i)
             R == SvmResidual(system, x)[i]
             f == ((g + (0 - S) * qi) + c * xi) - (0 - ((yn + K * S) - Q))
             m == (yi - yn) - ((((g + K * S) - qi * S) - Q) + c * xi)
  <2>1. /\ Means(g, g) /\ Means(qi, qi) /\ Means(xi, xi) /\ Means(yi, yi)
        /\ g \in Int /\ qi \in Int /\ xi \in Int /\ yi \in Int
    <3>1. g \in Numbers /\ qi \in Numbers /\ xi \in Numbers /\ yi \in Numbers
      BY <1>3, <1>11
    <3> HIDE DEF g, qi, xi, yi
    <3> QED
      BY <3>1, MeansItself, ValuesHere
  <2>2. F = Minus(Plus(Plus(g, Times(Minus(0, S), qi)), Times(c, xi)), Minus(0, Minus(Plus(yn, Times(K, S)), Q)))
    BY <1>11
  <2>3. R = Minus(Minus(yi, yn), Plus(Minus(Minus(Plus(g, Times(K, S)), Times(qi, S)), Q), Times(c, xi)))
    BY <1>11
  <2> HIDE DEF g, qi, xi, yi, F, R
  <2>4. Means(Plus(Plus(g, Times(Minus(0, S), qi)), Times(c, xi)), (g + (0 - S) * qi) + c * xi)
    <3>1. Means(Plus(g, Times(Minus(0, S), qi)), g + (0 - S) * qi)
      BY <1>13, <2>1, MeansTerms, Zenon
    <3> QED
      BY <1>12, <2>1, <3>1, MeansTerms, Zenon
  <2>5. Means(F, f)
    BY <1>12, <1>14, <2>2, <2>4, MeansTerms, Zenon
  <2>6. Means(Minus(Minus(Plus(g, Times(K, S)), Times(qi, S)), Q), ((g + K * S) - qi * S) - Q)
    <3>1. Means(Plus(g, Times(K, S)), g + K * S)
      BY <1>12, <2>1, MeansTerms, Zenon
    <3>2. Means(Minus(Plus(g, Times(K, S)), Times(qi, S)), (g + K * S) - qi * S)
      BY <1>12, <2>1, <3>1, MeansTerms, Zenon
    <3> QED
      BY <1>12, <3>2, MeansTerms, Zenon
  <2>7. Means(R, m)
    <3>1. Means(Plus(Minus(Minus(Plus(g, Times(K, S)), Times(qi, S)), Q), Times(c, xi)),
                (((g + K * S) - qi * S) - Q) + c * xi)
      BY <1>12, <2>1, <2>6, MeansTerms, Zenon
    <3>2. Means(Minus(yi, yn), yi - yn)
      BY <1>12, <2>1, MeansTerms, Zenon
    <3> QED
      BY <2>3, <3>1, <3>2, MeansTerms, Zenon
  <2>8. yi - f = m
    BY <1>12, <2>1
  <2> HIDE DEF f, m
  <2>9. Means(Minus(yi, F), m)
    BY <2>1, <2>5, <2>8, MeansTerms
  <2>10. Minus(yi, F) = R
    BY <2>7, <2>9, MeansSame
  <2> QED
    BY <2>10 DEF yi, F, R
<1> QED
  BY <1>0, <1>6, <1>15, <1>16 DEF yn

----------------------------------------------------------------------------
(* One iteration: orthogonal residuals and conjugate directions.           *)

LEMMA QuotientNumber ==
    ASSUME NEW a \in Values, NEW b \in Values, Over(a, b) # NaN
    PROVE  a \in Numbers /\ b \in Numbers \ {0} /\ Over(a, b) \in Numbers /\ Times(b, Over(a, b)) = a
<1>1. a \in Numbers /\ b \in Numbers /\ b # 0
  BY Operations, ValuesHere
<1> QED
  BY <1>1, Division

\* One iteration that does not end in NaN or in zero: the new residual is
\* orthogonal to the old one and the new direction conjugate to the old one, and
\* what they presuppose of r and d holds again.
LEMMA OneIteration ==
    ASSUME NEW s \in Problems, NEW r0 \in Vec(Unknowns), NEW d0 \in Vec(Unknowns), NEW r1, NEW d1,
           Dot(r0, d0) = Dot(r0, r0),
           Dot(r0, SvmProduct(s, d0)) = Dot(d0, SvmProduct(s, d0)),
           r1 = VecSub(r0, VecScale(Over(Dot(r0, r0), Dot(d0, SvmProduct(s, d0))), SvmProduct(s, d0))),
           Dot(r1, r1) \in Numbers \ {0},
           d1 = VecAdd(VecScale(Over(Dot(r1, r1), Dot(r0, r0)), d0), r1)
    PROVE  /\ Dot(r1, r0) = 0 /\ Dot(d1, SvmProduct(s, d0)) = 0
           /\ Dot(r1, d1) = Dot(r1, r1)
           /\ Dot(r1, SvmProduct(s, d1)) = Dot(d1, SvmProduct(s, d1))
           /\ Dot(r0, r0) # 0 /\ Dot(r1, d0) = 0
           /\ \A w \in Vec(Unknowns) :
                /\ Dot(w, d0) = 0 => (Dot(w, r1) = 0 <=> Dot(w, d1) = 0)
                /\ Dot(w, r0) = 0 => (Dot(w, SvmProduct(s, d0)) = 0 <=> Dot(w, r1) = 0)
<1> DEFINE n == Unknowns
           Ad == SvmProduct(s, d0)
           z == Dot(d0, Ad)
           e0 == Dot(r0, r0)
           e1 == Dot(r1, r1)
           al == Over(e0, z)
           be == Over(e1, e0)
           step == VecScale(al, Ad)
           old == VecScale(be, d0)
           Ad1 == SvmProduct(s, d1)
<1>0. n \in Nat \ {0}
  BY Size
<1>1. Ad \in Vec(n)
  BY SvmVectors
<1> HIDE DEF Ad
<1>2. z \in Values /\ e0 \in Values
  BY <1>0, <1>1, DotLaws, Zenon
<1>3. al \in Values
  <2>1. CASE al = NaN
    BY <2>1, ValuesHere
  <2>2. CASE al # NaN
    BY <1>2, <2>2, QuotientNumber, ValuesHere
  <2> QED
    BY <2>1, <2>2
<1> HIDE DEF al
<1>4. step \in Vec(n) /\ step = [i \in 1..n |-> Times(al, Ad[i])]
  BY <1>0, <1>1, <1>3, ScaleTerms
<1> HIDE DEF step
<1>5. r1 = VecSub(r0, step) /\ r1 \in Vec(n) /\ r1 = [i \in 1..n |-> Minus(r0[i], step[i])]
  <2>1. r1 = VecSub(r0, step)
    BY DEF step, al, z, e0, Ad
  <2>2. VecSub(r0, step) \in Vec(n) /\ VecSub(r0, step) = [i \in 1..n |-> Minus(r0[i], step[i])]
    BY <1>0, <1>4, VectorTerms, Zenon
  <2> QED
    BY <2>1, <2>2, Zenon
<1>6. al # NaN
  <2>1. SUFFICES ASSUME al = NaN PROVE FALSE
    OBVIOUS
  <2>2. 1 \in 1..n /\ Ad[1] \in Values /\ r0[1] \in Values
    BY <1>0, <1>1 DEF Vec
  <2>3. step[1] = NaN
    <3>1. step[1] = Times(al, Ad[1])
      BY <1>4, <2>2
    <3> QED
      BY <1>3, <2>1, <2>2, <3>1, NaNLaws
  <2>4. r1[1] = NaN
    BY <1>5, <2>2, <2>3, NaNLaws, ValuesHere
  <2>5. Dot(r1, r1) = NaN
    BY <1>0, <1>5, <2>2, <2>4, DotLaws
  <2> QED
    BY <2>5, ValuesHere
<1>7. e0 \in Numbers /\ z \in Numbers \ {0} /\ al \in Numbers /\ Times(z, al) = e0
  BY <1>2, <1>6, QuotientNumber DEF al
<1>8. Times(al, z) = e0
  BY <1>3, <1>2, <1>7, TwoValues
<1>9. Dot(r1, d0) = 0
  <2>1. Dot(r1, d0) = Dot(d0, r1) /\ Dot(d0, r0) = Dot(r0, d0)
    BY <1>0, <1>5, DotLaws, Zenon
  <2>2. Dot(d0, r1) = Minus(Dot(d0, r0), Dot(d0, step))
    BY <1>0, <1>4, <1>5, DotSums
  <2>3. Dot(d0, step) = Times(al, z)
    BY <1>0, <1>1, <1>3, DotScaled DEF step
  <2>4. Minus(e0, e0) = 0
    BY <1>7, ZeroTimes
  <2> QED
    BY <1>8, <2>1, <2>2, <2>3, <2>4
<1>10. Dot(r1, r0) = 0
  <2>1. Dot(r1, r0) = Dot(r0, r1)
    BY <1>0, <1>5, DotLaws, Zenon
  <2>2. Dot(r0, r1) = Minus(e0, Dot(r0, step))
    BY <1>0, <1>4, <1>5, DotSums
  <2>3. Dot(r0, step) = Times(al, Dot(r0, Ad))
    BY <1>0, <1>1, <1>3, DotScaled DEF step
  <2>4. Dot(r0, Ad) = z
    BY DEF Ad
  <2>5. Minus(e0, e0) = 0
    BY <1>7, ZeroTimes
  <2> QED
    BY <1>8, <2>1, <2>2, <2>3, <2>4, <2>5
<1>11. e1 = Minus(0, Dot(r1, step)) /\ Dot(r1, step) = Times(al, Dot(r1, Ad)) /\ Dot(r1, Ad) \in Values
  <2>1. Dot(r1, VecSub(r0, step)) = Minus(Dot(r1, r0), Dot(r1, step))
    BY <1>0, <1>4, <1>5, DotSums
  <2>2. Dot(r1, step) = Times(al, Dot(r1, Ad))
    BY <1>0, <1>1, <1>3, <1>5, DotScaled DEF step
  <2>3. Dot(r1, Ad) \in Values
    BY <1>0, <1>1, <1>5, DotLaws, Zenon
  <2>4. e1 = Dot(r1, VecSub(r0, step))
    BY <1>5
  <2> QED
    BY <1>10, <2>1, <2>2, <2>3, <2>4
<1>12. e1 \in Numbers /\ e1 # 0
  OBVIOUS
<1>13. e0 # 0 /\ al # 0
  <2>1. al # 0
    <3>1. SUFFICES ASSUME al = 0 PROVE FALSE
      OBVIOUS
    <3>2. Times(al, Dot(r1, Ad)) \in {0, NaN}
      BY <1>11, <3>1, ZeroTimes, NaNLaws, ValuesHere
    <3>3. Minus(0, 0) = 0 /\ Minus(0, NaN) = NaN
      BY ZeroTimes, NaNLaws, ValuesHere
    <3> QED
      BY <1>11, <1>12, <3>2, <3>3, ValuesHere
  <2>2. e0 # 0
    BY <1>7, <2>1, NoZeroDivisors
  <2> QED
    BY <2>1, <2>2
<1>14. be \in Numbers /\ Times(e0, be) = e1 /\ be \in Values
  BY <1>7, <1>12, <1>13, Division, ValuesHere
<1> HIDE DEF be
<1>15. old \in Vec(n)
  BY <1>0, <1>14, ScaleTerms
<1> HIDE DEF old
<1>16. d1 = VecAdd(old, r1) /\ d1 \in Vec(n)
  <2>1. d1 = VecAdd(old, r1)
    BY DEF old, be, e0, e1
  <2>2. VecAdd(old, r1) \in Vec(n)
    BY <1>0, <1>5, <1>15, VectorTerms, Zenon
  <2> QED
    BY <2>1, <2>2
\* The product of d1 with any vector.
<1>17. ASSUME NEW w \in Vec(n) PROVE Dot(w, d1) = Plus(Times(be, Dot(w, d0)), Dot(w, r1))
  <2>1. Dot(w, VecAdd(old, r1)) = Plus(Dot(w, old), Dot(w, r1))
    BY <1>0, <1>5, <1>15, DotSums
  <2>2. Dot(w, old) = Times(be, Dot(w, d0))
    BY <1>0, <1>14, DotScaled DEF old
  <2> QED
    BY <1>16, <2>1, <2>2
<1>18. Dot(d1, Ad) = 0
  <2> DEFINE c == Dot(Ad, d1)
             a == Dot(Ad, r1)
  <2>1. c = Plus(Times(be, Dot(Ad, d0)), a)
    BY <1>1, <1>17
  <2>2. Dot(Ad, d0) = z /\ a = Dot(r1, Ad) /\ c = Dot(d1, Ad) /\ a \in Values
    BY <1>0, <1>1, <1>5, <1>16, DotLaws, Zenon
  <2> HIDE DEF c, a, z, e0, e1
  <2>3. a \in Numbers
    <3>1. Times(al, a) # NaN
      <4>1. Times(al, a) \in Values
        BY <1>3, <2>2, NaNLaws
      <4> QED
        BY <1>11, <1>12, <2>2, <4>1, NaNLaws, ValuesHere
    <3> QED
      BY <1>3, <2>2, <3>1, NaNLaws, ValuesHere
  <2>4. /\ Means(al, al) /\ Means(be, be) /\ Means(z, z) /\ Means(a, a) /\ Means(0, 0)
        /\ al \in Int /\ be \in Int /\ z \in Int /\ a \in Int
    BY <1>7, <1>14, <2>3, MeansItself, ValuesHere
  <2>5. Means(c, be * z + a)
    <3>1. c = Plus(Times(be, z), a)
      BY <2>1, <2>2
    <3>2. Means(Times(be, z), be * z)
      BY <2>4, MeansTerms, Zenon
    <3> QED
      BY <2>4, <3>1, <3>2, MeansTerms, Zenon
  <2>6. Means(e0, al * z)
    BY <1>8, <2>4, MeansTerms, Zenon
  <2>7. Means(e1, (al * z) * be)
    BY <1>14, <2>4, <2>6, MeansTerms, Zenon
  <2>8. Means(e1, 0 - al * a)
    <3>1. Means(Times(al, a), al * a)
      BY <2>4, MeansTerms, Zenon
    <3> QED
      BY <1>11, <2>2, <2>4, <3>1, MeansTerms, Zenon
  <2>9. Means(Times(al, c), al * (be * z + a))
    BY <2>4, <2>5, MeansTerms, Zenon
  <2>10. Means(Minus(e1, e1), (al * z) * be - (0 - al * a))
    BY <2>7, <2>8, MeansTerms, Zenon
  <2>11. (al * z) * be - (0 - al * a) = al * (be * z + a)
    BY <2>4
  <2>12. Times(al, c) = Minus(e1, e1)
    BY <2>9, <2>10, <2>11, MeansSame
  <2>13. Times(al, c) = 0
    BY <1>12, <2>12, ZeroTimes
  <2>14. c \in Numbers
    BY <2>5 DEF Means, Is
  <2>15. c = 0
    BY <1>7, <1>13, <2>13, <2>14, NoZeroDivisors
  <2> QED
    BY <2>2, <2>15
<1>19. Dot(r1, d1) = Dot(r1, r1)
  <2>1. Dot(r1, d1) = Plus(Times(be, Dot(r1, d0)), Dot(r1, r1))
    BY <1>5, <1>17
  <2>2. Times(be, 0) = 0 /\ Plus(0, e1) = e1
    BY <1>12, <1>14, ZeroTimes, TwoValues, ValuesHere
  <2> QED
    BY <1>9, <2>1, <2>2
<1>20. Dot(r1, Ad1) = Dot(d1, Ad1)
  <2>1. Ad1 \in Vec(n)
    BY <1>16, SvmVectors
  <2>2. Dot(d0, Ad1) = Dot(d1, Ad)
    BY <1>16, ProductSymmetric DEF Ad
  <2> HIDE DEF Ad1
  <2>3. Dot(Ad1, d1) = Plus(Times(be, Dot(Ad1, d0)), Dot(Ad1, r1))
    BY <1>17, <2>1
  <2>4. /\ Dot(Ad1, d1) = Dot(d1, Ad1) /\ Dot(Ad1, d0) = Dot(d0, Ad1) /\ Dot(Ad1, r1) = Dot(r1, Ad1)
        /\ Dot(r1, Ad1) \in Values
    BY <1>0, <1>5, <1>16, <2>1, DotLaws, Zenon
  <2>5. Times(be, 0) = 0 /\ Plus(0, Dot(r1, Ad1)) = Dot(r1, Ad1)
    BY <1>14, <2>4, ZeroTimes, TwoValues
  <2> QED
    BY <1>18, <2>2, <2>3, <2>4, <2>5
<1>21. ASSUME NEW w \in Vec(n), Dot(w, d0) = 0 PROVE Dot(w, r1) = 0 <=> Dot(w, d1) = 0
  <2>1. Dot(w, d1) = Plus(Times(be, 0), Dot(w, r1)) /\ Dot(w, r1) \in Values
    BY <1>0, <1>5, <1>17, <1>21, DotLaws
  <2>2. Times(be, 0) = 0 /\ Plus(0, Dot(w, r1)) = Dot(w, r1)
    BY <1>14, <2>1, ZeroTimes, TwoValues
  <2> QED
    BY <2>1, <2>2
<1>22. ASSUME NEW w \in Vec(n), Dot(w, r0) = 0 PROVE Dot(w, Ad) = 0 <=> Dot(w, r1) = 0
  <2> DEFINE a == Dot(w, Ad)
  <2>1. Dot(w, r1) = Minus(0, Dot(w, step))
    BY <1>0, <1>4, <1>5, <1>22, DotSums
  <2>2. Dot(w, step) = Times(al, a)
    BY <1>0, <1>1, <1>3, DotScaled DEF step
  <2>3. a \in Values
    BY <1>0, <1>1, DotLaws, Zenon
  <2> HIDE DEF a
  <2>4. a = 0 => Dot(w, r1) = 0
    <3>1. Times(al, 0) = 0 /\ Minus(0, 0) = 0
      BY <1>7, ZeroTimes, ValuesHere
    <3> QED
      BY <2>1, <2>2, <3>1
  <2>5. ASSUME Minus(0, Times(al, a)) = 0 PROVE a = 0
    <3>1. Times(al, a) # NaN /\ Times(al, a) \in Values
      BY <1>3, <2>3, <2>5, NaNLaws, ValuesHere
    <3>2. a \in Numbers /\ Times(al, a) \in Numbers
      BY <1>3, <2>3, <3>1, NaNLaws, ValuesHere
    <3>3. Times(al, a) = 0
      <4> DEFINE u == Times(al, a)
      <4>1. Means(u, u) /\ Means(0, 0) /\ u \in Int
        BY <3>2, MeansItself, ValuesHere
      <4> HIDE DEF u
      <4>2. Means(Minus(0, u), 0 - u)
        BY <4>1, MeansTerms, Zenon
      <4>3. Means(Minus(0, Minus(0, u)), 0 - (0 - u))
        BY <4>1, <4>2, MeansTerms, Zenon
      <4>4. 0 - (0 - u) = u
        BY <4>1
      <4>5. Minus(0, Minus(0, u)) = u
        BY <4>1, <4>3, <4>4, MeansSame
      <4>6. Minus(0, 0) = 0
        BY ZeroTimes, ValuesHere
      <4> QED
        BY <2>5, <4>5, <4>6 DEF u
    <3> QED
      BY <1>7, <1>13, <3>2, <3>3, NoZeroDivisors
  <2> QED
    BY <2>1, <2>2, <2>4, <2>5 DEF a
<1> QED
  BY <1>9, <1>10, <1>13, <1>18, <1>19, <1>20, <1>21, <1>22 DEF Ad

\* What an iteration presupposes of r and d: their products with d, and with A d.
Aligned ==
    pc = "iterate" /\ delta # NaN =>
        /\ Dot(r, d) = delta
        /\ Dot(r, SvmProduct(system, d)) = Dot(d, SvmProduct(system, d))

TInv == IInv /\ Aligned

\* The state as what the operators of fit work on.
LEMMA Typed ==
    ASSUME Trains, IInv
    PROVE  /\ system \in Problems /\ x \in Vec(Unknowns) /\ r \in Vec(Unknowns) /\ d \in Vec(Unknowns)
           /\ delta \in Values /\ delta = Dot(r, r) /\ r = SvmResidual(system, x) /\ delta0 \in Values
<1>1. /\ Systems \subseteq Problems /\ Scalars = Values /\ Vectors = Vec(Unknowns)
      /\ \A s \in Systems, v \in Vectors : Residual(s, v) = SvmResidual(s, v)
      /\ \A u, v \in Vectors : Inner(u, v) = Dot(u, v)
  BY DEF Trains, Vec, Unknowns
<1> QED
  BY <1>1 DEF IInv, TypeOK, ResidualIsTrue

\* One iteration, with the operators of fit.
LEMMA AdvanceIs ==
    ASSUME Trains, IInv, Advance
    PROVE  /\ x' \in Vec(Unknowns) /\ r' \in Vec(Unknowns)
           /\ delta' = Dot(r', r') /\ delta' \in Values
           /\ r' = VecSub(r, VecScale(Over(delta, Dot(d, SvmProduct(system, d))), SvmProduct(system, d)))
           /\ UNCHANGED <<system, delta0>>
<1> DEFINE Ad == Product(system, d)
           alpha_cd == Quotient(delta, Inner(d, Ad))
<1>0. Closed /\ ExactProduct
  BY ExactArithmetic
<1>1. /\ Scalars = Values /\ Vectors = Vec(Unknowns)
      /\ \A s \in Systems, v \in Vectors : Product(s, v) = SvmProduct(s, v)
      /\ \A u, v \in Vectors : Sub(u, v) = VecSub(u, v) /\ Inner(u, v) = Dot(u, v)
      /\ \A a \in Scalars, v \in Vectors : Scale(a, v) = VecScale(a, v)
      /\ \A a, b \in Scalars : Quotient(a, b) = Over(a, b)
  BY DEF Trains, Vec, Unknowns
<1>2. /\ system \in Systems /\ x \in Vectors /\ r \in Vectors /\ d \in Vectors
      /\ delta \in Scalars /\ r = Residual(system, x)
  BY DEF IInv, TypeOK, ResidualIsTrue
<1>3. Ad \in Vectors /\ Inner(d, Ad) \in Scalars /\ alpha_cd \in Scalars /\ Scale(alpha_cd, Ad) \in Vectors
  <2>1. Ad \in Vectors
    BY <1>0, <1>2 DEF Closed
  <2> HIDE DEF Ad
  <2>2. Inner(d, Ad) \in Scalars
    BY <1>0, <1>2, <2>1 DEF Closed
  <2>3. alpha_cd \in Scalars
    BY <1>0, <1>2, <2>2 DEF Closed
  <2> HIDE DEF alpha_cd
  <2> QED
    BY <1>0, <2>1, <2>2, <2>3 DEF Closed
<1>4. /\ x' \in Vectors /\ r' \in Vectors /\ delta' \in Scalars
      /\ r' = Residual(system, x') /\ delta' = Inner(r', r')
  BY <1>0, AdvanceKeepsResidual
<1>5. x' = Add(x, Scale(alpha_cd, d)) /\ UNCHANGED <<system, delta0>>
  BY DEF Advance
<1>6. r' = Sub(r, Scale(alpha_cd, Ad))
  BY <1>0, <1>2, <1>3, <1>4, <1>5 DEF ExactProduct
<1>7. r' = VecSub(r, VecScale(alpha_cd, Ad))
  BY <1>1, <1>2, <1>3, <1>6
<1>8. Ad = SvmProduct(system, d)
  BY <1>1, <1>2
<1>9. alpha_cd = Over(delta, Dot(d, SvmProduct(system, d)))
  BY <1>1, <1>2, <1>3, <1>8
<1> HIDE DEF Ad, alpha_cd
<1> QED
  BY <1>1, <1>4, <1>5, <1>7, <1>8, <1>9

\* NaN in delta is NaN in r, and so in what delta was before.
LEMMA NumberBefore ==
    ASSUME Trains, IInv, Advance, delta' # NaN
    PROVE  delta # NaN
<1> DEFINE n == Unknowns
           a == Over(delta, Dot(d, SvmProduct(system, d)))
           step == VecScale(a, SvmProduct(system, d))
<1>0. n \in Nat \ {0}
  BY Size
<1>1. SUFFICES ASSUME delta = NaN PROVE FALSE
  OBVIOUS
<1>2. /\ r' \in Vec(n) /\ delta' = Dot(r', r') /\ r' = VecSub(r, step)
  BY AdvanceIs
<1>3. system \in Problems /\ d \in Vec(n) /\ r \in Vec(n) /\ delta = Dot(r, r)
  BY Typed
<1>4. SvmProduct(system, d) \in Vec(n)
  BY <1>3, SvmVectors
<1>5. Dot(d, SvmProduct(system, d)) \in Values
  BY <1>0, <1>3, <1>4, DotLaws, Zenon
<1>6. a \in Values
  BY <1>1, <1>5, Operations, ValuesHere
<1> HIDE DEF a
<1>7. step \in Vec(n)
  BY <1>0, <1>4, <1>6, ScaleTerms
<1>8. PICK i \in 1..n : r[i] = NaN
  BY <1>0, <1>1, <1>3, DotLaws
<1> HIDE DEF step
<1>9. VecSub(r, step) = [j \in 1..n |-> Minus(r[j], step[j])]
  BY <1>0, <1>3, <1>7, VectorTerms, Zenon
<1>10. r'[i] = Minus(r[i], step[i]) /\ r[i] \in Values /\ step[i] \in Values
  BY <1>2, <1>3, <1>7, <1>9 DEF Vec
<1>11. r'[i] = NaN
  BY <1>8, <1>10, NaNLaws
<1>12. Dot(r', r') = NaN
  BY <1>0, <1>2, <1>11, DotLaws
<1> QED
  BY <1>2, <1>12

\* The loop goes on: the new residual and the new direction.
LEMMA ContinueAligns ==
    ASSUME Trains, TInv, Continue, delta' # NaN
    PROVE  /\ Dot(r', r) = 0 /\ Dot(d', SvmProduct(system, d)) = 0
           /\ Dot(r', d') = delta'
           /\ Dot(r', SvmProduct(system, d')) = Dot(d', SvmProduct(system, d'))
           /\ delta' # 0
           /\ r' \in Vec(Unknowns) /\ d' \in Vec(Unknowns) /\ delta' = Dot(r', r')
           /\ delta # NaN /\ Dot(r, r) # 0 /\ Dot(r', d) = 0
           /\ \A w \in Vec(Unknowns) :
                /\ Dot(w, d) = 0 => (Dot(w, r') = 0 <=> Dot(w, d') = 0)
                /\ Dot(w, r) = 0 => (Dot(w, SvmProduct(system, d)) = 0 <=> Dot(w, r') = 0)
<1>1. Advance /\ pc = "iterate" /\ IInv /\ Aligned
  BY DEF Continue, Advance, TInv
<1>2. delta # NaN
  BY <1>1, NumberBefore
<1>3. /\ r' \in Vec(Unknowns) /\ delta' = Dot(r', r') /\ delta' \in Values
      /\ r' = VecSub(r, VecScale(Over(delta, Dot(d, SvmProduct(system, d))), SvmProduct(system, d)))
  BY <1>1, AdvanceIs
<1>4. /\ system \in Problems /\ r \in Vec(Unknowns) /\ d \in Vec(Unknowns)
      /\ delta \in Values /\ delta = Dot(r, r) /\ delta0 \in Values
  BY <1>1, Typed
<1>5. Dot(r, d) = Dot(r, r) /\ Dot(r, SvmProduct(system, d)) = Dot(d, SvmProduct(system, d))
  BY <1>1, <1>2, <1>4 DEF Aligned
<1>6. delta' \in Numbers \ {0}
  <2>1. ~Within(delta', delta0)
    BY DEF Continue, ExactEnough
  <2>2. Within(delta', delta0) <=> delta' \in Tolerated
    BY <1>3, <1>4 DEF Trains, SvmWithin
  <2>3. delta' # 0
    BY <2>1, <2>2, TrainingAssumption
  <2> QED
    BY <1>3, <2>3, ValuesHere
<1>7. d' = VecAdd(VecScale(Over(delta', delta), d), r') /\ d' \in Vec(Unknowns)
  <2> DEFINE be == Over(delta', delta)
  <2>1. /\ Scalars = Values /\ Vectors = Vec(Unknowns)
        /\ \A u, v \in Vectors : Add(u, v) = VecAdd(u, v)
        /\ \A a \in Scalars, v \in Vectors : Scale(a, v) = VecScale(a, v)
        /\ \A a, b \in Scalars : Quotient(a, b) = Over(a, b) /\ Quotient(a, b) \in Scalars
    BY ExactArithmetic DEF Trains, Vec, Unknowns, Closed
  <2>2. d' = Add(Scale(Quotient(delta', delta), d), r')
    BY DEF Continue, NextDirection
  <2>3. Quotient(delta', delta) = be /\ be \in Values
    BY <1>3, <1>4, <2>1
  <2> HIDE DEF be
  <2>4. Scale(be, d) = VecScale(be, d) /\ VecScale(be, d) \in Vec(Unknowns)
    BY <1>4, <2>1, <2>3, Size, ScaleTerms
  <2>5. d' = VecAdd(VecScale(be, d), r')
    BY <1>3, <2>1, <2>2, <2>3, <2>4
  <2>6. d' \in Vec(Unknowns)
    BY <1>3, <2>4, <2>5, Size, VectorTerms
  <2> QED
    BY <2>5, <2>6 DEF be
<1> QED
  BY <1>2, <1>3, <1>4, <1>5, <1>6, <1>7, OneIteration

\* Every step leaves what the next iteration presupposes.
LEMMA StepAligned ==
    ASSUME Trains, TInv, [Next]_vars
    PROVE  Aligned'
<1>1. CASE Converge
  BY <1>1 DEF Converge, Aligned
<1>2. CASE Continue
  <2>1. CASE delta' = NaN
    BY <2>1 DEF Aligned
  <2>2. CASE delta' # NaN
    <3>1. UNCHANGED system
      BY <1>2 DEF Continue, Advance
    <3> QED
      BY <1>2, <2>2, <3>1, ContinueAligns DEF Aligned
  <2> QED
    BY <2>1, <2>2
<1>3. CASE GiveUp
  BY <1>3 DEF GiveUp, Aligned
<1>4. CASE UNCHANGED vars
  BY <1>4 DEF vars, Aligned, TInv
<1> QED
  BY <1>1, <1>2, <1>3, <1>4 DEF Next, Terminated

\* What the theorems about the loop ask of its constants.
LEMMA Bounds == ASSUME Trains PROVE LoopBounds /\ Closed /\ ExactProduct
  BY ExactArithmetic DEF LoopBounds, Trains

LEMMA TrainingInvariant ==
    ASSUME Trains PROVE Spec => []TInv
<1>1. Init => TInv
  <2>1. SUFFICES ASSUME Init PROVE IInv /\ Aligned
    BY DEF TInv
  <2>2. IInv
    BY <2>1, Bounds, InitIInv
  <2>3. d = r /\ delta = Dot(r, r)
    BY <2>1, <2>2, Typed DEF Init
  <2> QED
    BY <2>2, <2>3 DEF Aligned
<1>2. TInv /\ [Next]_vars => TInv'
  BY Bounds, StepIInv, StepAligned DEF TInv
<1> QED
  BY <1>1, <1>2, PTL DEF Spec

\* Successive residuals are orthogonal and successive directions conjugate
\* with respect to the matrix of the reduced system, in every iteration of the
\* loop and across every restart.
THEOREM DirectionsCorrect ==
    ASSUME Trains PROVE Spec => DirectionsConjugate
<1>1. TInv /\ [Next]_vars =>
        [iter' # iter /\ ~IsNaN(delta') =>
            /\ Dot(r', r) = 0
            /\ Dot(d', SvmProduct(system, d)) = 0]_vars
  <2>1. SUFFICES ASSUME TInv, Next, iter' # iter, ~IsNaN(delta')
                 PROVE  Dot(r', r) = 0 /\ Dot(d', SvmProduct(system, d)) = 0
    OBVIOUS
  <2>2. Continue /\ delta' # NaN
    BY <2>1 DEF Next, Converge, GiveUp, Terminated, vars, IsNaN
  <2> QED
    BY <2>1, <2>2, ContinueAligns
<1> QED
  BY <1>1, TrainingInvariant, PTL DEF Spec, DirectionsConjugate

\* Whatever ends the loop, the weights and the rho that fit returns satisfy the
\* full system up to the residual that the loop has tested, and its last row
\* and the sum of the weights exactly: the elimination of the last row, bias()
\* and the missing weight fit together.
THEOREM ReducedCorrect ==
    ASSUME Trains PROVE Spec => []ReducedSolvesFull
<1>1. TInv => ReducedSolvesFull
  <2>1. SUFFICES ASSUME IInv, ~IsNaN(delta)
                 PROVE  /\ Sum(weights(system, x)) = 0
                        /\ FullRow(system, NumPoints) = system.y[NumPoints]
                        /\ \A i \in 1..(NumPoints - 1) :
                             Minus(system.y[i], FullRow(system, i)) = r[i]
    BY DEF ReducedSolvesFull, TInv
  <2>2. /\ system \in Problems /\ x \in Vec(Unknowns) /\ r \in Vec(Unknowns)
        /\ delta = Dot(r, r) /\ r = SvmResidual(system, x)
    BY <2>1, Typed
  <2>3. Unknowns \in Nat \ {0} /\ 1 \in 1..Unknowns
    BY Size
  <2>4. r[1] # NaN
    BY <2>1, <2>2, <2>3, DotLaws DEF IsNaN
  <2>5. ASSUME NEW j \in 1..Unknowns PROVE x[j] \in Numbers
    <3>1. SUFFICES ASSUME x[j] = NaN PROVE FALSE
      BY <2>2, ValuesHere DEF Vec
    <3>2. Row(system, 1) \in Vec(Unknowns)
      BY <2>2, <2>3, Rows
    <3>3. Dot(Row(system, 1), x) = NaN
      BY <2>2, <2>3, <3>1, <3>2, DotLaws
    <3>4. r[1] = Minus(ReducedB(system)[1], Dot(Row(system, 1), x)) /\ ReducedB(system)[1] \in Numbers
      BY <2>2, <2>3, Applied
    <3> QED
      BY <2>4, <3>3, <3>4, NaNLaws, ValuesHere
  <2> QED
    BY <2>2, <2>5, Eliminated
<1> QED
  BY <1>1, TrainingInvariant, PTL

\* From an inexact start the numbers stay numbers, and none is divided by zero.
NumbersLast ==
    delta0 # 0 => delta # NaN /\ (pc = "iterate" => delta # 0)

\* A direction that is not zero has a product with A d to divide by.
LEMMA DefiniteStep ==
    ASSUME Trains, \A s \in Systems : Definite(s), TInv, NumbersLast, Advance, delta0 # 0
    PROVE  delta' # NaN
<1> DEFINE n == Unknowns
           Ad == SvmProduct(system, d)
           z == Dot(d, Ad)
           a == Over(delta, z)
           step == VecScale(a, Ad)
<1>0. n \in Nat \ {0} /\ n = NumPoints - 1
  BY Size
<1>1. IInv /\ Aligned /\ pc = "iterate" /\ delta # NaN /\ delta # 0 /\ system \in Systems
  BY DEF TInv, NumbersLast, Advance, IInv
<1>2. /\ system \in Problems /\ r \in Vec(n) /\ d \in Vec(n) /\ delta \in Values /\ delta = Dot(r, r)
      /\ delta \in Numbers
  BY <1>1, Typed, ValuesHere
<1>3. Dot(r, d) = delta
  BY <1>1 DEF Aligned
<1>4. \A i \in 1..n : r[i] \in Numbers /\ d[i] \in Numbers
  <2>1. \A i \in 1..n : r[i] # NaN /\ d[i] # NaN
    BY <1>0, <1>1, <1>2, <1>3, DotLaws
  <2> QED
    BY <1>2, <2>1, ValuesHere DEF Vec
<1>5. \E i \in 1..n : d[i] # 0
  <2>1. SUFFICES ASSUME \A i \in 1..n : d[i] = 0 PROVE FALSE
    OBVIOUS
  <2>2. \A i \in 1..n : Times(r[i], d[i]) = 0
    BY <1>4, <2>1, ZeroTimes
  <2>3. [i \in 1..n |-> Times(r[i], d[i])] = [i \in 1..n |-> 0]
    BY <2>2
  <2>4. Dot(r, d) = Sum([i \in 1..n |-> Times(r[i], d[i])])
    BY <1>0, <1>2, VectorTerms, Zenon
  <2>5. Sum([i \in 1..n |-> 0]) = 0
    BY <1>0, SumZeros
  <2> QED
    BY <1>1, <1>3, <2>3, <2>4, <2>5
<1>6. Ad \in Vec(n) /\ \A i \in 1..n : Ad[i] \in Numbers
  <2>1. Ad \in Vec(n) /\ Ad = [i \in 1..n |-> Dot(Row(system, i), d)]
    BY <1>2, SvmVectors, Applied
  <2>2. ASSUME NEW i \in 1..n PROVE Dot(Row(system, i), d) \in Numbers
    <3>1. Row(system, i) \in Vec(n) /\ \A j \in 1..n : Row(system, i)[j] \in Numbers
      BY <1>2, Rows
    <3> QED
      BY <1>0, <1>2, <1>4, <3>1, DotNumber
  <2> HIDE DEF Ad
  <2> QED
    BY <2>1, <2>2
<1>7. z \in Numbers /\ z # 0
  <2>1. d \in [1..(NumPoints - 1) -> Numbers] /\ DOMAIN d = 1..n
    BY <1>0, <1>2, <1>4 DEF Vec
  <2>2. z # 0
    BY <1>1, <1>5, <2>1 DEF Definite
  <2> HIDE DEF Ad
  <2>3. z \in Numbers
    BY <1>0, <1>2, <1>4, <1>6, DotNumber
  <2> QED
    BY <2>2, <2>3
<1> HIDE DEF Ad, z
<1>8. a \in Numbers
  BY <1>2, <1>7, Division
<1> HIDE DEF a
<1>9. step \in Vec(n) /\ step = [i \in 1..n |-> Times(a, Ad[i])]
  BY <1>0, <1>6, <1>8, ScaleTerms, ValuesHere
<1> HIDE DEF step
<1>10. VecSub(r, step) = [i \in 1..n |-> Minus(r[i], step[i])]
  BY <1>0, <1>2, <1>9, VectorTerms, Zenon
<1>11. r' = VecSub(r, step) /\ r' \in Vec(n) /\ delta' = Dot(r', r')
  BY <1>1, AdvanceIs DEF step, a, z, Ad
<1>12. \A i \in 1..n : r'[i] \in Numbers
  <2>1. \A i \in 1..n : step[i] = Times(a, Ad[i])
    BY <1>9
  <2>2. \A i \in 1..n : step[i] \in Numbers
    BY <1>6, <1>8, <2>1, NumbersClosed
  <2>3. \A i \in 1..n : r'[i] = Minus(r[i], step[i])
    BY <1>10, <1>11
  <2> QED
    BY <1>4, <2>2, <2>3, NumbersClosed
<1>13. Dot(r', r') \in Numbers
  BY <1>0, <1>11, <1>12, DotNumber
<1> QED
  BY <1>11, <1>13, ValuesHere

\* With definite matrices no iteration divides by zero unless the loop started
\* on the solution: NaN in delta means that delta was zero from the start.
THEOREM NaNCorrect ==
    ASSUME Trains, \A s \in Systems : Definite(s)
    PROVE  Spec => []NaNOnlyFromExactStart
<1>1. Init => NumbersLast
  <2>1. SUFFICES ASSUME Init PROVE delta # NaN /\ (delta0 # 0 => delta # 0)
    BY DEF NumbersLast
  <2>2. IInv
    BY <2>1, Bounds, InitIInv
  <2>3. system \in Systems /\ x = SvmOnes(system) /\ delta0 = delta
    BY <2>1 DEF Init, Trains
  <2>4. /\ system \in Problems /\ x \in Vec(Unknowns) /\ r \in Vec(Unknowns) /\ delta = Dot(r, r)
        /\ r = SvmResidual(system, x)
    BY <2>2, Typed
  <2>5. \A j \in 1..Unknowns : x[j] \in Numbers
    BY <2>3, <2>4, Parts, ValuesHere DEF SvmOnes
  <2>6. ASSUME NEW i \in 1..Unknowns PROVE r[i] \in Numbers
    <3>1. Row(system, i) \in Vec(Unknowns) /\ \A j \in 1..Unknowns : Row(system, i)[j] \in Numbers
      BY <2>4, Rows
    <3>2. Dot(Row(system, i), x) \in Numbers
      BY <2>4, <2>5, <3>1, Size, DotNumber
    <3>3. r[i] = Minus(ReducedB(system)[i], Dot(Row(system, i), x)) /\ ReducedB(system)[i] \in Numbers
      BY <2>4, Applied
    <3> QED
      BY <3>2, <3>3, NumbersClosed
  <2>7. delta \in Numbers
    BY <2>4, <2>6, Size, DotNumber
  <2> QED
    BY <2>3, <2>7, ValuesHere
<1>2. TInv /\ NumbersLast /\ [Next]_vars => NumbersLast'
  <2>1. SUFFICES ASSUME TInv, NumbersLast, [Next]_vars, delta0' # 0
                 PROVE  delta' # NaN /\ (pc' = "iterate" => delta' # 0)
    BY DEF NumbersLast
  <2>2. CASE Converge
    <3>1. Advance /\ pc' = "done" /\ delta0' = delta0
      BY <2>2 DEF Converge, Advance
    <3> QED
      BY <2>1, <3>1, DefiniteStep
  <2>3. CASE Continue
    <3>1. Advance /\ delta0' = delta0
      BY <2>3 DEF Continue, Advance
    <3>2. delta' # NaN
      BY <2>1, <3>1, DefiniteStep
    <3> QED
      BY <2>1, <2>3, <3>2, ContinueAligns
  <2>4. CASE GiveUp
    BY <2>1, <2>4 DEF GiveUp, NumbersLast
  <2>5. CASE UNCHANGED vars
    BY <2>1, <2>5 DEF vars, NumbersLast
  <2> QED
    BY <2>1, <2>2, <2>3, <2>4, <2>5 DEF Next, Terminated
<1>3. NumbersLast => NaNOnlyFromExactStart
  BY DEF NumbersLast, NaNOnlyFromExactStart, IsNaN
<1> QED
  BY <1>1, <1>2, <1>3, TrainingInvariant, PTL DEF Spec

----------------------------------------------------------------------------
(* n unknowns take at most n residuals: counting vectors.                  *)

Field(n) == [1..n -> Numbers]

LEMMA FieldFinite == \A n \in Nat : IsFiniteSet(Field(n))
<1> DEFINE S == {n \in Nat : IsFiniteSet(Field(n))}
<1>1. 0 \in S
  <2> DEFINE e == [i \in 1..0 |-> 0]
  <2>1. Field(0) = {e}
    <3>1. 1..0 = {}
      OBVIOUS
    <3>2. e \in Field(0)
      BY <3>1 DEF Field
    <3>3. ASSUME NEW f \in Field(0) PROVE f = e
      <4>1. f = [i \in 1..0 |-> f[i]]
        BY DEF Field
      <4>2. [i \in 1..0 |-> f[i]] = [i \in 1..0 |-> 0]
        BY <3>1
      <4> QED
        BY <4>1, <4>2
    <3> HIDE DEF e
    <3> QED
      BY <3>2, <3>3
  <2> HIDE DEF e
  <2>2. IsFiniteSet(Field(0))
    BY <2>1, FS_Singleton
  <2> QED
    BY <2>2
<1>2. ASSUME NEW n \in Nat, n \in S PROVE n + 1 \in S
  <2> DEFINE P == Field(n) \X Numbers
             f == [v \in Field(n + 1) |-> <<[i \in 1..n |-> v[i]], v[n + 1]>>]
  <2>1. IsFiniteSet(Numbers)
    <3>1. 0 \in Int /\ p - 1 \in Int
      BY Prime
    <3> QED
      BY <3>1, FS_Interval DEF Numbers
  <2>2. IsFiniteSet(P)
    BY <1>2, <2>1, FS_Product
  <2>3. f \in [Field(n + 1) -> P]
    <3>1. \A v \in Field(n + 1) : [i \in 1..n |-> v[i]] \in Field(n) /\ v[n + 1] \in Numbers
      BY DEF Field
    <3> QED
      BY <3>1
  <2>4. ASSUME NEW u \in Field(n + 1), NEW v \in Field(n + 1), f[u] = f[v] PROVE u = v
    <3>1. [i \in 1..n |-> u[i]] = [i \in 1..n |-> v[i]] /\ u[n + 1] = v[n + 1]
      BY <2>4
    <3>2. \A i \in 1..n : u[i] = v[i]
      BY <3>1
    <3>3. \A i \in 1..(n + 1) : i \in 1..n \/ i = n + 1
      OBVIOUS
    <3> QED
      BY <3>1, <3>2, <3>3 DEF Field
  <2> HIDE DEF f, P
  <2>5. f \in Injection(Field(n + 1), P)
    BY <2>3, <2>4 DEF Injection, IsInjective
  <2>6. IsFiniteSet(Field(n + 1))
    BY <2>2, <2>5, FS_Injection
  <2> QED
    BY <2>6
<1> HIDE DEF S
<1>3. Nat \subseteq S
  BY <1>1, <1>2, Induction
<1> QED
  BY <1>3 DEF S

\* More coordinates, more vectors.
LEMMA FieldGrows ==
    ASSUME NEW n \in Nat
    PROVE  Cardinality(Field(n)) < Cardinality(Field(n + 1))
<1> DEFINE T == {v \in Field(n + 1) : v[n + 1] = 0}
           f == [u \in Field(n) |-> [i \in 1..(n + 1) |-> IF i = n + 1 THEN 0 ELSE u[i]]]
           one == [i \in 1..(n + 1) |-> 1]
<1>0. n + 1 \in Nat /\ n + 1 \in 1..(n + 1) /\ \A i \in 1..n : i \in 1..(n + 1) /\ i # n + 1
  OBVIOUS
<1>1. IsFiniteSet(Field(n)) /\ IsFiniteSet(Field(n + 1))
  BY <1>0, FieldFinite
<1>2. one \in Field(n + 1) /\ one \notin T
  BY <1>0, ValuesHere DEF Field
<1>3. f \in [Field(n) -> T]
  <2>1. \A u \in Field(n) : \A i \in 1..(n + 1) : i # n + 1 => u[i] \in Numbers
    BY DEF Field
  <2>2. \A u \in Field(n) : f[u] \in Field(n + 1)
    BY <2>1, ValuesHere DEF Field
  <2>3. \A u \in Field(n) : f[u][n + 1] = 0
    BY <1>0
  <2> HIDE DEF Field
  <2>4. f = [u \in Field(n) |-> f[u]]
    OBVIOUS
  <2> HIDE DEF f
  <2> QED
    BY <2>2, <2>3, <2>4
<1>4. ASSUME NEW u \in Field(n), NEW v \in Field(n), f[u] = f[v] PROVE u = v
  <2>1. \A i \in 1..n : f[u][i] = u[i] /\ f[v][i] = v[i]
    BY <1>0
  <2> HIDE DEF f
  <2> QED
    BY <1>4, <2>1 DEF Field
<1> HIDE DEF f, one
<1>5. IsFiniteSet(T) /\ Cardinality(T) < Cardinality(Field(n + 1))
  <2>1. T \in SUBSET Field(n + 1) /\ T # Field(n + 1)
    BY <1>2
  <2> HIDE DEF T
  <2>2. /\ IsFiniteSet(T) /\ Cardinality(T) <= Cardinality(Field(n + 1))
        /\ Cardinality(Field(n + 1)) # Cardinality(T)
    BY <1>1, <2>1, FS_Subset
  <2>3. Cardinality(T) \in Nat /\ Cardinality(Field(n + 1)) \in Nat
    BY <1>1, <2>2, FS_CardinalityType
  <2> QED
    BY <2>2, <2>3
<1> HIDE DEF T
<1>6. ~(Cardinality(T) < Cardinality(Field(n)))
  BY <1>1, <1>3, <1>4, <1>5, FS_PigeonHole
<1>7. Cardinality(T) \in Nat /\ Cardinality(Field(n + 1)) \in Nat /\ Cardinality(Field(n)) \in Nat
  BY <1>1, <1>5, FS_CardinalityType
<1> QED
  BY <1>5, <1>6, <1>7

\* There are no n + 1 vectors of n numbers that are orthogonal to each other
\* and not to themselves: what they add up to would determine the n + 1 factors.
LEMMA Orthogonal ==
    ASSUME NEW n \in Nat \ {0}, NEW R \in [1..(n + 1) -> Field(n)],
           \A i, j \in 1..(n + 1) : i # j => Dot(R[i], R[j]) = 0
    PROVE  \E i \in 1..(n + 1) : Dot(R[i], R[i]) = 0
<1> DEFINE m == n + 1
           Cell(c, t) == [i \in 1..m |-> Times(c[i], R[i][t])]
           f == [c \in Field(m) |-> [t \in 1..n |-> Sum(Cell(c, t))]]
<1>0. m \in Nat /\ n \in Nat /\ m # 0
  OBVIOUS
<1>1. \A i \in 1..m : R[i] \in Field(n) /\ R[i] \in Vec(n) /\ \A t \in 1..n : R[i][t] \in Numbers
  BY ValuesHere DEF Field, Vec
<1>2. ASSUME NEW c \in Field(m), NEW t \in 1..n
      PROVE  Cell(c, t) \in Vec(m) /\ Sum(Cell(c, t)) \in Numbers
  <2>1. \A i \in 1..m : Times(c[i], R[i][t]) \in Numbers
    BY <1>1, NumbersClosed DEF Field
  <2>2. Cell(c, t) \in Vec(m) /\ \A i \in 1..m : Cell(c, t)[i] \in Numbers
    BY <2>1, ValuesHere DEF Vec
  <2> HIDE DEF Cell
  <2>3. \A i \in 1..m : Cell(c, t)[i] # NaN
    BY <2>2, ValuesHere
  <2> QED
    BY <1>0, <2>2, <2>3, SumValue, ValuesHere
<1>3. f \in [Field(m) -> Field(n)]
  <2> HIDE DEF Cell, m
  <2> QED
    BY <1>2 DEF Field
<1>4. PICK a \in Field(m), b \in Field(m) : a # b /\ f[a] = f[b]
  <2>1. IsFiniteSet(Field(n)) /\ IsFiniteSet(Field(m)) /\ Cardinality(Field(n)) < Cardinality(Field(m))
    BY <1>0, FieldFinite, FieldGrows
  <2> HIDE DEF f, m
  <2> QED
    BY <1>3, <2>1, FS_PigeonHole
<1>5. ASSUME NEW c \in Field(m), NEW j \in 1..m
      PROVE  Dot(R[j], f[c]) = Times(c[j], Dot(R[j], R[j]))
  <2> DEFINE w == [i \in 1..m |-> [t \in 1..n |-> Times(R[j][t], Times(c[i], R[i][t]))]]
  <2>1. \A i \in 1..m : c[i] \in Numbers /\ c[i] \in Values
    BY ValuesHere DEF Field
  <2>2. w \in [1..m -> Vec(n)]
    <3>1. \A i \in 1..m, t \in 1..n : Times(R[j][t], Times(c[i], R[i][t])) \in Values
      BY <1>1, <2>1, NumbersClosed, ValuesHere
    <3> QED
      BY <3>1 DEF Vec
  <2>3. f[c] \in Vec(n) /\ f[c] = [t \in 1..n |-> Sum(Cell(c, t))]
    <3>1. f[c] = [t \in 1..n |-> Sum(Cell(c, t))]
      OBVIOUS
    <3>2. f[c] \in Field(n)
      BY <1>3
    <3> HIDE DEF f, Cell, m
    <3> QED
      BY <3>1, <3>2, ValuesHere DEF Field, Vec
  <2>4. Dot(R[j], f[c]) = Sum([t \in 1..n |-> Times(R[j][t], f[c][t])])
    <3> HIDE DEF f
    <3> QED
      BY <1>1, <2>3, VectorTerms, Zenon
  <2>5. ASSUME NEW t \in 1..n
        PROVE  Times(R[j][t], f[c][t]) = Sum([i \in 1..m |-> w[i][t]])
    <3>1. f[c][t] = Sum(Cell(c, t))
      BY <2>3
    <3>2. [i \in 1..m |-> w[i][t]] = [i \in 1..m |-> Times(R[j][t], Cell(c, t)[i])]
      OBVIOUS
    <3>3. R[j][t] \in Values /\ R[j][t] # NaN
      BY <1>1, ValuesHere
    <3> HIDE DEF f, w, m, Cell
    <3>4. Sum([i \in 1..m |-> Times(R[j][t], Cell(c, t)[i])]) = Times(R[j][t], Sum(Cell(c, t)))
      BY <1>0, <1>2, <3>3, SumTimes
    <3> QED
      BY <3>1, <3>2, <3>4
  <2>6. Dot(R[j], f[c]) = Sum([t \in 1..n |-> Sum([i \in 1..m |-> w[i][t]])])
    <3> HIDE DEF f, w
    <3> QED
      BY <2>4, <2>5
  <2>7. Sum([t \in 1..n |-> Sum([i \in 1..m |-> w[i][t]])]) = Sum([i \in 1..m |-> Sum(w[i])])
    <3> HIDE DEF w
    <3> QED
      BY <1>0, <2>2, SumExchange
  <2>8. ASSUME NEW i \in 1..m PROVE Sum(w[i]) = Times(c[i], Dot(R[j], R[i]))
    <3> DEFINE v == [t \in 1..n |-> Times(R[j][t], R[i][t])]
    <3>1. v \in Vec(n) /\ Dot(R[j], R[i]) = Sum(v)
      BY <1>1, VectorTerms, Zenon
    <3>2. w[i] = [t \in 1..n |-> Times(c[i], v[t])]
      <4>1. ASSUME NEW t \in 1..n
            PROVE  Times(R[j][t], Times(c[i], R[i][t])) = Times(c[i], Times(R[j][t], R[i][t]))
        <5> DEFINE e == R[j][t]
                   g == R[i][t]
                   h == c[i]
        <5>1. e \in Values /\ g \in Values /\ h \in Values
          BY <1>1, <2>1, ValuesHere
        <5> HIDE DEF e, g, h
        <5>2. Times(Times(e, h), g) = Times(e, Times(h, g)) /\ Times(Times(h, e), g) = Times(h, Times(e, g))
              /\ Times(e, h) = Times(h, e)
          BY <5>1, ThreeValues, TwoValues
        <5>3. Times(e, Times(h, g)) = Times(h, Times(e, g))
          BY <5>2
        <5> QED
          BY <5>3 DEF e, g, h
      <4> QED
        BY <4>1
    <3> HIDE DEF v, w
    <3> QED
      BY <1>0, <2>1, <3>1, <3>2, SumTimes
  <2>9. ASSUME NEW i \in 1..m
        PROVE  Sum(w[i]) = IF i = j THEN Times(c[j], Dot(R[j], R[j])) ELSE 0
    <3>1. i # j => Dot(R[j], R[i]) = 0
      OBVIOUS
    <3>2. Times(c[i], 0) = 0
      BY <2>1, ZeroTimes
    <3> HIDE DEF w
    <3> QED
      BY <2>8, <3>1, <3>2
  <2>10. [i \in 1..m |-> Sum(w[i])] = [i \in 1..m |-> IF i = j THEN Times(c[j], Dot(R[j], R[j])) ELSE 0]
    <3> HIDE DEF w
    <3> QED
      BY <2>9
  <2>11. Times(c[j], Dot(R[j], R[j])) \in Values
    <3>1. Dot(R[j], R[j]) \in Values
      BY <1>1, VectorTerms
    <3> QED
      BY <2>1, <3>1, NaNLaws
  <2> HIDE DEF w, f, m
  <2>12. Sum([i \in 1..m |-> IF i = j THEN Times(c[j], Dot(R[j], R[j])) ELSE 0]) = Times(c[j], Dot(R[j], R[j]))
    BY <1>0, <2>11, SumSingle
  <2> QED
    BY <2>6, <2>7, <2>10, <2>12
<1>6. PICK j \in 1..m : a[j] # b[j]
  BY <1>4 DEF Field
<1> DEFINE e == Dot(R[j], R[j])
<1>7. a[j] \in Numbers /\ b[j] \in Numbers /\ e \in Numbers /\ Times(a[j], e) = Times(b[j], e)
  <2>1. Times(a[j], e) = Times(b[j], e)
    <3>1. Dot(R[j], f[a]) = Times(a[j], e) /\ Dot(R[j], f[b]) = Times(b[j], e)
      BY <1>5
    <3> HIDE DEF f, e
    <3> QED
      BY <1>4, <3>1
  <2>2. e \in Numbers
    BY <1>1, DotNumber
  <2> HIDE DEF e
  <2> QED
    BY <2>1, <2>2 DEF Field
<1> HIDE DEF e
<1>8. e = 0
  <2> DEFINE h == Minus(a[j], b[j])
  <2>1. h \in Numbers
    BY <1>7, NumbersClosed
  <2>2. h # 0
    <3>1. Plus(h, b[j]) = a[j]
      <4>1. /\ Means(a[j], a[j]) /\ Means(b[j], b[j]) /\ a[j] \in Int /\ b[j] \in Int
        BY <1>7, MeansItself
      <4>2. Means(h, a[j] - b[j])
        BY <4>1, MeansTerms, Zenon
      <4>3. Means(Plus(h, b[j]), (a[j] - b[j]) + b[j])
        BY <4>1, <4>2, MeansTerms, Zenon
      <4>4. (a[j] - b[j]) + b[j] = a[j]
        BY <4>1
      <4> QED
        BY <4>1, <4>3, <4>4, MeansSame
    <3>2. Plus(0, b[j]) = b[j]
      BY <1>7, TwoValues, ValuesHere
    <3> QED
      BY <1>6, <3>1, <3>2
  <2>3. Times(h, e) = Minus(Times(a[j], e), Times(b[j], e))
    BY <1>7, RightDistributes, ValuesHere
  <2>4. Times(h, e) = 0
    <3>1. Times(b[j], e) \in Numbers
      BY <1>7, NumbersClosed
    <3> QED
      BY <1>7, <2>3, <3>1, ZeroTimes
  <2> HIDE DEF h
  <2> QED
    BY <1>7, <2>1, <2>2, <2>4, NoZeroDivisors
<1> QED
  BY <1>8 DEF e

\* The first k residuals and directions of the loop: the residuals are
\* orthogonal, the directions conjugate; a residual lies in the plane of its
\* direction and the one before, a product with a direction in that of its
\* residual and the next.
History(s, k, R, D) ==
    /\ R \in [1..k -> Field(Unknowns)] /\ D \in [1..k -> Vec(Unknowns)]
    /\ \A i, j \in 1..k : i < j =>
         /\ Dot(R[i], R[j]) = 0
         /\ Dot(D[i], R[j]) = 0
         /\ Dot(D[i], SvmProduct(s, D[j])) = 0
    /\ \A i \in 1..k : i < k => Dot(R[i], R[i]) # 0
    /\ \A i \in 1..k, w \in Vec(Unknowns) :
         Dot(w, D[i]) = 0 /\ (i > 1 => Dot(w, D[i - 1]) = 0) => Dot(w, R[i]) = 0
    /\ \A i \in 1..k, w \in Vec(Unknowns) :
         i < k /\ Dot(w, R[i]) = 0 /\ Dot(w, R[i + 1]) = 0 => Dot(w, SvmProduct(s, D[i])) = 0

\* An iteration adds a residual and a direction to the history.
LEMMA Longer ==
    ASSUME NEW s \in Problems, NEW k \in Nat \ {0}, NEW R, NEW D, History(s, k, R, D),
           NEW r1 \in Field(Unknowns), NEW d1 \in Vec(Unknowns),
           Dot(r1, R[k]) = 0, Dot(r1, D[k]) = 0, Dot(d1, SvmProduct(s, D[k])) = 0,
           Dot(R[k], R[k]) # 0,
           \A w \in Vec(Unknowns) :
              /\ Dot(w, D[k]) = 0 => (Dot(w, r1) = 0 <=> Dot(w, d1) = 0)
              /\ Dot(w, R[k]) = 0 => (Dot(w, SvmProduct(s, D[k])) = 0 <=> Dot(w, r1) = 0)
    PROVE  \E R1, D1 : History(s, k + 1, R1, D1) /\ R1[k + 1] = r1 /\ D1[k + 1] = d1
<1> DEFINE n == Unknowns
           A(v) == SvmProduct(s, v)
           R1 == [i \in 1..(k + 1) |-> IF i = k + 1 THEN r1 ELSE R[i]]
           D1 == [i \in 1..(k + 1) |-> IF i = k + 1 THEN d1 ELSE D[i]]
<1>0. n \in Nat \ {0}
  BY Size
<1>1. /\ \A i \in 1..k : R[i] \in Field(n) /\ R[i] \in Vec(n) /\ D[i] \in Vec(n)
      /\ r1 \in Vec(n) /\ d1 \in Vec(n) /\ k \in 1..k
  BY ValuesHere DEF History, Field, Vec
<1>2. \A v \in Vec(n) : A(v) \in Vec(n)
  BY SvmVectors
<1>3. \A u, v \in Vec(n) : Dot(u, v) = Dot(v, u)
  BY <1>0, DotLaws
<1>4. \A u, v \in Vec(n) : Dot(u, A(v)) = Dot(v, A(u))
  BY ProductSymmetric
<1> HIDE DEF A
<1>5. /\ \A i, j \in 1..k : i < j =>
           /\ Dot(R[i], R[j]) = 0
           /\ Dot(D[i], R[j]) = 0
           /\ Dot(D[i], A(D[j])) = 0
      /\ \A i \in 1..k : i < k => Dot(R[i], R[i]) # 0
      /\ \A i \in 1..k, w \in Vec(n) :
           Dot(w, D[i]) = 0 /\ (i > 1 => Dot(w, D[i - 1]) = 0) => Dot(w, R[i]) = 0
      /\ \A i \in 1..k, w \in Vec(n) :
           i < k /\ Dot(w, R[i]) = 0 /\ Dot(w, R[i + 1]) = 0 => Dot(w, A(D[i])) = 0
  BY DEF History, A
<1>6. \A w \in Vec(n) :
         /\ Dot(w, D[k]) = 0 => (Dot(w, r1) = 0 <=> Dot(w, d1) = 0)
         /\ Dot(w, R[k]) = 0 => (Dot(w, A(D[k])) = 0 <=> Dot(w, r1) = 0)
  BY DEF A
<1>7. Dot(d1, A(D[k])) = 0
  BY DEF A
<1> HIDE DEF n
<1>8. ASSUME NEW i \in 1..k PROVE Dot(D[i], r1) = 0
  <2>1. CASE i = k
    BY <1>1, <1>3, <2>1
  <2>2. CASE i # k
    <3>1. i < k
      BY <2>2
    <3>2. Dot(D[i], R[k]) = 0 /\ Dot(D[i], A(D[k])) = 0
      BY <1>1, <1>5, <3>1
    <3> QED
      BY <1>1, <1>6, <3>2
  <2> QED
    BY <2>1, <2>2
<1>9. ASSUME NEW i \in 1..k PROVE Dot(R[i], r1) = 0
  <2>1. Dot(r1, D[i]) = 0
    BY <1>1, <1>3, <1>8
  <2>2. i > 1 => Dot(r1, D[i - 1]) = 0
    <3>1. SUFFICES ASSUME i > 1 PROVE Dot(r1, D[i - 1]) = 0
      OBVIOUS
    <3>2. i - 1 \in 1..k
      BY <3>1
    <3> QED
      BY <1>1, <1>3, <1>8, <3>2
  <2>3. Dot(r1, R[i]) = 0
    BY <1>1, <1>5, <2>1, <2>2
  <2> QED
    BY <1>1, <1>3, <2>3
<1>10. ASSUME NEW i \in 1..k PROVE Dot(D[i], A(d1)) = 0
  <2>1. Dot(D[i], A(d1)) = Dot(d1, A(D[i]))
    BY <1>1, <1>4
  <2>2. CASE i = k
    BY <1>7, <2>1, <2>2
  <2>3. CASE i # k
    <3>1. i < k /\ i + 1 \in 1..k
      BY <2>3
    <3> DEFINE w == A(D[i])
    <3>2. w \in Vec(n)
      BY <1>1, <1>2
    <3>3. Dot(w, D[k]) = 0
      <4>1. Dot(D[i], A(D[k])) = 0
        BY <1>1, <1>5, <3>1
      <4>2. Dot(D[k], w) = 0
        BY <1>1, <1>4, <4>1
      <4> HIDE DEF w
      <4> QED
        BY <1>1, <1>3, <3>2, <4>2
    <3>4. Dot(w, r1) = 0
      <4>1. Dot(r1, R[i]) = 0 /\ Dot(r1, R[i + 1]) = 0
        BY <1>1, <1>3, <1>9, <3>1
      <4>2. Dot(r1, w) = 0
        BY <1>1, <1>5, <3>1, <4>1
      <4> HIDE DEF w
      <4> QED
        BY <1>1, <1>3, <3>2, <4>2
    <3>5. Dot(w, d1) = 0
      <4> HIDE DEF w
      <4> QED
        BY <1>6, <3>2, <3>3, <3>4
    <3>6. Dot(d1, w) = 0
      <4> HIDE DEF w
      <4> QED
        BY <1>1, <1>3, <3>2, <3>5
    <3> QED
      BY <2>1, <3>6
  <2> QED
    BY <2>2, <2>3
<1>11. /\ \A i \in 1..k : i \in 1..(k + 1) /\ R1[i] = R[i] /\ D1[i] = D[i]
       /\ k + 1 \in 1..(k + 1) /\ R1[k + 1] = r1 /\ D1[k + 1] = d1
       /\ \A i \in 1..(k + 1) : i \in 1..k \/ i = k + 1
  OBVIOUS
<1>12. R1 \in [1..(k + 1) -> Field(n)] /\ D1 \in [1..(k + 1) -> Vec(n)]
  BY <1>1 DEF n
<1> HIDE DEF R1, D1
<1>13. ASSUME NEW i \in 1..(k + 1), NEW j \in 1..(k + 1), i < j
       PROVE  Dot(R1[i], R1[j]) = 0 /\ Dot(D1[i], R1[j]) = 0 /\ Dot(D1[i], A(D1[j])) = 0
  <2>1. i \in 1..k
    BY <1>13
  <2>2. CASE j = k + 1
    BY <1>8, <1>9, <1>10, <1>11, <2>1, <2>2
  <2>3. CASE j \in 1..k
    BY <1>5, <1>11, <1>13, <2>1, <2>3
  <2> QED
    BY <1>11, <2>2, <2>3
<1>14. ASSUME NEW i \in 1..(k + 1), i < k + 1 PROVE Dot(R1[i], R1[i]) # 0
  <2>1. i \in 1..k /\ (i = k \/ i < k)
    BY <1>14
  <2> QED
    BY <1>5, <1>11, <2>1
<1>15. ASSUME NEW i \in 1..(k + 1), NEW w \in Vec(n),
              Dot(w, D1[i]) = 0, i > 1 => Dot(w, D1[i - 1]) = 0
       PROVE  Dot(w, R1[i]) = 0
  <2>1. CASE i = k + 1
    <3>1. i - 1 = k /\ i > 1
      BY <2>1
    <3>2. Dot(w, d1) = 0 /\ Dot(w, D[k]) = 0
      BY <1>1, <1>11, <1>15, <2>1, <3>1
    <3> QED
      BY <1>6, <1>11, <2>1, <3>2
  <2>2. CASE i \in 1..k
    <3>1. i > 1 => i - 1 \in 1..k
      BY <2>2
    <3>2. Dot(w, D[i]) = 0 /\ (i > 1 => Dot(w, D[i - 1]) = 0)
      BY <1>11, <1>15, <2>2, <3>1
    <3>3. Dot(w, R[i]) = 0
      BY <1>5, <2>2, <3>2
    <3> QED
      BY <1>11, <2>2, <3>3
  <2> QED
    BY <1>11, <2>1, <2>2
<1>16. ASSUME NEW i \in 1..(k + 1), NEW w \in Vec(n), i < k + 1,
              Dot(w, R1[i]) = 0, Dot(w, R1[i + 1]) = 0
       PROVE  Dot(w, A(D1[i])) = 0
  <2>1. i \in 1..k
    BY <1>16
  <2>2. CASE i = k
    BY <1>6, <1>11, <1>16, <2>1, <2>2
  <2>3. CASE i # k
    <3>1. i < k /\ i + 1 \in 1..k
      BY <2>1, <2>3
    <3>2. Dot(w, R[i]) = 0 /\ Dot(w, R[i + 1]) = 0
      BY <1>11, <1>16, <2>1, <3>1
    <3>3. Dot(w, A(D[i])) = 0
      BY <1>5, <2>1, <3>1, <3>2
    <3> QED
      BY <1>11, <2>1, <3>3
  <2> QED
    BY <2>2, <2>3
<1>17. History(s, k + 1, R1, D1)
  BY <1>12, <1>13, <1>14, <1>15, <1>16 DEF History, A, n
<1> QED
  BY <1>11, <1>17

\* The loop remembers its history, and there is room for Unknowns residuals.
Remembers ==
    delta # NaN =>
        /\ iter < Unknowns
        /\ pc = "iterate" =>
             \E R, D : History(system, iter + 1, R, D) /\ R[iter + 1] = r /\ D[iter + 1] = d

\* A vector that has a product with itself consists of numbers.
LEMMA NumberVector ==
    ASSUME NEW n \in Nat \ {0}, NEW v \in Vec(n), Dot(v, v) # NaN
    PROVE  v \in Field(n)
<1>1. \A i \in 1..n : v[i] # NaN
  BY DotLaws
<1>2. \A i \in 1..n : v[i] \in Numbers
  BY <1>1, ValuesHere DEF Vec
<1> QED
  BY <1>2 DEF Vec, Field

LEMMA InitRemembers == ASSUME Trains, Init PROVE Remembers
<1>1. SUFFICES ASSUME delta # NaN
               PROVE  /\ iter < Unknowns
                      /\ \E R, D : History(system, iter + 1, R, D) /\ R[iter + 1] = r /\ D[iter + 1] = d
  BY DEF Remembers
<1>2. IInv
  BY Bounds, InitIInv
<1>3. iter = 0 /\ d = r
  BY DEF Init
<1>4. r \in Vec(Unknowns) /\ delta = Dot(r, r)
  BY <1>2, Typed
<1>5. r \in Field(Unknowns)
  BY <1>1, <1>4, Size, NumberVector
<1> DEFINE h == [i \in 1..1 |-> r]
<1>6. /\ h \in [1..1 -> Field(Unknowns)] /\ h \in [1..1 -> Vec(Unknowns)] /\ h[1] = r
      /\ \A i, j \in 1..1 : ~(i < j) /\ i = 1
  BY <1>4, <1>5
<1> HIDE DEF h
<1>7. History(system, 1, h, h)
  BY <1>6 DEF History
<1>8. iter + 1 = 1 /\ iter < Unknowns
  BY <1>3, Size
<1> QED
  BY <1>3, <1>6, <1>7, <1>8

LEMMA ContinueRemembers ==
    ASSUME Trains, TInv, Remembers, Continue
    PROVE  Remembers'
<1>1. SUFFICES ASSUME delta' # NaN
               PROVE  /\ iter' < Unknowns
                      /\ \E R, D : History(system', iter' + 1, R, D) /\ R[iter' + 1] = r' /\ D[iter' + 1] = d'
  BY DEF Remembers
<1>2. pc = "iterate" /\ system' = system /\ iter' = iter + 1
  BY DEF Continue, Advance
<1>3. /\ Dot(r', r) = 0 /\ Dot(d', SvmProduct(system, d)) = 0
      /\ r' \in Vec(Unknowns) /\ d' \in Vec(Unknowns) /\ delta' = Dot(r', r') /\ delta' # 0
      /\ delta # NaN /\ Dot(r, r) # 0 /\ Dot(r', d) = 0
      /\ \A w \in Vec(Unknowns) :
           /\ Dot(w, d) = 0 => (Dot(w, r') = 0 <=> Dot(w, d') = 0)
           /\ Dot(w, r) = 0 => (Dot(w, SvmProduct(system, d)) = 0 <=> Dot(w, r') = 0)
  BY <1>1, ContinueAligns
<1>4. system \in Problems /\ iter \in Nat /\ iter + 1 \in Nat \ {0}
  <2>1. IInv
    BY DEF TInv
  <2>2. system \in Problems
    BY <2>1, Typed
  <2>3. iter \in Nat
    BY <2>1, Bounds DEF IInv, TypeOK, LoopBounds
  <2> QED
    BY <2>2, <2>3
<1>5. r' \in Field(Unknowns)
  BY <1>1, <1>3, Size, NumberVector
<1>6. PICK R, D : History(system, iter + 1, R, D) /\ R[iter + 1] = r /\ D[iter + 1] = d
  BY <1>2, <1>3 DEF Remembers
<1>7. PICK R1, D1 : /\ History(system, (iter + 1) + 1, R1, D1)
                    /\ R1[(iter + 1) + 1] = r' /\ D1[(iter + 1) + 1] = d'
  <2> DEFINE k == iter + 1
             r1 == r'
             d1 == d'
  <2>1. /\ k \in Nat \ {0} /\ History(system, k, R, D) /\ R[k] = r /\ D[k] = d
        /\ r1 \in Field(Unknowns) /\ d1 \in Vec(Unknowns)
    BY <1>3, <1>4, <1>5, <1>6
  <2>2. /\ Dot(r1, R[k]) = 0 /\ Dot(r1, D[k]) = 0 /\ Dot(d1, SvmProduct(system, D[k])) = 0
        /\ Dot(R[k], R[k]) # 0
        /\ \A w \in Vec(Unknowns) :
             /\ Dot(w, D[k]) = 0 => (Dot(w, r1) = 0 <=> Dot(w, d1) = 0)
             /\ Dot(w, R[k]) = 0 => (Dot(w, SvmProduct(system, D[k])) = 0 <=> Dot(w, r1) = 0)
    BY <1>3, <1>6
  <2> HIDE DEF k, r1, d1
  <2>3. \E R1, D1 : History(system, k + 1, R1, D1) /\ R1[k + 1] = r1 /\ D1[k + 1] = d1
    BY <1>4, <2>1, <2>2, Longer
  <2> QED
    BY <2>3 DEF k, r1, d1
<1>8. iter' < Unknowns
  <2> DEFINE n == Unknowns
  <2>0. n \in Nat \ {0}
    BY Size
  <2>1. iter < n
    BY <1>3 DEF Remembers
  <2>2. SUFFICES ASSUME iter + 1 = n PROVE FALSE
    BY <1>2, <1>4, <2>0, <2>1
  <2> HIDE DEF n
  <2>3. History(system, n + 1, R1, D1) /\ R1[n + 1] = r'
    BY <1>7, <2>2
  <2>4. /\ R1 \in [1..(n + 1) -> Field(n)]
        /\ \A i, j \in 1..(n + 1) : i < j => Dot(R1[i], R1[j]) = 0
        /\ \A i \in 1..(n + 1) : i < n + 1 => Dot(R1[i], R1[i]) # 0
    BY <2>3 DEF History, n
  <2>5. ASSUME NEW i \in 1..(n + 1), NEW j \in 1..(n + 1), i # j PROVE Dot(R1[i], R1[j]) = 0
    <3>1. R1[i] \in Vec(n) /\ R1[j] \in Vec(n)
      BY <2>4, ValuesHere DEF Field, Vec
    <3>2. Dot(R1[i], R1[j]) = Dot(R1[j], R1[i])
      BY <2>0, <3>1, DotLaws
    <3>3. i < j \/ j < i
      BY <2>0, <2>5
    <3> QED
      BY <2>4, <3>2, <3>3
  <2>6. ASSUME NEW i \in 1..(n + 1) PROVE Dot(R1[i], R1[i]) # 0
    <3>1. i < n + 1 \/ i = n + 1
      BY <2>0
    <3> QED
      BY <1>3, <2>3, <2>4, <3>1
  <2> QED
    BY <2>0, <2>4, <2>5, <2>6, Orthogonal
<1> QED
  BY <1>2, <1>7, <1>8

\* After as many iterations as there are unknowns delta cannot be a number any
\* more: the residual would be one too many, so the loop has ended before
\* unless it has divided by zero.
THEOREM ConvergesCorrect ==
    ASSUME Trains PROVE Spec => []ConvergesInTime
<1>1. Init => Remembers
  BY InitRemembers
<1>2. TInv /\ Remembers /\ [Next]_vars => Remembers'
  <2>1. SUFFICES ASSUME TInv, Remembers, [Next]_vars PROVE Remembers'
    OBVIOUS
  <2>2. CASE Converge
    <3>1. SUFFICES ASSUME delta' # NaN PROVE iter < Unknowns
      BY <2>2 DEF Converge, Remembers
    <3>2. Advance /\ IInv
      BY <2>1, <2>2 DEF Converge, TInv
    <3>3. delta # NaN
      BY <3>1, <3>2, NumberBefore
    <3> QED
      BY <2>1, <3>3 DEF Remembers
  <2>3. CASE Continue
    BY <2>1, <2>3, ContinueRemembers
  <2>4. CASE GiveUp
    BY <2>1, <2>4 DEF GiveUp, Remembers
  <2>5. CASE UNCHANGED vars
    BY <2>1, <2>5 DEF vars, Remembers
  <2> QED
    BY <2>1, <2>2, <2>3, <2>4, <2>5 DEF Next, Terminated
<1>3. TInv /\ Remembers => ConvergesInTime
  <2>1. SUFFICES ASSUME TInv, Remembers, delta # NaN PROVE ~(iter >= NumPoints - 1)
    BY DEF ConvergesInTime, IsNaN
  <2>2. iter < Unknowns /\ iter \in Nat
    BY <2>1, Bounds DEF Remembers, TInv, IInv, TypeOK, LoopBounds
  <2> QED
    BY <2>2, Size DEF Unknowns
<1> QED
  BY <1>1, <1>2, <1>3, TrainingInvariant, PTL DEF Spec
==============================================================================
