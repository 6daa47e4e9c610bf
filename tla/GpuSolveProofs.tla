--------------------------- MODULE GpuSolveProofs ---------------------------
(***************************************************************************)
(* The distributed solver implements the conjugate gradient loop, for any  *)
(* prime, problems, devices, block sizes and order of the kernels.         *)
(***************************************************************************)
EXTENDS GpuSolve, PrimeFieldProofs

----------------------------------------------------------------------------
(* The problems, the devices and who works on which feature.               *)

LEMMA ProblemParts ==
    ASSUME NEW s \in Problems
    PROVE  /\ Points(s) \in Nat /\ dept(s) \in Nat \ {0} /\ Points(s) = dept(s) + 1
           /\ Points(s) \in 1..Points(s) /\ \A i \in 1..dept(s) : i \in 1..Points(s)
           /\ NumFeatures(s) \in Nat \ {0}
           /\ \A i \in 1..Points(s) :
                /\ s.A[i] \in Vec(NumFeatures(s)) /\ DOMAIN s.A[i] = 1..NumFeatures(s)
                /\ \A f \in 1..NumFeatures(s) : s.A[i][f] \in Numbers
                /\ s.y[i] \in Numbers
           /\ \A i, j \in 1..Points(s) : s.gram[i][j] = kernel_function(s.kernel, s.A[i], s.A[j])
           /\ s.cost \in Numbers /\ s.max_iter \in Nat
<1>1. /\ s.y \in Seq({1, p - 1}) /\ Points(s) > 1 /\ NumFeatures(s) \in Nat \ {0}
      /\ s.A \in [1..Points(s) -> [1..NumFeatures(s) -> Numbers]]
      /\ s.gram = [i \in 1..Points(s) |-> [j \in 1..Points(s) |->
                        kernel_function(s.kernel, s.A[i], s.A[j])]]
      /\ s.cost \in Numbers /\ s.max_iter \in Nat
  BY ProblemsAssumption
<1>2. Points(s) \in Nat /\ DOMAIN s.y = 1..Points(s) /\ \A i \in 1..Points(s) : s.y[i] \in {1, p - 1}
  BY <1>1, LenProperties, ElementOfSeq DEF Points
<1>3. dept(s) \in Nat \ {0} /\ Points(s) = dept(s) + 1
      /\ Points(s) \in 1..Points(s) /\ \A i \in 1..dept(s) : i \in 1..Points(s)
  BY <1>1, <1>2 DEF dept
<1>4. 1 \in Numbers /\ p - 1 \in Numbers
  BY Prime DEF Numbers
<1>5. ASSUME NEW i \in 1..Points(s)
      PROVE  /\ s.A[i] \in Vec(NumFeatures(s)) /\ DOMAIN s.A[i] = 1..NumFeatures(s)
             /\ \A f \in 1..NumFeatures(s) : s.A[i][f] \in Numbers
             /\ s.y[i] \in Numbers
  <2>1. s.A[i] \in [1..NumFeatures(s) -> Numbers]
    BY <1>1
  <2>2. s.y[i] \in Numbers
    BY <1>2, <1>4
  <2> QED
    BY <2>1, <2>2, ValuesHere DEF Vec
<1>6. \A i, j \in 1..Points(s) : s.gram[i][j] = kernel_function(s.kernel, s.A[i], s.A[j])
  BY <1>1
<1> QED
  BY <1>1, <1>2, <1>3, <1>5, <1>6

LEMMA Devices ==
    ASSUME NEW s \in Problems
    PROVE  /\ select_num_used_devices(s) \in Nat \ {0} /\ select_num_used_devices(s) <= NumDevices
           /\ s.kernel # "linear" => select_num_used_devices(s) = 1
           /\ Used(s) = 1..select_num_used_devices(s) /\ 1 \in Used(s) /\ Used(s) \subseteq 1..NumDevices
<1>1. NumFeatures(s) \in Nat \ {0} /\ NumDevices \in Nat \ {0}
  BY ProblemParts, DevicesAssumption
<1>2. /\ select_num_used_devices(s) \in Nat \ {0} /\ select_num_used_devices(s) <= NumDevices
      /\ s.kernel # "linear" => select_num_used_devices(s) = 1
  BY <1>1 DEF select_num_used_devices
<1> QED
  BY <1>1, <1>2 DEF Used

\* The ends of the feature ranges, in order.
LEMMA RangeEnds ==
    ASSUME NEW m \in Nat, NEW n \in Nat \ {0}
    PROVE  /\ (0 * m) \div n = 0 /\ (n * m) \div n = m
           /\ \A k \in Nat : k * m \in Nat /\ (k * m) \div n \in Nat
           /\ \A k, l \in Nat : k <= l => (k * m) \div n <= (l * m) \div n
<1>1. (0 * m) \div n = 0
  BY 0 * m = 0, 0 \div n = 0
<1>2. (n * m) \div n = m
  <2>1. n * m = n * m + 0 /\ n * m \in Nat
    OBVIOUS
  <2> QED
    BY <2>1
<1>3. ASSUME NEW k \in Nat PROVE k * m \in Nat /\ (k * m) \div n \in Nat
  <2>1. k * m \in Nat
    OBVIOUS
  <2> QED
    BY <2>1
<1>4. ASSUME NEW k \in Nat, NEW l \in Nat, k <= l PROVE (k * m) \div n <= (l * m) \div n
  <2>1. PICK a \in Nat : a = k * m
    BY <1>3
  <2>2. PICK b \in Nat : b = l * m
    BY <1>3
  <2>3. a <= b
    <3>1. l - k \in Nat /\ (l - k) * m \in Nat /\ (l - k) * m = l * m - k * m
      BY <1>4
    <3> QED
      BY <2>1, <2>2, <3>1
  <2>4. a \div n <= b \div n
    <3> DEFINE u == a \div n
               v == b \div n
    <3>1. u \in Nat /\ v \in Nat /\ n * u <= a /\ b < n * v + n
      OBVIOUS
    <3> HIDE DEF u, v
    <3>2. ASSUME u >= v + 1 PROVE FALSE
      <4>1. u - v - 1 \in Nat /\ n * (u - v - 1) \in Nat /\ n * (u - v - 1) = n * u - n * v - n
        BY <3>1, <3>2
      <4>2. n * u \in Nat /\ n * v \in Nat
        BY <3>1
      <4> QED
        BY <2>3, <3>1, <4>1, <4>2
    <3> QED
      BY <3>1, <3>2 DEF u, v
  <2> QED
    BY <2>1, <2>2, <2>4
<1> QED
  BY <1>1, <1>2, <1>3, <1>4

\* Every feature is in the range of one device.
LEMMA OneOwner ==
    ASSUME NEW s \in Problems, NEW f \in 1..NumFeatures(s)
    PROVE  \E k \in Used(s) : \A dev \in Used(s) : f \in feature_range(s, dev) <=> dev = k
<1> DEFINE m == NumFeatures(s)
           n == select_num_used_devices(s)
           B(k) == (k * m) \div n
           S == {l \in Nat : f <= B(l) => \E k \in 1..l : B(k - 1) < f /\ f <= B(k)}
<1>1. m \in Nat \ {0} /\ n \in Nat \ {0} /\ Used(s) = 1..n
  BY ProblemParts, Devices
<1>2. f \in 1..m
  OBVIOUS
<1> HIDE DEF m, n
<1>3. /\ B(0) = 0 /\ B(n) = m /\ \A k \in Nat : B(k) \in Nat
      /\ \A k, l \in Nat : k <= l => B(k) <= B(l)
  BY <1>1, RangeEnds
<1> HIDE DEF B
<1>4. 0 \in S
  BY <1>2, <1>3
<1>5. ASSUME NEW l \in Nat, l \in S PROVE l + 1 \in S
  <2>1. ASSUME f <= B(l + 1) PROVE \E k \in 1..(l + 1) : B(k - 1) < f /\ f <= B(k)
    <3>1. CASE f <= B(l)
      BY <1>5, <3>1
    <3>2. CASE ~(f <= B(l))
      <4>1. (l + 1) - 1 = l /\ l + 1 \in 1..(l + 1) /\ B(l) \in Nat
        BY <1>3
      <4>2. B(l) < f
        BY <1>1, <1>2, <3>2, <4>1
      <4> QED
        BY <2>1, <4>1, <4>2
    <3> QED
      BY <3>1, <3>2
  <2> QED
    BY <2>1
<1> HIDE DEF S
<1>6. n \in S
  BY <1>1, <1>4, <1>5, Induction
<1>7. PICK k \in 1..n : B(k - 1) < f /\ f <= B(k)
  BY <1>1, <1>2, <1>3, <1>6 DEF S
<1>8. ASSUME NEW dev \in 1..n PROVE f \in feature_range(s, dev) <=> dev = k
  <2>1. feature_range(s, dev) = (B(dev - 1) + 1)..B(dev)
    BY DEF feature_range, B, m, n
  <2>2. B(dev - 1) \in Nat /\ B(dev) \in Nat /\ B(k - 1) \in Nat /\ B(k) \in Nat /\ dev - 1 \in Nat /\ k - 1 \in Nat
        /\ dev \in Nat /\ k \in Nat /\ f \in Nat
    BY <1>1, <1>2, <1>3
  <2>3. f \in feature_range(s, dev) <=> B(dev - 1) < f /\ f <= B(dev)
    BY <2>1, <2>2
  <2>4. dev < k => B(dev) <= B(k - 1)
    BY <1>3, <2>2
  <2>5. k < dev => B(k) <= B(dev - 1)
    BY <1>3, <2>2
  <2> QED
    BY <1>7, <2>2, <2>3, <2>4, <2>5
<1>9. k \in Used(s) /\ \A dev \in Used(s) : f \in feature_range(s, dev) <=> dev = k
  BY <1>1, <1>8
<1> QED
  BY <1>9, Zenon

----------------------------------------------------------------------------
(* What the devices contribute adds up to the kernel function.             *)

\* Numbers and the laws the kernels use.
LEMMA Shifted ==
    ASSUME NEW a \in Numbers, NEW b \in Numbers, NEW c \in Numbers
    PROVE  Minus(Plus(a, b), c) = Plus(a, Minus(b, c))
<1>1. a \in Values /\ b \in Values /\ c \in Values /\ Minus(0, 1) \in Values
  BY ValuesHere
<1> DEFINE e == Times(Minus(0, 1), c)
<1>2. e \in Values /\ Plus(a, b) \in Values
  BY <1>1, NaNLaws
<1>3. Minus(Plus(a, b), c) = Plus(Plus(a, b), e) /\ Minus(b, c) = Plus(b, e)
  BY <1>1, <1>2, TwoValues
<1> HIDE DEF e
<1> QED
  BY <1>1, <1>2, <1>3, ThreeValues

\* A sum of numbers is a number.
LEMMA SumNumber ==
    ASSUME NEW n \in Nat, NEW v \in [1..n -> Numbers]
    PROVE  v \in Vec(n) /\ Sum(v) \in Numbers
<1>1. \A i \in 1..n : v[i] \in Numbers /\ v[i] \in Values /\ v[i] # NaN
  BY ValuesHere
<1>2. v \in Vec(n)
  BY <1>1 DEF Vec
<1> QED
  BY <1>1, <1>2, SumValue, ValuesHere

\* One device.
LEMMA OneSummand ==
    ASSUME NEW v \in Vec(1)
    PROVE  Sum(v) = v[1]
<1>1. 1 \in 1..1 /\ v[1] \in Values /\ v = [i \in 1..1 |-> IF i = 1 THEN v[1] ELSE 0]
  BY DEF Vec
<1> DEFINE a == v[1]
<1>2. Sum([i \in 1..1 |-> IF i = 1 THEN a ELSE 0]) = a
  <2>1. a \in Values /\ 1 \in Nat
    BY <1>1
  <2> HIDE DEF a
  <2> QED
    BY <1>1, <2>1, SumSingle
<1> QED
  BY <1>1, <1>2

\* The part of u^T v that device dev computes.
Part(s, dev, u, v) ==
    [f \in 1..NumFeatures(s) |-> IF f \in feature_range(s, dev) THEN Times(u[f], v[f]) ELSE 0]

LEMMA PartNumbers ==
    ASSUME NEW s \in Problems, NEW dev \in Used(s),
           NEW u \in [1..NumFeatures(s) -> Numbers], NEW v \in [1..NumFeatures(s) -> Numbers]
    PROVE  /\ Part(s, dev, u, v) \in [1..NumFeatures(s) -> Numbers]
           /\ Part(s, dev, u, v) \in Vec(NumFeatures(s)) /\ Sum(Part(s, dev, u, v)) \in Numbers
           /\ KernelPart(s, dev, u, v) \in Numbers
<1>1. NumFeatures(s) \in Nat
  BY ProblemParts
<1>2. \A f \in 1..NumFeatures(s) : Times(u[f], v[f]) \in Numbers
  BY NumbersClosed
<1>3. Part(s, dev, u, v) \in [1..NumFeatures(s) -> Numbers]
  BY <1>2, ValuesHere DEF Part
<1>4. Part(s, dev, u, v) \in Vec(NumFeatures(s)) /\ Sum(Part(s, dev, u, v)) \in Numbers
  BY <1>1, <1>3, SumNumber
<1>5. KernelPart(s, dev, u, v) =
        LET t == Sum(Part(s, dev, u, v))
        IN  IF s.kernel = "linear" THEN t ELSE Times(Plus(t, 1), Plus(t, 1))
  BY DEF KernelPart, Part
<1>6. ASSUME NEW t \in Numbers PROVE Times(Plus(t, 1), Plus(t, 1)) \in Numbers
  <2>1. Plus(t, 1) \in Numbers
    BY NumbersClosed, ValuesHere
  <2> QED
    BY <2>1, NumbersClosed
<1> QED
  BY <1>3, <1>4, <1>5, <1>6

LEMMA PartsAddUp ==
    ASSUME NEW s \in Problems,
           NEW u \in [1..NumFeatures(s) -> Numbers], NEW v \in [1..NumFeatures(s) -> Numbers]
    PROVE  Sum([dev \in Used(s) |-> Sum(Part(s, dev, u, v))]) = Dot(u, v)
<1> DEFINE m == NumFeatures(s)
           n == select_num_used_devices(s)
           w == [dev \in 1..n |-> Part(s, dev, u, v)]
           uv == [f \in 1..m |-> Times(u[f], v[f])]
<1>1. m \in Nat \ {0} /\ n \in Nat \ {0} /\ Used(s) = 1..n
  BY ProblemParts, Devices
<1>2. w \in [1..n -> Vec(m)]
  BY <1>1, PartNumbers
<1>3. \A dev \in 1..n : w[dev] = Part(s, dev, u, v)
  OBVIOUS
<1>4. Sum([dev \in 1..n |-> Sum(w[dev])]) = Sum([f \in 1..m |-> Sum([dev \in 1..n |-> w[dev][f]])])
  <2> HIDE DEF w, m, n
  <2> QED
    BY <1>1, <1>2, SumExchange
<1>5. ASSUME NEW f \in 1..m PROVE Sum([dev \in 1..n |-> w[dev][f]]) = uv[f]
  <2>1. PICK k \in 1..n : \A dev \in 1..n : f \in feature_range(s, dev) <=> dev = k
    BY <1>1, OneOwner
  <2>2. Times(u[f], v[f]) \in Values
    BY NumbersClosed, ValuesHere
  <2>3. \A dev \in 1..n : w[dev][f] = IF dev = k THEN Times(u[f], v[f]) ELSE 0
    BY <2>1 DEF Part
  <2>4. [dev \in 1..n |-> w[dev][f]] = [dev \in 1..n |-> IF dev = k THEN Times(u[f], v[f]) ELSE 0]
    <3> HIDE DEF w, n
    <3> QED
      BY <2>3
  <2>5. Sum([dev \in 1..n |-> IF dev = k THEN Times(u[f], v[f]) ELSE 0]) = Times(u[f], v[f])
    <3> DEFINE a == Times(u[f], v[f])
    <3> HIDE DEF a, n
    <3>1. a \in Values /\ n \in Nat
      BY <1>1, <2>2 DEF a
    <3>2. Sum([dev \in 1..n |-> IF dev = k THEN a ELSE 0]) = a
      BY <3>1, SumSingle, Zenon
    <3> QED
      BY <3>2 DEF a
  <2> QED
    BY <2>4, <2>5
<1>6. Dot(u, v) = Sum(uv)
  BY DEF Dot
<1>7. [f \in 1..m |-> Sum([dev \in 1..n |-> w[dev][f]])] = uv
  <2> HIDE DEF w, n
  <2> QED
    BY <1>5
<1>8. [dev \in Used(s) |-> Sum(Part(s, dev, u, v))] = [dev \in 1..n |-> Sum(w[dev])]
  BY <1>1
<1> QED
  BY <1>4, <1>6, <1>7, <1>8

\* Whatever the kernel, the devices' parts of it add up to the whole: with
\* the linear one because they share the features, with the other because
\* only one device is used.
LEMMA KernelAddsUp ==
    ASSUME NEW s \in Problems,
           NEW u \in [1..NumFeatures(s) -> Numbers], NEW v \in [1..NumFeatures(s) -> Numbers]
    PROVE  Sum([dev \in Used(s) |-> KernelPart(s, dev, u, v)]) = kernel_function(s.kernel, u, v)
<1> DEFINE t(dev) == Sum(Part(s, dev, u, v))
<1>1. \A dev : KernelPart(s, dev, u, v) =
                 IF s.kernel = "linear" THEN t(dev) ELSE Times(Plus(t(dev), 1), Plus(t(dev), 1))
  BY DEF KernelPart, Part
<1>2. Sum([dev \in Used(s) |-> t(dev)]) = Dot(u, v)
  BY PartsAddUp
<1>3. CASE s.kernel = "linear"
  <2>1. [dev \in Used(s) |-> KernelPart(s, dev, u, v)] = [dev \in Used(s) |-> t(dev)]
    BY <1>1, <1>3
  <2> QED
    BY <1>2, <1>3, <2>1 DEF kernel_function
<1>4. CASE s.kernel # "linear"
  <2>1. Used(s) = 1..1 /\ 1 \in Used(s)
    BY <1>4, Devices
  <2> DEFINE a == [dev \in 1..1 |-> t(dev)]
             b == [dev \in 1..1 |-> KernelPart(s, dev, u, v)]
  <2>2. t(1) \in Values /\ KernelPart(s, 1, u, v) \in Values
    BY <2>1, PartNumbers, ValuesHere
  <2>3. a \in Vec(1) /\ b \in Vec(1)
    <3>1. \A dev \in 1..1 : dev = 1
      OBVIOUS
    <3> HIDE DEF t
    <3> QED
      BY <2>2, <3>1 DEF Vec
  <2>4. a[1] = t(1) /\ b[1] = KernelPart(s, 1, u, v)
    OBVIOUS
  <2>5. Sum(a) = t(1) /\ Sum(b) = KernelPart(s, 1, u, v)
    <3> HIDE DEF a, b
    <3> QED
      BY <2>3, <2>4, OneSummand
  <2>6. t(1) = Dot(u, v)
    BY <1>2, <2>1, <2>5
  <2>7. KernelPart(s, 1, u, v) = kernel_function(s.kernel, u, v)
    BY <1>1, <1>4, <2>6 DEF kernel_function
  <2> QED
    BY <2>1, <2>5, <2>7
<1> QED
  BY <1>3, <1>4

----------------------------------------------------------------------------
(* The matrix, its padding, and a product with it on several devices.      *)

LEMMA SystemNumbers ==
    ASSUME NEW s \in Problems
    PROVE  /\ \A i, j \in 1..Points(s) : s.gram[i][j] \in Numbers
           /\ QA_cost(s) \in Numbers
           /\ \A i \in 1..dept(s) : q(s)[i] = s.gram[i][Points(s)] /\ q(s)[i] \in Numbers
           /\ \A i \in 1..dept(s) : ReducedB(s)[i] \in Numbers
           /\ DOMAIN q(s) = 1..dept(s) /\ DOMAIN ReducedB(s) = 1..dept(s)
           /\ q(s) \in Vec(dept(s)) /\ ReducedB(s) \in Vec(dept(s)) /\ SvmOnes(s) \in Vec(dept(s))
<1>1. ASSUME NEW i \in 1..Points(s), NEW j \in 1..Points(s) PROVE s.gram[i][j] \in Numbers
  <2> DEFINE a == Dot(s.A[i], s.A[j])
  <2>1. a \in Numbers
    BY ProblemParts, DotNumber
  <2>2. s.gram[i][j] = IF s.kernel = "linear" THEN a ELSE Times(Plus(a, 1), Plus(a, 1))
    BY ProblemParts DEF kernel_function
  <2> HIDE DEF a
  <2>3. Plus(a, 1) \in Numbers
    BY <2>1, NumbersClosed, ValuesHere
  <2> QED
    BY <2>1, <2>2, <2>3, NumbersClosed
<1>2. Points(s) \in 1..Points(s) /\ s.cost \in Numbers /\ \A i \in 1..dept(s) : i \in 1..Points(s)
  BY ProblemParts
<1>3. QA_cost(s) \in Numbers
  BY <1>1, <1>2, NumbersClosed DEF QA_cost
<1>4. ASSUME NEW i \in 1..dept(s) PROVE q(s)[i] = s.gram[i][Points(s)] /\ q(s)[i] \in Numbers
  BY <1>1, <1>2 DEF q
<1>5. ASSUME NEW i \in 1..dept(s) PROVE ReducedB(s)[i] \in Numbers
  <2>1. s.y[i] \in Numbers /\ s.y[Points(s)] \in Numbers
    BY <1>2, ProblemParts
  <2> QED
    BY <2>1, NumbersClosed DEF ReducedB
<1>6. DOMAIN q(s) = 1..dept(s) /\ DOMAIN ReducedB(s) = 1..dept(s) /\ DOMAIN SvmOnes(s) = 1..dept(s)
  BY DEF q, ReducedB, SvmOnes
<1>7. q(s) \in Vec(dept(s))
  <2>1. q(s) = [i \in 1..dept(s) |-> q(s)[i]]
    BY DEF q
  <2> QED
    BY <1>4, <2>1, ValuesHere DEF Vec
<1>8. ReducedB(s) \in Vec(dept(s))
  <2>1. ReducedB(s) = [i \in 1..dept(s) |-> ReducedB(s)[i]]
    BY DEF ReducedB
  <2> QED
    BY <1>5, <2>1, ValuesHere DEF Vec
<1>9. SvmOnes(s) \in Vec(dept(s))
  BY ValuesHere DEF SvmOnes, Vec
<1> QED
  BY <1>1, <1>3, <1>4, <1>5, <1>6, <1>7, <1>8, <1>9

\* A number of blocks that covers everything, and not a block too many.
LEMMA Cover ==
    ASSUME NEW n \in Nat \ {0}, NEW b \in Nat \ {0}
    PROVE  /\ CeilDiv(n, b) \in Nat /\ CeilDiv(n, b) * b \in Nat
           /\ n <= CeilDiv(n, b) * b /\ CeilDiv(n, b) * b <= n + b
<1> DEFINE c == (n + b - 1) \div b
<1>1. n + b - 1 \in Nat
  OBVIOUS
<1>2. c \in Nat /\ b * c <= n + b - 1 /\ n + b - 1 < b * c + b
  BY <1>1
<1>3. CeilDiv(n, b) = c
  BY DEF CeilDiv
<1> HIDE DEF c
<1>4. c * b = b * c /\ c * b \in Nat
  BY <1>2
<1> QED
  BY <1>2, <1>3, <1>4

Covered(s) == CeilDiv(dept(s), boundary_size) * boundary_size

LEMMA Coverage ==
    ASSUME NEW s \in Problems
    PROVE  /\ Covered(s) \in Nat /\ dept(s) <= Covered(s)
           /\ \A i \in 1..Covered(s) : i \in Padded(s)
           /\ \A i \in 1..dept(s) : i \in 1..Covered(s) /\ i \in Padded(s)
           /\ \A i \in Padded(s) : i \in Nat /\ i >= 1 /\ (i \in 1..dept(s) <=> i <= dept(s))
<1>1. boundary_size \in Nat \ {0}
  <2>1. THREAD_BLOCK_SIZE \in Nat \ {0} /\ INTERNAL_BLOCK_SIZE \in Nat \ {0}
    BY DevicesAssumption
  <2>2. THREAD_BLOCK_SIZE * INTERNAL_BLOCK_SIZE \in Nat \ {0}
    BY <2>1
  <2> QED
    BY <2>2 DEF boundary_size
<1>2. dept(s) \in Nat \ {0}
  BY ProblemParts
<1>3. Covered(s) \in Nat /\ dept(s) <= Covered(s) /\ Covered(s) <= dept(s) + boundary_size
  BY <1>1, <1>2, Cover DEF Covered
<1> QED
  BY <1>1, <1>2, <1>3 DEF Padded

\* A vector of unknowns on a device.
Pad(s, v) == CopyTo(v, Zeros(s))

LEMMA PadIs ==
    ASSUME NEW s \in Problems, NEW v \in Vec(dept(s))
    PROVE  /\ Pad(s, v) \in [Padded(s) -> Values]
           /\ \A i \in Padded(s) : Pad(s, v)[i] = IF i <= dept(s) THEN v[i] ELSE 0
           /\ \A i \in 1..dept(s) : Pad(s, v)[i] = v[i]
<1>1. DOMAIN v = 1..dept(s) /\ \A i \in 1..dept(s) : v[i] \in Values
  BY DEF Vec
<1>2. DOMAIN Zeros(s) = Padded(s) /\ \A i \in Padded(s) : Zeros(s)[i] = 0
  BY DEF Zeros
<1>3. Pad(s, v) = [i \in Padded(s) |-> IF i \in 1..dept(s) THEN v[i] ELSE 0]
  BY <1>1, <1>2 DEF Pad, CopyTo
<1> QED
  BY <1>1, <1>3, Coverage, ValuesHere

LEMMA DevicePoints ==
    ASSUME NEW s \in Problems
    PROVE  /\ \A i \in Padded(s) : DevicePoint(s, i) \in [1..NumFeatures(s) -> Numbers]
           /\ \A i \in 1..dept(s) : DevicePoint(s, i) = s.A[i]
           /\ \A i \in 1..Points(s) : s.A[i] \in [1..NumFeatures(s) -> Numbers]
<1>1. \A i \in 1..Points(s) : s.A[i] \in [1..NumFeatures(s) -> Numbers]
  BY ProblemsAssumption
<1>2. \A i \in Padded(s) : i <= dept(s) => i \in 1..Points(s)
  BY ProblemParts, Coverage
<1>3. \A i \in 1..dept(s) : i <= dept(s)
  OBVIOUS
<1> QED
  BY <1>1, <1>2, <1>3, ValuesHere DEF DevicePoint

\* What does not depend on the features.
Fixed(s, i, j) ==
    LET temp == Minus(Minus(QA_cost(s), Pad(s, q(s))[i]), Pad(s, q(s))[j])
    IN  IF i = j THEN Plus(temp, s.cost) ELSE temp

LEMMA PartialEntries ==
    ASSUME NEW s \in Problems, NEW dev \in Used(s), NEW i \in Padded(s), NEW j \in Padded(s)
    PROVE  /\ PartialEntry(s, dev, Pad(s, q(s)), i, j)
                = Plus(KernelPart(s, dev, DevicePoint(s, i), DevicePoint(s, j)),
                       IF dev = 1 THEN Fixed(s, i, j) ELSE 0)
           /\ PartialEntry(s, dev, Pad(s, q(s)), i, j) \in Numbers /\ Fixed(s, i, j) \in Numbers
<1> DEFINE a == KernelPart(s, dev, DevicePoint(s, i), DevicePoint(s, j))
           b == QA_cost(s)
           u == Pad(s, q(s))[i]
           v == Pad(s, q(s))[j]
           c == s.cost
<1>1. a \in Numbers
  BY DevicePoints, PartNumbers
<1>2. b \in Numbers /\ c \in Numbers
  BY SystemNumbers, ProblemParts
<1>3. u \in Numbers /\ v \in Numbers
  BY SystemNumbers, PadIs, Coverage, ValuesHere
<1>4. PartialEntry(s, dev, Pad(s, q(s)), i, j) =
        IF dev # 1 THEN a
        ELSE IF i = j THEN Plus(Minus(Minus(Plus(a, b), u), v), c) ELSE Minus(Minus(Plus(a, b), u), v)
  BY DEF PartialEntry
<1>5. Fixed(s, i, j) = IF i = j THEN Plus(Minus(Minus(b, u), v), c) ELSE Minus(Minus(b, u), v)
  BY DEF Fixed
<1> HIDE DEF a, b, c, u, v
<1>6. Minus(b, u) \in Numbers /\ Minus(Minus(b, u), v) \in Numbers /\ Plus(Minus(Minus(b, u), v), c) \in Numbers
  BY <1>2, <1>3, NumbersClosed
<1>7. Minus(Minus(Plus(a, b), u), v) = Plus(a, Minus(Minus(b, u), v))
  BY <1>1, <1>2, <1>3, <1>6, Shifted
<1>8. Plus(Plus(a, Minus(Minus(b, u), v)), c) = Plus(a, Plus(Minus(Minus(b, u), v), c))
  BY <1>1, <1>2, <1>6, ThreeValues, ValuesHere
<1>9. Plus(a, 0) = a
  BY <1>1, TwoValues, ValuesHere
<1>10. PartialEntry(s, dev, Pad(s, q(s)), i, j) = Plus(a, IF dev = 1 THEN Fixed(s, i, j) ELSE 0)
  BY <1>4, <1>5, <1>7, <1>8, <1>9
<1>11. Fixed(s, i, j) \in Numbers /\ 0 \in Numbers
  BY <1>5, <1>6, ValuesHere
<1>12. Plus(a, IF dev = 1 THEN Fixed(s, i, j) ELSE 0) \in Numbers
  BY <1>1, <1>11, NumbersClosed
<1> QED
  BY <1>10, <1>11, <1>12 DEF a

\* The partial entries of the devices add up to the entry of the matrix.
LEMMA EntriesAddUp ==
    ASSUME NEW s \in Problems, NEW i \in 1..dept(s), NEW j \in 1..dept(s)
    PROVE  /\ Sum([dev \in Used(s) |-> PartialEntry(s, dev, Pad(s, q(s)), i, j)]) = Entry(s, i, j)
           /\ Entry(s, i, j) \in Numbers
<1> DEFINE n == select_num_used_devices(s)
           part == [dev \in 1..n |-> KernelPart(s, dev, s.A[i], s.A[j])]
           fixed == [dev \in 1..n |-> IF dev = 1 THEN Fixed(s, i, j) ELSE 0]
           a == s.gram[i][j]
           b == QA_cost(s)
           u == q(s)[i]
           v == q(s)[j]
           c == s.cost
<1>1. n \in Nat \ {0} /\ Used(s) = 1..n /\ 1 \in 1..n
  BY Devices
<1>2. i \in Padded(s) /\ j \in Padded(s) /\ i \in 1..Points(s) /\ j \in 1..Points(s)
  BY Coverage, ProblemParts
<1>3. DevicePoint(s, i) = s.A[i] /\ DevicePoint(s, j) = s.A[j]
      /\ s.A[i] \in [1..NumFeatures(s) -> Numbers] /\ s.A[j] \in [1..NumFeatures(s) -> Numbers]
  BY <1>2, DevicePoints
<1>4. Fixed(s, i, j) \in Numbers
  BY <1>1, <1>2, PartialEntries
<1>5. a \in Numbers /\ b \in Numbers /\ u \in Numbers /\ v \in Numbers /\ c \in Numbers
  BY <1>2, SystemNumbers, ProblemParts
<1>6. part \in Vec(n) /\ fixed \in Vec(n)
  <2>1. \A dev \in 1..n : KernelPart(s, dev, s.A[i], s.A[j]) \in Values
    BY <1>1, <1>3, PartNumbers, ValuesHere
  <2>2. \A dev \in 1..n : (IF dev = 1 THEN Fixed(s, i, j) ELSE 0) \in Values
    BY <1>4, ValuesHere
  <2> HIDE DEF n
  <2> QED
    BY <2>1, <2>2 DEF Vec
<1>7. Sum(part) = a
  <2>1. part = [dev \in Used(s) |-> KernelPart(s, dev, s.A[i], s.A[j])]
    BY <1>1
  <2>2. Sum([dev \in Used(s) |-> KernelPart(s, dev, s.A[i], s.A[j])]) = kernel_function(s.kernel, s.A[i], s.A[j])
    BY <1>3, KernelAddsUp
  <2> QED
    BY <1>2, <2>1, <2>2, ProblemParts
<1>8. Sum(fixed) = Fixed(s, i, j)
  <2> DEFINE w == Fixed(s, i, j)
  <2>1. w \in Values /\ n \in Nat
    BY <1>1, <1>4, ValuesHere
  <2> HIDE DEF w, n
  <2>2. Sum([dev \in 1..n |-> IF dev = 1 THEN w ELSE 0]) = w
    BY <1>1, <2>1, SumSingle, Zenon
  <2> QED
    BY <2>2 DEF w
<1>9. ASSUME NEW dev \in 1..n
      PROVE  PartialEntry(s, dev, Pad(s, q(s)), i, j) = Plus(part[dev], fixed[dev])
  <2>1. dev \in Used(s)
    BY <1>1
  <2>2. PartialEntry(s, dev, Pad(s, q(s)), i, j)
          = Plus(KernelPart(s, dev, DevicePoint(s, i), DevicePoint(s, j)),
                 IF dev = 1 THEN Fixed(s, i, j) ELSE 0)
    BY <1>2, <2>1, PartialEntries
  <2>3. /\ part[dev] = KernelPart(s, dev, s.A[i], s.A[j])
        /\ fixed[dev] = IF dev = 1 THEN Fixed(s, i, j) ELSE 0
    OBVIOUS
  <2> QED
    BY <1>3, <2>2, <2>3
<1>10. Sum([dev \in 1..n |-> Plus(part[dev], fixed[dev])]) = Plus(a, Fixed(s, i, j))
  <2> HIDE DEF part, fixed, n, a
  <2> QED
    BY <1>1, <1>6, <1>7, <1>8, SumPlus
<1>11. Sum([dev \in Used(s) |-> PartialEntry(s, dev, Pad(s, q(s)), i, j)]) = Plus(a, Fixed(s, i, j))
  <2>1. [dev \in Used(s) |-> PartialEntry(s, dev, Pad(s, q(s)), i, j)] = [dev \in 1..n |-> Plus(part[dev], fixed[dev])]
    <3> HIDE DEF part, fixed, n
    <3> QED
      BY <1>1, <1>9
  <2> QED
    BY <1>10, <2>1
<1>12. Pad(s, q(s))[i] = u /\ Pad(s, q(s))[j] = v
  BY SystemNumbers, PadIs
<1>13. Fixed(s, i, j) = IF i = j THEN Plus(Minus(Minus(b, u), v), c) ELSE Minus(Minus(b, u), v)
  BY <1>12 DEF Fixed
<1>14. Entry(s, i, j) = IF i = j THEN Plus(Minus(Minus(Plus(a, b), u), v), c) ELSE Minus(Minus(Plus(a, b), u), v)
  BY DEF Entry
<1> HIDE DEF a, b, c, u, v
<1>15. Minus(b, u) \in Numbers /\ Minus(Minus(b, u), v) \in Numbers /\ Plus(Minus(Minus(b, u), v), c) \in Numbers
  BY <1>5, NumbersClosed
<1>16. Minus(Minus(Plus(a, b), u), v) = Plus(a, Minus(Minus(b, u), v))
  BY <1>5, <1>15, Shifted
<1>17. Plus(Plus(a, Minus(Minus(b, u), v)), c) = Plus(a, Plus(Minus(Minus(b, u), v), c))
  BY <1>5, <1>15, ThreeValues, ValuesHere
<1>18. Entry(s, i, j) = Plus(a, Fixed(s, i, j))
  BY <1>13, <1>14, <1>16, <1>17
<1> QED
  BY <1>4, <1>5, <1>11, <1>18, NumbersClosed

\* Zeros at the end add nothing.
LEMMA TrailingZeros ==
    ASSUME NEW n \in Nat, NEW m \in Nat, n <= m, NEW v \in Vec(m),
           \A i \in 1..m : i > n => v[i] = 0
    PROVE  Sum(v) = Sum([i \in 1..n |-> v[i]])
<1> DEFINE Short(w) == [i \in 1..n |-> w[i]]
           Good(k) == \A w \in Vec(n + k) :
                        (\A i \in 1..(n + k) : i > n => w[i] = 0) => Sum(w) = Sum(Short(w))
           S == {k \in Nat : Good(k)}
<1>1. 0 \in S
  <2>1. ASSUME NEW w \in Vec(n + 0) PROVE w = Short(w)
    BY DEF Vec
  <2> QED
    BY <2>1
<1>2. ASSUME NEW k \in Nat, k \in S PROVE k + 1 \in S
  <2>1. ASSUME NEW w \in Vec(n + (k + 1)), \A i \in 1..(n + (k + 1)) : i > n => w[i] = 0
        PROVE  Sum(w) = Sum(Short(w))
    <3> DEFINE l == n + k
               u == [i \in 1..l |-> w[i]]
    <3>1. l \in Nat /\ n + (k + 1) = l + 1 /\ w \in Vec(l + 1) /\ l + 1 \in 1..(l + 1) /\ l + 1 > n
          /\ \A i \in 1..n : i \in 1..l
      OBVIOUS
    <3>2. w[l + 1] = 0
      BY <2>1, <3>1
    <3>3. u \in Vec(l) /\ Sum(w) = Plus(Sum(u), w[l + 1])
      <4> HIDE DEF l
      <4> QED
        BY <3>1, VecFront
    <3>4. Sum(u) \in Values
      <4> HIDE DEF l, u
      <4> QED
        BY <3>1, <3>3, SumValue
    <3>5. Sum(w) = Sum(u)
      BY <3>2, <3>3, <3>4, TwoValues
    <3>6. \A i \in 1..(n + k) : i > n => u[i] = 0
      BY <2>1
    <3>7. Sum(u) = Sum(Short(u))
      <4> HIDE DEF u, Short
      <4> QED
        BY <1>2, <3>3, <3>6
    <3>8. Short(u) = Short(w)
      BY <3>1
    <3> QED
      BY <3>5, <3>7, <3>8
  <2> QED
    BY <2>1
<1> HIDE DEF S
<1>3. m - n \in S /\ n + (m - n) = m
  <2>1. m - n \in Nat /\ n + (m - n) = m
    OBVIOUS
  <2> QED
    BY <1>1, <1>2, <2>1, Induction
<1> QED
  BY <1>3 DEF S

\* What device dev contributes to row i of a product with v.
Share(s, dev, v, add) ==
    [i \in 1..dept(s) |->
        Sum([j \in 1..dept(s) |-> Times(Times(PartialEntry(s, dev, Pad(s, q(s)), i, j), add), v[j])])]

\* The kernel adds the device's share to what its result buffer holds: the
\* padding changes nothing, because it is zero in v.
LEMMA KernelRow ==
    ASSUME NEW s \in Problems, NEW dev \in Used(s), NEW m \in [Padded(s) -> Values],
           NEW v \in Vec(dept(s)), NEW add \in Numbers
    PROVE  /\ SvmKernel(s, dev, Pad(s, q(s)), m, Pad(s, v), add) \in [Padded(s) -> Values]
           /\ \A i \in 1..dept(s) :
                SvmKernel(s, dev, Pad(s, q(s)), m, Pad(s, v), add)[i] = Plus(m[i], Share(s, dev, v, add)[i])
<1> DEFINE c == Covered(s)
           Entries(i) == [j \in 1..c |-> Times(Times(PartialEntry(s, dev, Pad(s, q(s)), i, j), add), Pad(s, v)[j])]
           kernel == SvmKernel(s, dev, Pad(s, q(s)), m, Pad(s, v), add)
<1>1. kernel = [i \in Padded(s) |-> IF i \in 1..c THEN Plus(m[i], Sum(Entries(i))) ELSE m[i]]
  BY DEF SvmKernel, Covered
<1>2. ASSUME NEW i \in Padded(s), NEW j \in 1..c
      PROVE  /\ Entries(i)[j] \in Values
             /\ j > dept(s) => Entries(i)[j] = 0
             /\ j <= dept(s) =>
                  Entries(i)[j] = Times(Times(PartialEntry(s, dev, Pad(s, q(s)), i, j), add), v[j])
  <2> DEFINE e == Times(PartialEntry(s, dev, Pad(s, q(s)), i, j), add)
             w == Pad(s, v)[j]
  <2>1. j \in Padded(s) /\ j \in Nat /\ dept(s) \in Nat
    BY Coverage, ProblemParts
  <2>2. e \in Numbers
    BY <2>1, PartialEntries, NumbersClosed
  <2>3. w \in Values /\ w = IF j <= dept(s) THEN v[j] ELSE 0
    BY <2>1, PadIs
  <2>4. Entries(i)[j] = Times(e, w)
    OBVIOUS
  <2> HIDE DEF e, w, Entries
  <2>5. Times(e, w) \in Values /\ Times(e, 0) = 0
    BY <2>2, <2>3, NaNLaws, ZeroTimes, ValuesHere
  <2> QED
    BY <2>1, <2>3, <2>4, <2>5 DEF e
<1>3. ASSUME NEW i \in Padded(s) PROVE Entries(i) \in Vec(c) /\ Sum(Entries(i)) \in Values
  <2>1. Entries(i) \in Vec(c)
    <3>1. Entries(i) = [j \in 1..c |-> Entries(i)[j]]
      OBVIOUS
    <3> HIDE DEF Entries
    <3> QED
      BY <1>2, <3>1 DEF Vec
  <2>2. c \in Nat
    BY Coverage
  <2> HIDE DEF Entries, c
  <2> QED
    BY <2>1, <2>2, SumValue
<1>4. ASSUME NEW i \in 1..dept(s) PROVE i \in 1..c /\ i \in Padded(s) /\ Sum(Entries(i)) = Share(s, dev, v, add)[i]
  <2>1. i \in 1..c /\ i \in Padded(s) /\ c \in Nat /\ dept(s) \in Nat /\ dept(s) <= c
    BY Coverage, ProblemParts
  <2>2. Sum(Entries(i)) = Sum([j \in 1..dept(s) |-> Entries(i)[j]])
    <3>1. \A j \in 1..c : j > dept(s) => Entries(i)[j] = 0
      BY <1>2, <2>1
    <3> HIDE DEF Entries, c
    <3> QED
      BY <1>3, <2>1, <3>1, TrailingZeros
  <2>3. \A j \in 1..dept(s) : j \in 1..c /\ j <= dept(s)
    BY <2>1
  <2>4. [j \in 1..dept(s) |-> Entries(i)[j]]
          = [j \in 1..dept(s) |-> Times(Times(PartialEntry(s, dev, Pad(s, q(s)), i, j), add), v[j])]
    <3> HIDE DEF Entries, c
    <3> QED
      BY <1>2, <2>1, <2>3
  <2> QED
    BY <2>1, <2>2, <2>4 DEF Share
<1> HIDE DEF Entries, kernel, c
<1>5. kernel \in [Padded(s) -> Values]
  <2>1. \A i \in Padded(s) : m[i] \in Values /\ Plus(m[i], Sum(Entries(i))) \in Values
    BY <1>3, NaNLaws
  <2> QED
    BY <1>1, <2>1
<1>6. \A i \in 1..dept(s) : kernel[i] = Plus(m[i], Share(s, dev, v, add)[i])
  BY <1>1, <1>4
<1> QED
  BY <1>5, <1>6 DEF kernel

\* The devices' shares add up to the row applied to v, also when v holds NaN.
LEMMA SharesAddUp ==
    ASSUME NEW s \in Problems, NEW v \in Vec(dept(s)), NEW add \in Numbers, NEW i \in 1..dept(s)
    PROVE  /\ Sum([dev \in Used(s) |-> Share(s, dev, v, add)[i]])
                = Sum([j \in 1..dept(s) |-> Times(Times(Entry(s, i, j), add), v[j])])
           /\ \A dev \in Used(s) : Share(s, dev, v, add)[i] \in Values
<1> DEFINE n == select_num_used_devices(s)
           m == dept(s)
           PE(dev, j) == PartialEntry(s, dev, Pad(s, q(s)), i, j)
           w == [dev \in 1..n |-> [j \in 1..m |-> Times(Times(PE(dev, j), add), v[j])]]
<1>1. n \in Nat \ {0} /\ Used(s) = 1..n /\ m \in Nat \ {0}
  BY Devices, ProblemParts
<1>2. \A dev \in 1..n, j \in 1..m : PE(dev, j) \in Numbers /\ PE(dev, j) \in Values
  BY <1>1, PartialEntries, Coverage, ValuesHere
<1>3. \A j \in 1..m : v[j] \in Values
  BY DEF Vec
<1>4. add \in Values
  BY ValuesHere
<1>5. \A j \in 1..m : Sum([dev \in 1..n |-> PE(dev, j)]) = Entry(s, i, j) /\ Entry(s, i, j) \in Values
  BY <1>1, EntriesAddUp, ValuesHere
<1>6. \A dev \in 1..n : Share(s, dev, v, add)[i] = Sum(w[dev])
  BY DEF Share
<1> HIDE DEF PE, n, m
<1>7. w \in [1..n -> Vec(m)]
  <2>1. \A dev \in 1..n, j \in 1..m : Times(Times(PE(dev, j), add), v[j]) \in Values
    BY <1>2, <1>3, <1>4, NaNLaws
  <2> QED
    BY <2>1 DEF Vec
<1>8. ASSUME NEW j \in 1..m
      PROVE  Sum([dev \in 1..n |-> w[dev][j]]) = Times(Times(Entry(s, i, j), add), v[j])
  <2> DEFINE a == Times(add, v[j])
             e == Entry(s, i, j)
             pe == [dev \in 1..n |-> PE(dev, j)]
  <2>1. a \in Values /\ v[j] \in Values /\ e \in Values
    BY <1>3, <1>4, <1>5, NaNLaws
  <2>2. \A b \in Values : Times(Times(b, add), v[j]) = Times(a, b)
    BY <1>4, <2>1, TwoValues, ThreeValues
  <2>3. pe \in Vec(n) /\ Sum(pe) = e
    BY <1>2, <1>5 DEF Vec
  <2>4. [dev \in 1..n |-> w[dev][j]] = [dev \in 1..n |-> Times(a, pe[dev])]
    <3>1. \A dev \in 1..n : w[dev][j] = Times(a, pe[dev])
      <4> HIDE DEF a
      <4> QED
        BY <1>2, <2>2
    <3> HIDE DEF w, pe, a
    <3> QED
      BY <3>1
  <2> HIDE DEF a, pe, e
  <2>5. Sum([dev \in 1..n |-> Times(a, pe[dev])]) = Times(a, e)
    BY <1>1, <2>1, <2>3, SumTimes
  <2> QED
    BY <2>1, <2>2, <2>4, <2>5 DEF e
<1>9. Sum([dev \in 1..n |-> Sum(w[dev])]) = Sum([j \in 1..m |-> Sum([dev \in 1..n |-> w[dev][j]])])
  <2> HIDE DEF w
  <2> QED
    BY <1>1, <1>7, SumExchange
<1>10. [dev \in Used(s) |-> Share(s, dev, v, add)[i]] = [dev \in 1..n |-> Sum(w[dev])]
  <2> HIDE DEF w
  <2> QED
    BY <1>1, <1>6
<1>11. [j \in 1..m |-> Sum([dev \in 1..n |-> w[dev][j]])] = [j \in 1..m |-> Times(Times(Entry(s, i, j), add), v[j])]
  <2> HIDE DEF w
  <2> QED
    BY <1>8
<1>12. \A dev \in Used(s) : Share(s, dev, v, add)[i] \in Values
  <2> HIDE DEF w
  <2>1. \A dev \in 1..n : w[dev] \in Vec(m)
    BY <1>7
  <2>2. \A dev \in 1..n : Sum(w[dev]) \in Values
    BY <1>1, <2>1, SumValue
  <2> QED
    BY <1>1, <1>6, <2>2
<1> QED
  BY <1>9, <1>10, <1>11, <1>12 DEF m

\* What the result buffer of a device holds before its kernel, how the kernel
\* counts, and what the buffer holds after it; v is what the matrix is
\* applied to.
Begun(s, c, dev) ==
    [i \in 1..dept(s) |-> IF c \in {"residual", "restart"} /\ dev = 1 THEN ReducedB(s)[i] ELSE 0]

Sign(c) == IF c = "product" THEN 1 ELSE Minus(0, 1)

Result(s, c, dev, v) ==
    [i \in 1..dept(s) |->
        IF c = "q" THEN KernelPart(s, dev, s.A[i], s.A[Points(s)])
        ELSE Plus(Begun(s, c, dev)[i], Share(s, dev, v, Sign(c))[i])]

\* What a product is for.
Total(s, c, v) ==
    CASE c = "q" -> q(s) [] c = "product" -> SvmProduct(s, v) [] OTHER -> SvmResidual(s, v)

LEMMA ResultsAddUp ==
    ASSUME NEW s \in Problems, NEW c \in Products, NEW v \in Vec(dept(s))
    PROVE  /\ \A dev \in Used(s) : Result(s, c, dev, v) \in Vec(dept(s))
           /\ [i \in 1..dept(s) |-> Sum([dev \in Used(s) |-> Result(s, c, dev, v)[i]])] = Total(s, c, v)
           /\ Total(s, c, v) \in Vec(dept(s))
<1> DEFINE n == select_num_used_devices(s)
           Added(i) == Sum([dev \in Used(s) |-> Result(s, c, dev, v)[i]])
<1>1. n \in Nat \ {0} /\ Used(s) = 1..n /\ dept(s) \in Nat \ {0} /\ 1 \in 1..n
  BY Devices, ProblemParts
<1>2. Sign(c) \in Numbers
  BY ValuesHere DEF Sign
<1>3. ASSUME NEW i \in 1..dept(s), NEW dev \in Used(s) PROVE Result(s, c, dev, v)[i] \in Values
  <2>1. CASE c = "q"
    <3>1. i \in 1..Points(s) /\ Points(s) \in 1..Points(s)
      BY ProblemParts
    <3>2. KernelPart(s, dev, s.A[i], s.A[Points(s)]) \in Values
      BY <3>1, DevicePoints, PartNumbers, ValuesHere
    <3> QED
      BY <2>1, <3>2 DEF Result
  <2>2. CASE c # "q"
    <3>1. Begun(s, c, dev)[i] \in Values
      BY SystemNumbers, ValuesHere DEF Begun
    <3>2. Share(s, dev, v, Sign(c))[i] \in Values
      BY <1>2, SharesAddUp
    <3>3. Plus(Begun(s, c, dev)[i], Share(s, dev, v, Sign(c))[i]) \in Values
      BY <3>1, <3>2, NaNLaws
    <3> QED
      BY <2>2, <3>3 DEF Result
  <2> QED
    BY <2>1, <2>2
<1>4. ASSUME NEW dev \in Used(s) PROVE Result(s, c, dev, v) \in Vec(dept(s))
  <2>1. Result(s, c, dev, v) = [i \in 1..dept(s) |-> Result(s, c, dev, v)[i]]
    BY DEF Result
  <2> QED
    BY <1>3, <2>1 DEF Vec
<1>5. CASE c = "q"
  <2>1. ASSUME NEW i \in 1..dept(s) PROVE Added(i) = q(s)[i]
    <3>1. i \in 1..Points(s) /\ Points(s) \in 1..Points(s)
      BY ProblemParts
    <3>2. s.A[i] \in [1..NumFeatures(s) -> Numbers] /\ s.A[Points(s)] \in [1..NumFeatures(s) -> Numbers]
      BY <3>1, DevicePoints
    <3>3. Sum([dev \in Used(s) |-> KernelPart(s, dev, s.A[i], s.A[Points(s)])])
            = kernel_function(s.kernel, s.A[i], s.A[Points(s)])
      BY <3>2, KernelAddsUp
    <3>4. kernel_function(s.kernel, s.A[i], s.A[Points(s)]) = q(s)[i]
      BY <3>1, ProblemParts, SystemNumbers
    <3>5. [dev \in Used(s) |-> Result(s, c, dev, v)[i]]
            = [dev \in Used(s) |-> KernelPart(s, dev, s.A[i], s.A[Points(s)])]
      BY <1>5 DEF Result
    <3> QED
      BY <3>3, <3>4, <3>5
  <2>2. Total(s, c, v) = q(s) /\ q(s) = [i \in 1..dept(s) |-> q(s)[i]] /\ q(s) \in Vec(dept(s))
    BY <1>5, SystemNumbers DEF Total, q
  <2> HIDE DEF Added
  <2>3. [i \in 1..dept(s) |-> Added(i)] = [i \in 1..dept(s) |-> q(s)[i]]
    BY <2>1
  <2> QED
    BY <1>4, <2>2, <2>3 DEF Added
<1>6. CASE c # "q"
  <2> DEFINE b == IF c = "product" THEN [i \in 1..dept(s) |-> 0] ELSE ReducedB(s)
             t(i) == Sum([j \in 1..dept(s) |-> Times(Times(Entry(s, i, j), Sign(c)), v[j])])
  <2>1. ASSUME NEW i \in 1..dept(s)
        PROVE  Added(i) = Plus(b[i], t(i)) /\ b[i] \in Values /\ t(i) \in Values
    <3> DEFINE begun == [dev \in 1..n |-> Begun(s, c, dev)[i]]
               share == [dev \in 1..n |-> Share(s, dev, v, Sign(c))[i]]
    <3>1. begun \in Vec(n) /\ share \in Vec(n)
      <4>1. \A dev \in 1..n : Begun(s, c, dev)[i] \in Values
        BY SystemNumbers, ValuesHere DEF Begun
      <4>2. \A dev \in 1..n : Share(s, dev, v, Sign(c))[i] \in Values
        BY <1>1, <1>2, SharesAddUp
      <4> QED
        BY <4>1, <4>2 DEF Vec
    <3>2. Sum(share) = t(i)
      <4>1. share = [dev \in Used(s) |-> Share(s, dev, v, Sign(c))[i]]
        BY <1>1
      <4>2. Sum([dev \in Used(s) |-> Share(s, dev, v, Sign(c))[i]]) = t(i)
        BY <1>2, SharesAddUp
      <4> HIDE DEF share, t
      <4> QED
        BY <4>1, <4>2
    <3>3. b[i] \in Values
      BY SystemNumbers, ValuesHere
    <3>4. Sum(begun) = b[i]
      <4>1. CASE c = "product"
        <5>1. begun = [dev \in 1..n |-> 0]
          BY <4>1 DEF Begun
        <5>2. Sum([dev \in 1..n |-> 0]) = 0
          BY <1>1, SumZeros
        <5> QED
          BY <4>1, <5>1, <5>2
      <4>2. CASE c # "product"
        <5>1. c \in {"residual", "restart"} /\ b[i] = ReducedB(s)[i]
          BY <1>6, <4>2 DEF Products
        <5>2. begun = [dev \in 1..n |-> IF dev = 1 THEN b[i] ELSE 0]
          <6>1. \A dev \in 1..n : Begun(s, c, dev)[i] = IF dev = 1 THEN b[i] ELSE 0
            BY <5>1 DEF Begun
          <6> HIDE DEF b, n
          <6> QED
            BY <6>1
        <5>3. Sum([dev \in 1..n |-> IF dev = 1 THEN b[i] ELSE 0]) = b[i]
          <6> DEFINE a == b[i]
          <6>1. a \in Values /\ n \in Nat
            BY <1>1, <3>3
          <6> HIDE DEF a, n
          <6>2. Sum([dev \in 1..n |-> IF dev = 1 THEN a ELSE 0]) = a
            BY <1>1, <6>1, SumSingle, Zenon
          <6> QED
            BY <6>2 DEF a
        <5> QED
          BY <5>2, <5>3
      <4> QED
        BY <4>1, <4>2
    <3>5. [dev \in Used(s) |-> Result(s, c, dev, v)[i]] = [dev \in 1..n |-> Plus(begun[dev], share[dev])]
      BY <1>1, <1>6 DEF Result
    <3>6. Sum([dev \in 1..n |-> Plus(begun[dev], share[dev])]) = Plus(Sum(begun), Sum(share))
      <4> HIDE DEF begun, share, n
      <4> QED
        BY <1>1, <3>1, SumPlus
    <3>7. Sum(share) \in Values
      <4> HIDE DEF begun, share, n
      <4> QED
        BY <1>1, <3>1, SumValue
    <3> QED
      BY <3>2, <3>3, <3>4, <3>5, <3>6, <3>7
  <2>2. Total(s, c, v) = [i \in 1..dept(s) |-> Plus(b[i], t(i))]
    BY <1>6 DEF Total, SvmProduct, SvmResidual, device_kernel, Sign
  <2> HIDE DEF Added, b, t
  <2>3. [i \in 1..dept(s) |-> Added(i)] = Total(s, c, v)
    BY <2>1, <2>2
  <2>4. Total(s, c, v) \in Vec(dept(s))
    <3>1. \A i \in 1..dept(s) : Plus(b[i], t(i)) \in Values
      BY <2>1, NaNLaws
    <3> QED
      BY <2>2, <3>1 DEF Vec
  <2> QED
    BY <1>4, <2>3, <2>4 DEF Added
<1> QED
  BY <1>5, <1>6

\* The kernel of q, one thread for each point and maybe some for the padding.
LEMMA QKernelRow ==
    ASSUME NEW s \in Problems, NEW dev \in Used(s), NEW m \in [Padded(s) -> Values]
    PROVE  /\ QKernel(s, dev, m) \in [Padded(s) -> Values]
           /\ \A i \in 1..dept(s) : QKernel(s, dev, m)[i] = KernelPart(s, dev, s.A[i], s.A[Points(s)])
<1> DEFINE b == THREAD_BLOCK_SIZE
           k == dept(s)
           block == IF k < b THEN k ELSE b
           threads == CeilDiv(k, b) * block
<1>1. b \in Nat \ {0} /\ k \in Nat \ {0}
  BY DevicesAssumption, ProblemParts
<1>2. k <= threads /\ threads \in Nat
  <2>1. CASE k < b
    <3>1. (k + b - 1) \div b = 1
      <4>1. k + b - 1 = b * 1 + (k - 1) /\ 0 <= k - 1 /\ k - 1 < b
        BY <1>1, <2>1
      <4> QED
        BY <1>1, <4>1
    <3>2. CeilDiv(k, b) = 1
      BY <3>1 DEF CeilDiv
    <3> HIDE DEF b, k
    <3> QED
      BY <1>1, <2>1, <3>2
  <2>2. CASE ~(k < b)
    <3>1. threads = CeilDiv(k, b) * b
      BY <2>2
    <3> HIDE DEF b, k, threads
    <3> QED
      BY <1>1, <3>1, Cover
  <2> QED
    BY <2>1, <2>2
<1>3. QKernel(s, dev, m) =
        [i \in Padded(s) |-> IF i <= threads THEN KernelPart(s, dev, DevicePoint(s, i), s.A[Points(s)]) ELSE m[i]]
  BY DEF QKernel
<1> HIDE DEF threads
<1>4. ASSUME NEW i \in Padded(s)
      PROVE  KernelPart(s, dev, DevicePoint(s, i), s.A[Points(s)]) \in Values
  BY DevicePoints, ProblemParts, PartNumbers, ValuesHere
<1>5. QKernel(s, dev, m) \in [Padded(s) -> Values]
  BY <1>3, <1>4
<1>6. ASSUME NEW i \in 1..dept(s)
      PROVE  QKernel(s, dev, m)[i] = KernelPart(s, dev, s.A[i], s.A[Points(s)])
  <2>1. i \in Padded(s) /\ i <= threads
    BY <1>1, <1>2, Coverage
  <2> QED
    BY <1>3, <2>1, DevicePoints
<1> QED
  BY <1>5, <1>6

----------------------------------------------------------------------------
(* What is in which buffer when.                                           *)

Buffers == {"q_d", "r_d", "x_d", "Ad_d"}
Memory(s) == [Buffers -> [Used(s) -> [Padded(s) -> Values]]]

\* The vector at the begin of a buffer, whatever is behind it.
Holds(s, m, v) == \A i \in 1..dept(s) : m[i] = v[i]

\* What the product at work applies the matrix to.
Operand == IF pc = "product" THEN d ELSE x

TypeInv ==
    /\ system \in Problems
    /\ pc \in Products \cup {"loop", "update", "done", "undefined"}
    /\ mem \in Memory(system)
    /\ x \in Vec(dept(system)) /\ iter \in Nat
    /\ pc \notin {"q", "residual"} =>
         r \in Vec(dept(system)) /\ d \in Vec(dept(system)) /\ delta \in Values

\* Before the loop, with the start vector.
SetupInv ==
    /\ pc \in {"q", "residual"} => x = SvmOnes(system) /\ first = SvmResidual(system, x)
    /\ pc = "residual" => q_host = q(system)

\* Launches precede kernels, and kernels what is gathered.
StageInv ==
    /\ pc \in Products =>
         /\ todo \subseteq 1..NumDevices /\ (pc # "restart" => todo \subseteq Used(system))
         /\ running \subseteq Used(system) \ todo
         /\ gathered \in 0..select_num_used_devices(system)
         /\ gathered # 0 => todo = {} /\ \A dev \in 1..gathered : dev \notin running
    /\ pc \in {"loop", "update", "done"} => running = {}

\* A device with a launched kernel has q and x, and zeros behind them.
LoadedInv ==
    pc # "q" =>
        \A dev \in Used(system) :
            pc # "residual" \/ dev \notin todo =>
                mem["q_d"][dev] = Pad(system, q(system)) /\ mem["x_d"][dev] = Pad(system, x)

\* d is in r_d of every device; for a product there are zeros behind it.
DirectionInv ==
    pc \in {"loop", "product"} =>
        \A dev \in Used(system) :
            /\ Holds(system, mem["r_d"][dev], d)
            /\ pc = "product" /\ dev \notin todo => mem["r_d"][dev] = Pad(system, d)

\* Result buffers are prepared by the launch and right after the kernel.
ResultInv ==
    pc \in Products =>
        \A dev \in Used(system) \ todo :
            Holds(system, mem[Out(pc)][dev],
                  IF dev \in running THEN Begun(system, pc, dev) ELSE Result(system, pc, dev, Operand))

\* The host has the sum of the results it has read.
SumInv ==
    pc \in Products /\ gathered # 0 =>
        buffer = [i \in 1..dept(system) |->
                     Sum([dev \in 1..gathered |-> Result(system, pc, dev, Operand)[i]])]

\* Within an iteration: the step has been made and is not shown yet.
StepInv ==
    /\ pc \in {"product", "update", "restart"} => iter < SvmMaxIter(system)
    /\ pc \in {"update", "restart"} =>
         x = VecAdd(x_before, VecScale(Over(delta, Dot(d, SvmProduct(system, d))), d))
    /\ pc = "update" => buffer = SvmProduct(system, d) /\ ~Restarts
    /\ pc = "restart" => Restarts

IInv ==
    /\ TypeInv /\ SetupInv /\ StageInv /\ LoadedInv /\ DirectionInv /\ ResultInv /\ SumInv /\ StepInv

----------------------------------------------------------------------------
(* Writing to buffers.                                                     *)

LEMMA MemoryIs ==
    ASSUME NEW s, NEW m \in Memory(s)
    PROVE  \A b \in Buffers, dev \in Used(s) :
             m[b] \in [Used(s) -> [Padded(s) -> Values]] /\ m[b][dev] \in [Padded(s) -> Values]
  BY DEF Memory

\* One buffer of one device.
LEMMA Written ==
    ASSUME NEW s, NEW m \in Memory(s), NEW b \in Buffers, NEW dev \in Used(s), NEW v \in [Padded(s) -> Values]
    PROVE  /\ [m EXCEPT ![b][dev] = v] \in Memory(s)
           /\ [m EXCEPT ![b][dev] = v][b][dev] = v
           /\ \A c \in Buffers, k \in Used(s) :
                c # b \/ k # dev => [m EXCEPT ![b][dev] = v][c][k] = m[c][k]
  BY DEF Memory

\* One buffer of every device.
LEMMA WrittenAll ==
    ASSUME NEW s, NEW m \in Memory(s), NEW b \in Buffers, NEW w \in [Used(s) -> [Padded(s) -> Values]]
    PROVE  /\ [m EXCEPT ![b] = w] \in Memory(s)
           /\ \A dev \in Used(s) : [m EXCEPT ![b] = w][b][dev] = w[dev]
           /\ \A c \in Buffers : c # b => [m EXCEPT ![b] = w][c] = m[c]
  BY DEF Memory

LEMMA ZerosAre ==
    ASSUME NEW s \in Problems
    PROVE  /\ Zeros(s) \in [Padded(s) -> Values] /\ DOMAIN Zeros(s) = Padded(s)
           /\ \A i \in 1..dept(s) : Zeros(s)[i] = 0
  BY Coverage, ValuesHere DEF Zeros

\* copy_to_device changes the begin of a buffer only.
LEMMA Copied ==
    ASSUME NEW s \in Problems, NEW v \in Vec(dept(s)), NEW m \in [Padded(s) -> Values]
    PROVE  /\ CopyTo(v, m) \in [Padded(s) -> Values] /\ Holds(s, CopyTo(v, m), v)
           /\ \A u \in Vec(dept(s)) : m = Pad(s, u) => CopyTo(v, m) = Pad(s, v)
           /\ \A u \in Vec(dept(s)) : Holds(s, m, u) => ClearPadding(s, m) = Pad(s, u)
<1>1. DOMAIN v = 1..dept(s) /\ DOMAIN m = Padded(s)
  BY DEF Vec
<1>2. \A i \in 1..dept(s) : v[i] \in Values
  BY DEF Vec
<1>3. CopyTo(v, m) = [i \in Padded(s) |-> IF i \in 1..dept(s) THEN v[i] ELSE m[i]]
  BY <1>1 DEF CopyTo
<1>4. CopyTo(v, m) \in [Padded(s) -> Values]
  BY <1>2, <1>3
<1>5. Holds(s, CopyTo(v, m), v)
  BY <1>3, Coverage DEF Holds
<1>6. ASSUME NEW u \in Vec(dept(s))
      PROVE  /\ Pad(s, u) = [i \in Padded(s) |-> IF i \in 1..dept(s) THEN u[i] ELSE 0]
  BY ZerosAre DEF Pad, CopyTo, Zeros, Vec
<1>7. ASSUME NEW u \in Vec(dept(s)), m = Pad(s, u) PROVE CopyTo(v, m) = Pad(s, v)
  <2>1. \A i \in Padded(s) : i \notin 1..dept(s) => m[i] = 0
    BY <1>6, <1>7
  <2>2. Pad(s, v) = [i \in Padded(s) |-> IF i \in 1..dept(s) THEN v[i] ELSE 0]
    BY <1>6
  <2> QED
    BY <1>3, <2>1, <2>2
<1>8. ASSUME NEW u \in Vec(dept(s)), Holds(s, m, u) PROVE ClearPadding(s, m) = Pad(s, u)
  <2>1. ClearPadding(s, m) = [i \in Padded(s) |-> IF i > dept(s) THEN 0 ELSE m[i]]
    BY <1>1 DEF ClearPadding
  <2>2. \A i \in Padded(s) : i \in 1..dept(s) <=> ~(i > dept(s))
    BY Coverage, ProblemParts
  <2>3. \A i \in 1..dept(s) : m[i] = u[i]
    BY <1>8 DEF Holds
  <2>4. Pad(s, u) = [i \in Padded(s) |-> IF i \in 1..dept(s) THEN u[i] ELSE 0]
    BY <1>6
  <2> QED
    BY <2>1, <2>2, <2>3, <2>4
<1> QED
  BY <1>4, <1>5, <1>7, <1>8

----------------------------------------------------------------------------
(* The parallel loop and the kernels.                                      *)

LEMMA OverValue ==
    ASSUME NEW a \in Values, NEW b \in Values
    PROVE  Over(a, b) \in Values
<1>1. CASE a \in Numbers /\ b \in Numbers \ {0}
  BY <1>1, Division, ValuesHere
<1>2. CASE a \in Numbers /\ b = 0
  BY <1>2, Operations, ValuesHere
<1>3. CASE a = NaN \/ b = NaN
  BY <1>3, Operations, ValuesHere
<1> QED
  BY <1>1, <1>2, <1>3, ValuesHere

\* What the iteration of the parallel loop leaves in the buffers.
LEMMA PreparedIs ==
    ASSUME IInv, pc \in Products, NEW dev \in todo \cap Used(system)
    PROVE  /\ Prepared(dev) \in Memory(system)
           /\ \A b \in Buffers, k \in Used(system) : k # dev => Prepared(dev)[b][k] = mem[b][k]
           /\ Holds(system, Prepared(dev)[Out(pc)][dev], Begun(system, pc, dev))
           /\ pc # "q" => /\ Prepared(dev)["q_d"][dev] = Pad(system, q(system))
                          /\ Prepared(dev)["x_d"][dev] = Pad(system, x)
           /\ pc = "product" => Prepared(dev)["r_d"][dev] = Pad(system, d)
<1> DEFINE s == system
<1>1. s \in Problems /\ mem \in Memory(s) /\ dev \in Used(s) /\ x \in Vec(dept(s))
  BY DEF IInv, TypeInv
<1>2. q(s) \in Vec(dept(s)) /\ ReducedB(s) \in Vec(dept(s)) /\ Zeros(s) \in [Padded(s) -> Values]
      /\ \A i \in 1..dept(s) : Zeros(s)[i] = 0
  BY <1>1, SystemNumbers, ZerosAre
<1>3. \A b \in Buffers, k \in Used(s) : mem[b][k] \in [Padded(s) -> Values]
  BY <1>1, MemoryIs
<1>4. \A v \in Vec(dept(s)) : Pad(s, v) \in [Padded(s) -> Values]
  BY <1>1, PadIs
<1>5. {"q_d", "r_d", "x_d", "Ad_d"} = Buffers
  BY DEF Buffers
<1>6. CASE pc = "q"
  <2> DEFINE m1 == [mem EXCEPT !["q_d"][dev] = Zeros(s)]
  <2>1. Prepared(dev) = m1
    BY <1>6 DEF Prepared
  <2>2. Holds(s, Zeros(s), Begun(s, pc, dev))
    BY <1>2, <1>6 DEF Holds, Begun
  <2>3. Out(pc) = "q_d" /\ "q_d" \in Buffers
    BY <1>6 DEF Out, Buffers
  <2>4. /\ m1 \in Memory(s) /\ m1["q_d"][dev] = Zeros(s)
        /\ \A c \in Buffers, k \in Used(s) : c # "q_d" \/ k # dev => m1[c][k] = mem[c][k]
    BY <1>1, <1>2, <2>3, Written
  <2> HIDE DEF m1
  <2> QED
    BY <1>1, <1>6, <2>1, <2>2, <2>3, <2>4
<1>7. CASE pc = "residual"
  <2> DEFINE b == IF dev = 1 THEN CopyTo(ReducedB(s), Zeros(s)) ELSE Zeros(s)
             m1 == [mem EXCEPT !["q_d"][dev] = Pad(s, q(s))]
             m2 == [m1 EXCEPT !["x_d"][dev] = Pad(s, x)]
             m3 == [m2 EXCEPT !["r_d"][dev] = b]
  <2>1. q_host = q(s)
    BY <1>7 DEF IInv, SetupInv
  <2>2. Prepared(dev) = m3
    BY <1>7, <2>1 DEF Prepared, Pad
  <2>3. b \in [Padded(s) -> Values] /\ Holds(s, b, Begun(s, pc, dev))
    <3>1. CopyTo(ReducedB(s), Zeros(s)) \in [Padded(s) -> Values]
          /\ Holds(s, CopyTo(ReducedB(s), Zeros(s)), ReducedB(s))
      BY <1>1, <1>2, Copied
    <3> QED
      BY <1>2, <1>7, <3>1 DEF Holds, Begun
  <2>4. Pad(s, q(s)) \in [Padded(s) -> Values] /\ Pad(s, x) \in [Padded(s) -> Values]
    BY <1>1, <1>2, <1>4
  <2>5. "q_d" \in Buffers /\ "x_d" \in Buffers /\ "r_d" \in Buffers /\ Out(pc) = "r_d"
    BY <1>7 DEF Buffers, Out
  <2> HIDE DEF b, s
  <2>6. /\ m1 \in Memory(s) /\ m1["q_d"][dev] = Pad(s, q(s))
        /\ \A c \in Buffers, k \in Used(s) : c # "q_d" \/ k # dev => m1[c][k] = mem[c][k]
    BY <1>1, <2>4, <2>5, Written
  <2> HIDE DEF m1
  <2>7. /\ m2 \in Memory(s) /\ m2["x_d"][dev] = Pad(s, x)
        /\ \A c \in Buffers, k \in Used(s) : c # "x_d" \/ k # dev => m2[c][k] = m1[c][k]
    BY <1>1, <2>4, <2>5, <2>6, Written
  <2> HIDE DEF m2
  <2>8. /\ m3 \in Memory(s) /\ m3["r_d"][dev] = b
        /\ \A c \in Buffers, k \in Used(s) : c # "r_d" \/ k # dev => m3[c][k] = m2[c][k]
    BY <1>1, <2>3, <2>5, <2>7, Written
  <2> HIDE DEF m3
  <2>9. m3["q_d"][dev] = Pad(s, q(s)) /\ m3["x_d"][dev] = Pad(s, x)
    BY <1>1, <2>5, <2>6, <2>7, <2>8
  <2>10. \A c \in Buffers, k \in Used(s) : k # dev => m3[c][k] = mem[c][k]
    BY <2>6, <2>7, <2>8
  <2> QED
    BY <1>7, <2>2, <2>3, <2>5, <2>8, <2>9, <2>10 DEF s
<1>8. CASE pc = "product"
  <2> DEFINE v == ClearPadding(s, mem["r_d"][dev])
             m1 == [mem EXCEPT !["Ad_d"][dev] = Zeros(s)]
             m2 == [m1 EXCEPT !["r_d"][dev] = v]
  <2>1. /\ mem["q_d"][dev] = Pad(s, q(s)) /\ mem["x_d"][dev] = Pad(s, x)
        /\ Holds(s, mem["r_d"][dev], d) /\ d \in Vec(dept(s))
    BY <1>1, <1>8 DEF IInv, TypeInv, LoadedInv, DirectionInv
  <2>2. "q_d" \in Buffers /\ "x_d" \in Buffers /\ "r_d" \in Buffers /\ "Ad_d" \in Buffers /\ Out(pc) = "Ad_d"
    BY <1>8 DEF Buffers, Out
  <2>3. v = Pad(s, d)
    BY <1>1, <1>3, <2>1, <2>2, Copied
  <2>4. Prepared(dev) = m2
    <3>1. Prepared(dev) = [mem EXCEPT !["Ad_d"][dev] = Zeros(s), !["r_d"][dev] = ClearPadding(s, @)]
      BY <1>8 DEF Prepared
    <3>2. m1["r_d"][dev] = mem["r_d"][dev]
      BY <1>1, <1>2, <2>2, Written
    <3> QED
      BY <3>1, <3>2
  <2> HIDE DEF v, s
  <2>5. /\ m1 \in Memory(s) /\ m1["Ad_d"][dev] = Zeros(s)
        /\ \A c \in Buffers, k \in Used(s) : c # "Ad_d" \/ k # dev => m1[c][k] = mem[c][k]
    BY <1>1, <1>2, <2>2, Written
  <2> HIDE DEF m1
  <2>6. /\ m2 \in Memory(s) /\ m2["r_d"][dev] = v
        /\ \A c \in Buffers, k \in Used(s) : c # "r_d" \/ k # dev => m2[c][k] = m1[c][k]
    <3>1. v \in [Padded(s) -> Values]
      BY <1>4, <2>1, <2>3
    <3> QED
      BY <1>1, <2>2, <2>5, <3>1, Written
  <2> HIDE DEF m2
  <2>7. m2["Ad_d"][dev] = Zeros(s) /\ m2["q_d"][dev] = mem["q_d"][dev] /\ m2["x_d"][dev] = mem["x_d"][dev]
    BY <1>1, <2>2, <2>5, <2>6
  <2>8. Holds(s, Zeros(s), Begun(s, pc, dev))
    BY <1>2, <1>8 DEF Holds, Begun
  <2>9. \A c \in Buffers, k \in Used(s) : k # dev => m2[c][k] = mem[c][k]
    BY <2>5, <2>6
  <2> QED
    BY <2>1, <2>2, <2>3, <2>4, <2>6, <2>7, <2>8, <2>9 DEF s
<1>9. CASE pc = "restart"
  <2> DEFINE b == IF dev = 1 THEN CopyTo(ReducedB(s), mem["r_d"][dev]) ELSE Zeros(s)
             m1 == [mem EXCEPT !["r_d"][dev] = b]
  <2>1. Prepared(dev) = m1
    BY <1>9 DEF Prepared
  <2>2. mem["q_d"][dev] = Pad(s, q(s)) /\ mem["x_d"][dev] = Pad(s, x)
    BY <1>1, <1>9 DEF IInv, LoadedInv
  <2>3. "q_d" \in Buffers /\ "x_d" \in Buffers /\ "r_d" \in Buffers /\ Out(pc) = "r_d"
    BY <1>9 DEF Buffers, Out
  <2>4. b \in [Padded(s) -> Values] /\ Holds(s, b, Begun(s, pc, dev))
    <3>1. CopyTo(ReducedB(s), mem["r_d"][dev]) \in [Padded(s) -> Values]
          /\ Holds(s, CopyTo(ReducedB(s), mem["r_d"][dev]), ReducedB(s))
      BY <1>1, <1>2, <1>3, <2>3, Copied
    <3> QED
      BY <1>2, <1>9, <3>1 DEF Holds, Begun
  <2> HIDE DEF b, s
  <2>5. /\ m1 \in Memory(s) /\ m1["r_d"][dev] = b
        /\ \A c \in Buffers, k \in Used(s) : c # "r_d" \/ k # dev => m1[c][k] = mem[c][k]
    BY <1>1, <2>3, <2>4, Written
  <2> HIDE DEF m1
  <2> QED
    BY <1>1, <1>9, <2>1, <2>2, <2>3, <2>4, <2>5 DEF s
<1> QED
  BY <1>6, <1>7, <1>8, <1>9 DEF Products

LEMMA LaunchKeeps ==
    ASSUME IInv, NEW dev \in 1..NumDevices, Launch(dev)
    PROVE  IInv'
<1>1. /\ pc \in Products /\ dev \in todo \cap Used(system) /\ mem' = Prepared(dev)
      /\ todo' = todo \ {dev} /\ running' = running \cup {dev}
      /\ UNCHANGED <<system, pc, gathered, buffer, q_host, x, r, d, delta, delta0, iter, x_before, first>>
  BY DEF Launch, host
<1>2. /\ system \in Problems /\ mem' \in Memory(system)
      /\ \A b \in Buffers, k \in Used(system) : k # dev => mem'[b][k] = mem[b][k]
      /\ Holds(system, mem'[Out(pc)][dev], Begun(system, pc, dev))
      /\ pc # "q" => /\ mem'["q_d"][dev] = Pad(system, q(system))
                     /\ mem'["x_d"][dev] = Pad(system, x)
      /\ pc = "product" => mem'["r_d"][dev] = Pad(system, d)
  BY <1>1, PreparedIs DEF IInv, TypeInv
<1>3. gathered = 0
  BY <1>1 DEF IInv, StageInv
<1>4. Out(pc) \in Buffers /\ "q_d" \in Buffers /\ "x_d" \in Buffers /\ "r_d" \in Buffers
  BY <1>1 DEF Out, Buffers, Products
<1>5. TypeInv' /\ SetupInv' /\ StepInv'
  BY <1>1, <1>2 DEF IInv, TypeInv, SetupInv, StepInv, Restarts
<1>6. StageInv'
  <2>1. running' \subseteq Used(system) \ todo'
    BY <1>1 DEF IInv, StageInv
  <2>2. todo' \subseteq todo
    BY <1>1
  <2>3. pc \notin {"loop", "update", "done"}
    BY <1>1 DEF Products
  <2> QED
    BY <1>1, <1>3, <2>1, <2>2, <2>3 DEF IInv, StageInv
<1>7. LoadedInv'
  BY <1>1, <1>2, <1>4 DEF IInv, LoadedInv
<1>8. DirectionInv'
  <2>1. ASSUME pc = "product" PROVE Holds(system, mem'["r_d"][dev], d)
    <3>1. d \in Vec(dept(system))
      BY <2>1 DEF IInv, TypeInv
    <3> QED
      BY <1>2, <2>1, <3>1, PadIs DEF Holds
  <2>2. pc # "loop"
    BY <1>1 DEF Products
  <2> QED
    BY <1>1, <1>2, <1>4, <2>1, <2>2 DEF IInv, DirectionInv
<1>9. ResultInv'
  BY <1>1, <1>2, <1>4 DEF IInv, ResultInv, Operand
<1>10. SumInv'
  BY <1>1, <1>3 DEF IInv, SumInv
<1> QED
  BY <1>5, <1>6, <1>7, <1>8, <1>9, <1>10 DEF IInv

LEMMA LaunchUnusedKeeps ==
    ASSUME IInv, NEW dev \in 1..NumDevices, LaunchUnused(dev)
    PROVE  IInv'
<1>1. /\ pc = "restart" /\ pc' = "undefined"
      /\ UNCHANGED <<system, todo, mem, running, gathered, buffer, q_host, x, r, d, delta, delta0, iter, x_before, first>>
  BY DEF LaunchUnused, host, IInv, StageInv
<1>2. TypeInv' /\ SetupInv' /\ StageInv' /\ StepInv'
  BY <1>1 DEF IInv, TypeInv, SetupInv, StageInv, StepInv, Products
<1>3. LoadedInv' /\ DirectionInv' /\ ResultInv' /\ SumInv'
  BY <1>1 DEF IInv, LoadedInv, DirectionInv, ResultInv, SumInv, Products
<1> QED
  BY <1>2, <1>3 DEF IInv

LEMMA ExecuteKeeps ==
    ASSUME IInv, NEW dev \in 1..NumDevices, Execute(dev)
    PROVE  IInv'
<1> DEFINE s == system
           old == mem[Out(pc)][dev]
           new == IF pc = "q" THEN QKernel(s, dev, old)
                  ELSE SvmKernel(s, dev, mem["q_d"][dev], old, mem[In(pc)][dev],
                                 IF pc = "product" THEN 1 ELSE Minus(0, 1))
           m1 == [mem EXCEPT ![Out(pc)][dev] = new]
<1>1. /\ pc \in Products /\ dev \in running /\ running' = running \ {dev} /\ mem' = m1
      /\ UNCHANGED <<system, pc, todo, gathered, buffer, q_host, x, r, d, delta, delta0, iter, x_before, first>>
  BY DEF Execute, host
<1>2. /\ s \in Problems /\ mem \in Memory(s) /\ x \in Vec(dept(s)) /\ dev \in Used(s) \ todo
  BY <1>1 DEF IInv, TypeInv, StageInv
<1>3. Out(pc) \in Buffers /\ In(pc) \in Buffers /\ "q_d" \in Buffers /\ "x_d" \in Buffers /\ "r_d" \in Buffers
  BY <1>1 DEF Out, In, Buffers, Products
<1>4. old \in [Padded(s) -> Values] /\ Holds(s, old, Begun(s, pc, dev))
  BY <1>1, <1>2, <1>3, MemoryIs DEF IInv, ResultInv
<1>5. new \in [Padded(s) -> Values] /\ Holds(s, new, Result(s, pc, dev, Operand))
  <2> HIDE DEF s, old
  <2>1. CASE pc = "q"
    <3>1. new = QKernel(s, dev, old)
      BY <2>1
    <3>2. Operand = x /\ Result(s, pc, dev, x) = [i \in 1..dept(s) |-> KernelPart(s, dev, s.A[i], s.A[Points(s)])]
      BY <2>1 DEF Operand, Result
    <3> HIDE DEF new
    <3> QED
      BY <1>2, <1>4, <3>1, <3>2, QKernelRow DEF Holds
  <2>2. CASE pc # "q"
    <3>1. mem["q_d"][dev] = Pad(s, q(s)) /\ mem["x_d"][dev] = Pad(s, x)
      BY <1>2, <2>2 DEF IInv, LoadedInv, s
    <3>2. mem[In(pc)][dev] = Pad(s, Operand) /\ Operand \in Vec(dept(s))
      <4>1. CASE pc = "product"
        <5>1. mem["r_d"][dev] = Pad(s, d) /\ d \in Vec(dept(s))
          BY <1>2, <4>1 DEF IInv, DirectionInv, TypeInv, s
        <5> QED
          BY <4>1, <5>1 DEF In, Operand
      <4>2. CASE pc # "product"
        BY <1>2, <3>1, <4>2 DEF In, Operand
      <4> QED
        BY <4>1, <4>2
    <3>3. new = SvmKernel(s, dev, Pad(s, q(s)), old, Pad(s, Operand), Sign(pc))
      BY <2>2, <3>1, <3>2 DEF Sign
    <3>4. Sign(pc) \in Numbers
      BY ValuesHere DEF Sign
    <3> HIDE DEF new
    <3>5. new \in [Padded(s) -> Values]
          /\ \A i \in 1..dept(s) : new[i] = Plus(old[i], Share(s, dev, Operand, Sign(pc))[i])
      BY <1>2, <1>4, <3>2, <3>3, <3>4, KernelRow
    <3>6. \A i \in 1..dept(s) : Result(s, pc, dev, Operand)[i]
             = Plus(Begun(s, pc, dev)[i], Share(s, dev, Operand, Sign(pc))[i])
      BY <2>2 DEF Result
    <3> QED
      BY <1>4, <3>5, <3>6 DEF Holds
  <2> QED
    BY <2>1, <2>2
<1> HIDE DEF new, old
<1>13. /\ m1 \in Memory(s) /\ m1[Out(pc)][dev] = new
       /\ \A c \in Buffers, k \in Used(s) : c # Out(pc) \/ k # dev => m1[c][k] = mem[c][k]
  BY <1>2, <1>3, <1>5, Written
<1> HIDE DEF m1
<1>6. /\ mem' \in Memory(s) /\ mem'[Out(pc)][dev] = new
      /\ \A c \in Buffers, k \in Used(s) : c # Out(pc) \/ k # dev => mem'[c][k] = mem[c][k]
  BY <1>1, <1>13
<1>7. TypeInv' /\ SetupInv' /\ StepInv'
  BY <1>1, <1>6 DEF IInv, TypeInv, SetupInv, StepInv, Restarts
<1>8. StageInv'
  BY <1>1 DEF IInv, StageInv, Products
<1>9. LoadedInv'
  <2>1. pc # "q" => Out(pc) # "q_d" /\ Out(pc) # "x_d"
    BY <1>1 DEF Out, Products
  <2> QED
    BY <1>1, <1>3, <1>6, <2>1 DEF IInv, LoadedInv
<1>10. DirectionInv'
  <2>1. pc = "product" => Out(pc) # "r_d"
    BY DEF Out
  <2>2. pc # "loop"
    BY <1>1 DEF Products
  <2> QED
    BY <1>1, <1>3, <1>6, <2>1, <2>2 DEF IInv, DirectionInv
<1>11. ResultInv'
  BY <1>1, <1>2, <1>3, <1>5, <1>6 DEF IInv, ResultInv, Operand
<1>12. SumInv'
  BY <1>1 DEF IInv, SumInv, Operand
<1> QED
  BY <1>7, <1>8, <1>9, <1>10, <1>11, <1>12 DEF IInv

\* copy_to_host of what a device has computed.
LEMMA ReadOut ==
    ASSUME NEW s \in Problems, NEW m \in [Padded(s) -> Values], NEW v \in Vec(dept(s)), Holds(s, m, v)
    PROVE  SubSeq(m, 1, dept(s)) = v
<1>1. dept(s) \in Nat \ {0} /\ \A i \in 1..dept(s) : i \in Padded(s)
  BY ProblemParts, Coverage
<1>2. SubSeq(m, 1, dept(s)) = [i \in 1..dept(s) |-> m[i]]
  <2> DEFINE w == SubSeq(m, 1, dept(s))
  <2>1. \A i \in 1..dept(s) : m[i] \in Values
    BY <1>1
  <2>2. /\ w \in Seq(Values) /\ Len(w) = IF 1 <= dept(s) THEN dept(s) - 1 + 1 ELSE 0
        /\ \A i \in 1..(dept(s) - 1 + 1) : w[i] = m[1 + i - 1]
    <3>1. 1 \in Int /\ dept(s) \in Int
      BY <1>1
    <3> QED
      BY <2>1, <3>1, SubSeqProperties
  <2> HIDE DEF w
  <2>3. Len(w) = dept(s) /\ w \in [1..Len(w) -> Values]
    BY <1>1, <2>2, LenProperties
  <2>4. \A i \in 1..dept(s) : w[i] = m[i]
    BY <1>1, <2>2
  <2> QED
    BY <2>3, <2>4 DEF w
<1>3. v = [i \in 1..dept(s) |-> v[i]]
  BY DEF Vec
<1> QED
  BY <1>2, <1>3 DEF Holds

LEMMA GatherKeeps ==
    ASSUME IInv, Gather
    PROVE  IInv'
<1> DEFINE s == system
           dev == gathered + 1
           v == Operand
           Summands(n, i) == [k \in 1..n |-> Result(s, pc, k, v)[i]]
<1>1. /\ pc \in Products /\ todo = {} /\ gathered < select_num_used_devices(s)
      /\ UNCHANGED <<system, pc, todo, mem, running, q_host, x, r, d, delta, delta0, iter, x_before, first>>
      /\ gathered' = dev /\ dev \notin running
      /\ buffer' = LET part == SubSeq(mem[Out(pc)][dev], 1, dept(s))
                   IN  IF dev = 1 THEN part ELSE VecAdd(buffer, part)
  BY DEF Gather, Synchronized, host
<1>2. /\ s \in Problems /\ mem \in Memory(s) /\ x \in Vec(dept(s)) /\ gathered \in 0..select_num_used_devices(s)
      /\ gathered # 0 => \A k \in 1..gathered : k \notin running
  BY <1>1 DEF IInv, TypeInv, StageInv
<1>3. gathered \in Nat /\ dev \in 1..select_num_used_devices(s) /\ dev \in Used(s)
      /\ \A k \in 1..dev : k \in Used(s) /\ (k \in 1..gathered \/ k = dev)
  BY <1>1, <1>2, Devices
<1>4. v \in Vec(dept(s))
  BY <1>1, <1>2 DEF IInv, TypeInv, Operand
<1>5. \A k \in Used(s) : Result(s, pc, k, v) \in Vec(dept(s))
  BY <1>1, <1>2, <1>4, ResultsAddUp
<1>6. SubSeq(mem[Out(pc)][dev], 1, dept(s)) = Result(s, pc, dev, v)
  <2>1. Out(pc) \in Buffers
    BY <1>1 DEF Out, Buffers, Products
  <2>2. mem[Out(pc)][dev] \in [Padded(s) -> Values]
    BY <1>2, <1>3, <2>1, MemoryIs
  <2>3. Holds(s, mem[Out(pc)][dev], Result(s, pc, dev, v))
    BY <1>1, <1>3 DEF IInv, ResultInv
  <2> QED
    BY <1>2, <1>3, <1>5, <2>2, <2>3, ReadOut
<1> HIDE DEF v, s
<1>7. \A n \in Nat : n <= dev => \A i \in 1..dept(s) : Summands(n, i) \in Vec(n)
  <2>1. ASSUME NEW n \in Nat, n <= dev, NEW i \in 1..dept(s) PROVE Summands(n, i) \in Vec(n)
    <3>1. \A k \in 1..n : k \in Used(s)
      BY <1>3, <2>1
    <3>2. \A k \in 1..n : Result(s, pc, k, v)[i] \in Values
      BY <1>5, <3>1 DEF Vec
    <3> QED
      BY <3>2 DEF Vec
  <2> QED
    BY <2>1
<1>8. buffer' = [i \in 1..dept(s) |-> Sum(Summands(dev, i))]
  <2>1. CASE dev = 1
    <3>1. buffer' = Result(s, pc, dev, v)
      BY <1>1, <1>6, <2>1 DEF s
    <3>2. ASSUME NEW i \in 1..dept(s) PROVE Sum(Summands(dev, i)) = Result(s, pc, dev, v)[i]
      <4> DEFINE w == Summands(1, i)
      <4>1. w \in Vec(1)
        <5>1. 1 \in Nat /\ 1 <= dev
          BY <2>1
        <5> QED
          BY <1>7, <5>1, Zenon
      <4>2. w[1] = Result(s, pc, 1, v)[i]
        OBVIOUS
      <4> HIDE DEF w
      <4>3. Sum(w) = w[1]
        BY <4>1, OneSummand
      <4> QED
        BY <2>1, <4>2, <4>3 DEF w
    <3>3. Result(s, pc, dev, v) = [i \in 1..dept(s) |-> Result(s, pc, dev, v)[i]]
      BY DEF Result
    <3> HIDE DEF Summands
    <3> QED
      BY <3>1, <3>2, <3>3
  <2>2. CASE dev # 1
    <3>1. gathered # 0
      BY <1>3, <2>2
    <3>2. buffer = [i \in 1..dept(s) |-> Sum(Summands(gathered, i))]
      BY <1>1, <3>1 DEF IInv, SumInv, s, v
    <3>3. buffer' = [i \in 1..dept(s) |-> Plus(buffer[i], Result(s, pc, dev, v)[i])]
      <4>1. buffer' = VecAdd(buffer, Result(s, pc, dev, v))
        BY <1>1, <1>6, <2>2 DEF s
      <4>2. DOMAIN buffer = 1..dept(s)
        BY <3>2
      <4> QED
        BY <4>1, <4>2 DEF VecAdd
    <3>4. ASSUME NEW i \in 1..dept(s)
          PROVE  Sum(Summands(dev, i)) = Plus(Sum(Summands(gathered, i)), Result(s, pc, dev, v)[i])
      <4> DEFINE w == Summands(dev, i)
      <4>1. w \in Vec(gathered + 1)
        BY <1>3, <1>7
      <4>2. [k \in 1..gathered |-> w[k]] = Summands(gathered, i) /\ w[gathered + 1] = Result(s, pc, dev, v)[i]
        BY <1>3
      <4> HIDE DEF w, Summands
      <4>3. Sum(w) = Plus(Sum([k \in 1..gathered |-> w[k]]), w[gathered + 1])
        BY <1>3, <4>1, VecFront
      <4> QED
        BY <4>2, <4>3 DEF w
    <3> HIDE DEF Summands
    <3> QED
      BY <3>2, <3>3, <3>4
  <2> QED
    BY <2>1, <2>2
<1>9. TypeInv' /\ SetupInv' /\ LoadedInv' /\ DirectionInv' /\ ResultInv'
  BY <1>1 DEF IInv, TypeInv, SetupInv, LoadedInv, DirectionInv, ResultInv, Operand
<1>10. StepInv'
  BY <1>1 DEF IInv, StepInv, Restarts, Products
<1>11. StageInv'
  <2>1. gathered' \in 0..select_num_used_devices(system)
    BY <1>1, <1>3 DEF s
  <2>2. \A k \in 1..gathered' : k \notin running
    BY <1>1, <1>2, <1>3
  <2> QED
    BY <1>1, <2>1, <2>2 DEF IInv, StageInv, Products
<1>12. SumInv'
  <2>1. Operand' = v
    BY <1>1 DEF Operand, v
  <2> QED
    BY <1>1, <1>8, <2>1 DEF SumInv, s
<1> QED
  BY <1>9, <1>10, <1>11, <1>12 DEF IInv

----------------------------------------------------------------------------
(* The host.                                                               *)

\* All results are there: their sum is what the product is for, and every
\* device has it at the begin of the result buffer.
LEMMA AllGathered ==
    ASSUME IInv, NEW c \in Products, Gathered(c)
    PROVE  /\ pc = c /\ todo = {} /\ running = {}
           /\ buffer = Total(system, c, Operand) /\ buffer \in Vec(dept(system))
           /\ Broadcast \in Memory(system)
           /\ \A dev \in Used(system) : Holds(system, Broadcast[Out(c)][dev], buffer)
           /\ \A b \in Buffers : b # Out(c) => Broadcast[b] = mem[b]
<1> DEFINE s == system
           n == select_num_used_devices(s)
           v == Operand
<1>1. pc = c /\ todo = {} /\ gathered = n
  BY DEF Gathered
<1>2. /\ s \in Problems /\ mem \in Memory(s) /\ x \in Vec(dept(s))
  BY DEF IInv, TypeInv
<1>3. n \in Nat \ {0} /\ Used(s) = 1..n
  BY <1>2, Devices
<1>4. running = {}
  <2>1. running \subseteq Used(s) /\ \A dev \in 1..gathered : dev \notin running
    BY <1>1, <1>3 DEF IInv, StageInv
  <2> QED
    BY <1>1, <1>3, <2>1
<1>5. v \in Vec(dept(s))
  BY <1>1, <1>2 DEF IInv, TypeInv, Operand
<1>6. buffer = [i \in 1..dept(s) |-> Sum([dev \in Used(s) |-> Result(s, c, dev, v)[i]])]
  BY <1>1, <1>3 DEF IInv, SumInv
<1>7. buffer = Total(s, c, v) /\ buffer \in Vec(dept(s))
      /\ \A dev \in Used(s) : Result(s, c, dev, v) \in Vec(dept(s))
  BY <1>2, <1>5, <1>6, ResultsAddUp
<1>8. Out(c) \in Buffers
  BY DEF Out, Buffers, Products
<1>9. \A dev \in Used(s) : Holds(s, mem[Out(c)][dev], Result(s, c, dev, v))
  BY <1>1, <1>4 DEF IInv, ResultInv
<1> HIDE DEF v, s, n
<1>10. CASE n = 1
  <2>1. Broadcast = mem
    BY <1>1, <1>10 DEF Broadcast
  <2>2. ASSUME NEW dev \in Used(s) PROVE Holds(s, mem[Out(c)][dev], buffer)
    <3>1. dev = 1 /\ Used(s) = 1..1
      BY <1>3, <1>10, <2>2
    <3>2. ASSUME NEW i \in 1..dept(s) PROVE buffer[i] = Result(s, c, dev, v)[i]
      <4> DEFINE w == [k \in 1..1 |-> Result(s, c, k, v)[i]]
      <4>1. w \in Vec(1)
        <5>1. \A k \in 1..1 : Result(s, c, k, v)[i] \in Values
          BY <1>7, <3>1 DEF Vec
        <5> QED
          BY <5>1 DEF Vec
      <4>2. w[1] = Result(s, c, 1, v)[i]
        OBVIOUS
      <4>3. buffer[i] = Sum(w)
        BY <1>6, <3>1
      <4> HIDE DEF w
      <4>4. Sum(w) = w[1]
        BY <4>1, OneSummand
      <4> QED
        BY <3>1, <4>2, <4>3, <4>4
    <3> QED
      BY <1>9, <3>2 DEF Holds
  <2> QED
    BY <1>1, <1>2, <1>4, <1>7, <2>1, <2>2 DEF s, v
<1>11. CASE n # 1
  <2> DEFINE old == mem[Out(c)]
             w == [dev \in DOMAIN old |-> IF dev <= n THEN CopyTo(buffer, old[dev]) ELSE old[dev]]
             m1 == [mem EXCEPT ![Out(c)] = w]
  <2>1. Broadcast = m1
    BY <1>1, <1>11 DEF Broadcast
  <2>2. old \in [Used(s) -> [Padded(s) -> Values]] /\ \A dev \in Used(s) : old[dev] \in [Padded(s) -> Values]
    <3>1. mem \in Memory(s) /\ Out(c) \in Buffers
      BY <1>2, <1>8 DEF s
    <3>2. mem[Out(c)] \in [Used(s) -> [Padded(s) -> Values]]
      BY <3>1 DEF Memory
    <3> QED
      BY <3>2
  <2>3. \A dev \in Used(s) : /\ CopyTo(buffer, old[dev]) \in [Padded(s) -> Values]
                             /\ Holds(s, CopyTo(buffer, old[dev]), buffer)
    BY <1>2, <1>7, <2>2, Copied DEF s
  <2> HIDE DEF old
  <2>4. w = [dev \in Used(s) |-> CopyTo(buffer, old[dev])]
    <3>1. DOMAIN old = Used(s) /\ \A dev \in Used(s) : dev <= n
      BY <1>3, <2>2
    <3> QED
      BY <3>1
  <2>5. w \in [Used(s) -> [Padded(s) -> Values]]
    BY <2>3, <2>4
  <2>6. \A dev \in Used(s) : w[dev] = CopyTo(buffer, old[dev])
    BY <2>4
  <2> HIDE DEF w
  <2>7. /\ m1 \in Memory(s) /\ \A dev \in Used(s) : m1[Out(c)][dev] = w[dev]
        /\ \A b \in Buffers : b # Out(c) => m1[b] = mem[b]
    BY <1>2, <1>8, <2>5, WrittenAll DEF s
  <2> HIDE DEF m1
  <2> QED
    BY <1>1, <1>4, <1>7, <2>1, <2>3, <2>6, <2>7 DEF s, v
<1> QED
  BY <1>10, <1>11

\* The system is the same, and so are the devices and the sizes.
LEMMA QReadyKeeps ==
    ASSUME IInv, QReady
    PROVE  IInv'
<1>1. /\ pc = "q" /\ pc' = "residual" /\ todo' = Used(system) /\ gathered' = 0
      /\ q_host' = buffer /\ mem' = Broadcast
      /\ UNCHANGED <<system, running, buffer, x, r, d, delta, delta0, iter, x_before, first>>
  BY DEF QReady, Start, Gathered
<1>2. Gathered("q") /\ "q" \in Products /\ system \in Problems
  BY DEF QReady, Products, IInv, TypeInv
<1>3. running = {} /\ buffer = Total(system, "q", Operand) /\ Broadcast \in Memory(system)
  BY <1>2, AllGathered
<1>4. buffer = q(system)
  BY <1>3 DEF Total
<1>5. Used(system) \subseteq 1..NumDevices /\ 0 \in 0..select_num_used_devices(system)
  BY <1>2, Devices
<1>6. TypeInv' /\ SetupInv' /\ StepInv'
  BY <1>1, <1>3, <1>4 DEF IInv, TypeInv, SetupInv, StepInv, Products
<1>7. StageInv'
  BY <1>1, <1>3, <1>5 DEF StageInv
<1>8. LoadedInv' /\ DirectionInv' /\ ResultInv' /\ SumInv'
  BY <1>1 DEF LoadedInv, DirectionInv, ResultInv, SumInv
<1> QED
  BY <1>6, <1>7, <1>8 DEF IInv

\* What the host has before the loop is the residual of the start vector.
LEMMA ResidualReadyIs ==
    ASSUME IInv, ResidualReady
    PROVE  /\ pc = "residual" /\ pc' = "loop" /\ running = {} /\ todo = {} /\ mem' = Broadcast
           /\ r' = first /\ d' = first /\ first \in Vec(dept(system))
           /\ delta' = Dot(first, first) /\ delta' \in Values /\ delta0' = delta'
           /\ UNCHANGED <<system, todo, running, gathered, buffer, q_host, x, iter, x_before, first>>
<1>1. Gathered("residual") /\ "residual" \in Products /\ system \in Problems
  BY DEF ResidualReady, Products, IInv, TypeInv
<1>2. /\ running = {} /\ todo = {} /\ buffer = Total(system, "residual", Operand) /\ buffer \in Vec(dept(system))
      /\ pc = "residual"
  BY <1>1, AllGathered
<1>3. buffer = first
  BY <1>2 DEF Total, Operand, IInv, SetupInv
<1>4. Dot(first, first) \in Values
  BY <1>1, <1>2, <1>3, ProblemParts, DotLaws
<1> QED
  BY <1>2, <1>3, <1>4 DEF ResidualReady

LEMMA ResidualReadyKeeps ==
    ASSUME IInv, ResidualReady
    PROVE  IInv'
<1>1. /\ pc = "residual" /\ pc' = "loop" /\ running = {} /\ todo = {} /\ mem' = Broadcast
      /\ r' = first /\ d' = first /\ first \in Vec(dept(system)) /\ delta' \in Values
      /\ UNCHANGED <<system, todo, running, gathered, buffer, q_host, x, iter, x_before, first>>
  BY ResidualReadyIs
<1>2. Gathered("residual") /\ "residual" \in Products
  BY DEF ResidualReady, Products
<1>3. /\ Broadcast \in Memory(system) /\ \A dev \in Used(system) : Holds(system, Broadcast["r_d"][dev], buffer)
      /\ Broadcast["q_d"] = mem["q_d"] /\ Broadcast["x_d"] = mem["x_d"]
  <2>1. Out("residual") = "r_d" /\ "q_d" \in Buffers /\ "x_d" \in Buffers
    BY DEF Out, Buffers
  <2> QED
    BY <1>2, <2>1, AllGathered
<1>4. buffer = first
  BY <1>1 DEF ResidualReady
<1>5. TypeInv' /\ SetupInv' /\ StepInv'
  BY <1>1, <1>3 DEF IInv, TypeInv, SetupInv, StepInv, Products
<1>6. StageInv'
  BY <1>1 DEF StageInv, Products
<1>7. LoadedInv'
  BY <1>1, <1>3 DEF IInv, LoadedInv
<1>8. DirectionInv'
  BY <1>1, <1>3, <1>4 DEF DirectionInv
<1>9. ResultInv' /\ SumInv'
  BY <1>1 DEF ResultInv, SumInv, Products
<1> QED
  BY <1>5, <1>6, <1>7, <1>8, <1>9 DEF IInv

LEMMA IterateKeeps ==
    ASSUME IInv, Iterate
    PROVE  IInv'
<1>1. /\ pc = "loop" /\ iter < SvmMaxIter(system) /\ pc' = "product" /\ todo' = Used(system) /\ gathered' = 0
      /\ UNCHANGED <<system, mem, running, buffer, q_host, x, r, d, delta, delta0, iter, x_before, first>>
  BY DEF Iterate, Start, host
<1>2. system \in Problems /\ running = {}
  BY <1>1 DEF IInv, TypeInv, StageInv
<1>3. Used(system) \subseteq 1..NumDevices /\ 0 \in 0..select_num_used_devices(system)
  BY <1>2, Devices
<1>4. TypeInv' /\ SetupInv' /\ StepInv'
  BY <1>1 DEF IInv, TypeInv, SetupInv, StepInv, Products
<1>5. StageInv'
  BY <1>1, <1>2, <1>3 DEF StageInv
<1>6. LoadedInv' /\ DirectionInv' /\ ResultInv' /\ SumInv'
  BY <1>1 DEF IInv, LoadedInv, DirectionInv, ResultInv, SumInv
<1> QED
  BY <1>4, <1>5, <1>6 DEF IInv

LEMMA GiveUpKeeps ==
    ASSUME IInv, GiveUp
    PROVE  IInv'
<1>1. /\ pc = "loop" /\ pc' = "done"
      /\ UNCHANGED <<system, todo, mem, running, gathered, buffer, q_host, x, r, d, delta, delta0, iter, x_before, first>>
  BY DEF GiveUp, host
<1>2. TypeInv' /\ SetupInv' /\ StepInv' /\ StageInv'
  BY <1>1 DEF IInv, TypeInv, SetupInv, StepInv, StageInv, Products
<1>3. LoadedInv' /\ DirectionInv' /\ ResultInv' /\ SumInv'
  BY <1>1 DEF IInv, LoadedInv, DirectionInv, ResultInv, SumInv, Products
<1> QED
  BY <1>2, <1>3 DEF IInv

\* The host has A d, and makes the step.
LEMMA ProductReadyIs ==
    ASSUME IInv, ProductReady
    PROVE  /\ pc = "product" /\ running = {} /\ system \in Problems
           /\ buffer = SvmProduct(system, d)
           /\ x' = VecAdd(x, VecScale(Over(delta, Dot(d, SvmProduct(system, d))), d))
           /\ x' \in Vec(dept(system)) /\ x_before' = x
           /\ UNCHANGED <<system, running, buffer, q_host, r, d, delta, delta0, iter, first>>
           /\ \/ Restarts /\ pc' = "restart" /\ todo' = 1..NumDevices /\ gathered' = 0
              \/ ~Restarts /\ pc' = "update" /\ UNCHANGED <<todo, gathered>>
<1>1. Gathered("product") /\ "product" \in Products /\ system \in Problems
  BY DEF ProductReady, Products, IInv, TypeInv
<1>2. /\ pc = "product" /\ running = {} /\ buffer = Total(system, "product", Operand)
      /\ buffer \in Vec(dept(system))
  BY <1>1, AllGathered
<1>3. buffer = SvmProduct(system, d)
  BY <1>2 DEF Total, Operand
<1>4. dept(system) \in Nat \ {0} /\ d \in Vec(dept(system)) /\ delta \in Values /\ x \in Vec(dept(system))
  BY <1>1, <1>2, ProblemParts DEF IInv, TypeInv
<1> DEFINE a == Over(delta, Dot(d, buffer))
<1>5. a \in Values
  BY <1>2, <1>4, DotLaws, OverValue
<1>6. x' = VecAdd(x, VecScale(a, d))
  BY DEF ProductReady
<1> HIDE DEF a
<1>7. x' \in Vec(dept(system))
  BY <1>4, <1>5, <1>6, ScaleTerms, VectorTerms
<1> QED
  BY <1>1, <1>2, <1>3, <1>6, <1>7 DEF ProductReady, Start, a

LEMMA ProductReadyKeeps ==
    ASSUME IInv, ProductReady
    PROVE  IInv'
<1> DEFINE s == system
           old == Broadcast["x_d"]
           w == [dev \in DOMAIN old |-> CopyTo(x', old[dev])]
           m1 == [Broadcast EXCEPT !["x_d"] = w]
<1>1. /\ pc = "product" /\ running = {} /\ s \in Problems
      /\ buffer = SvmProduct(s, d)
      /\ x' = VecAdd(x, VecScale(Over(delta, Dot(d, SvmProduct(s, d))), d))
      /\ x' \in Vec(dept(s)) /\ x_before' = x
      /\ UNCHANGED <<system, running, buffer, q_host, r, d, delta, delta0, iter, first>>
      /\ \/ Restarts /\ pc' = "restart" /\ todo' = 1..NumDevices /\ gathered' = 0
         \/ ~Restarts /\ pc' = "update" /\ UNCHANGED <<todo, gathered>>
  BY ProductReadyIs
<1>2. mem' = m1
  BY DEF ProductReady
<1>3. Gathered("product") /\ "product" \in Products /\ "x_d" \in Buffers /\ "q_d" \in Buffers /\ Out("product") = "Ad_d"
  BY DEF ProductReady, Products, Buffers, Out
<1>4. /\ Broadcast \in Memory(s) /\ old = mem["x_d"] /\ Broadcast["q_d"] = mem["q_d"] /\ todo = {}
  BY <1>3, AllGathered
<1>5. \A dev \in Used(s) : mem["q_d"][dev] = Pad(s, q(s)) /\ mem["x_d"][dev] = Pad(s, x)
  BY <1>1 DEF IInv, LoadedInv
<1>6. x \in Vec(dept(s))
  BY DEF IInv, TypeInv
<1>7. old \in [Used(s) -> [Padded(s) -> Values]] /\ \A dev \in Used(s) : old[dev] \in [Padded(s) -> Values]
  <2>1. Broadcast["x_d"] \in [Used(s) -> [Padded(s) -> Values]]
    BY <1>3, <1>4 DEF Memory
  <2> QED
    BY <2>1
<1>8. \A dev \in Used(s) : CopyTo(x', old[dev]) = Pad(s, x') /\ CopyTo(x', old[dev]) \in [Padded(s) -> Values]
  BY <1>1, <1>4, <1>5, <1>6, <1>7, Copied
<1>9. w = [dev \in Used(s) |-> CopyTo(x', old[dev])]
  BY <1>7
<1>10. w \in [Used(s) -> [Padded(s) -> Values]] /\ \A dev \in Used(s) : w[dev] = Pad(s, x')
  BY <1>8, <1>9
<1> HIDE DEF w, old
<1>11. /\ m1 \in Memory(s) /\ \A dev \in Used(s) : m1["x_d"][dev] = w[dev]
       /\ \A b \in Buffers : b # "x_d" => m1[b] = Broadcast[b]
  BY <1>3, <1>4, <1>10, WrittenAll
<1> HIDE DEF m1
<1>12. /\ mem' \in Memory(s)
       /\ \A dev \in Used(s) : mem'["q_d"][dev] = Pad(s, q(s)) /\ mem'["x_d"][dev] = Pad(s, x')
  BY <1>2, <1>3, <1>4, <1>5, <1>10, <1>11
<1>13. TypeInv' /\ SetupInv'
  BY <1>1, <1>12 DEF IInv, TypeInv, SetupInv, Products
<1>14. StageInv'
  <2>1. 0 \in 0..select_num_used_devices(s)
    BY <1>1, Devices
  <2> QED
    BY <1>1, <2>1 DEF StageInv, Products
<1>15. LoadedInv'
  BY <1>1, <1>12 DEF LoadedInv
<1>16. DirectionInv' /\ SumInv'
  BY <1>1 DEF DirectionInv, SumInv, Products
<1>17. ResultInv'
  <2>1. pc' = "restart" => Used(s) \ todo' = {}
    BY <1>1, Devices
  <2> QED
    BY <1>1, <2>1 DEF ResultInv, Products
<1>18. StepInv'
  BY <1>1 DEF IInv, StepInv, Restarts
<1> QED
  BY <1>13, <1>14, <1>15, <1>16, <1>17, <1>18 DEF IInv

\* What ends an iteration: whichever way r' has been computed, the next
\* direction goes to r_d of every device.
LEMMA FinishKeeps ==
    ASSUME IInv, pc \in {"update", "restart"}, running = {}, FinishIteration, r' \in Vec(dept(system)),
           NEW m \in Memory(system), mem' = HandOut(m),
           \A dev \in Used(system) : m["q_d"][dev] = mem["q_d"][dev] /\ m["x_d"][dev] = mem["x_d"][dev]
    PROVE  IInv'
<1> DEFINE s == system
           n == dept(s)
<1>1. /\ s \in Problems /\ n \in Nat \ {0} /\ d \in Vec(n) /\ delta \in Values /\ iter \in Nat /\ x \in Vec(n)
  BY ProblemParts DEF IInv, TypeInv
<1>2. /\ delta' = Dot(r', r') /\ x_before' = x
      /\ UNCHANGED <<system, todo, running, gathered, buffer, q_host, x, delta0, first>>
      /\ \/ pc' = "done" /\ d' = d /\ iter' = iter
         \/ pc' = "loop" /\ d' = VecAdd(VecScale(Over(delta', delta), d), r') /\ iter' = iter + 1
  BY DEF FinishIteration
<1>3. delta' \in Values
  BY <1>1, <1>2, DotLaws
<1>4. d' \in Vec(n) /\ iter' \in Nat
  <2> DEFINE beta == Over(delta', delta)
  <2>1. beta \in Values
    BY <1>1, <1>3, OverValue
  <2>2. pc' = "loop" => d' = VecAdd(VecScale(beta, d), r')
    BY <1>2
  <2> HIDE DEF beta
  <2>3. VecAdd(VecScale(beta, d), r') \in Vec(n)
    BY <1>1, <2>1, ScaleTerms, VectorTerms
  <2> QED
    BY <1>1, <1>2, <2>2, <2>3
<1>5. "q_d" \in Buffers /\ "x_d" \in Buffers /\ "r_d" \in Buffers
  BY DEF Buffers
<1>6. \A dev \in Used(s) : mem["q_d"][dev] = Pad(s, q(s)) /\ mem["x_d"][dev] = Pad(s, x)
  BY DEF IInv, LoadedInv
<1>7. /\ mem' \in Memory(s)
      /\ \A dev \in Used(s) : mem'["q_d"][dev] = m["q_d"][dev] /\ mem'["x_d"][dev] = m["x_d"][dev]
      /\ pc' = "loop" => \A dev \in Used(s) : Holds(s, mem'["r_d"][dev], d')
  <2>1. CASE pc' = "done"
    BY <2>1 DEF HandOut
  <2>2. CASE pc' = "loop"
    <3> DEFINE old == m["r_d"]
               w == [dev \in DOMAIN old |-> CopyTo(d', old[dev])]
               m1 == [m EXCEPT !["r_d"] = w]
    <3>1. mem' = m1
      BY <2>2 DEF HandOut
    <3>2. old \in [Used(s) -> [Padded(s) -> Values]]
      BY <1>5 DEF Memory
    <3> HIDE DEF old
    <3>3. \A dev \in Used(s) : old[dev] \in [Padded(s) -> Values]
      BY <3>2
    <3>4. \A dev \in Used(s) : /\ CopyTo(d', old[dev]) \in [Padded(s) -> Values]
                               /\ Holds(s, CopyTo(d', old[dev]), d')
      BY <1>1, <1>4, <3>3, Copied
    <3>5. w = [dev \in Used(s) |-> CopyTo(d', old[dev])]
      BY <3>2
    <3>6. w \in [Used(s) -> [Padded(s) -> Values]] /\ \A dev \in Used(s) : Holds(s, w[dev], d')
      BY <3>4, <3>5
    <3> HIDE DEF w
    <3>7. /\ m1 \in Memory(s) /\ \A dev \in Used(s) : m1["r_d"][dev] = w[dev]
          /\ \A b \in Buffers : b # "r_d" => m1[b] = m[b]
      BY <1>5, <3>6, WrittenAll
    <3> HIDE DEF m1
    <3> QED
      BY <1>5, <3>1, <3>6, <3>7
  <2> QED
    BY <1>2, <2>1, <2>2
<1>8. TypeInv' /\ SetupInv' /\ StageInv' /\ StepInv'
  BY <1>1, <1>2, <1>3, <1>4, <1>7 DEF TypeInv, SetupInv, StageInv, StepInv, Products
<1>9. LoadedInv' /\ DirectionInv'
  BY <1>2, <1>6, <1>7 DEF LoadedInv, DirectionInv
<1>10. ResultInv' /\ SumInv'
  BY <1>2 DEF ResultInv, SumInv, Products
<1> QED
  BY <1>8, <1>9, <1>10 DEF IInv

LEMMA UpdateIs ==
    ASSUME IInv, Update
    PROVE  /\ pc = "update" /\ running = {} /\ system \in Problems /\ FinishIteration /\ mem' = HandOut(mem)
           /\ r' = VecSub(r, VecScale(Over(delta, Dot(d, SvmProduct(system, d))), SvmProduct(system, d)))
           /\ r' \in Vec(dept(system))
<1>1. /\ pc = "update" /\ FinishIteration /\ mem' = HandOut(mem)
      /\ r' = VecSub(r, VecScale(Over(delta, Dot(d, buffer)), buffer))
  BY DEF Update
<1>2. /\ system \in Problems /\ running = {} /\ buffer = SvmProduct(system, d)
      /\ r \in Vec(dept(system)) /\ d \in Vec(dept(system)) /\ delta \in Values
  BY <1>1 DEF IInv, TypeInv, StageInv, StepInv
<1> DEFINE b == SvmProduct(system, d)
           a == Over(delta, Dot(d, b))
<1>3. dept(system) \in Nat \ {0}
  BY <1>2, ProblemParts
<1>4. b \in Vec(dept(system))
  <2>1. Total(system, "product", d) \in Vec(dept(system)) 
    BY <1>2, ResultsAddUp DEF Products
  <2> QED
    BY <2>1 DEF Total
<1>5. r' = VecSub(r, VecScale(a, b))
  BY <1>1, <1>2
<1> HIDE DEF b
<1>6. a \in Values
  BY <1>2, <1>3, <1>4, DotLaws, OverValue
<1> HIDE DEF a
<1>7. r' \in Vec(dept(system))
  BY <1>2, <1>3, <1>4, <1>5, <1>6, ScaleTerms, VectorTerms
<1> QED
  BY <1>1, <1>2, <1>5, <1>7 DEF a, b

LEMMA UpdateKeeps ==
    ASSUME IInv, Update
    PROVE  IInv'
<1>1. pc = "update" /\ running = {} /\ FinishIteration /\ mem' = HandOut(mem) /\ r' \in Vec(dept(system))
  BY UpdateIs
<1>2. mem \in Memory(system)
  BY DEF IInv, TypeInv
<1> QED
  BY <1>1, <1>2, FinishKeeps

\* The residual of a restart is that of the new x.
LEMMA RestartReadyIs ==
    ASSUME IInv, RestartReady
    PROVE  /\ pc = "restart" /\ running = {} /\ system \in Problems /\ FinishIteration
           /\ mem' = HandOut(Broadcast)
           /\ r' = SvmResidual(system, x) /\ r' \in Vec(dept(system))
<1>1. Gathered("restart") /\ "restart" \in Products /\ system \in Problems
  BY DEF RestartReady, Products, IInv, TypeInv
<1>2. /\ pc = "restart" /\ running = {} /\ buffer = Total(system, "restart", Operand)
      /\ buffer \in Vec(dept(system))
  BY <1>1, AllGathered
<1>3. buffer = SvmResidual(system, x)
  BY <1>2 DEF Total, Operand
<1> QED
  BY <1>1, <1>2, <1>3 DEF RestartReady

LEMMA RestartReadyKeeps ==
    ASSUME IInv, RestartReady
    PROVE  IInv'
<1>1. /\ pc = "restart" /\ running = {} /\ FinishIteration /\ mem' = HandOut(Broadcast)
      /\ r' \in Vec(dept(system))
  BY RestartReadyIs
<1>2. Gathered("restart") /\ "restart" \in Products /\ Out("restart") = "r_d" /\ "q_d" \in Buffers /\ "x_d" \in Buffers
  BY DEF RestartReady, Products, Out, Buffers
<1>3. Broadcast \in Memory(system) /\ Broadcast["q_d"] = mem["q_d"] /\ Broadcast["x_d"] = mem["x_d"]
  BY <1>2, AllGathered
<1> HIDE DEF Broadcast
<1> QED
  BY <1>1, <1>3, FinishKeeps

LEMMA InitIInv == Init => IInv
<1> SUFFICES ASSUME Init PROVE IInv
  OBVIOUS
<1>1. /\ system \in Problems /\ pc = "q" /\ todo = Used(system) /\ gathered = 0 /\ running = {}
      /\ mem = [b \in Buffers |-> [dev \in Used(system) |-> Zeros(system)]]
      /\ x = SvmOnes(system) /\ first = SvmResidual(system, x) /\ iter = 0
  BY DEF Init, Buffers
<1>2. mem \in Memory(system)
  <2>1. Zeros(system) \in [Padded(system) -> Values]
    BY <1>1, ZerosAre
  <2> QED
    BY <1>1, <2>1 DEF Memory
<1>3. x \in Vec(dept(system))
  BY <1>1, SystemNumbers
<1>4. TypeInv /\ SetupInv
  BY <1>1, <1>2, <1>3 DEF TypeInv, SetupInv, Products
<1>5. StageInv
  <2>1. Used(system) \subseteq 1..NumDevices /\ 0 \in 0..select_num_used_devices(system)
    BY <1>1, Devices
  <2> QED
    BY <1>1, <2>1 DEF StageInv
<1>6. LoadedInv /\ DirectionInv /\ ResultInv /\ SumInv /\ StepInv
  BY <1>1 DEF LoadedInv, DirectionInv, ResultInv, SumInv, StepInv
<1> QED
  BY <1>4, <1>5, <1>6 DEF IInv

LEMMA NextIInv == IInv /\ [Next]_vars => IInv'
<1> SUFFICES ASSUME IInv, [Next]_vars PROVE IInv'
  OBVIOUS
<1>1. ASSUME NEW dev \in 1..NumDevices, DeviceStep(dev) PROVE IInv'
  BY <1>1, LaunchKeeps, LaunchUnusedKeeps, ExecuteKeeps DEF DeviceStep
<1>2. CASE HostStep
  BY <1>2, QReadyKeeps, ResidualReadyKeeps, IterateKeeps, GiveUpKeeps, ProductReadyKeeps,
     UpdateKeeps, RestartReadyKeeps, GatherKeeps DEF HostStep
<1>3. CASE UNCHANGED vars
  <2>1. UNCHANGED <<system, pc, todo, mem, running, gathered, buffer, q_host, x, r, d, delta, delta0,
                    iter, x_before, first>>
    BY <1>3 DEF vars, host
  <2>2. TypeInv' /\ SetupInv' /\ StageInv' /\ StepInv'
    BY <2>1 DEF IInv, TypeInv, SetupInv, StageInv, StepInv, Restarts
  <2>3. LoadedInv' /\ DirectionInv' /\ ResultInv' /\ SumInv'
    BY <2>1 DEF IInv, LoadedInv, DirectionInv, ResultInv, SumInv, Operand
  <2> QED
    BY <2>2, <2>3 DEF IInv
<1> QED
  BY <1>1, <1>2, <1>3 DEF Next, Terminated

\* What is in every buffer, and what the host has made of it, at every step.
THEOREM InductiveInvariant == Spec => []IInv
  BY InitIInv, NextIInv, PTL DEF Spec

----------------------------------------------------------------------------
(* The loop of the other backends.                                         *)

LEMMA InitImplements == Init => CG!Init
  BY DEF Init, CG!Init, InSetup

\* An iteration is shown when its last value is known.
LEMMA FinishImplements ==
    ASSUME IInv, pc \in {"update", "restart"}, FinishIteration,
           r' = IF Restarts THEN SvmResidual(system, x)
                ELSE VecSub(r, VecScale(Over(delta, Dot(d, SvmProduct(system, d))), SvmProduct(system, d)))
    PROVE  CG!Converge \/ CG!Continue
<1>1. /\ iter < SvmMaxIter(system)
      /\ x = VecAdd(x_before, VecScale(Over(delta, Dot(d, SvmProduct(system, d))), d))
  BY DEF IInv, StepInv
<1>2. /\ delta' = Dot(r', r') /\ x' = x /\ x_before' = x /\ system' = system /\ delta0' = delta0 /\ first' = first
      /\ \/ delta' \in Tolerated /\ pc' = "done" /\ d' = d /\ iter' = iter
         \/ delta' \notin Tolerated /\ pc' = "loop" /\ d' = VecAdd(VecScale(Over(delta', delta), d), r')
            /\ iter' = iter + 1
  BY DEF FinishIteration
<1>3. ~InSetup /\ ~InSetup'
  BY <1>2 DEF InSetup
<1>4. CASE pc' = "done"
  BY <1>1, <1>2, <1>3, <1>4
     DEF CG!Converge, CG!Advance, CG!ExactEnough, CG!Restarts, Restarts, SvmWithin
<1>5. CASE pc' = "loop"
  BY <1>1, <1>2, <1>3, <1>5
     DEF CG!Continue, CG!Advance, CG!ExactEnough, CG!NextDirection, CG!Restarts, Restarts, SvmWithin
<1> QED
  BY <1>2, <1>4, <1>5

\* Everything else the devices and the host do is not seen.
LEMMA DevicesImplement ==
    ASSUME IInv, NEW dev \in 1..NumDevices, DeviceStep(dev)
    PROVE  UNCHANGED CG!vars
<1>1. UNCHANGED <<system, x, r, d, delta, delta0, iter, x_before, first>>
      /\ (pc' = pc \/ (pc = "restart" /\ pc' = "undefined"))
  BY DEF DeviceStep, Launch, LaunchUnused, Execute, host, IInv, StageInv
<1> QED
  BY <1>1 DEF CG!vars, InSetup

LEMMA HostImplements ==
    ASSUME IInv, HostStep
    PROVE  CG!Next \/ UNCHANGED CG!vars
<1>1. CASE QReady \/ Iterate \/ Gather
  <2>1. UNCHANGED <<system, x, r, d, delta, delta0, iter, x_before, first>>
        /\ (pc' = pc \/ (pc = "q" /\ pc' = "residual") \/ (pc = "loop" /\ pc' = "product"))
    BY <1>1 DEF QReady, Iterate, Gather, Gathered, Start, host
  <2> QED
    BY <2>1 DEF CG!vars, InSetup
<1>2. CASE ResidualReady
  <2>1. /\ pc = "residual" /\ pc' = "loop" /\ r' = first /\ d' = first
        /\ delta' = Dot(first, first) /\ delta0' = delta'
        /\ UNCHANGED <<system, x, iter, x_before, first>>
    BY <1>2, ResidualReadyIs
  <2> QED
    BY <2>1 DEF CG!vars, InSetup
<1>3. CASE GiveUp
  BY <1>3 DEF GiveUp, host, CG!Next, CG!GiveUp, InSetup
<1>4. CASE ProductReady
  <2>1. /\ pc = "product" /\ pc' \in {"update", "restart"} /\ x_before' = x
        /\ UNCHANGED <<system, r, d, delta, delta0, iter, first>>
    BY <1>4, ProductReadyIs
  <2> QED
    BY <2>1 DEF CG!vars, InSetup
<1>5. CASE Update
  <2>1. /\ pc = "update" /\ FinishIteration
        /\ r' = VecSub(r, VecScale(Over(delta, Dot(d, SvmProduct(system, d))), SvmProduct(system, d)))
    BY <1>5, UpdateIs
  <2>2. ~Restarts
    BY <2>1 DEF IInv, StepInv
  <2>3. CG!Converge \/ CG!Continue
    BY <2>1, <2>2, FinishImplements
  <2> QED
    BY <2>3 DEF CG!Next
<1>6. CASE RestartReady
  <2>1. pc = "restart" /\ FinishIteration /\ r' = SvmResidual(system, x)
    BY <1>6, RestartReadyIs
  <2>2. Restarts
    BY <2>1 DEF IInv, StepInv
  <2>3. CG!Converge \/ CG!Continue
    BY <2>1, <2>2, FinishImplements
  <2> QED
    BY <2>3 DEF CG!Next
<1> QED
  BY <1>1, <1>2, <1>3, <1>4, <1>5, <1>6 DEF HostStep

LEMMA NextImplements == IInv /\ [Next]_vars => [CG!Next]_(CG!vars)
<1> SUFFICES ASSUME IInv, [Next]_vars PROVE CG!Next \/ UNCHANGED CG!vars
  OBVIOUS
<1>1. CASE UNCHANGED vars
  BY <1>1 DEF vars, host, CG!vars, InSetup
<1> QED
  BY <1>1, HostImplements, DevicesImplement DEF Next, Terminated

\* However many devices there are, however the features fall on them, whatever
\* the padding and in whichever order the kernels run: the iterates, residuals
\* and directions are those of the loop the other backends run.
THEOREM SolvesAsOneDevice == Spec => ImplementsCG
<1>1. Init => CG!Init
  BY InitImplements
<1>2. IInv /\ [Next]_vars => [CG!Next]_(CG!vars)
  BY NextImplements
<1> QED
  BY <1>1, <1>2, InductiveInvariant, PTL DEF Spec, CG!Spec, ImplementsCG

=============================================================================
