-------------------------- MODULE PrimeFieldProofs --------------------------
(***************************************************************************)
(* Arithmetic modulo p with NaN, and sums and products of vectors: the     *)
(* laws that the proofs about the training on any backend need.            *)
(***************************************************************************)
EXTENDS PrimeField, FiniteSetTheorems, WellFoundedInduction, SequenceTheorems, TLAPS

----------------------------------------------------------------------------
(* Induction, with a set of numbers for the property.                       *)

LEMMA Induction ==
    ASSUME NEW S, 0 \in S, \A n \in Nat : n \in S => n + 1 \in S
    PROVE  Nat \subseteq S
<1> DEFINE Bad == Nat \ S
<1>1. ASSUME Bad # {} PROVE FALSE
  <2>1. Bad \subseteq Nat
    OBVIOUS
  <2> HIDE DEF Bad
  <2>2. PICK n \in Bad : \A k \in Bad : ~(<<k, n>> \in OpToRel(<, Nat))
    BY <1>1, <2>1, NatLessThanWellFounded, WFMin
  <2>3. n \in Nat /\ n # 0
    BY <2>1 DEF Bad
  <2>4. n - 1 \in Nat /\ n - 1 < n /\ (n - 1) + 1 = n
    BY <2>3
  <2>5. n - 1 \in Bad
    BY <2>4 DEF Bad
  <2>6. \A k, l \in Nat : k < l => <<k, l>> \in OpToRel(<, Nat)
    BY Zenon DEF OpToRel
  <2> QED
    BY <2>2, <2>3, <2>4, <2>5, <2>6, Zenon
<1> QED
  BY <1>1

----------------------------------------------------------------------------
(* Numbers modulo p.                                                        *)

Congruent(m, n) == \E k \in Int : m - n = k * p

LEMMA Prime == p \in Nat /\ p > 2 /\ \A n \in 2..(p - 1) : p % n # 0
  BY PrimeAssumption

LEMMA ModP ==
    ASSUME NEW m \in Int
    PROVE  m % p \in Numbers /\ Congruent(m % p, m)
<1>1. p \in Nat \ {0}
  BY Prime
<1>2. m % p \in Numbers /\ m = p * (m \div p) + (m % p) /\ m \div p \in Int
  BY <1>1 DEF Numbers
<1>3. (m % p) - m = (-(m \div p)) * p /\ -(m \div p) \in Int
  BY <1>1, <1>2 DEF Numbers
<1> QED
  BY <1>2, <1>3 DEF Congruent

\* Numbers that are congruent are the same.
LEMMA SameNumber ==
    ASSUME NEW a \in Numbers, NEW b \in Numbers, Congruent(a, b)
    PROVE  a = b
<1>1. p \in Nat /\ p > 2 /\ a \in Int /\ b \in Int /\ 0 <= a /\ a < p /\ 0 <= b /\ b < p
  BY Prime DEF Numbers
<1>2. PICK k \in Int : a - b = k * p
  BY DEF Congruent
<1>3. ~(k >= 1)
  <2>1. k >= 1 => k * p >= p
    <3>1. SUFFICES ASSUME k >= 1 PROVE k * p >= p
      OBVIOUS
    <3>2. k - 1 \in Nat /\ (k - 1) * p \in Nat
      BY <1>1, <3>1
    <3>3. (k - 1) * p = k * p - p
      BY <1>1
    <3> QED
      BY <1>1, <3>2, <3>3
  <2> QED
    BY <1>1, <1>2, <2>1
<1>4. ~(k <= -1)
  <2>1. k <= -1 => k * p <= -p
    <3>1. SUFFICES ASSUME k <= -1 PROVE k * p <= -p
      OBVIOUS
    <3>2. -1 - k \in Nat /\ (-1 - k) * p \in Nat
      BY <1>1, <3>1
    <3>3. (-1 - k) * p = -p - k * p
      BY <1>1
    <3> QED
      BY <1>1, <3>2, <3>3
  <2> QED
    BY <1>1, <1>2, <2>1
<1>5. k = 0
  BY <1>3, <1>4
<1> QED
  BY <1>1, <1>2, <1>5

LEMMA CongruentIs ==
    /\ \A m \in Int : Congruent(m, m)
    /\ \A m, n \in Int : Congruent(m, n) => Congruent(n, m)
    /\ \A k, m, n \in Int : Congruent(k, m) /\ Congruent(m, n) => Congruent(k, n)
<1>0. p \in Int
  BY Prime
<1>1. \A m \in Int : m - m = 0 * p
  BY <1>0
<1>2. ASSUME NEW m \in Int, NEW n \in Int, Congruent(m, n) PROVE Congruent(n, m)
  <2>1. PICK k \in Int : m - n = k * p
    BY <1>2 DEF Congruent
  <2>2. n - m = (-k) * p /\ -k \in Int
    BY <1>0, <2>1
  <2> QED
    BY <2>2 DEF Congruent
<1>3. ASSUME NEW k \in Int, NEW m \in Int, NEW n \in Int, Congruent(k, m), Congruent(m, n)
      PROVE  Congruent(k, n)
  <2>1. PICK a \in Int : k - m = a * p
    BY <1>3 DEF Congruent
  <2>2. PICK b \in Int : m - n = b * p
    BY <1>3 DEF Congruent
  <2>3. k - n = (a + b) * p /\ a + b \in Int
    BY <1>0, <2>1, <2>2
  <2> QED
    BY <2>3 DEF Congruent
<1> QED
  BY <1>1, <1>2, <1>3 DEF Congruent

LEMMA CongruentTerms ==
    ASSUME NEW k \in Int, NEW l \in Int, NEW m \in Int, NEW n \in Int, Congruent(k, m), Congruent(l, n)
    PROVE  Congruent(k + l, m + n) /\ Congruent(k - l, m - n) /\ Congruent(k * l, m * n)
<1>0. p \in Int
  BY Prime
<1>1. PICK a \in Int : k - m = a * p
  BY DEF Congruent
<1>2. PICK b \in Int : l - n = b * p
  BY DEF Congruent
<1>3. (k + l) - (m + n) = (a + b) * p /\ a + b \in Int
  BY <1>0, <1>1, <1>2
<1>4. (k - l) - (m - n) = (a - b) * p /\ a - b \in Int
  BY <1>0, <1>1, <1>2
<1>5. k * l - m * n = (a * l + b * m) * p /\ a * l + b * m \in Int
  <2>1. k = m + a * p /\ l = n + b * p
    BY <1>0, <1>1, <1>2
  <2>2. k * l - m * n = (k - m) * l + (l - n) * m
    OBVIOUS
  <2>3. (k - m) * l + (l - n) * m = (a * p) * l + (b * p) * m
    BY <1>1, <1>2
  <2>4. (a * p) * l + (b * p) * m = (a * l + b * m) * p
    BY <1>0
  <2> QED
    BY <2>2, <2>3, <2>4
<1> QED
  BY <1>3, <1>4, <1>5 DEF Congruent

LEMMA ValuesAre ==
    /\ Values = Numbers \cup {NaN} /\ NaN \notin Numbers /\ {0, 1} \subseteq Numbers /\ Numbers \subseteq Int
    /\ \A a \in Values : IsNaN(a) <=> a \notin Numbers
<1>1. p \in Nat /\ p > 2
  BY Prime
<1>2. Values = Numbers \cup {NaN} /\ NaN \notin Numbers /\ {0, 1} \subseteq Numbers /\ Numbers \subseteq Int
  BY <1>1 DEF Values, Numbers, NaN
<1> QED
  BY <1>2 DEF IsNaN

\* What the operations do to numbers, and that nothing comes of NaN.
LEMMA Operations ==
    ASSUME NEW a \in Values, NEW b \in Values
    PROVE  /\ Plus(a, b) \in Values /\ Minus(a, b) \in Values /\ Times(a, b) \in Values
           /\ a \in Numbers /\ b \in Numbers =>
                /\ Plus(a, b) \in Numbers /\ Congruent(Plus(a, b), a + b)
                /\ Minus(a, b) \in Numbers /\ Congruent(Minus(a, b), a - b)
                /\ Times(a, b) \in Numbers /\ Congruent(Times(a, b), a * b)
                /\ Over(a, b) = IF b = 0 THEN NaN ELSE CHOOSE c \in Numbers : (b * c) % p = a
           /\ a = NaN \/ b = NaN =>
                Plus(a, b) = NaN /\ Minus(a, b) = NaN /\ Times(a, b) = NaN /\ Over(a, b) = NaN
<1>1. /\ Plus(a, b) = IF IsNaN(a) \/ IsNaN(b) THEN NaN ELSE (a + b) % p
      /\ Minus(a, b) = IF IsNaN(a) \/ IsNaN(b) THEN NaN ELSE (a + p - b) % p
      /\ Times(a, b) = IF IsNaN(a) \/ IsNaN(b) THEN NaN ELSE (a * b) % p
      /\ Over(a, b) = IF IsNaN(a) \/ IsNaN(b) THEN NaN
                      ELSE IF b = 0 THEN NaN ELSE CHOOSE c \in Numbers : (b * c) % p = a
  BY DEF Plus, Minus, Times, Over, Sums, Differences, Multiples, Quotients, Table
<1>2. a = NaN \/ b = NaN =>
        Plus(a, b) = NaN /\ Minus(a, b) = NaN /\ Times(a, b) = NaN /\ Over(a, b) = NaN
  BY <1>1 DEF IsNaN
<1>3. ASSUME a \in Numbers, b \in Numbers
      PROVE  /\ Plus(a, b) \in Numbers /\ Congruent(Plus(a, b), a + b)
             /\ Minus(a, b) \in Numbers /\ Congruent(Minus(a, b), a - b)
             /\ Times(a, b) \in Numbers /\ Congruent(Times(a, b), a * b)
             /\ Over(a, b) = IF b = 0 THEN NaN ELSE CHOOSE c \in Numbers : (b * c) % p = a
  <2>1. a \in Int /\ b \in Int /\ p \in Int /\ ~IsNaN(a) /\ ~IsNaN(b)
    BY <1>3, Prime, ValuesAre
  <2>2. a + b \in Int /\ a - b \in Int /\ a * b \in Int /\ a + p - b \in Int
    BY <2>1
  <2>3. Congruent(a + p - b, a - b)
    <3>1. (a + p - b) - (a - b) = 1 * p
      BY <2>1
    <3> QED
      BY <3>1 DEF Congruent
  <2>4. Congruent((a + p - b) % p, a - b)
    <3>1. (a + p - b) % p \in Int /\ Congruent((a + p - b) % p, a + p - b)
      BY <2>2, ModP, ValuesAre
    <3> QED
      BY <2>2, <2>3, <3>1, CongruentIs
  <2> QED
    BY <1>1, <2>1, <2>2, <2>4, ModP
<1>4. Plus(a, b) \in Values /\ Minus(a, b) \in Values /\ Times(a, b) \in Values
  BY <1>2, <1>3, ValuesAre
<1> QED
  BY <1>2, <1>3, <1>4

\* p is a prime, so that one can divide by every number but zero.
LEMMA HasInverse ==
    ASSUME NEW b \in Numbers \ {0}
    PROVE  \E c \in Numbers : Congruent(b * c, 1)
<1>0. p \in Nat /\ p > 2 /\ b \in Nat /\ b # 0 /\ b < p
  BY Prime DEF Numbers
<1> DEFINE M == {k \in Nat : k # 0 /\ \E m \in Int : Congruent(k, b * m)}
<1>1. b \in M
  <2>1. Congruent(b, b * 1)
    BY <1>0, CongruentIs
  <2> QED
    BY <1>0, <2>1
<1>2. M \subseteq Nat
  OBVIOUS
<1>3. PICK k \in M : \A l \in M : ~(<<l, k>> \in OpToRel(<, Nat))
  <2> HIDE DEF M
  <2> QED
    BY <1>1, <1>2, NatLessThanWellFounded, WFMin
<1>4. k \in Nat /\ k # 0 /\ \A l \in M : ~(l < k)
  <2>1. \A l, n \in Nat : l < n => <<l, n>> \in OpToRel(<, Nat)
    BY Zenon DEF OpToRel
  <2>2. k \in Nat /\ k # 0
    BY <1>3
  <2> HIDE DEF M
  <2> QED
    BY <1>2, <1>3, <2>1, <2>2, Zenon
<1>5. PICK m \in Int : Congruent(k, b * m)
  BY <1>3
<1>6. k = 1
  <2>1. SUFFICES ASSUME k # 1 PROVE FALSE
    OBVIOUS
  <2>2. k \in 2..(p - 1)
    BY <1>0, <1>1, <1>4, <2>1
  <2> DEFINE w == p % k
             n == p \div k
  <2>3. n \in Int /\ w \in Nat /\ w < k /\ p = k * n + w
    BY <1>0, <1>4
  <2>4. w # 0
    BY <2>2, Prime
  <2>5. Congruent(w, b * (-(m * n)))
    <3>1. Congruent(k * n, (b * m) * n)
      <4>1. b * m \in Int /\ Congruent(n, n)
        BY <1>0, <2>3, CongruentIs
      <4> HIDE DEF n
      <4> QED
        BY <1>4, <1>5, <2>3, <4>1, CongruentTerms
    <3>2. Congruent(p, 0)
      <4>1. p - 0 = 1 * p
        BY <1>0
      <4> QED
        BY <4>1 DEF Congruent
    <3> HIDE DEF n, w
    <3>3. k * n \in Int /\ (b * m) * n \in Int
      BY <1>0, <1>4, <2>3
    <3>4. Congruent(p - k * n, 0 - (b * m) * n)
      BY <1>0, <3>1, <3>2, <3>3, CongruentTerms
    <3>5. p - k * n = w /\ 0 - (b * m) * n = b * (-(m * n))
      BY <1>0, <1>4, <2>3, <3>3
    <3> QED
      BY <3>4, <3>5
  <2>6. -(m * n) \in Int
    BY <2>3
  <2> HIDE DEF w, n
  <2>7. w \in M
    BY <2>3, <2>4, <2>5, <2>6
  <2> QED
    BY <1>4, <2>3, <2>7
<1>7. m % p \in Numbers /\ Congruent(b * (m % p), b * m)
  <2>1. m % p \in Numbers /\ Congruent(m % p, m) /\ Congruent(b, b) /\ m % p \in Int /\ b \in Int
    BY <1>0, ModP, CongruentIs, ValuesAre
  <2> QED
    BY <2>1, CongruentTerms
<1>8. Congruent(b * (m % p), 1)
  <2>1. b * m \in Int /\ b * (m % p) \in Int /\ 1 \in Int /\ b \in Int
    BY <1>0, <1>7, ValuesAre
  <2> QED
    BY <1>5, <1>6, <1>7, <2>1, CongruentIs
<1> QED
  BY <1>7, <1>8

LEMMA Division ==
    ASSUME NEW a \in Numbers, NEW b \in Numbers \ {0}
    PROVE  Over(a, b) \in Numbers /\ Times(b, Over(a, b)) = a
<1>1. PICK c \in Numbers : Congruent(b * c, 1)
  BY HasInverse
<1>2. a \in Int /\ b \in Int /\ c \in Int
  BY ValuesAre
<1> DEFINE e == Times(c, a)
<1>3. e \in Numbers /\ Congruent(e, c * a) /\ e \in Int
  BY Operations, ValuesAre
<1> HIDE DEF e
<1>4. Congruent(b * e, a)
  <2>1. Congruent(b * e, b * (c * a))
    <3>1. c * a \in Int /\ Congruent(b, b)
      BY <1>2, CongruentIs
    <3> QED
      BY <1>2, <1>3, <3>1, CongruentTerms
  <2>2. Congruent((b * c) * a, 1 * a)
    <3>1. b * c \in Int /\ 1 \in Int /\ Congruent(a, a)
      BY <1>2, CongruentIs
    <3> QED
      BY <1>1, <1>2, <3>1, CongruentTerms
  <2>3. b * (c * a) = (b * c) * a /\ 1 * a = a /\ (b * c) * a \in Int /\ b * e \in Int
    BY <1>2, <1>3
  <2> QED
    BY <1>2, <2>1, <2>2, <2>3, CongruentIs
<1>5. (b * e) % p = a
  <2>1. b * e \in Int /\ (b * e) % p \in Numbers /\ (b * e) % p \in Int /\ Congruent((b * e) % p, b * e)
    <3>1. b * e \in Int
      BY <1>2, <1>3
    <3>2. (b * e) % p \in Numbers /\ Congruent((b * e) % p, b * e)
      BY <3>1, ModP, Zenon
    <3> QED
      BY <3>1, <3>2, ValuesAre
  <2>2. Congruent((b * e) % p, a)
    BY <1>2, <1>4, <2>1, CongruentIs
  <2> QED
    BY <2>1, <2>2, SameNumber
<1> DEFINE quot == Over(a, b)
<1>6. quot = CHOOSE f \in Numbers : (b * f) % p = a
  BY Operations, ValuesAre
<1>7. quot \in Numbers /\ (b * quot) % p = a
  BY <1>3, <1>5, <1>6
<1> HIDE DEF quot
<1>8. Times(b, quot) = a
  <2>1. /\ Times(b, quot) \in Numbers /\ Congruent(Times(b, quot), b * quot) /\ Times(b, quot) \in Int
        /\ quot \in Int /\ b * quot \in Int
    <3>1. quot \in Int /\ b * quot \in Int /\ quot \in Numbers /\ b \in Numbers
      <4>1. b \in Numbers /\ quot \in Numbers /\ b \in Int /\ quot \in Int
        BY <1>7, ValuesAre, Zenon
      <4>2. b * quot \in Int
        BY <4>1
      <4> QED
        BY <4>1, <4>2
    <3>2. Times(b, quot) \in Numbers /\ Congruent(Times(b, quot), b * quot)
      BY <3>1, Operations, ValuesAre
    <3> QED
      BY <3>1, <3>2, ValuesAre
  <2>2. Congruent((b * quot) % p, b * quot) /\ (b * quot) % p \in Int
    <3>1. Congruent((b * quot) % p, b * quot)
      BY <2>1, ModP, Zenon
    <3> QED
      BY <1>2, <1>7, <3>1
  <2>3. Congruent(Times(b, quot), a)
    BY <1>2, <1>7, <2>1, <2>2, CongruentIs
  <2> QED
    BY <2>1, <2>3, SameNumber
<1> QED
  BY <1>7, <1>8 DEF quot

\* u is the number that m leaves modulo p.
Is(u, m) == u \in Numbers /\ Congruent(u, m)

LEMMA IsItself == \A a \in Numbers : a \in Int /\ Is(a, a)
  BY ValuesAre, CongruentIs DEF Is

LEMMA Evaluated ==
    ASSUME NEW u, NEW v, NEW m \in Int, NEW n \in Int, Is(u, m), Is(v, n)
    PROVE  Is(Plus(u, v), m + n) /\ Is(Minus(u, v), m - n) /\ Is(Times(u, v), m * n)
<1>1. u \in Numbers /\ v \in Numbers /\ u \in Int /\ v \in Int /\ u \in Values /\ v \in Values
  BY ValuesAre DEF Is
<1>2. /\ Plus(u, v) \in Numbers /\ Congruent(Plus(u, v), u + v)
      /\ Minus(u, v) \in Numbers /\ Congruent(Minus(u, v), u - v)
      /\ Times(u, v) \in Numbers /\ Congruent(Times(u, v), u * v)
  BY <1>1, Operations
<1>3. Congruent(u + v, m + n) /\ Congruent(u - v, m - n) /\ Congruent(u * v, m * n)
  BY <1>1, CongruentTerms DEF Is
<1>4. /\ u + v \in Int /\ u - v \in Int /\ u * v \in Int
      /\ m + n \in Int /\ m - n \in Int /\ m * n \in Int
  BY <1>1
<1>5. Plus(u, v) \in Int /\ Minus(u, v) \in Int /\ Times(u, v) \in Int
  BY <1>2, ValuesAre
<1>6. \A k, l, o \in Int : Congruent(k, l) /\ Congruent(l, o) => Congruent(k, o)
  BY CongruentIs
<1>7. Congruent(Plus(u, v), m + n)
  BY <1>2, <1>3, <1>4, <1>5, <1>6
<1>8. Congruent(Minus(u, v), m - n)
  BY <1>2, <1>3, <1>4, <1>5, <1>6
<1>9. Congruent(Times(u, v), m * n)
  BY <1>2, <1>3, <1>4, <1>5, <1>6
<1> QED
  BY <1>2, <1>7, <1>8, <1>9 DEF Is

LEMMA SameIs ==
    ASSUME NEW m \in Int, NEW u, NEW v, Is(u, m), Is(v, m)
    PROVE  u = v
<1>1. u \in Numbers /\ v \in Numbers /\ u \in Int /\ v \in Int /\ Congruent(u, m) /\ Congruent(v, m)
  BY ValuesAre DEF Is
<1>2. Congruent(u, v)
  BY <1>1, CongruentIs
<1> QED
  BY <1>1, <1>2, SameNumber

\* NaN comes of NaN only.
LEMMA NaNLaws ==
    ASSUME NEW a \in Values, NEW b \in Values
    PROVE  /\ Plus(a, b) \in Values /\ Minus(a, b) \in Values /\ Times(a, b) \in Values
           /\ Plus(a, b) = NaN <=> a = NaN \/ b = NaN
           /\ Minus(a, b) = NaN <=> a = NaN \/ b = NaN
           /\ Times(a, b) = NaN <=> a = NaN \/ b = NaN
BY Operations, ValuesAre

\* The laws of arithmetic that NaN does not break.
LEMMA TwoValues ==
    ASSUME NEW a \in Values, NEW b \in Values
    PROVE  /\ Plus(a, b) = Plus(b, a) /\ Times(a, b) = Times(b, a)
           /\ Plus(a, 0) = a /\ Plus(0, a) = a /\ Times(a, 1) = a /\ Times(1, a) = a
           /\ Plus(a, Times(Minus(0, 1), b)) = Minus(a, b)
<1>1. 0 \in Values /\ 1 \in Values /\ 0 \in Numbers /\ 1 \in Numbers /\ NaN \notin Numbers
      /\ a \in Numbers \cup {NaN} /\ b \in Numbers \cup {NaN} /\ Numbers \subseteq Values
  BY ValuesAre
<1>2. Minus(0, 1) \in Numbers /\ Minus(0, 1) \in Values
  BY <1>1, Operations
<1>3. CASE a \in Numbers /\ b \in Numbers
  <2>1. /\ a \in Int /\ b \in Int /\ Is(a, a) /\ Is(b, b) /\ Is(0, 0) /\ Is(1, 1)
        /\ 0 \in Int /\ 1 \in Int /\ 0 - 1 \in Int
    BY <1>1, <1>3, IsItself
  <2>2. Is(Plus(a, b), a + b) /\ Is(Plus(b, a), b + a) /\ Is(Times(a, b), a * b) /\ Is(Times(b, a), b * a)
    BY <2>1, Evaluated
  <2>3. Is(Plus(a, 0), a + 0) /\ Is(Plus(0, a), 0 + a) /\ Is(Times(a, 1), a * 1) /\ Is(Times(1, a), 1 * a)
    BY <2>1, Evaluated, Zenon
  <2>4. Is(Minus(0, 1), 0 - 1)
    BY <2>1, Evaluated, Zenon
  <2>5. Is(Times(Minus(0, 1), b), (0 - 1) * b)
    BY <2>1, <2>4, Evaluated, Zenon
  <2>6. Is(Plus(a, Times(Minus(0, 1), b)), a + (0 - 1) * b)
    BY <2>1, <2>5, Evaluated
  <2>7. Is(Minus(a, b), a - b)
    BY <2>1, Evaluated
  <2>8. a + b \in Int /\ a * b \in Int /\ a - b \in Int /\ b + a = a + b /\ b * a = a * b /\ a + 0 = a
        /\ 0 + a = a /\ a * 1 = a /\ 1 * a = a /\ a + (0 - 1) * b = a - b
    BY <2>1
  <2> QED
    BY <2>1, <2>2, <2>3, <2>6, <2>7, <2>8, SameIs
<1>4. CASE a \in Numbers /\ b = NaN
  <2>1. Plus(a, b) = NaN /\ Plus(b, a) = NaN /\ Times(a, b) = NaN /\ Times(b, a) = NaN /\ Minus(a, b) = NaN
    BY <1>4, NaNLaws
  <2>2. Times(Minus(0, 1), b) = NaN
    BY <1>2, <1>4, NaNLaws
  <2>3. Plus(a, 0) = a /\ Plus(0, a) = a /\ Times(a, 1) = a /\ Times(1, a) = a
    <3>1. a \in Int /\ Is(a, a) /\ Is(0, 0) /\ Is(1, 1) /\ 0 \in Int /\ 1 \in Int
      BY <1>1, <1>4, IsItself
    <3>2. Is(Plus(a, 0), a + 0) /\ Is(Plus(0, a), 0 + a) /\ Is(Times(a, 1), a * 1) /\ Is(Times(1, a), 1 * a)
      BY <3>1, Evaluated, Zenon
    <3>3. a + 0 = a /\ 0 + a = a /\ a * 1 = a /\ 1 * a = a
      BY <3>1
    <3> QED
      BY <3>1, <3>2, <3>3, SameIs
  <2> QED
    BY <1>4, <2>1, <2>2, <2>3
<1>5. CASE a = NaN
  <2>1. Plus(a, b) = NaN /\ Plus(b, a) = NaN /\ Times(a, b) = NaN /\ Times(b, a) = NaN /\ Minus(a, b) = NaN
        /\ Plus(a, 0) = NaN /\ Plus(0, a) = NaN /\ Times(a, 1) = NaN /\ Times(1, a) = NaN
    BY <1>1, <1>5, NaNLaws
  <2>2. Times(Minus(0, 1), b) \in Values
    BY <1>2, NaNLaws
  <2>3. Plus(a, Times(Minus(0, 1), b)) = NaN
    BY <1>5, <2>2, NaNLaws
  <2> QED
    BY <1>5, <2>1, <2>3
<1> QED
  BY <1>1, <1>3, <1>4, <1>5

LEMMA ThreeValues ==
    ASSUME NEW a \in Values, NEW b \in Values, NEW c \in Values
    PROVE  /\ Plus(Plus(a, b), c) = Plus(a, Plus(b, c))
           /\ Times(Times(a, b), c) = Times(a, Times(b, c))
           /\ Times(a, Plus(b, c)) = Plus(Times(a, b), Times(a, c))
           /\ Times(a, Minus(b, c)) = Minus(Times(a, b), Times(a, c))
           /\ Minus(a, Plus(b, c)) = Minus(Minus(a, b), c)
<1>1. CASE a \in Numbers /\ b \in Numbers /\ c \in Numbers
  <2>1. a \in Int /\ b \in Int /\ c \in Int /\ Is(a, a) /\ Is(b, b) /\ Is(c, c)
    BY <1>1, IsItself
  <2>2. /\ Is(Plus(a, b), a + b) /\ Is(Plus(b, c), b + c) /\ Is(Times(a, b), a * b) /\ Is(Times(b, c), b * c)
        /\ Is(Times(a, c), a * c) /\ Is(Minus(b, c), b - c) /\ Is(Minus(a, b), a - b)
    BY <2>1, Evaluated
  <2>3. a + b \in Int /\ b + c \in Int /\ a * b \in Int /\ b * c \in Int /\ a * c \in Int /\ b - c \in Int /\ a - b \in Int
    BY <2>1
  <2>4. Is(Plus(Plus(a, b), c), (a + b) + c) /\ Is(Plus(a, Plus(b, c)), a + (b + c))
    BY <2>1, <2>2, <2>3, Evaluated
  <2>5. Is(Times(Times(a, b), c), (a * b) * c) /\ Is(Times(a, Times(b, c)), a * (b * c))
    BY <2>1, <2>2, <2>3, Evaluated
  <2>6. Is(Times(a, Plus(b, c)), a * (b + c)) /\ Is(Plus(Times(a, b), Times(a, c)), a * b + a * c)
    BY <2>1, <2>2, <2>3, Evaluated
  <2>7. Is(Times(a, Minus(b, c)), a * (b - c)) /\ Is(Minus(Times(a, b), Times(a, c)), a * b - a * c)
    BY <2>1, <2>2, <2>3, Evaluated
  <2>8. Is(Minus(a, Plus(b, c)), a - (b + c)) /\ Is(Minus(Minus(a, b), c), (a - b) - c)
    BY <2>1, <2>2, <2>3, Evaluated
  <2>9. (a + b) + c = a + (b + c) /\ (a + b) + c \in Int
    BY <2>1
  <2>10. (a * b) * c = a * (b * c) /\ (a * b) * c \in Int
    BY <2>1
  <2>11. a * (b + c) = a * b + a * c /\ a * (b + c) \in Int
    BY <2>1
  <2>12. a * (b - c) = a * b - a * c /\ a * (b - c) \in Int
    BY <2>1
  <2>13. a - (b + c) = (a - b) - c /\ a - (b + c) \in Int
    BY <2>1
  <2>14. Plus(Plus(a, b), c) = Plus(a, Plus(b, c))
    BY <2>4, <2>9, SameIs, Zenon
  <2>15. Times(Times(a, b), c) = Times(a, Times(b, c))
    BY <2>5, <2>10, SameIs, Zenon
  <2>16. Times(a, Plus(b, c)) = Plus(Times(a, b), Times(a, c))
    BY <2>6, <2>11, SameIs, Zenon
  <2>17. Times(a, Minus(b, c)) = Minus(Times(a, b), Times(a, c))
    BY <2>7, <2>12, SameIs, Zenon
  <2>18. Minus(a, Plus(b, c)) = Minus(Minus(a, b), c)
    BY <2>8, <2>13, SameIs, Zenon
  <2> QED
    BY <2>14, <2>15, <2>16, <2>17, <2>18
<1>2. CASE a = NaN \/ b = NaN \/ c = NaN
  <2>1. /\ Plus(a, b) \in Values /\ Plus(b, c) \in Values /\ Times(a, b) \in Values /\ Times(b, c) \in Values
        /\ Times(a, c) \in Values /\ Minus(a, b) \in Values /\ Minus(b, c) \in Values
        /\ (Plus(a, b) = NaN <=> a = NaN \/ b = NaN) /\ (Plus(b, c) = NaN <=> b = NaN \/ c = NaN)
        /\ (Times(a, b) = NaN <=> a = NaN \/ b = NaN) /\ (Times(b, c) = NaN <=> b = NaN \/ c = NaN)
        /\ (Times(a, c) = NaN <=> a = NaN \/ c = NaN) /\ (Minus(a, b) = NaN <=> a = NaN \/ b = NaN)
        /\ (Minus(b, c) = NaN <=> b = NaN \/ c = NaN)
    BY NaNLaws
  <2>2. Plus(Plus(a, b), c) = NaN /\ Plus(a, Plus(b, c)) = NaN
    BY <1>2, <2>1, NaNLaws
  <2>3. Times(Times(a, b), c) = NaN /\ Times(a, Times(b, c)) = NaN
    BY <1>2, <2>1, NaNLaws
  <2>4. Times(a, Plus(b, c)) = NaN /\ Plus(Times(a, b), Times(a, c)) = NaN
    BY <1>2, <2>1, NaNLaws
  <2>5. Times(a, Minus(b, c)) = NaN /\ Minus(Times(a, b), Times(a, c)) = NaN
    BY <1>2, <2>1, NaNLaws
  <2>6. Minus(a, Plus(b, c)) = NaN /\ Minus(Minus(a, b), c) = NaN
    BY <1>2, <2>1, NaNLaws
  <2> QED
    BY <2>2, <2>3, <2>4, <2>5, <2>6
<1> QED
  BY <1>1, <1>2, ValuesAre

LEMMA FourValues ==
    ASSUME NEW a \in Values, NEW b \in Values, NEW c \in Values, NEW e \in Values
    PROVE  Plus(Plus(a, b), Plus(c, e)) = Plus(Plus(a, c), Plus(b, e))
<1>1. \A u, v \in Values : Plus(u, v) \in Values /\ Plus(u, v) = Plus(v, u)
  BY NaNLaws, TwoValues
<1>2. \A u, v, w \in Values : Plus(Plus(u, v), w) = Plus(u, Plus(v, w))
  BY ThreeValues
<1>3. Plus(Plus(a, b), Plus(c, e)) = Plus(a, Plus(b, Plus(c, e)))
  BY <1>1, <1>2
<1>4. Plus(b, Plus(c, e)) = Plus(c, Plus(b, e))
  BY <1>1, <1>2
<1>5. Plus(a, Plus(c, Plus(b, e))) = Plus(Plus(a, c), Plus(b, e))
  BY <1>1, <1>2
<1> QED
  BY <1>3, <1>4, <1>5

----------------------------------------------------------------------------
(* Sums of vectors, summand by summand.                                     *)

LEMMA Largest ==
    ASSUME NEW n \in Nat, NEW s \in SUBSET (1..n), s # {}
    PROVE  Max(s) \in s /\ \A k \in s : Max(s) >= k
<1> DEFINE Good(m) == \A t \in SUBSET (1..m) : t # {} => \E k \in t : \A l \in t : k >= l
           S == {m \in Nat : Good(m)}
<1>1. 0 \in S
  <2>1. \A t \in SUBSET (1..0) : t = {}
    OBVIOUS
  <2> QED
    BY <2>1
<1>2. ASSUME NEW m \in Nat, m \in S PROVE m + 1 \in S
  <2>1. Good(m)
    BY <1>2
  <2>2. ASSUME NEW t \in SUBSET (1..(m + 1)), t # {} PROVE \E k \in t : \A l \in t : k >= l
    <3>1. CASE m + 1 \in t
      <4>1. \A l \in t : m + 1 >= l
        BY <1>2
      <4> QED
        BY <3>1, <4>1
    <3>2. CASE m + 1 \notin t
      <4>1. t \in SUBSET (1..m)
        BY <1>2, <3>2
      <4> QED
        BY <2>1, <2>2, <4>1
    <3> QED
      BY <3>1, <3>2
  <2> QED
    BY <1>2, <2>2
<1> HIDE DEF S
<1>3. n \in S
  BY <1>1, <1>2, Induction
<1>4. \E k \in s : \A l \in s : k >= l
  BY <1>3 DEF S
<1> QED
  BY <1>4 DEF Max

\* The recursion of a sum over the first n entries of v.
SumOver(f, n, v) ==
    f = [s \in SUBSET (1..n) |-> IF s = {} THEN 0 ELSE Plus(f[s \ {Max(s)}], v[Max(s)])]

LEMMA SumThere ==
    ASSUME NEW n \in Nat, NEW v
    PROVE  \E f : SumOver(f, n, v)
<1> DEFINE S == {m \in Nat : \E f : SumOver(f, m, v)}
<1>1. 0 \in S
  <2> DEFINE f == [s \in SUBSET (1..0) |-> 0]
  <2>1. \A s \in SUBSET (1..0) : s = {}
    OBVIOUS
  <2>2. SumOver(f, 0, v)
    BY <2>1 DEF SumOver
  <2> QED
    BY <2>2
<1>2. ASSUME NEW m \in Nat, m \in S PROVE m + 1 \in S
  <2>1. PICK f : SumOver(f, m, v)
    BY <1>2
  <2> DEFINE g == [s \in SUBSET (1..(m + 1)) |->
                      IF m + 1 \in s THEN Plus(f[s \ {m + 1}], v[m + 1]) ELSE f[s]]
  <2>2. ASSUME NEW s \in SUBSET (1..(m + 1))
        PROVE  g[s] = IF s = {} THEN 0 ELSE Plus(g[s \ {Max(s)}], v[Max(s)])
    <3>1. CASE m + 1 \in s
      <4>1. Max(s) \in s /\ Max(s) >= m + 1
        <5>1. m + 1 \in Nat
          OBVIOUS
        <5> HIDE DEF g
        <5>2. Max(s) \in s /\ \A k \in s : Max(s) >= k
          BY <3>1, <5>1, Largest, Zenon
        <5> QED
          BY <3>1, <5>2
      <4>2. Max(s) = m + 1
        <5>1. Max(s) \in 1..(m + 1)
          BY <4>1
        <5> QED
          BY <4>1, <5>1
      <4>3. s \ {m + 1} \in SUBSET (1..(m + 1)) /\ m + 1 \notin s \ {m + 1}
        OBVIOUS
      <4>4. g[s \ {m + 1}] = f[s \ {m + 1}]
        BY <4>3
      <4>5. g[s] = Plus(f[s \ {m + 1}], v[m + 1]) /\ s # {}
        BY <3>1
      <4> HIDE DEF g
      <4> QED
        BY <4>2, <4>4, <4>5
    <3>2. CASE m + 1 \notin s
      <4>1. s \in SUBSET (1..m)
        BY <3>2
      <4>2. f[s] = IF s = {} THEN 0 ELSE Plus(f[s \ {Max(s)}], v[Max(s)])
        BY <2>1, <4>1 DEF SumOver
      <4>3. g[s] = f[s]
        BY <3>2
      <4>4. g[s \ {Max(s)}] = f[s \ {Max(s)}]
        <5>1. s \ {Max(s)} \in SUBSET (1..(m + 1)) /\ m + 1 \notin s \ {Max(s)}
          BY <3>2
        <5> QED
          BY <5>1
      <4> HIDE DEF g
      <4> QED
        BY <4>2, <4>3, <4>4
    <3> QED
      BY <3>1, <3>2
  <2>3. SumOver(g, m + 1, v)
    <3>1. g = [s \in SUBSET (1..(m + 1)) |-> g[s]]
      OBVIOUS
    <3> HIDE DEF g
    <3> QED
      BY <2>2, <3>1 DEF SumOver
  <2> HIDE DEF g
  <2> QED
    BY <2>3
<1> HIDE DEF S
<1>3. n \in S
  BY <1>1, <1>2, Induction
<1> QED
  BY <1>3 DEF S

LEMMA SumFirst ==
    ASSUME NEW n \in Nat, NEW v, NEW f, SumOver(f, n, v)
    PROVE  f[1..0] = 0 /\ \A k \in Nat : k < n => f[1..(k + 1)] = Plus(f[1..k], v[k + 1])
<1>1. \A s \in SUBSET (1..n) : f[s] = IF s = {} THEN 0 ELSE Plus(f[s \ {Max(s)}], v[Max(s)])
  BY DEF SumOver
<1>2. 1..0 = {} /\ 1..0 \in SUBSET (1..n)
  OBVIOUS
<1>3. ASSUME NEW k \in Nat, k < n PROVE f[1..(k + 1)] = Plus(f[1..k], v[k + 1])
  <2> DEFINE s == 1..(k + 1)
  <2>1. s \in SUBSET (1..n) /\ k + 1 \in s /\ k + 1 \in Nat
    BY <1>3
  <2>2. Max(s) \in s /\ \A l \in s : Max(s) >= l
    BY <2>1, Largest
  <2>3. Max(s) = k + 1
    BY <2>1, <2>2
  <2>4. s \ {k + 1} = 1..k
    OBVIOUS
  <2> HIDE DEF s
  <2>5. f[s] = Plus(f[s \ {Max(s)}], v[Max(s)])
    BY <1>1, <2>1
  <2> QED
    BY <2>3, <2>4, <2>5 DEF s
<1> QED
  BY <1>1, <1>2, <1>3

LEMMA SumSame ==
    ASSUME NEW n \in Nat, NEW v, NEW f, SumOver(f, n, v), NEW m \in Nat, NEW w, NEW g, SumOver(g, m, w),
           NEW k \in Nat, k <= n, k <= m, \A l \in 1..k : v[l] = w[l]
    PROVE  f[1..k] = g[1..k]
<1> DEFINE S == {l \in Nat : l <= k => f[1..l] = g[1..l]}
<1>1. 0 \in S
  BY SumFirst
<1>2. ASSUME NEW l \in Nat, l \in S PROVE l + 1 \in S
  <2>1. SUFFICES ASSUME l + 1 <= k PROVE f[1..(l + 1)] = g[1..(l + 1)]
    BY <1>2
  <2>2. l < n /\ l < m /\ l + 1 \in 1..k /\ f[1..l] = g[1..l]
    BY <1>2, <2>1
  <2>3. f[1..(l + 1)] = Plus(f[1..l], v[l + 1]) /\ g[1..(l + 1)] = Plus(g[1..l], w[l + 1])
    BY <2>2, SumFirst
  <2> QED
    BY <2>2, <2>3
<1> HIDE DEF S
<1>3. k \in S
  BY <1>1, <1>2, Induction
<1> QED
  BY <1>3 DEF S

LEMMA SumIs ==
    ASSUME NEW n \in Nat, NEW v, DOMAIN v = 1..n
    PROVE  \E f : SumOver(f, n, v) /\ Sum(v) = f[1..n]
<1> DEFINE f == CHOOSE g : SumOver(g, n, v)
<1>1. Sum(v) = f[1..n]
  BY Zenon DEF Sum, FoldLeft, MapThenFoldSet, SumOver
<1>2. SumOver(f, n, v)
  BY SumThere
<1> QED
  BY <1>1, <1>2

\* The first summand, and one after the other: Sum without its fold.
LEMMA SumSteps ==
    ASSUME NEW n \in Nat, NEW v
    PROVE  /\ DOMAIN v = 1..0 => Sum(v) = 0
           /\ DOMAIN v = 1..(n + 1) => Sum(v) = Plus(Sum([i \in 1..n |-> v[i]]), v[n + 1])
<1>1. ASSUME DOMAIN v = 1..0 PROVE Sum(v) = 0
  <2>1. PICK f : SumOver(f, 0, v) /\ Sum(v) = f[1..0]
    BY <1>1, SumIs, Zenon
  <2> QED
    BY <2>1, SumFirst
<1>2. ASSUME DOMAIN v = 1..(n + 1) PROVE Sum(v) = Plus(Sum([i \in 1..n |-> v[i]]), v[n + 1])
  <2> DEFINE u == [i \in 1..n |-> v[i]]
  <2>1. n + 1 \in Nat /\ DOMAIN u = 1..n /\ \A i \in 1..n : v[i] = u[i]
    OBVIOUS
  <2>2. PICK f : SumOver(f, n + 1, v) /\ Sum(v) = f[1..(n + 1)]
    BY <1>2, <2>1, SumIs
  <2> HIDE DEF u
  <2>3. PICK g : SumOver(g, n, u) /\ Sum(u) = g[1..n]
    BY <2>1, SumIs
  <2>4. f[1..(n + 1)] = Plus(f[1..n], v[n + 1])
    BY <2>1, <2>2, SumFirst
  <2>5. f[1..n] = g[1..n]
    BY <2>1, <2>2, <2>3, SumSame
  <2> QED
    BY <2>2, <2>3, <2>4, <2>5 DEF u
<1> QED
  BY <1>1, <1>2

----------------------------------------------------------------------------
(* Vectors, what their elements sum up to, and their products.             *)

\* Vectors of n scalars.
Vec(n) == [1..n -> Values]

LEMMA ValuesHere ==
    /\ 0 \in Values /\ 1 \in Values /\ NaN \in Values /\ 0 \in Numbers /\ 1 \in Numbers
    /\ NaN # 0 /\ Minus(0, 1) \in Numbers /\ Numbers \subseteq Values
    /\ \A a \in Values : a \in Numbers <=> a # NaN
<1>1. 0 \in Values /\ 1 \in Values /\ NaN \in Values /\ 0 \in Numbers /\ 1 \in Numbers
      /\ NaN # 0 /\ Numbers \subseteq Values /\ \A a \in Values : a \in Numbers <=> a # NaN
  BY ValuesAre
<1>2. Minus(0, 1) \in Numbers
  BY <1>1, Operations
<1> QED
  BY <1>1, <1>2

\* A vector without its last entry.
LEMMA VecFront ==
    ASSUME NEW n \in Nat, NEW v \in Vec(n + 1)
    PROVE  /\ [i \in 1..n |-> v[i]] \in Vec(n) /\ v[n + 1] \in Values
           /\ Sum(v) = Plus(Sum([i \in 1..n |-> v[i]]), v[n + 1])
<1>1. n + 1 \in 1..(n + 1) /\ \A i \in 1..n : i \in 1..(n + 1)
  OBVIOUS
<1>2. DOMAIN v = 1..(n + 1) /\ \A i \in 1..(n + 1) : v[i] \in Values
  BY DEF Vec
<1>3. Sum(v) = Plus(Sum([i \in 1..n |-> v[i]]), v[n + 1])
  BY <1>2, SumSteps, Zenon
<1>4. [i \in 1..n |-> v[i]] \in Vec(n)
  BY <1>1, <1>2 DEF Vec
<1> QED
  BY <1>1, <1>2, <1>3, <1>4

LEMMA SumValue ==
    ASSUME NEW n \in Nat, NEW v \in Vec(n)
    PROVE  Sum(v) \in Values /\ (Sum(v) = NaN <=> \E i \in 1..n : v[i] = NaN)
<1> DEFINE Good(m, w) == Sum(w) \in Values /\ (Sum(w) = NaN <=> \E i \in 1..m : w[i] = NaN)
           S == {m \in Nat : \A w \in Vec(m) : Good(m, w)}
<1>1. 0 \in S
  <2>1. ASSUME NEW w \in Vec(0) PROVE Good(0, w)
    <3>1. DOMAIN w = 1..0 /\ 1..0 = {}
      BY DEF Vec
    <3>2. Sum(w) = 0
      BY <3>1, SumSteps, Zenon
    <3> QED
      BY <3>1, <3>2, ValuesHere
  <2> QED
    BY <2>1
<1>2. ASSUME NEW m \in Nat, m \in S PROVE m + 1 \in S
  <2>1. ASSUME NEW w \in Vec(m + 1) PROVE Good(m + 1, w)
    <3> DEFINE u == [i \in 1..m |-> w[i]]
    <3>1. u \in Vec(m) /\ w[m + 1] \in Values /\ Sum(w) = Plus(Sum(u), w[m + 1])
      BY VecFront
    <3>2. Good(m, u)
      BY <1>2, <3>1
    <3>3. Sum(w) \in Values /\ (Sum(w) = NaN <=> Sum(u) = NaN \/ w[m + 1] = NaN)
      BY <3>1, <3>2, NaNLaws
    <3>4. (\E i \in 1..(m + 1) : w[i] = NaN) <=> (\E i \in 1..m : u[i] = NaN) \/ w[m + 1] = NaN
      <4>1. \A i : i \in 1..(m + 1) <=> i \in 1..m \/ i = m + 1
        OBVIOUS
      <4>2. \A i \in 1..m : u[i] = w[i]
        OBVIOUS
      <4> HIDE DEF u
      <4> QED
        BY <4>1, <4>2
    <3> HIDE DEF u
    <3> QED
      BY <3>2, <3>3, <3>4
  <2> QED
    BY <2>1
<1> HIDE DEF S
<1>3. n \in S
  BY <1>1, <1>2, Induction
<1> QED
  BY <1>3 DEF S

LEMMA SumPlus ==
    ASSUME NEW n \in Nat, NEW u \in Vec(n), NEW v \in Vec(n)
    PROVE  Sum([i \in 1..n |-> Plus(u[i], v[i])]) = Plus(Sum(u), Sum(v))
<1> DEFINE Good(m, a, b) == Sum([i \in 1..m |-> Plus(a[i], b[i])]) = Plus(Sum(a), Sum(b))
           S == {m \in Nat : \A a, b \in Vec(m) : Good(m, a, b)}
<1>1. 0 \in S
  <2>1. ASSUME NEW a \in Vec(0), NEW b \in Vec(0) PROVE Good(0, a, b)
    <3> DEFINE w == [i \in 1..0 |-> Plus(a[i], b[i])]
    <3>1. DOMAIN a = 1..0 /\ DOMAIN b = 1..0 /\ DOMAIN w = 1..0
      BY DEF Vec
    <3> HIDE DEF w
    <3>2. Sum(a) = 0 /\ Sum(b) = 0 /\ Sum(w) = 0
      BY <3>1, SumSteps, Zenon
    <3>3. Plus(0, 0) = 0
      BY TwoValues, ValuesHere
    <3> QED
      BY <3>2, <3>3 DEF w
  <2> QED
    BY <2>1
<1>2. ASSUME NEW m \in Nat, m \in S PROVE m + 1 \in S
  <2>1. ASSUME NEW a \in Vec(m + 1), NEW b \in Vec(m + 1) PROVE Good(m + 1, a, b)
    <3> DEFINE a1 == [i \in 1..m |-> a[i]]
               b1 == [i \in 1..m |-> b[i]]
               w == [i \in 1..(m + 1) |-> Plus(a[i], b[i])]
               w1 == [i \in 1..m |-> w[i]]
    <3>1. /\ a1 \in Vec(m) /\ a[m + 1] \in Values /\ Sum(a) = Plus(Sum(a1), a[m + 1])
          /\ b1 \in Vec(m) /\ b[m + 1] \in Values /\ Sum(b) = Plus(Sum(b1), b[m + 1])
      BY VecFront
    <3>2. w \in Vec(m + 1)
      <4>1. \A i \in 1..(m + 1) : a[i] \in Values /\ b[i] \in Values
        BY DEF Vec
      <4>2. \A i \in 1..(m + 1) : Plus(a[i], b[i]) \in Values
        BY <4>1, NaNLaws
      <4> QED
        BY <4>2 DEF Vec
    <3>3. Sum(w) = Plus(Sum(w1), w[m + 1])
      <4> HIDE DEF w
      <4> QED
        BY <3>2, VecFront
    <3>4. w1 = [i \in 1..m |-> Plus(a1[i], b1[i])] /\ w[m + 1] = Plus(a[m + 1], b[m + 1])
      OBVIOUS
    <3> HIDE DEF a1, b1, w1
    <3>5. Sum(w1) = Plus(Sum(a1), Sum(b1))
      BY <1>2, <3>1, <3>4
    <3>6. Sum(a1) \in Values /\ Sum(b1) \in Values
      BY <3>1, SumValue
    <3>7. Plus(Plus(Sum(a1), Sum(b1)), Plus(a[m + 1], b[m + 1]))
            = Plus(Plus(Sum(a1), a[m + 1]), Plus(Sum(b1), b[m + 1]))
      BY <3>1, <3>6, FourValues
    <3> HIDE DEF w
    <3>8. Sum(w) = Plus(Sum(a), Sum(b))
      BY <3>1, <3>3, <3>4, <3>5, <3>7
    <3> QED
      BY <3>8 DEF w
  <2> QED
    BY <2>1
<1> HIDE DEF S
<1>3. n \in S
  BY <1>1, <1>2, Induction
<1> QED
  BY <1>3 DEF S

LEMMA SumTimes ==
    ASSUME NEW n \in Nat, NEW a \in Values, n # 0 \/ a # NaN, NEW v \in Vec(n)
    PROVE  Sum([i \in 1..n |-> Times(a, v[i])]) = Times(a, Sum(v))
<1> DEFINE Good(m, w) == Sum([i \in 1..m |-> Times(a, w[i])]) = Times(a, Sum(w))
           S == {m \in Nat : \A w \in Vec(m) : Good(m, w)}
<1>1. CASE a \in Numbers
  <2>1. 0 \in S
    <3>1. ASSUME NEW w \in Vec(0) PROVE Good(0, w)
      <4> DEFINE t == [i \in 1..0 |-> Times(a, w[i])]
      <4>1. DOMAIN w = 1..0 /\ DOMAIN t = 1..0
        BY DEF Vec
      <4> HIDE DEF t
      <4>2. Sum(w) = 0 /\ Sum(t) = 0
        BY <4>1, SumSteps, Zenon
      <4>3. Times(a, 0) = 0
        <5>1. Is(a, a) /\ Is(0, 0) /\ a \in Int /\ 0 \in Int
          BY <1>1, IsItself, ValuesHere
        <5>2. Is(Times(a, 0), a * 0)
          BY <5>1, Evaluated, Zenon
        <5>3. a * 0 = 0
          BY <5>1
        <5> QED
          BY <5>1, <5>2, <5>3, SameIs
      <4> QED
        BY <4>2, <4>3 DEF t
    <3> QED
      BY <3>1
  <2>2. ASSUME NEW m \in Nat, m \in S PROVE m + 1 \in S
    <3>1. ASSUME NEW w \in Vec(m + 1) PROVE Good(m + 1, w)
      <4> DEFINE w1 == [i \in 1..m |-> w[i]]
                 t == [i \in 1..(m + 1) |-> Times(a, w[i])]
                 t1 == [i \in 1..m |-> t[i]]
      <4>1. w1 \in Vec(m) /\ w[m + 1] \in Values /\ Sum(w) = Plus(Sum(w1), w[m + 1])
        BY VecFront
      <4>2. t \in Vec(m + 1)
        <5>1. \A i \in 1..(m + 1) : w[i] \in Values
          BY DEF Vec
        <5>2. \A i \in 1..(m + 1) : Times(a, w[i]) \in Values
          BY <5>1, NaNLaws
        <5> QED
          BY <5>2 DEF Vec
      <4>3. Sum(t) = Plus(Sum(t1), t[m + 1])
        <5> HIDE DEF t
        <5> QED
          BY <4>2, VecFront
      <4>4. t1 = [i \in 1..m |-> Times(a, w1[i])] /\ t[m + 1] = Times(a, w[m + 1])
        OBVIOUS
      <4> HIDE DEF w1, t1
      <4>5. Sum(t1) = Times(a, Sum(w1)) /\ Sum(w1) \in Values
        BY <2>2, <4>1, <4>4, SumValue
      <4>6. Times(a, Plus(Sum(w1), w[m + 1])) = Plus(Times(a, Sum(w1)), Times(a, w[m + 1]))
        BY <4>1, <4>5, ThreeValues
      <4> HIDE DEF t
      <4>7. Sum(t) = Times(a, Sum(w))
        BY <4>1, <4>3, <4>4, <4>5, <4>6
      <4> QED
        BY <4>7 DEF t
    <3> QED
      BY <3>1
  <2> HIDE DEF S
  <2>3. n \in S
    BY <2>1, <2>2, Induction
  <2> QED
    BY <2>3 DEF S
<1>2. CASE a = NaN /\ n # 0
  <2> DEFINE t == [i \in 1..n |-> Times(a, v[i])]
  <2>1. \A i \in 1..n : v[i] \in Values
    BY DEF Vec
  <2>2. \A i \in 1..n : t[i] = NaN
    BY <1>2, <2>1, NaNLaws
  <2>3. t \in Vec(n)
    BY <2>2, ValuesHere DEF Vec
  <2>4. 1 \in 1..n
    BY <1>2
  <2> HIDE DEF t
  <2>5. Sum(t) = NaN
    BY <2>2, <2>3, <2>4, SumValue
  <2>6. Times(a, Sum(v)) = NaN
    BY <1>2, SumValue, NaNLaws
  <2> QED
    BY <2>5, <2>6 DEF t
<1> QED
  BY <1>1, <1>2, ValuesHere

LEMMA SumMinus ==
    ASSUME NEW n \in Nat, NEW u \in Vec(n), NEW v \in Vec(n)
    PROVE  Sum([i \in 1..n |-> Minus(u[i], v[i])]) = Minus(Sum(u), Sum(v))
<1> DEFINE m == Minus(0, 1)
           w == [i \in 1..n |-> Times(m, v[i])]
<1>1. m \in Values /\ m # NaN
  BY ValuesHere
<1>2. \A i \in 1..n : u[i] \in Values /\ v[i] \in Values
  BY DEF Vec
<1>3. \A i \in 1..n : Plus(u[i], Times(m, v[i])) = Minus(u[i], v[i]) /\ Times(m, v[i]) \in Values
  BY <1>1, <1>2, TwoValues, NaNLaws
<1>4. w \in Vec(n)
  BY <1>3 DEF Vec
<1>5. [i \in 1..n |-> Plus(u[i], w[i])] = [i \in 1..n |-> Minus(u[i], v[i])]
  BY <1>3
<1> HIDE DEF m
<1>6. Sum(w) = Times(m, Sum(v))
  BY <1>1, SumTimes
<1>7. Sum(u) \in Values /\ Sum(v) \in Values
  BY SumValue
<1> HIDE DEF w
<1>8. Sum([i \in 1..n |-> Plus(u[i], w[i])]) = Plus(Sum(u), Sum(w))
  BY <1>4, SumPlus
<1>9. Plus(Sum(u), Times(m, Sum(v))) = Minus(Sum(u), Sum(v))
  BY <1>7, TwoValues DEF m
<1> QED
  BY <1>5, <1>6, <1>8, <1>9

LEMMA SumZeros ==
    ASSUME NEW n \in Nat
    PROVE  Sum([i \in 1..n |-> 0]) = 0
<1> DEFINE z == [i \in 1..n |-> 0]
           y == [i \in 1..n |-> Times(0, z[i])]
<1>1. z \in Vec(n)
  BY ValuesHere DEF Vec
<1>2. Times(0, 0) = 0
  <2>1. Is(0, 0) /\ 0 \in Int
    BY IsItself, ValuesHere
  <2>2. Is(Times(0, 0), 0 * 0)
    BY <2>1, Evaluated, Zenon
  <2>3. 0 * 0 = 0
    OBVIOUS
  <2> QED
    BY <2>1, <2>2, <2>3, SameIs
<1>3. y = z
  BY <1>2
<1> HIDE DEF z
<1>4. Sum(y) = Times(0, Sum(z))
  BY <1>1, ValuesHere, SumTimes
<1>5. Sum(z) \in Numbers
  <2>1. \A i \in 1..n : z[i] # NaN
    BY ValuesHere DEF z
  <2> QED
    BY <1>1, <2>1, SumValue, ValuesHere
<1>6. Times(0, Sum(z)) = 0
  <2>1. Is(0, 0) /\ Is(Sum(z), Sum(z)) /\ 0 \in Int /\ Sum(z) \in Int
    BY <1>5, IsItself, ValuesHere
  <2>2. Is(Times(0, Sum(z)), 0 * Sum(z))
    BY <2>1, Evaluated, Zenon
  <2>3. 0 * Sum(z) = 0
    BY <2>1
  <2> QED
    BY <2>1, <2>2, <2>3, SameIs
<1> QED
  BY <1>3, <1>4, <1>6 DEF z

\* A sum with one summand.
LEMMA SumSingle ==
    ASSUME NEW n \in Nat, NEW k \in 1..n, NEW a \in Values
    PROVE  Sum([i \in 1..n |-> IF i = k THEN a ELSE 0]) = a
<1> DEFINE One(m) == [i \in 1..m |-> IF i = k THEN a ELSE 0]
           S == {m \in Nat : k \in 1..m => Sum(One(m)) = a}
<1>1. 0 \in S
  OBVIOUS
<1>2. ASSUME NEW m \in Nat, m \in S PROVE m + 1 \in S
  <2>1. SUFFICES ASSUME k \in 1..(m + 1) PROVE Sum(One(m + 1)) = a
    OBVIOUS
  <2> DEFINE w == One(m + 1)
             w1 == [i \in 1..m |-> w[i]]
  <2>2. w \in Vec(m + 1)
    BY ValuesHere DEF Vec
  <2>3. Sum(w) = Plus(Sum(w1), w[m + 1])
    <3> HIDE DEF w
    <3> QED
      BY <2>2, VecFront
  <2>4. w1 = One(m) /\ w[m + 1] = IF k = m + 1 THEN a ELSE 0
    OBVIOUS
  <2>5. CASE k = m + 1
    <3>1. One(m) = [i \in 1..m |-> 0]
      BY <2>5
    <3>2. Sum(w1) = 0
      BY <2>4, <3>1, SumZeros
    <3> HIDE DEF w, w1
    <3>3. Sum(w) = a
      BY <2>3, <2>4, <2>5, <3>2, TwoValues, ValuesHere
    <3> QED
      BY <3>3 DEF w
  <2>6. CASE k # m + 1
    <3>1. k \in 1..m
      BY <2>1, <2>6
    <3>2. Sum(w1) = a
      BY <1>2, <2>4, <3>1
    <3> HIDE DEF w, w1
    <3>3. Sum(w) = a
      BY <2>3, <2>4, <2>6, <3>2, TwoValues, ValuesHere
    <3> QED
      BY <3>3 DEF w
  <2> QED
    BY <2>5, <2>6
<1> HIDE DEF S
<1>3. n \in S
  BY <1>1, <1>2, Induction
<1> QED
  BY <1>3 DEF S

\* A sum of rows is a sum of columns.
LEMMA SumExchange ==
    ASSUME NEW m \in Nat, NEW n \in Nat, NEW w \in [1..n -> Vec(m)]
    PROVE  Sum([i \in 1..n |-> Sum(w[i])]) = Sum([j \in 1..m |-> Sum([i \in 1..n |-> w[i][j]])])
<1> DEFINE Rows(k, t) == [i \in 1..k |-> Sum(t[i])]
           Column(k, t, j) == [i \in 1..k |-> t[i][j]]
           Columns(k, t) == [j \in 1..m |-> Sum(Column(k, t, j))]
           Good(k, t) == Sum(Rows(k, t)) = Sum(Columns(k, t))
           S == {k \in Nat : \A t \in [1..k -> Vec(m)] : Good(k, t)}
<1>1. 0 \in S
  <2>1. ASSUME NEW t \in [1..0 -> Vec(m)] PROVE Good(0, t)
    <3>1. DOMAIN Rows(0, t) = 1..0
      OBVIOUS
    <3>2. Sum(Rows(0, t)) = 0
      BY <3>1, SumSteps, Zenon
    <3>3. ASSUME NEW j \in 1..m PROVE Sum(Column(0, t, j)) = 0
      <4>1. DOMAIN Column(0, t, j) = 1..0
        OBVIOUS
      <4> QED
        BY <4>1, SumSteps, Zenon
    <3>4. Columns(0, t) = [j \in 1..m |-> 0]
      <4> HIDE DEF Column
      <4> QED
        BY <3>3
    <3>5. Sum(Columns(0, t)) = 0
      BY <3>4, SumZeros
    <3> QED
      BY <3>2, <3>5
  <2> HIDE DEF Good
  <2> QED
    BY <2>1
<1>2. ASSUME NEW k \in Nat, k \in S PROVE k + 1 \in S
  <2>1. ASSUME NEW t \in [1..(k + 1) -> Vec(m)] PROVE Good(k + 1, t)
    <3> DEFINE t1 == [i \in 1..k |-> t[i]]
    <3>1. t1 \in [1..k -> Vec(m)] /\ \A i \in 1..(k + 1) : t[i] \in Vec(m)
      OBVIOUS
    <3>2. t[k + 1] \in Vec(m) /\ \A i \in 1..(k + 1), j \in 1..m : t[i][j] \in Values
      <4>1. k + 1 \in 1..(k + 1)
        OBVIOUS
      <4> QED
        BY <3>1, <4>1 DEF Vec
    <3>3. Good(k, t1)
      BY <1>2, <3>1
    <3>4. Rows(k + 1, t) \in Vec(k + 1)
      <4>1. \A i \in 1..(k + 1) : Sum(t[i]) \in Values
        BY <3>1, SumValue
      <4> QED
        BY <4>1 DEF Vec
    <3>5. Sum(Rows(k + 1, t)) = Plus(Sum(Rows(k, t1)), Sum(t[k + 1]))
      <4>1. [i \in 1..k |-> Rows(k + 1, t)[i]] = Rows(k, t1) /\ Rows(k + 1, t)[k + 1] = Sum(t[k + 1])
        OBVIOUS
      <4> HIDE DEF Rows, t1
      <4> QED
        BY <3>4, <4>1, VecFront
    <3>6. ASSUME NEW j \in 1..m
          PROVE  /\ Sum(Column(k + 1, t, j)) = Plus(Sum(Column(k, t1, j)), t[k + 1][j])
                 /\ Sum(Column(k, t1, j)) \in Values
      <4>1. Column(k + 1, t, j) \in Vec(k + 1) /\ Column(k, t1, j) \in Vec(k)
        BY <3>2 DEF Vec
      <4>2. [i \in 1..k |-> Column(k + 1, t, j)[i]] = Column(k, t1, j)
            /\ Column(k + 1, t, j)[k + 1] = t[k + 1][j]
        OBVIOUS
      <4> HIDE DEF Column, t1
      <4> QED
        BY <4>1, <4>2, VecFront, SumValue
    <3> DEFINE C == Columns(k, t1)
               last == t[k + 1]
    <3>7. Columns(k + 1, t) = [j \in 1..m |-> Plus(C[j], last[j])]
      <4> HIDE DEF Column, t1
      <4> QED
        BY <3>6
    <3>8. C \in Vec(m)
      <4> HIDE DEF Column, t1
      <4> QED
        BY <3>6 DEF Vec
    <3> HIDE DEF C, last
    <3>9. Sum([j \in 1..m |-> Plus(C[j], last[j])]) = Plus(Sum(C), Sum(last))
      BY <3>2, <3>8, SumPlus DEF last
    <3>10. Sum(Rows(k, t1)) = Sum(C)
      BY <3>3 DEF C
    <3> HIDE DEF Rows, Columns, t1
    <3> QED
      BY <3>5, <3>7, <3>9, <3>10 DEF last
  <2> HIDE DEF Good
  <2> QED
    BY <2>1
<1> HIDE DEF S
<1>3. n \in S
  BY <1>1, <1>2, Induction
<1> QED
  BY <1>3 DEF S

\* The operators of operators.hpp, on vectors of one length.
LEMMA VectorTerms ==
    ASSUME NEW n \in Nat \ {0}, NEW u \in Vec(n), NEW v \in Vec(n)
    PROVE  /\ VecAdd(u, v) \in Vec(n) /\ VecSub(u, v) \in Vec(n)
           /\ \A i \in 1..n : u[i] \in Values /\ v[i] \in Values
           /\ VecAdd(u, v) = [i \in 1..n |-> Plus(u[i], v[i])]
           /\ VecSub(u, v) = [i \in 1..n |-> Minus(u[i], v[i])]
           /\ [i \in 1..n |-> Times(u[i], v[i])] \in Vec(n)
           /\ Dot(u, v) = Sum([i \in 1..n |-> Times(u[i], v[i])])
           /\ Dot(u, v) \in Values
<1>1. DOMAIN u = 1..n /\ DOMAIN v = 1..n /\ \A i \in 1..n : u[i] \in Values /\ v[i] \in Values
  BY DEF Vec
<1>2. \A i \in 1..n : /\ Plus(u[i], v[i]) \in Values /\ Minus(u[i], v[i]) \in Values
                      /\ Times(u[i], v[i]) \in Values
  BY <1>1, NaNLaws
<1>3. /\ VecAdd(u, v) = [i \in 1..n |-> Plus(u[i], v[i])]
      /\ VecSub(u, v) = [i \in 1..n |-> Minus(u[i], v[i])]
      /\ Dot(u, v) = Sum([i \in 1..n |-> Times(u[i], v[i])])
  BY <1>1 DEF VecAdd, VecSub, Dot
<1>4. /\ [i \in 1..n |-> Plus(u[i], v[i])] \in Vec(n) /\ [i \in 1..n |-> Minus(u[i], v[i])] \in Vec(n)
      /\ [i \in 1..n |-> Times(u[i], v[i])] \in Vec(n)
  BY <1>2 DEF Vec
<1>5. Sum([i \in 1..n |-> Times(u[i], v[i])]) \in Values
  BY <1>4, SumValue
<1> QED
  BY <1>1, <1>3, <1>4, <1>5

LEMMA ScaleTerms ==
    ASSUME NEW n \in Nat \ {0}, NEW v \in Vec(n), NEW a \in Values
    PROVE  VecScale(a, v) \in Vec(n) /\ VecScale(a, v) = [i \in 1..n |-> Times(a, v[i])]
<1>1. DOMAIN v = 1..n /\ \A i \in 1..n : v[i] \in Values
  BY DEF Vec
<1>2. \A i \in 1..n : Times(a, v[i]) \in Values
  BY <1>1, NaNLaws
<1>3. VecScale(a, v) = [i \in 1..n |-> Times(a, v[i])]
  BY <1>1 DEF VecScale
<1> QED
  BY <1>2, <1>3 DEF Vec

LEMMA DotLaws ==
    ASSUME NEW n \in Nat \ {0}, NEW u \in Vec(n), NEW v \in Vec(n)
    PROVE  /\ Dot(u, v) \in Values
           /\ Dot(u, v) = NaN <=> \E i \in 1..n : u[i] = NaN \/ v[i] = NaN
           /\ Dot(u, v) = Dot(v, u)
<1> DEFINE uv == [i \in 1..n |-> Times(u[i], v[i])]
<1>0. \A i \in 1..n : u[i] \in Values /\ v[i] \in Values
  BY VectorTerms
<1>1. uv \in Vec(n) /\ Dot(u, v) = Sum(uv) /\ Dot(u, v) \in Values
  BY VectorTerms
<1>2. Dot(u, v) = NaN <=> \E i \in 1..n : u[i] = NaN \/ v[i] = NaN
  <2>1. \A i \in 1..n : uv[i] = NaN <=> u[i] = NaN \/ v[i] = NaN
    BY <1>0, NaNLaws
  <2> HIDE DEF uv
  <2> QED
    BY <1>1, <2>1, SumValue
<1>3. Dot(u, v) = Dot(v, u)
  <2>1. uv = [i \in 1..n |-> Times(v[i], u[i])]
    BY <1>0, TwoValues
  <2>2. Dot(v, u) = Sum([i \in 1..n |-> Times(v[i], u[i])])
    BY VectorTerms
  <2> HIDE DEF uv
  <2> QED
    BY <1>1, <2>1, <2>2
<1> QED
  BY <1>1, <1>2, <1>3

LEMMA DotSums ==
    ASSUME NEW n \in Nat \ {0}, NEW u \in Vec(n), NEW v \in Vec(n), NEW w \in Vec(n)
    PROVE  /\ Dot(u, VecAdd(v, w)) = Plus(Dot(u, v), Dot(u, w))
           /\ Dot(u, VecSub(v, w)) = Minus(Dot(u, v), Dot(u, w))
<1> DEFINE uv == [i \in 1..n |-> Times(u[i], v[i])]
           uw == [i \in 1..n |-> Times(u[i], w[i])]
<1>0. \A i \in 1..n : u[i] \in Values /\ v[i] \in Values /\ w[i] \in Values
  BY VectorTerms
<1>1. uv \in Vec(n) /\ uw \in Vec(n) /\ Dot(u, v) = Sum(uv) /\ Dot(u, w) = Sum(uw)
  BY VectorTerms
<1>2. Dot(u, VecAdd(v, w)) = Plus(Dot(u, v), Dot(u, w))
  <2> DEFINE t == VecAdd(v, w)
  <2>1. t \in Vec(n) /\ t = [i \in 1..n |-> Plus(v[i], w[i])]
    BY VectorTerms
  <2>2. [i \in 1..n |-> Times(u[i], t[i])] = [i \in 1..n |-> Plus(uv[i], uw[i])]
    <3>1. \A i \in 1..n : Times(u[i], Plus(v[i], w[i])) = Plus(uv[i], uw[i])
      BY <1>0, ThreeValues
    <3>2. \A i \in 1..n : t[i] = Plus(v[i], w[i])
      BY <2>1
    <3> HIDE DEF uv, uw, t
    <3> QED
      BY <3>1, <3>2
  <2>3. Dot(u, t) = Sum([i \in 1..n |-> Times(u[i], t[i])])
    BY <2>1, VectorTerms
  <2> HIDE DEF uv, uw, t
  <2>4. Sum([i \in 1..n |-> Plus(uv[i], uw[i])]) = Plus(Sum(uv), Sum(uw))
    BY <1>1, SumPlus
  <2> QED
    BY <1>1, <2>2, <2>3, <2>4 DEF t
<1>3. Dot(u, VecSub(v, w)) = Minus(Dot(u, v), Dot(u, w))
  <2> DEFINE t == VecSub(v, w)
  <2>1. t \in Vec(n) /\ t = [i \in 1..n |-> Minus(v[i], w[i])]
    BY VectorTerms
  <2>2. [i \in 1..n |-> Times(u[i], t[i])] = [i \in 1..n |-> Minus(uv[i], uw[i])]
    <3>1. \A i \in 1..n : Times(u[i], Minus(v[i], w[i])) = Minus(uv[i], uw[i])
      BY <1>0, ThreeValues
    <3>2. \A i \in 1..n : t[i] = Minus(v[i], w[i])
      BY <2>1
    <3> HIDE DEF uv, uw, t
    <3> QED
      BY <3>1, <3>2
  <2>3. Dot(u, t) = Sum([i \in 1..n |-> Times(u[i], t[i])])
    BY <2>1, VectorTerms
  <2> HIDE DEF uv, uw, t
  <2>4. Sum([i \in 1..n |-> Minus(uv[i], uw[i])]) = Minus(Sum(uv), Sum(uw))
    BY <1>1, SumMinus
  <2> QED
    BY <1>1, <2>2, <2>3, <2>4 DEF t
<1> QED
  BY <1>2, <1>3

LEMMA DotScaled ==
    ASSUME NEW n \in Nat \ {0}, NEW u \in Vec(n), NEW v \in Vec(n), NEW a \in Values
    PROVE  Dot(u, VecScale(a, v)) = Times(a, Dot(u, v))
<1> DEFINE uv == [i \in 1..n |-> Times(u[i], v[i])]
<1>0. \A i \in 1..n : u[i] \in Values /\ v[i] \in Values
  BY VectorTerms
<1>1. uv \in Vec(n) /\ Dot(u, v) = Sum(uv)
  BY VectorTerms
<1>2. Dot(u, VecScale(a, v)) = Times(a, Dot(u, v))
  <2> DEFINE t == VecScale(a, v)
  <2>1. t \in Vec(n) /\ t = [i \in 1..n |-> Times(a, v[i])]
    BY ScaleTerms
  <2>2. [i \in 1..n |-> Times(u[i], t[i])] = [i \in 1..n |-> Times(a, uv[i])]
    <3>1. \A i \in 1..n : Times(u[i], Times(a, v[i])) = Times(a, Times(u[i], v[i]))
      <4>1. ASSUME NEW i \in 1..n PROVE Times(u[i], Times(a, v[i])) = Times(a, Times(u[i], v[i]))
        <5>1. u[i] \in Values /\ v[i] \in Values
          BY <1>0
        <5>2. Times(Times(u[i], a), v[i]) = Times(u[i], Times(a, v[i]))
              /\ Times(Times(a, u[i]), v[i]) = Times(a, Times(u[i], v[i]))
              /\ Times(u[i], a) = Times(a, u[i])
          BY <5>1, ThreeValues, TwoValues
        <5> QED
          BY <5>2
      <4> QED
        BY <4>1
    <3>2. \A i \in 1..n : t[i] = Times(a, v[i]) /\ uv[i] = Times(u[i], v[i])
      BY <2>1
    <3> HIDE DEF uv, t
    <3> QED
      BY <3>1, <3>2
  <2>3. Dot(u, t) = Sum([i \in 1..n |-> Times(u[i], t[i])])
    BY <2>1, VectorTerms
  <2> HIDE DEF uv, t
  <2>4. Sum([i \in 1..n |-> Times(a, uv[i])]) = Times(a, Sum(uv))
    BY <1>1, SumTimes
  <2> QED
    BY <1>1, <2>2, <2>3, <2>4 DEF t
<1> QED
  BY <1>2

\* There are no divisors of zero, and dividing undoes multiplying.
LEMMA NoZeroDivisors ==
    ASSUME NEW a \in Numbers \ {0}, NEW b \in Numbers, Times(a, b) = 0
    PROVE  b = 0
<1> DEFINE c == Over(1, a)
<1>1. c \in Numbers /\ Times(a, c) = 1
  BY Division, ValuesHere
<1> HIDE DEF c
<1>2. a \in Values /\ b \in Values /\ c \in Values /\ 0 \in Values
  BY <1>1, ValuesHere
<1>3. Times(c, Times(a, b)) = Times(Times(c, a), b) /\ Times(c, a) = Times(a, c) /\ Times(1, b) = b
  BY <1>2, ThreeValues, TwoValues
<1>4. Times(c, 0) = 0
  <2>1. Is(c, c) /\ Is(0, 0) /\ c \in Int /\ 0 \in Int
    BY <1>1, IsItself, ValuesHere
  <2>2. Is(Times(c, 0), c * 0)
    BY <2>1, Evaluated, Zenon
  <2>3. c * 0 = 0
    BY <2>1
  <2> QED
    BY <2>1, <2>2, <2>3, SameIs
<1> QED
  BY <1>1, <1>3, <1>4

LEMMA NumbersClosed ==
    ASSUME NEW a \in Numbers, NEW b \in Numbers
    PROVE  Plus(a, b) \in Numbers /\ Minus(a, b) \in Numbers /\ Times(a, b) \in Numbers
  BY Operations, ValuesHere

\* A product of vectors of numbers is a number.
LEMMA DotNumber ==
    ASSUME NEW n \in Nat \ {0}, NEW u \in Vec(n), NEW v \in Vec(n),
           \A i \in 1..n : u[i] \in Numbers /\ v[i] \in Numbers
    PROVE  Dot(u, v) \in Numbers
<1>1. \A i \in 1..n : u[i] # NaN /\ v[i] # NaN
  BY ValuesHere
<1> QED
  BY <1>1, DotLaws, ValuesHere

LEMMA ZeroTimes ==
    \A a \in Numbers : Times(0, a) = 0 /\ Times(a, 0) = 0 /\ Plus(a, Negate(a)) = 0 /\ Minus(a, a) = 0
<1> SUFFICES ASSUME NEW a \in Numbers
             PROVE  Times(0, a) = 0 /\ Times(a, 0) = 0 /\ Plus(a, Negate(a)) = 0 /\ Minus(a, a) = 0
  OBVIOUS
<1>1. Is(a, a) /\ Is(0, 0) /\ a \in Int /\ 0 \in Int
  BY IsItself, ValuesHere
<1>2. Is(Times(0, a), 0 * a) /\ Is(Times(a, 0), a * 0)
  BY <1>1, Evaluated, Zenon
<1>3. Is(Negate(a), 0 - a)
  BY <1>1, Evaluated, Zenon DEF Negate
<1>4. Is(Minus(a, a), a - a)
  BY <1>1, Evaluated, Zenon
<1>5. 0 - a \in Int
  BY <1>1
<1>6. Is(Plus(a, Negate(a)), a + (0 - a))
  BY <1>1, <1>3, <1>5, Evaluated, Zenon
<1>7. 0 * a = 0 /\ a * 0 = 0 /\ a - a = 0 /\ a + (0 - a) = 0
  BY <1>1
<1> QED
  BY <1>1, <1>2, <1>4, <1>6, <1>7, SameIs

LEMMA RightDistributes ==
    ASSUME NEW a \in Values, NEW b \in Values, NEW c \in Values
    PROVE  /\ Times(Plus(b, c), a) = Plus(Times(b, a), Times(c, a))
           /\ Times(Minus(b, c), a) = Minus(Times(b, a), Times(c, a))
<1>1. Plus(b, c) \in Values /\ Minus(b, c) \in Values
  BY NaNLaws
<1>2. /\ Times(Plus(b, c), a) = Times(a, Plus(b, c)) /\ Times(Minus(b, c), a) = Times(a, Minus(b, c))
      /\ Times(b, a) = Times(a, b) /\ Times(c, a) = Times(a, c)
  BY <1>1, TwoValues
<1> QED
  BY <1>2, ThreeValues
=============================================================================
