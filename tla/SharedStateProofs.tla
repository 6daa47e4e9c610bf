------------------------- MODULE SharedStateProofs --------------------------
(***************************************************************************)
(* What several actors do to something they share, without locks: workers  *)
(* that add to one vector, processes that keep files in one directory, and *)
(* threads that predict with copies of one model.                          *)
(*                                                                         *)
(* KernelTiling: whatever the sizes of the system, the blocks and the      *)
(* tiles, every pair of points belongs to one addition of one worker on    *)
(* either side of the diagonal, and the additions, native or by            *)
(* compare-and-swap, are neither lost nor doubled.  The invariant          *)
(* TilingInv says that an entry of ret holds the terms of the additions    *)
(* that are done so far.                                                   *)
(*                                                                         *)
(* OpenCLCache: what a directory with a file for each device is worth, for *)
(* any number of processes, devices and constructions.                     *)
(*                                                                         *)
(* CsvmInterface: the shared vectors, the checks of gamma and the model    *)
(* file, for any threads, models, data sets and gammas.                    *)
(***************************************************************************)
EXTENDS KernelTiling, OpenCLCache, CsvmInterface, FiniteSetTheorems, SequenceTheorems,
        WellFoundedInduction, TLAPS

----------------------------------------------------------------------------
(* KernelTiling.                                                           *)

\* The number with the digits n and a.
Number(n, a, size) == n * size + a

LEMMA MixedRadix ==
    ASSUME NEW size \in Nat \ {0}
    PROVE  /\ \A n \in Nat, a \in 0..(size - 1) : Number(n, a, size) \in Nat
           /\ \A n, m \in Nat, a, b \in 0..(size - 1) :
                /\ n < m => Number(n, a, size) < Number(m, b, size)
                /\ Number(n, a, size) = Number(m, b, size) => n = m /\ a = b
<1>1. ASSUME NEW n \in Nat, NEW m \in Nat, NEW a \in 0..(size - 1), NEW b \in 0..(size - 1)
      PROVE  /\ Number(n, a, size) \in Nat
             /\ n < m => Number(n, a, size) < Number(m, b, size)
             /\ Number(n, a, size) = Number(m, b, size) => n = m /\ a = b
  <2>1. ASSUME NEW k \in Nat, NEW l \in Nat, k < l PROVE k * size + size <= l * size
    <3>1. l - k - 1 \in Nat
      BY <2>1
    <3>2. (l - k - 1) * size \in Nat
      BY <3>1
    <3>3. (l - k - 1) * size = l * size - k * size - size
      BY <2>1
    <3> QED
      BY <3>2, <3>3, <2>1
  <2> DEFINE N == n * size
             M == m * size
  <2>2. N \in Nat /\ M \in Nat /\ (n < m => N + size <= M) /\ (m < n => M + size <= N)
    BY <2>1
  <2>3. Number(n, a, size) = N + a /\ Number(m, b, size) = M + b
    BY DEF Number
  <2>4. n = m => N = M
    OBVIOUS
  <2> HIDE DEF N, M
  <2> QED
    BY <2>2, <2>3, <2>4
<1> QED
  BY <1>1

LEMMA Ordered ==
    ASSUME NEW size \in Nat \ {0}, NEW n \in Nat, NEW m \in Nat,
           NEW a \in 0..(size - 1), NEW b \in 0..(size - 1)
    PROVE  /\ Number(n, a, size) > Number(m, b, size) <=> n > m \/ (n = m /\ a > b)
           /\ Number(n, a, size) = Number(m, b, size) <=> n = m /\ a = b
<1>1. n = m => (Number(n, a, size) > Number(m, b, size) <=> a > b)
  <2> DEFINE N == n * size
  <2>1. N \in Nat /\ Number(n, a, size) = N + a /\ (n = m => Number(m, b, size) = N + b)
    BY DEF Number
  <2> HIDE DEF N
  <2> QED
    BY <2>1
<1>2. /\ n < m => Number(n, a, size) < Number(m, b, size)
      /\ m < n => Number(m, b, size) < Number(n, a, size)
      /\ Number(n, a, size) \in Nat /\ Number(m, b, size) \in Nat
      /\ Number(n, a, size) = Number(m, b, size) => n = m /\ a = b
  BY MixedRadix
<1> QED
  BY <1>1, <1>2

LEMMA Digits ==
    ASSUME NEW size \in Nat \ {0}, NEW n \in Nat
    PROVE  /\ n \div size \in Nat /\ n % size \in 0..(size - 1)
           /\ n = Number(n \div size, n % size, size)
  BY DEF Number

LEMMA ThreeDigits ==
    ASSUME NEW wide \in Nat \ {0}, NEW size \in Nat \ {0},
           NEW b \in Nat, NEW x \in 0..(wide - 1), NEW y \in 0..(size - 1)
    PROVE  /\ wide * size \in Nat \ {0}
           /\ Number(x, y, size) \in 0..(wide * size - 1)
           /\ Number(Number(b, x, wide), y, size) = Number(b, Number(x, y, size), wide * size)
<1>1. wide * size \in Nat \ {0}
  OBVIOUS
<1>2. Number(x, y, size) < Number(wide, 0, size) /\ Number(x, y, size) \in Nat
  <2>1. x < wide /\ x \in Nat /\ 0 \in 0..(size - 1)
    OBVIOUS
  <2> QED
    BY <2>1, MixedRadix
<1>3. Number(wide, 0, size) = wide * size
  BY <1>1 DEF Number
<1>4. (b * wide + x) * size + y = b * (wide * size) + (x * size + y)
  OBVIOUS
<1> QED
  BY <1>1, <1>2, <1>3, <1>4 DEF Number

----------------------------------------------------------------------------
(* Who adds what.                                                          *)

TilingTyped ==
    /\ dept \in Nat \ {0} /\ THREAD_BLOCK_SIZE \in Nat \ {0}
    /\ INTERNAL_BLOCK_SIZE \in Nat \ {0} /\ OPENMP_BLOCK_SIZE \in Nat \ {0}

LEMMA ConfigTyped ==
  ASSUME config \in Configurations
  PROVE  TilingTyped
BY TilingAssumption DEF TilingTyped, dept, THREAD_BLOCK_SIZE, INTERNAL_BLOCK_SIZE, OPENMP_BLOCK_SIZE

Terms == [row : Nat, col : Nat, cost : BOOLEAN]

\* Addition p of worker w adds the term t to entry r.
Adds(w, p, r, t) ==
    /\ p \in DOMAIN Additions(w)
    /\ Additions(w)[p].to = r
    /\ t \in DOMAIN Additions(w)[p].terms

\* The first addition of the two sides of the diagonal, with the entry r and
\* the column c it is about, and the second.
GpuMirrored(w, p, r, c) ==
    \E x, y \in Internal :
        /\ p = <<x, y>> /\ r = FirstRow(w) + y /\ c = FirstCol(w) + x
        /\ FirstRow(w) + x > FirstCol(w) + y
GpuSummed(w, p, r, c, diagonal) ==
    \E x, y \in Internal :
        /\ p = <<x, INTERNAL_BLOCK_SIZE>> /\ r = FirstCol(w) + x /\ c = FirstRow(w) + y
        /\ IF diagonal THEN FirstRow(w) + x = FirstCol(w) + y
           ELSE FirstRow(w) + x > FirstCol(w) + y

OmpMirrored(w, p, r, c) ==
    \E ii \in Tile(w.i), jj \in Tile(w.j) :
        p = <<ii, jj>> /\ r = jj + w.j /\ c = ii + w.i /\ c > r
OmpSummed(w, p, r, c, diagonal) ==
    \E ii \in Tile(w.i), jj \in Tile(w.j) :
        /\ p = <<ii, OPENMP_BLOCK_SIZE>> /\ r = ii + w.i /\ c = jj + w.j
        /\ IF diagonal THEN r = c ELSE r > c

Mirrored(w, p, r, c) ==
    IF config.device = "GPU" THEN GpuMirrored(w, p, r, c) ELSE OmpMirrored(w, p, r, c)
Summed(w, p, r, c, diagonal) ==
    IF config.device = "GPU" THEN GpuSummed(w, p, r, c, diagonal)
    ELSE OmpSummed(w, p, r, c, diagonal)

LEMMA GpuShape ==
    ASSUME TilingTyped, NEW w
    PROVE  /\ DOMAIN GpuAdditions(w) =
                {p \in Internal \X Internal : FirstRow(w) + p[1] > FirstCol(w) + p[2]}
                \cup Internal \X {INTERNAL_BLOCK_SIZE}
           /\ \A x, y \in Internal : FirstRow(w) + x > FirstCol(w) + y =>
                /\ GpuAdditions(w)[<<x, y>>].to = FirstRow(w) + y
                /\ GpuAdditions(w)[<<x, y>>].terms =
                     SetToBag({Term(FirstRow(w) + y, FirstCol(w) + x, FALSE)})
           /\ \A x \in Internal :
                /\ GpuAdditions(w)[<<x, INTERNAL_BLOCK_SIZE>>].to = FirstCol(w) + x
                /\ GpuAdditions(w)[<<x, INTERNAL_BLOCK_SIZE>>].terms =
                     SetToBag(ret_jx(FirstRow(w), FirstCol(w), x))
<1> DEFINE i == FirstRow(w)
           j == FirstCol(w)
           sums == Internal \X {INTERNAL_BLOCK_SIZE}
           all == {p \in Internal \X Internal : i + p[1] > j + p[2]} \cup sums
<1>1. GpuAdditions(w) =
        [p \in all |-> IF p \in sums THEN Addition(j + p[1], ret_jx(i, j, p[1]))
                       ELSE Addition(i + p[2], {Term(i + p[2], j + p[1], FALSE)})]
  BY Zenon DEF GpuAdditions, Triangle
<1>2. \A x, y \in Internal : <<x, y>> \notin sums
  BY DEF Internal, TilingTyped
<1>3. \A x, y \in Internal : i + x > j + y => <<x, y>> \in all
  OBVIOUS
<1>4. \A x \in Internal : <<x, INTERNAL_BLOCK_SIZE>> \in sums
  OBVIOUS
<1>5. ASSUME NEW x \in Internal, NEW y \in Internal, i + x > j + y
      PROVE  /\ GpuAdditions(w)[<<x, y>>].to = i + y
             /\ GpuAdditions(w)[<<x, y>>].terms = SetToBag({Term(i + y, j + x, FALSE)})
  <2> HIDE DEF i, j
  <2>1. GpuAdditions(w)[<<x, y>>] = Addition(i + y, {Term(i + y, j + x, FALSE)})
    BY <1>1, <1>2, <1>3, <1>5
  <2> QED
    BY <2>1 DEF Addition
<1>6. ASSUME NEW x \in Internal
      PROVE  /\ GpuAdditions(w)[<<x, INTERNAL_BLOCK_SIZE>>].to = j + x
             /\ GpuAdditions(w)[<<x, INTERNAL_BLOCK_SIZE>>].terms = SetToBag(ret_jx(i, j, x))
  <2> HIDE DEF i, j
  <2>1. GpuAdditions(w)[<<x, INTERNAL_BLOCK_SIZE>>] = Addition(j + x, ret_jx(i, j, x))
    BY <1>1, <1>4
  <2> QED
    BY <2>1 DEF Addition
<1>7. DOMAIN GpuAdditions(w) = all
  BY <1>1
<1> QED
  BY <1>5, <1>6, <1>7, Zenon

LEMMA OmpShape ==
    ASSUME TilingTyped, NEW w
    PROVE  /\ DOMAIN OmpAdditions(w) =
                {p \in Tile(w.i) \X Tile(w.j) : p[1] + w.i > p[2] + w.j}
                \cup Tile(w.i) \X {OPENMP_BLOCK_SIZE}
           /\ \A ii \in Tile(w.i), jj \in Tile(w.j) : ii + w.i > jj + w.j =>
                /\ OmpAdditions(w)[<<ii, jj>>].to = jj + w.j
                /\ OmpAdditions(w)[<<ii, jj>>].terms =
                     SetToBag({Term(jj + w.j, ii + w.i, FALSE)})
           /\ \A ii \in Tile(w.i) :
                /\ OmpAdditions(w)[<<ii, OPENMP_BLOCK_SIZE>>].to = ii + w.i
                /\ OmpAdditions(w)[<<ii, OPENMP_BLOCK_SIZE>>].terms =
                     SetToBag(ret_iii(w.i, w.j, ii))
<1> DEFINE i == w.i
           j == w.j
           sums == Tile(i) \X {OPENMP_BLOCK_SIZE}
           all == {p \in Tile(i) \X Tile(j) : p[1] + i > p[2] + j} \cup sums
<1>1. OmpAdditions(w) =
        [p \in all |-> IF p \in sums THEN Addition(p[1] + i, ret_iii(i, j, p[1]))
                       ELSE Addition(p[2] + j, {Term(p[2] + j, p[1] + i, FALSE)})]
  BY Zenon DEF OmpAdditions
<1>2. \A ii \in Tile(i), jj \in Tile(j) : <<ii, jj>> \notin sums
  BY DEF Tile, TilingTyped
<1>3. \A ii \in Tile(i), jj \in Tile(j) : ii + i > jj + j => <<ii, jj>> \in all
  OBVIOUS
<1>4. \A ii \in Tile(i) : <<ii, OPENMP_BLOCK_SIZE>> \in sums
  OBVIOUS
<1>5. ASSUME NEW ii \in Tile(i), NEW jj \in Tile(j), ii + i > jj + j
      PROVE  /\ OmpAdditions(w)[<<ii, jj>>].to = jj + j
             /\ OmpAdditions(w)[<<ii, jj>>].terms = SetToBag({Term(jj + j, ii + i, FALSE)})
  <2> HIDE DEF i, j
  <2>1. OmpAdditions(w)[<<ii, jj>>] = Addition(jj + j, {Term(jj + j, ii + i, FALSE)})
    BY <1>1, <1>2, <1>3, <1>5
  <2> QED
    BY <2>1 DEF Addition
<1>6. ASSUME NEW ii \in Tile(i)
      PROVE  /\ OmpAdditions(w)[<<ii, OPENMP_BLOCK_SIZE>>].to = ii + i
             /\ OmpAdditions(w)[<<ii, OPENMP_BLOCK_SIZE>>].terms = SetToBag(ret_iii(i, j, ii))
  <2> HIDE DEF i, j
  <2>1. OmpAdditions(w)[<<ii, OPENMP_BLOCK_SIZE>>] = Addition(ii + i, ret_iii(i, j, ii))
    BY <1>1, <1>4
  <2> QED
    BY <2>1 DEF Addition
<1>7. DOMAIN OmpAdditions(w) = all
  BY <1>1
<1> QED
  BY <1>5, <1>6, <1>7, Zenon

\* The numbers of a thread in the grid.
Across(w) == Number(w.bx, w.tx, THREAD_BLOCK_SIZE)
Down(w) == Number(w.by, w.ty, THREAD_BLOCK_SIZE)

\* The number of a tile.
TileNumber(s) == s \div OPENMP_BLOCK_SIZE

LEMMA WorkersTyped ==
    ASSUME TilingTyped, NEW w \in Workers
    PROVE  /\ config.device = "GPU" =>
                /\ w.bx \in 0..(grid - 1) /\ w.by \in 0..(grid - 1) /\ w.bx >= w.by
                /\ w.tx \in Ids /\ w.ty \in Ids
                /\ w = [bx |-> w.bx, by |-> w.by, tx |-> w.tx, ty |-> w.ty]
                /\ Across(w) \in Nat /\ Down(w) \in Nat
                /\ FirstRow(w) \in Nat /\ FirstCol(w) \in Nat
                /\ \A k : /\ FirstRow(w) + k = Number(Across(w), k, INTERNAL_BLOCK_SIZE)
                          /\ FirstCol(w) + k = Number(Down(w), k, INTERNAL_BLOCK_SIZE)
           /\ config.device # "GPU" =>
                /\ w.i \in Nat /\ w.j \in Nat /\ w = [i |-> w.i, j |-> w.j]
                /\ TileNumber(w.i) \in Nat /\ TileNumber(w.j) \in Nat
                /\ w.i = TileNumber(w.i) * OPENMP_BLOCK_SIZE
                /\ w.j = TileNumber(w.j) * OPENMP_BLOCK_SIZE
<1>1. CASE config.device = "GPU"
  <2>1. /\ w.bx \in 0..(grid - 1) /\ w.by \in 0..(grid - 1) /\ w.bx >= w.by
        /\ w.tx \in Ids /\ w.ty \in Ids
        /\ w = [bx |-> w.bx, by |-> w.by, tx |-> w.tx, ty |-> w.ty]
    BY <1>1 DEF Workers, GpuWorkers
  <2>2. Across(w) \in Nat /\ Down(w) \in Nat
    BY <2>1, MixedRadix DEF Across, Down, Ids, TilingTyped
  <2>3. /\ FirstRow(w) = Across(w) * INTERNAL_BLOCK_SIZE
        /\ FirstCol(w) = Down(w) * INTERNAL_BLOCK_SIZE
    BY Zenon DEF FirstRow, FirstCol, Across, Down, Number
  <2>4. FirstRow(w) \in Nat /\ FirstCol(w) \in Nat
    BY <2>2, <2>3 DEF TilingTyped
  <2> QED
    BY <1>1, <2>1, <2>2, <2>3, <2>4 DEF Number
<1>2. CASE config.device # "GPU"
  <2>1. w.i \in Starts /\ w.j \in Starts /\ w = [i |-> w.i, j |-> w.j]
    BY <1>2 DEF Workers, OmpWorkers
  <2>2. ASSUME NEW s \in Starts
        PROVE  s \in Nat /\ TileNumber(s) \in Nat /\ s = TileNumber(s) * OPENMP_BLOCK_SIZE
    <3>1. s \in Nat /\ s % OPENMP_BLOCK_SIZE = 0
      BY DEF Starts, TilingTyped
    <3>2. /\ TileNumber(s) \in Nat
          /\ s = Number(TileNumber(s), s % OPENMP_BLOCK_SIZE, OPENMP_BLOCK_SIZE)
      BY <3>1, Digits DEF TileNumber, TilingTyped
    <3> DEFINE n == TileNumber(s)
               size == OPENMP_BLOCK_SIZE
               k == n * size
    <3>3. n \in Nat /\ size \in Nat
      BY <3>2 DEF TilingTyped
    <3>4. s = k + (s % OPENMP_BLOCK_SIZE)
      BY <3>2, Zenon DEF Number
    <3>5. k \in Nat
      <4> HIDE DEF n, size
      <4> QED
        BY <3>3
    <3>6. s = k
      <4> HIDE DEF k
      <4> QED
        BY <3>1, <3>4, <3>5
    <3> QED
      BY <3>1, <3>2, <3>6
  <2> QED
    BY <1>2, <2>1, <2>2
<1> QED
  BY <1>1, <1>2

\* The terms of an addition are those of the entry it goes to.
LEMMA AddsIs ==
    ASSUME TilingTyped, NEW w \in Workers, NEW p, NEW r, NEW t
    PROVE  Adds(w, p, r, t) <=>
             \E c : \/ t = Term(r, c, FALSE) /\ (Mirrored(w, p, r, c) \/ Summed(w, p, r, c, FALSE))
                    \/ t = Term(r, c, TRUE) /\ Summed(w, p, r, c, TRUE)
<1> DEFINE i == FirstRow(w)
           j == FirstCol(w)
<1>1. \A s : DOMAIN SetToBag(s) = s
  BY DEF SetToBag
<1>4. config.device = "GPU" => i \in Nat /\ j \in Nat
  BY WorkersTyped
<1>2. CASE config.device = "GPU"
  <2>1. /\ Additions(w) = GpuAdditions(w)
        /\ \A c : Mirrored(w, p, r, c) <=> GpuMirrored(w, p, r, c)
        /\ \A c, diagonal : Summed(w, p, r, c, diagonal) <=> GpuSummed(w, p, r, c, diagonal)
    BY <1>2 DEF Additions, Mirrored, Summed
  <2>2. ASSUME NEW x \in Internal, NEW s
        PROVE  s \in ret_jx(i, j, x) <=>
                 \E y \in Internal : \/ i + x > j + y /\ s = Term(j + x, i + y, FALSE)
                                     \/ i + x = j + y /\ s = Term(j + x, i + y, TRUE)
    <3> HIDE DEF i, j
    <3>1. \A y \in Internal : i + x = j + y => ~(i + x > j + y)
      BY <1>2, <1>4, TilingTyped DEF Internal
    <3> QED
      BY <3>1 DEF ret_jx, Triangle, Diagonal
  <2>3. ASSUME Adds(w, p, r, t)
        PROVE  \E c : \/ t = Term(r, c, FALSE) /\ (GpuMirrored(w, p, r, c) \/ GpuSummed(w, p, r, c, FALSE))
                      \/ t = Term(r, c, TRUE) /\ GpuSummed(w, p, r, c, TRUE)
    <3>1. p \in DOMAIN GpuAdditions(w) /\ GpuAdditions(w)[p].to = r /\ t \in DOMAIN GpuAdditions(w)[p].terms
      BY <2>1, <2>3 DEF Adds
    <3>2. CASE p \in Internal \X Internal /\ i + p[1] > j + p[2]
      <4>1. PICK x \in Internal, y \in Internal : p = <<x, y>>
        BY <3>2
      <4>2. i + x > j + y
        BY <3>2, <4>1
      <4>3. /\ GpuAdditions(w)[<<x, y>>].to = i + y
            /\ GpuAdditions(w)[<<x, y>>].terms = SetToBag({Term(i + y, j + x, FALSE)})
        BY <4>2, GpuShape
      <4>4. r = i + y /\ t = Term(i + y, j + x, FALSE)
        <5>1. DOMAIN SetToBag({Term(i + y, j + x, FALSE)}) = {Term(i + y, j + x, FALSE)}
          BY <1>1
        <5> QED
          BY <3>1, <4>1, <4>3, <5>1
      <4>5. GpuMirrored(w, p, r, j + x)
        BY <4>1, <4>2, <4>4 DEF GpuMirrored
      <4> QED
        BY <4>4, <4>5
    <3>3. CASE p \in Internal \X {INTERNAL_BLOCK_SIZE}
      <4>1. PICK x \in Internal : p = <<x, INTERNAL_BLOCK_SIZE>>
        BY <3>3
      <4>2. r = j + x /\ t \in ret_jx(i, j, x)
        BY <1>1, <3>1, <4>1, GpuShape
      <4>3. PICK y \in Internal : \/ i + x > j + y /\ t = Term(j + x, i + y, FALSE)
                                  \/ i + x = j + y /\ t = Term(j + x, i + y, TRUE)
        BY <2>2, <4>2
      <4>4. /\ i + x > j + y => GpuSummed(w, p, r, i + y, FALSE)
            /\ i + x = j + y => GpuSummed(w, p, r, i + y, TRUE)
        BY <4>1, <4>2 DEF GpuSummed
      <4> QED
        BY <4>2, <4>3, <4>4
    <3> QED
      BY <3>1, <3>2, <3>3, GpuShape
  <2>4. ASSUME NEW c, t = Term(r, c, FALSE), GpuMirrored(w, p, r, c)
        PROVE  Adds(w, p, r, t)
    <3>1. PICK x \in Internal, y \in Internal : p = <<x, y>> /\ r = i + y /\ c = j + x /\ i + x > j + y
      BY <2>4 DEF GpuMirrored
    <3>2. p \in DOMAIN GpuAdditions(w)
      BY <3>1, GpuShape
    <3>3. GpuAdditions(w)[p].to = r /\ GpuAdditions(w)[p].terms = SetToBag({t})
      BY <2>4, <3>1, GpuShape
    <3> QED
      BY <1>1, <2>1, <3>2, <3>3 DEF Adds
  <2>5. ASSUME NEW c, NEW diagonal \in BOOLEAN, t = Term(r, c, diagonal), GpuSummed(w, p, r, c, diagonal)
        PROVE  Adds(w, p, r, t)
    <3>1. PICK x \in Internal, y \in Internal :
             /\ p = <<x, INTERNAL_BLOCK_SIZE>> /\ r = j + x /\ c = i + y
             /\ IF diagonal THEN i + x = j + y ELSE i + x > j + y
      BY <2>5 DEF GpuSummed
    <3>2. p \in DOMAIN GpuAdditions(w)
      BY <3>1, GpuShape
    <3>3. GpuAdditions(w)[p].to = r /\ GpuAdditions(w)[p].terms = SetToBag(ret_jx(i, j, x))
      BY <3>1, GpuShape
    <3>4. t \in ret_jx(i, j, x)
      BY <2>2, <2>5, <3>1
    <3> QED
      BY <1>1, <2>1, <3>2, <3>3, <3>4 DEF Adds
  <2>6. ASSUME NEW c, \/ t = Term(r, c, FALSE) /\ (GpuMirrored(w, p, r, c) \/ GpuSummed(w, p, r, c, FALSE))
                      \/ t = Term(r, c, TRUE) /\ GpuSummed(w, p, r, c, TRUE)
        PROVE  Adds(w, p, r, t)
    BY <2>4, <2>5, <2>6
  <2> QED
    BY <2>1, <2>3, <2>6
<1>3. CASE config.device # "GPU"
  <2>1. /\ Additions(w) = OmpAdditions(w)
        /\ \A c : Mirrored(w, p, r, c) <=> OmpMirrored(w, p, r, c)
        /\ \A c, diagonal : Summed(w, p, r, c, diagonal) <=> OmpSummed(w, p, r, c, diagonal)
    BY <1>3 DEF Additions, Mirrored, Summed
  <2>2. ASSUME NEW ii \in Tile(w.i), NEW s
        PROVE  s \in ret_iii(w.i, w.j, ii) <=>
                 \E jj \in Tile(w.j) : \/ ii + w.i > jj + w.j /\ s = Term(ii + w.i, jj + w.j, FALSE)
                                       \/ ii + w.i = jj + w.j /\ s = Term(ii + w.i, jj + w.j, TRUE)
    BY <1>3, WorkersTyped DEF ret_iii, Tile, TilingTyped
  <2>3. ASSUME Adds(w, p, r, t)
        PROVE  \E c : \/ t = Term(r, c, FALSE) /\ (OmpMirrored(w, p, r, c) \/ OmpSummed(w, p, r, c, FALSE))
                      \/ t = Term(r, c, TRUE) /\ OmpSummed(w, p, r, c, TRUE)
    <3>1. p \in DOMAIN OmpAdditions(w) /\ OmpAdditions(w)[p].to = r /\ t \in DOMAIN OmpAdditions(w)[p].terms
      BY <2>1, <2>3 DEF Adds
    <3>2. CASE p \in Tile(w.i) \X Tile(w.j) /\ p[1] + w.i > p[2] + w.j
      <4>1. PICK ii \in Tile(w.i), jj \in Tile(w.j) : p = <<ii, jj>>
        BY <3>2
      <4>2. ii + w.i > jj + w.j
        BY <3>2, <4>1
      <4>3. /\ OmpAdditions(w)[<<ii, jj>>].to = jj + w.j
            /\ OmpAdditions(w)[<<ii, jj>>].terms = SetToBag({Term(jj + w.j, ii + w.i, FALSE)})
        BY <4>2, OmpShape
      <4>4. r = jj + w.j /\ t = Term(jj + w.j, ii + w.i, FALSE)
        <5>1. DOMAIN SetToBag({Term(jj + w.j, ii + w.i, FALSE)}) = {Term(jj + w.j, ii + w.i, FALSE)}
          BY <1>1
        <5> QED
          BY <3>1, <4>1, <4>3, <5>1
      <4>5. OmpMirrored(w, p, r, ii + w.i)
        BY <4>1, <4>2, <4>4 DEF OmpMirrored
      <4> QED
        BY <4>4, <4>5
    <3>3. CASE p \in Tile(w.i) \X {OPENMP_BLOCK_SIZE}
      <4>1. PICK ii \in Tile(w.i) : p = <<ii, OPENMP_BLOCK_SIZE>>
        BY <3>3
      <4>2. r = ii + w.i /\ t \in ret_iii(w.i, w.j, ii)
        BY <1>1, <3>1, <4>1, OmpShape
      <4>3. PICK jj \in Tile(w.j) : \/ ii + w.i > jj + w.j /\ t = Term(ii + w.i, jj + w.j, FALSE)
                                    \/ ii + w.i = jj + w.j /\ t = Term(ii + w.i, jj + w.j, TRUE)
        BY <2>2, <4>2
      <4>4. /\ ii + w.i > jj + w.j => OmpSummed(w, p, r, jj + w.j, FALSE)
            /\ ii + w.i = jj + w.j => OmpSummed(w, p, r, jj + w.j, TRUE)
        BY <4>1, <4>2 DEF OmpSummed
      <4> QED
        BY <4>2, <4>3, <4>4
    <3> QED
      BY <3>1, <3>2, <3>3, OmpShape
  <2>4. ASSUME NEW c, t = Term(r, c, FALSE), OmpMirrored(w, p, r, c)
        PROVE  Adds(w, p, r, t)
    <3>1. PICK ii \in Tile(w.i), jj \in Tile(w.j) : p = <<ii, jj>> /\ r = jj + w.j /\ c = ii + w.i /\ c > r
      BY <2>4 DEF OmpMirrored
    <3>2. p \in DOMAIN OmpAdditions(w)
      BY <3>1, OmpShape
    <3>3. OmpAdditions(w)[p].to = r /\ OmpAdditions(w)[p].terms = SetToBag({t})
      BY <2>4, <3>1, OmpShape
    <3> QED
      BY <1>1, <2>1, <3>2, <3>3 DEF Adds
  <2>5. ASSUME NEW c, NEW diagonal \in BOOLEAN, t = Term(r, c, diagonal), OmpSummed(w, p, r, c, diagonal)
        PROVE  Adds(w, p, r, t)
    <3>1. PICK ii \in Tile(w.i), jj \in Tile(w.j) :
             /\ p = <<ii, OPENMP_BLOCK_SIZE>> /\ r = ii + w.i /\ c = jj + w.j
             /\ IF diagonal THEN r = c ELSE r > c
      BY <2>5 DEF OmpSummed
    <3>2. p \in DOMAIN OmpAdditions(w)
      BY <3>1, OmpShape
    <3>3. OmpAdditions(w)[p].to = r /\ OmpAdditions(w)[p].terms = SetToBag(ret_iii(w.i, w.j, ii))
      BY <3>1, OmpShape
    <3>4. t \in ret_iii(w.i, w.j, ii)
      BY <2>2, <2>5, <3>1
    <3> QED
      BY <1>1, <2>1, <3>2, <3>3, <3>4 DEF Adds
  <2>6. ASSUME NEW c, \/ t = Term(r, c, FALSE) /\ (OmpMirrored(w, p, r, c) \/ OmpSummed(w, p, r, c, FALSE))
                      \/ t = Term(r, c, TRUE) /\ OmpSummed(w, p, r, c, TRUE)
        PROVE  Adds(w, p, r, t)
    BY <2>4, <2>5, <2>6
  <2> QED
    BY <2>1, <2>3, <2>6
<1> QED
  BY <1>2, <1>3

\* The digits of an entry of the system that a tile adds to.
LEMMA TileDigits ==
    ASSUME TilingTyped, config.device # "GPU", NEW w \in Workers
    PROVE  /\ \A k \in Tile(w.i) : /\ k \in 0..(OPENMP_BLOCK_SIZE - 1) /\ k + w.i < dept /\ k + w.i \in Nat
                                   /\ k + w.i = Number(TileNumber(w.i), k, OPENMP_BLOCK_SIZE)
           /\ \A k \in Tile(w.j) : /\ k \in 0..(OPENMP_BLOCK_SIZE - 1) /\ k + w.j < dept /\ k + w.j \in Nat
                                   /\ k + w.j = Number(TileNumber(w.j), k, OPENMP_BLOCK_SIZE)
<1>1. ASSUME NEW s \in Nat, s = TileNumber(s) * OPENMP_BLOCK_SIZE, NEW k \in Tile(s)
      PROVE  /\ k \in 0..(OPENMP_BLOCK_SIZE - 1) /\ k + s < dept /\ k + s \in Nat
             /\ k + s = Number(TileNumber(s), k, OPENMP_BLOCK_SIZE)
  <2>1. k \in 0..(OPENMP_BLOCK_SIZE - 1) /\ k + s < dept
    BY DEF Tile
  <2>2. Number(TileNumber(s), k, OPENMP_BLOCK_SIZE) = s + k
    BY <1>1, Zenon DEF Number
  <2> QED
    BY <2>1, <2>2 DEF TilingTyped
<1> QED
  BY <1>1, WorkersTyped

\* No addition adds a term that another one adds to the same entry.
LEMMA AddedOnce ==
    ASSUME TilingTyped, NEW w \in Workers, NEW v \in Workers, NEW p, NEW q, NEW r, NEW t,
           Adds(w, p, r, t), Adds(v, q, r, t)
    PROVE  w = v /\ p = q
<1>1. PICK c : \/ t = Term(r, c, FALSE) /\ (Mirrored(w, p, r, c) \/ Summed(w, p, r, c, FALSE))
               \/ t = Term(r, c, TRUE) /\ Summed(w, p, r, c, TRUE)
  BY AddsIs
<1>2. PICK d : \/ t = Term(r, d, FALSE) /\ (Mirrored(v, q, r, d) \/ Summed(v, q, r, d, FALSE))
               \/ t = Term(r, d, TRUE) /\ Summed(v, q, r, d, TRUE)
  BY AddsIs
<1>3. c = d
  <2>1. \A n, cost : Term(r, n, cost).col = n
    BY DEF Term
  <2>2. t.col = c /\ t.col = d
    BY <1>1, <1>2, <2>1
  <2> QED
    BY <2>2
<1>4. CASE config.device = "GPU"
  <2> DEFINE I == INTERNAL_BLOCK_SIZE
             a == Across(w)
             b == Down(w)
             e == Across(v)
             f == Down(v)
  <2>2. ASSUME NEW u \in Workers, NEW s,
               Mirrored(u, s, r, c) \/ Summed(u, s, r, c, FALSE) \/ Summed(u, s, r, c, TRUE)
        PROVE  \E x, y \in Internal :
                 /\ Number(Across(u), x, I) >= Number(Down(u), y, I)
                 /\ \/ /\ s = <<x, y>> /\ Number(Across(u), x, I) > Number(Down(u), y, I)
                       /\ r = Number(Across(u), y, I) /\ c = Number(Down(u), x, I)
                    \/ /\ s = <<x, I>>
                       /\ r = Number(Down(u), x, I) /\ c = Number(Across(u), y, I)
    <3>1. \A k : /\ FirstRow(u) + k = Number(Across(u), k, I)
                 /\ FirstCol(u) + k = Number(Down(u), k, I)
      BY <1>4, WorkersTyped
    <3>2. /\ Across(u) \in Nat /\ Down(u) \in Nat /\ I \in Nat \ {0} /\ Internal = 0..(I - 1)
      BY <1>4, WorkersTyped DEF TilingTyped, Internal
    <3>3. \A x \in Internal : Number(Across(u), x, I) \in Nat /\ Number(Down(u), x, I) \in Nat
      BY <3>2, MixedRadix
    <3> HIDE DEF I
    <3>4. CASE Mirrored(u, s, r, c)
      BY <1>4, <3>1, <3>3, <3>4 DEF Mirrored, GpuMirrored
    <3>5. CASE Summed(u, s, r, c, FALSE)
      BY <1>4, <3>1, <3>3, <3>5 DEF Summed, GpuSummed, I
    <3>6. CASE Summed(u, s, r, c, TRUE)
      BY <1>4, <3>1, <3>3, <3>6 DEF Summed, GpuSummed, I
    <3> QED
      BY <2>2, <3>4, <3>5, <3>6
  <2>3. PICK x \in Internal, y \in Internal :
                 /\ Number(a, x, I) >= Number(b, y, I)
                 /\ \/ /\ p = <<x, y>> /\ Number(a, x, I) > Number(b, y, I)
                       /\ r = Number(a, y, I) /\ c = Number(b, x, I)
                    \/ /\ p = <<x, I>>
                       /\ r = Number(b, x, I) /\ c = Number(a, y, I)
    BY <1>1, <2>2
  <2>4. PICK g \in Internal, h \in Internal :
                 /\ Number(e, g, I) >= Number(f, h, I)
                 /\ \/ /\ q = <<g, h>> /\ Number(e, g, I) > Number(f, h, I)
                       /\ r = Number(e, h, I) /\ c = Number(f, g, I)
                    \/ /\ q = <<g, I>>
                       /\ r = Number(f, g, I) /\ c = Number(e, h, I)
    BY <1>2, <1>3, <2>2
  <2>5. /\ {a, b, e, f} \subseteq Nat /\ I \in Nat \ {0} /\ {x, y, g, h} \subseteq 0..(I - 1)
    BY <1>4, WorkersTyped DEF TilingTyped, Internal
  <2>6. a = e /\ b = f => w = v
    <3>1. /\ w = [bx |-> w.bx, by |-> w.by, tx |-> w.tx, ty |-> w.ty]
          /\ v = [bx |-> v.bx, by |-> v.by, tx |-> v.tx, ty |-> v.ty]
          /\ {w.bx, w.by, v.bx, v.by} \subseteq Nat
          /\ {w.tx, w.ty, v.tx, v.ty} \subseteq 0..(THREAD_BLOCK_SIZE - 1)
          /\ THREAD_BLOCK_SIZE \in Nat \ {0}
      BY <1>4, WorkersTyped DEF Ids, TilingTyped
    <3>2. /\ a = Number(w.bx, w.tx, THREAD_BLOCK_SIZE) /\ b = Number(w.by, w.ty, THREAD_BLOCK_SIZE)
          /\ e = Number(v.bx, v.tx, THREAD_BLOCK_SIZE) /\ f = Number(v.by, v.ty, THREAD_BLOCK_SIZE)
      BY DEF Across, Down
    <3> HIDE DEF a, b, e, f
    <3> DEFINE T == THREAD_BLOCK_SIZE
    <3>3. \A n, m \in Nat, k, l \in 0..(T - 1) :
            Number(n, k, T) = Number(m, l, T) => n = m /\ k = l
      BY <3>1, MixedRadix
    <3>4. /\ a = e => w.bx = v.bx /\ w.tx = v.tx
          /\ b = f => w.by = v.by /\ w.ty = v.ty
      <4> HIDE DEF T
      <4> QED
        BY <3>1, <3>2, <3>3 DEF T
    <3> QED
      BY <3>1, <3>4
  <2> HIDE DEF I, a, b, e, f
  <2>7. /\ Number(a, x, I) >= Number(b, y, I) => a > b \/ (a = b /\ x >= y)
        /\ Number(a, x, I) > Number(b, y, I) => a > b \/ (a = b /\ x > y)
        /\ Number(e, g, I) >= Number(f, h, I) => e > f \/ (e = f /\ g >= h)
        /\ Number(e, g, I) > Number(f, h, I) => e > f \/ (e = f /\ g > h)
    <3>1. ASSUME NEW n \in Nat, NEW m \in Nat, NEW k \in 0..(I - 1), NEW l \in 0..(I - 1)
          PROVE  /\ Number(n, k, I) >= Number(m, l, I) => n > m \/ (n = m /\ k >= l)
                 /\ Number(n, k, I) > Number(m, l, I) => n > m \/ (n = m /\ k > l)
      <4>1. Number(n, k, I) \in Nat /\ Number(m, l, I) \in Nat
        BY <2>5, MixedRadix
      <4>2. /\ Number(n, k, I) > Number(m, l, I) <=> n > m \/ (n = m /\ k > l)
            /\ Number(n, k, I) = Number(m, l, I) <=> n = m /\ k = l
        BY <2>5, Ordered
      <4> QED
        BY <4>1, <4>2
    <3> QED
      BY <2>5, <3>1
  <2>8. /\ Number(a, y, I) = Number(e, h, I) => a = e /\ y = h
        /\ Number(b, x, I) = Number(f, g, I) => b = f /\ x = g
        /\ Number(a, y, I) = Number(f, g, I) => a = f /\ y = g
        /\ Number(b, x, I) = Number(e, h, I) => b = e /\ x = h
    BY <2>5, MixedRadix
  <2>9. a = e /\ b = f /\ x = g /\ y = h /\ (p = <<x, y>> <=> q = <<x, y>>)
    <3>1. I \notin 0..(I - 1) /\ {x, y, g, h} \subseteq Nat
      BY <2>5
    <3>2. CASE p = <<x, y>> /\ q = <<g, h>> /\ r = Number(a, y, I) /\ r = Number(e, h, I)
               /\ c = Number(b, x, I) /\ c = Number(f, g, I)
      BY <2>8, <3>2
    <3>3. CASE p = <<x, I>> /\ q = <<g, I>> /\ r = Number(b, x, I) /\ r = Number(f, g, I)
               /\ c = Number(a, y, I) /\ c = Number(e, h, I)
      BY <2>8, <3>3
    <3>4. CASE /\ Number(a, x, I) > Number(b, y, I) /\ r = Number(a, y, I) /\ r = Number(f, g, I)
               /\ c = Number(b, x, I) /\ c = Number(e, h, I)
      <4>1. a = f /\ y = g /\ b = e /\ x = h
        BY <2>8, <3>4
      <4>2. a > b \/ (a = b /\ x > y)
        BY <2>7, <3>4
      <4>3. e > f \/ (e = f /\ g >= h)
        BY <2>4, <2>7
      <4> QED
        BY <2>5, <3>1, <4>1, <4>2, <4>3
    <3>5. CASE /\ Number(e, g, I) > Number(f, h, I) /\ r = Number(b, x, I) /\ r = Number(e, h, I)
               /\ c = Number(a, y, I) /\ c = Number(f, g, I)
      <4>1. a = f /\ y = g /\ b = e /\ x = h
        BY <2>8, <3>5
      <4>2. e > f \/ (e = f /\ g > h)
        BY <2>7, <3>5
      <4>3. a > b \/ (a = b /\ x >= y)
        BY <2>3, <2>7
      <4> QED
        BY <2>5, <3>1, <4>1, <4>2, <4>3
    <3> QED
      BY <2>3, <2>4, <3>2, <3>3, <3>4, <3>5
  <2>10. p = q
    <3>1. I \notin 0..(I - 1)
      BY <2>5
    <3> QED
      BY <2>3, <2>4, <2>5, <2>9, <3>1
  <2> QED
    BY <2>6, <2>9, <2>10
<1>5. CASE config.device # "GPU"
  <2> DEFINE size == OPENMP_BLOCK_SIZE
  <2>1. size \in Nat \ {0}
    BY DEF TilingTyped
  <2>2. ASSUME NEW u \in Workers, NEW s,
               Mirrored(u, s, r, c) \/ Summed(u, s, r, c, FALSE) \/ Summed(u, s, r, c, TRUE)
        PROVE  \E ii, jj \in 0..(size - 1) :
                 \/ /\ s = <<ii, jj>> /\ c > r
                    /\ r = Number(TileNumber(u.j), jj, size) /\ c = Number(TileNumber(u.i), ii, size)
                 \/ /\ s = <<ii, size>> /\ r >= c
                    /\ r = Number(TileNumber(u.i), ii, size) /\ c = Number(TileNumber(u.j), jj, size)
    <3>1. CASE Mirrored(u, s, r, c)
      BY <1>5, <3>1, TileDigits DEF Mirrored, OmpMirrored
    <3>2. CASE Summed(u, s, r, c, FALSE)
      BY <1>5, <3>2, TileDigits DEF Summed, OmpSummed
    <3>3. CASE Summed(u, s, r, c, TRUE)
      BY <1>5, <3>3, TileDigits DEF Summed, OmpSummed
    <3> QED
      BY <2>2, <3>1, <3>2, <3>3
  <2> DEFINE a == TileNumber(w.i)
             b == TileNumber(w.j)
             e == TileNumber(v.i)
             f == TileNumber(v.j)
  <2>3. PICK ii \in 0..(size - 1), jj \in 0..(size - 1) :
                 \/ p = <<ii, jj>> /\ c > r /\ r = Number(b, jj, size) /\ c = Number(a, ii, size)
                 \/ p = <<ii, size>> /\ r >= c /\ r = Number(a, ii, size) /\ c = Number(b, jj, size)
    BY <1>1, <2>2
  <2>4. PICK kk \in 0..(size - 1), ll \in 0..(size - 1) :
                 \/ q = <<kk, ll>> /\ c > r /\ r = Number(f, ll, size) /\ c = Number(e, kk, size)
                 \/ q = <<kk, size>> /\ r >= c /\ r = Number(e, kk, size) /\ c = Number(f, ll, size)
    BY <1>2, <1>3, <2>2
  <2>5. /\ {a, b, e, f} \subseteq Nat
        /\ w = [i |-> a * size, j |-> b * size] /\ v = [i |-> e * size, j |-> f * size]
    BY <1>5, WorkersTyped
  <2> HIDE DEF size, a, b, e, f
  <2>6. r \in Nat /\ c \in Nat
    <3>1. Number(a, ii, size) \in Nat /\ Number(b, jj, size) \in Nat
      BY <2>1, <2>5, MixedRadix
    <3> QED
      BY <2>3, <3>1
  <2>7. /\ Number(a, ii, size) = Number(e, kk, size) => a = e /\ ii = kk
        /\ Number(b, jj, size) = Number(f, ll, size) => b = f /\ jj = ll
    BY <2>1, <2>5, MixedRadix
  <2>8. a = e /\ ii = kk /\ b = f /\ jj = ll /\ p = q
    BY <2>3, <2>4, <2>6, <2>7
  <2> QED
    BY <2>5, <2>8
<1> QED
  BY <1>4, <1>5

\* A term that is not of a padded column is the one of the product.
LEMMA AddedBelongs ==
    ASSUME TilingTyped, NEW w \in Workers, NEW p, NEW r, NEW t, Adds(w, p, r, t)
    PROVE  t = Term(r, t.col, t.col = r)
<1>1. PICK c : \/ t = Term(r, c, FALSE) /\ (Mirrored(w, p, r, c) \/ Summed(w, p, r, c, FALSE))
               \/ t = Term(r, c, TRUE) /\ Summed(w, p, r, c, TRUE)
  BY AddsIs
<1>2. /\ Mirrored(w, p, r, c) \/ Summed(w, p, r, c, FALSE) => c # r
      /\ Summed(w, p, r, c, TRUE) => c = r
  <2>1. CASE config.device = "GPU"
    <3> DEFINE I == INTERNAL_BLOCK_SIZE
               a == Across(w)
               b == Down(w)
    <3>1. \A k : FirstRow(w) + k = Number(a, k, I) /\ FirstCol(w) + k = Number(b, k, I)
      BY <2>1, WorkersTyped
    <3>2. a \in Nat /\ b \in Nat /\ I \in Nat \ {0} /\ Internal = 0..(I - 1)
      BY <2>1, WorkersTyped DEF TilingTyped, Internal
    <3>3. ASSUME NEW x \in Internal, NEW y \in Internal
          PROVE  /\ Number(a, x, I) > Number(b, y, I) => Number(a, y, I) # Number(b, x, I)
                 /\ Number(a, x, I) = Number(b, y, I) => Number(a, y, I) = Number(b, x, I)
      <4> HIDE DEF a, b, I
      <4>1. /\ Number(a, x, I) > Number(b, y, I) <=> a > b \/ (a = b /\ x > y)
            /\ Number(a, x, I) = Number(b, y, I) <=> a = b /\ x = y
            /\ Number(a, y, I) = Number(b, x, I) <=> a = b /\ y = x
        BY <3>2, Ordered
      <4> QED
        BY <3>2, <4>1
    <3>4. Mirrored(w, p, r, c) => c # r
      BY <2>1, <3>1, <3>3 DEF Mirrored, GpuMirrored
    <3>5. Summed(w, p, r, c, FALSE) => c # r
      BY <2>1, <3>1, <3>3 DEF Summed, GpuSummed
    <3>6. Summed(w, p, r, c, TRUE) => c = r
      BY <2>1, <3>1, <3>3 DEF Summed, GpuSummed
    <3> QED
      BY <3>4, <3>5, <3>6
  <2>2. CASE config.device # "GPU"
    <3>1. Mirrored(w, p, r, c) \/ Summed(w, p, r, c, FALSE) => c # r
      BY <2>2, TileDigits DEF Mirrored, OmpMirrored, Summed, OmpSummed
    <3>2. Summed(w, p, r, c, TRUE) => c = r
      BY <2>2 DEF Summed, OmpSummed
    <3> QED
      BY <3>1, <3>2
  <2> QED
    BY <2>1, <2>2
<1>3. t.col = c
  <2>1. \A n, cost : Term(r, n, cost).col = n
    BY DEF Term
  <2> QED
    BY <1>1, <2>1
<1>4. CASE t = Term(r, c, FALSE) /\ c # r
  <2>1. (t.col = r) = FALSE
    BY <1>3, <1>4
  <2> QED
    BY <1>3, <1>4, <2>1
<1>5. CASE t = Term(r, c, TRUE) /\ c = r
  <2>1. (t.col = r) = TRUE
    BY <1>3, <1>5
  <2> QED
    BY <1>3, <1>5, <2>1
<1> QED
  BY <1>1, <1>2, <1>4, <1>5

\* The grid holds the system and ends inside the padded buffers.
LEMMA GridHolds ==
    ASSUME TilingTyped
    PROVE  /\ boundary_size \in Nat \ {0} /\ grid \in Nat
           /\ dept <= grid * boundary_size /\ grid * boundary_size < dept + boundary_size
           /\ \A r \in Rows : /\ (r \div INTERNAL_BLOCK_SIZE) \div THREAD_BLOCK_SIZE \in 0..(grid - 1)
                              /\ (r \div INTERNAL_BLOCK_SIZE) % THREAD_BLOCK_SIZE \in Ids
                              /\ r % INTERNAL_BLOCK_SIZE \in Internal
                              /\ r \div INTERNAL_BLOCK_SIZE \in Nat
                              /\ r = Number(r \div INTERNAL_BLOCK_SIZE, r % INTERNAL_BLOCK_SIZE,
                                            INTERNAL_BLOCK_SIZE)
                              /\ r \div INTERNAL_BLOCK_SIZE =
                                   Number((r \div INTERNAL_BLOCK_SIZE) \div THREAD_BLOCK_SIZE,
                                          (r \div INTERNAL_BLOCK_SIZE) % THREAD_BLOCK_SIZE,
                                          THREAD_BLOCK_SIZE)
           /\ \A n \in 0..(grid - 1), x \in Ids, y \in Internal :
                Number(Number(n, x, THREAD_BLOCK_SIZE), y, INTERNAL_BLOCK_SIZE) \in 0..(dept + boundary_size - 1)
<1> DEFINE T == THREAD_BLOCK_SIZE
           I == INTERNAL_BLOCK_SIZE
           S == boundary_size
           N == dept
           G == grid
<1>1. T \in Nat \ {0} /\ I \in Nat \ {0} /\ N \in Nat \ {0} /\ S = T * I
  BY DEF TilingTyped, boundary_size
<1>2. S \in Nat \ {0}
  <2> HIDE DEF T, I, S
  <2> QED
    BY <1>1
<1>3. G = (N + S - 1) \div S
  BY DEF grid
<1>4. Ids = 0..(T - 1) /\ Internal = 0..(I - 1) /\ Rows = 0..(N - 1)
  BY DEF Ids, Internal, Rows
<1> HIDE DEF T, I, S, N, G
<1>5. /\ G \in Nat /\ (N + S - 1) % S \in 0..(S - 1)
      /\ N + S - 1 = Number(G, (N + S - 1) % S, S)
  <2>1. N + S - 1 \in Nat
    BY <1>1, <1>2
  <2> QED
    BY <1>2, <1>3, <2>1, Digits
<1>6. G * S \in Nat /\ N <= G * S /\ G * S < N + S
  <2> DEFINE all == G * S
             rest == (N + S - 1) % S
  <2>1. all \in Nat
    BY <1>2, <1>5
  <2>2. N + S - 1 = all + rest /\ rest \in 0..(S - 1)
    BY <1>5, Zenon DEF Number
  <2> HIDE DEF all, rest
  <2> QED
    BY <1>1, <1>2, <2>1, <2>2 DEF all
<1>7. Number(G, 0, S) = G * S
  BY <1>6 DEF Number
<1>8. ASSUME NEW n \in 0..(G - 1), NEW x \in 0..(T - 1), NEW y \in 0..(I - 1)
      PROVE  Number(Number(n, x, T), y, I) \in 0..(N + S - 1)
  <2> DEFINE s == Number(x, y, I)
             k == Number(Number(n, x, T), y, I)
  <2>1. s \in 0..(S - 1) /\ k = Number(n, s, S) /\ n \in Nat
    BY <1>1, <1>5, ThreeDigits
  <2> HIDE DEF s, k
  <2>2. Number(n, s, S) < Number(G, 0, S) /\ Number(n, s, S) \in Nat
    <3>1. 0 \in 0..(S - 1) /\ n < G
      BY <1>2, <1>5
    <3> QED
      BY <1>2, <1>5, <2>1, <3>1, MixedRadix
  <2>3. k \in 0..(N + S - 1)
    <3> DEFINE all == G * S
    <3>1. all \in Nat /\ all < N + S /\ k < all /\ k \in Nat
      BY <1>6, <1>7, <2>1, <2>2
    <3> HIDE DEF all
    <3> QED
      BY <1>1, <1>2, <3>1
  <2> QED
    BY <2>3 DEF k
<1>9. ASSUME NEW r \in 0..(N - 1)
      PROVE  /\ (r \div I) \div T \in 0..(G - 1) /\ (r \div I) % T \in 0..(T - 1)
             /\ r % I \in 0..(I - 1) /\ r \div I \in Nat
             /\ r = Number(r \div I, r % I, I)
             /\ r \div I = Number((r \div I) \div T, (r \div I) % T, T)
  <2> DEFINE k == r \div I
             y == r % I
             n == k \div T
             x == k % T
  <2>1. r \in Nat /\ r < N
    BY <1>1
  <2>2. k \in Nat /\ y \in 0..(I - 1) /\ r = Number(k, y, I)
    BY <1>1, <2>1, Digits
  <2>3. n \in Nat /\ x \in 0..(T - 1) /\ k = Number(n, x, T)
    <3> HIDE DEF k, y
    <3> QED
      BY <1>1, <2>2, Digits
  <2> HIDE DEF k, y, n, x
  <2>4. n < G
    <3> DEFINE s == Number(x, y, I)
    <3>1. s \in 0..(S - 1) /\ r = Number(n, s, S)
      BY <1>1, <2>2, <2>3, ThreeDigits
    <3> HIDE DEF s
    <3>2. /\ G < n => Number(G, 0, S) < Number(n, s, S)
          /\ Number(G, s, S) = Number(G, 0, S) + s
      <4>1. 0 \in 0..(S - 1)
        BY <1>2
      <4>2. Number(G, s, S) = G * S + s
        BY DEF Number
      <4> QED
        BY <1>2, <1>5, <1>7, <2>3, <3>1, <4>1, <4>2, MixedRadix
    <3>3. r < Number(G, 0, S) /\ Number(G, 0, S) \in Nat
      <4> DEFINE all == G * S
      <4>1. all \in Nat /\ N <= all /\ Number(G, 0, S) = all
        BY <1>6, <1>7
      <4> HIDE DEF all
      <4> QED
        BY <1>1, <2>1, <4>1
    <3>4. s \in Nat
      BY <3>1
    <3> QED
      BY <1>5, <2>1, <2>3, <3>1, <3>2, <3>3, <3>4
  <2>5. n \in 0..(G - 1)
    BY <1>5, <2>3, <2>4
  <2> QED
    BY <2>2, <2>3, <2>5 DEF k, y, n, x
<1> USE DEF T, I, S, N, G
<1>10. \A r \in Rows : r \in 0..(N - 1)
  BY <1>4
<1>11. /\ \A r \in Rows : /\ (r \div I) \div T \in 0..(G - 1) /\ (r \div I) % T \in Ids
                          /\ r % I \in Internal /\ r \div I \in Nat
                          /\ r = Number(r \div I, r % I, I)
                          /\ r \div I = Number((r \div I) \div T, (r \div I) % T, T)
  BY <1>4, <1>9, <1>10, Zenon
<1>12. \A n \in 0..(G - 1), x \in Ids, y \in Internal :
          Number(Number(n, x, T), y, I) \in 0..(N + S - 1)
  BY <1>4, <1>8, Zenon
<1> QED
  BY <1>2, <1>5, <1>6, <1>11, <1>12, Zenon

\* No pair of points is left out on either side of the diagonal.
LEMMA EveryPairAdded ==
    ASSUME TilingTyped, NEW r \in Rows, NEW c \in Rows
    PROVE  \E w \in Workers : \E p : Adds(w, p, r, Term(r, c, c = r))
<1>1. r \in Nat /\ c \in Nat /\ r < dept /\ c < dept
  BY DEF Rows, TilingTyped
<1>2. SUFFICES ASSUME NEW w \in Workers, NEW p,
                      \/ Mirrored(w, p, r, c) /\ c # r
                      \/ Summed(w, p, r, c, FALSE) /\ c # r
                      \/ Summed(w, p, r, c, TRUE) /\ c = r
               PROVE  Adds(w, p, r, Term(r, c, c = r))
  <2>1. \E w \in Workers : \E p : \/ Mirrored(w, p, r, c) /\ c # r
                                  \/ Summed(w, p, r, c, FALSE) /\ c # r
                                  \/ Summed(w, p, r, c, TRUE) /\ c = r
    <3>1. CASE config.device = "GPU"
      <4> DEFINE I == INTERNAL_BLOCK_SIZE
                 T == THREAD_BLOCK_SIZE
                 a == r \div I
                 b == c \div I
                 x == r % I
                 y == c % I
      <4>1. /\ a \in Nat /\ x \in Internal /\ r = Number(a, x, I)
            /\ a \div T \in 0..(grid - 1) /\ a % T \in Ids /\ a = Number(a \div T, a % T, T)
        BY GridHolds
      <4>2. /\ b \in Nat /\ y \in Internal /\ c = Number(b, y, I)
            /\ b \div T \in 0..(grid - 1) /\ b % T \in Ids /\ b = Number(b \div T, b % T, T)
        BY GridHolds
      <4>3. /\ I \in Nat \ {0} /\ T \in Nat \ {0} /\ Internal = 0..(I - 1) /\ Ids = 0..(T - 1)
            /\ grid \in Nat
        BY GridHolds DEF TilingTyped, Internal, Ids
      <4> HIDE DEF I, a, b, x, y
      <4>9. \A m, n \in Nat, k, l \in Internal :
              /\ Number(m, k, I) > Number(n, l, I) <=> m > n \/ (m = n /\ k > l)
              /\ Number(m, k, I) = Number(n, l, I) <=> m = n /\ k = l
        BY <4>3, Ordered
      <4>4. ASSUME NEW m \in Nat, NEW n \in Nat, m >= n,
                   m \div T \in 0..(grid - 1), m % T \in Ids, m = Number(m \div T, m % T, T),
                   n \div T \in 0..(grid - 1), n % T \in Ids, n = Number(n \div T, n % T, T)
            PROVE  \E w \in Workers : Across(w) = m /\ Down(w) = n
        <5> DEFINE w == [bx |-> m \div T, by |-> n \div T, tx |-> m % T, ty |-> n % T]
        <5>1. m \div T >= n \div T
          <6> DEFINE d == m \div T
                     e == n \div T
                     k == m % T
                     l == n % T
          <6>1. /\ d \in Nat /\ e \in Nat /\ k \in 0..(T - 1) /\ l \in 0..(T - 1)
                /\ m = Number(d, k, T) /\ n = Number(e, l, T)
            BY <4>3, <4>4
          <6> HIDE DEF d, e, k, l, T
          <6>2. d < e => Number(d, k, T) < Number(e, l, T)
            BY <4>3, <6>1, MixedRadix
          <6>3. d >= e
            BY <4>4, <6>1, <6>2
          <6> QED
            BY <6>3 DEF d, e
        <5>2. w \in GpuWorkers
          BY <4>4, <5>1 DEF GpuWorkers
        <5>3. Across(w) = m /\ Down(w) = n
          BY <4>4, Zenon DEF Across, Down
        <5> QED
          BY <3>1, <5>2, <5>3 DEF Workers
      <4>5. ASSUME NEW w \in Workers
            PROVE  \A k : /\ FirstRow(w) + k = Number(Across(w), k, I)
                          /\ FirstCol(w) + k = Number(Down(w), k, I)
        BY <3>1, WorkersTyped DEF I
      <4>6. CASE a > b \/ (a = b /\ y > x)
        <5>1. PICK w \in Workers : Across(w) = a /\ Down(w) = b
          BY <4>1, <4>2, <4>4, <4>6
        <5>2. /\ Number(a, y, I) > Number(b, x, I) <=> a > b \/ (a = b /\ y > x)
              /\ Number(a, x, I) = Number(b, y, I) <=> a = b /\ x = y
          BY <4>1, <4>2, <4>9
        <5>3. c # r
          BY <4>1, <4>2, <4>3, <4>6, <5>2
        <5>4. GpuMirrored(w, <<y, x>>, r, c)
          BY <4>1, <4>2, <4>5, <4>6, <5>1, <5>2 DEF GpuMirrored
        <5> QED
          BY <3>1, <5>3, <5>4 DEF Mirrored
      <4>7. CASE b > a \/ (a = b /\ x >= y)
        <5>1. PICK w \in Workers : Across(w) = b /\ Down(w) = a
          BY <4>1, <4>2, <4>4, <4>7
        <5>2. /\ Number(b, x, I) > Number(a, y, I) <=> b > a \/ (a = b /\ x > y)
              /\ Number(b, x, I) = Number(a, y, I) <=> a = b /\ x = y
              /\ Number(a, x, I) = Number(b, y, I) <=> a = b /\ x = y
          BY <4>1, <4>2, <4>9
        <5>3. CASE a = b /\ x = y
          <6>1. c = r
            BY <4>1, <4>2, <5>3
          <6>2. GpuSummed(w, <<x, I>>, r, c, TRUE)
            BY <4>1, <4>2, <4>5, <5>1, <5>2, <5>3 DEF GpuSummed, I
          <6> QED
            BY <3>1, <6>1, <6>2 DEF Summed
        <5>4. CASE ~(a = b /\ x = y)
          <6>1. c # r
            BY <4>1, <4>2, <5>2, <5>4
          <6>2. b > a \/ (a = b /\ x > y)
            BY <4>1, <4>2, <4>3, <4>7, <5>4
          <6>3. GpuSummed(w, <<x, I>>, r, c, FALSE)
            BY <4>1, <4>2, <4>5, <5>1, <5>2, <6>2 DEF GpuSummed, I
          <6> QED
            BY <3>1, <6>1, <6>3 DEF Summed
        <5> QED
          BY <5>3, <5>4
      <4>8. {a, b, x, y} \subseteq Nat
        BY <4>1, <4>2, <4>3
      <4>10. (a > b \/ (a = b /\ y > x)) \/ (b > a \/ (a = b /\ x >= y))
        BY <4>8
      <4> QED
        BY <4>6, <4>7, <4>10, Zenon
    <3>2. CASE config.device # "GPU"
      <4> DEFINE size == OPENMP_BLOCK_SIZE
      <4>1. ASSUME NEW n \in Nat, n < dept
            PROVE  \E s \in Starts : \E k \in Tile(s) : n = k + s
        <5> DEFINE k == n % size
                   m == n \div size
                   s == m * size
        <5>1. size \in Nat \ {0}
          BY DEF TilingTyped
        <5>2. m \in Nat /\ k \in 0..(size - 1) /\ n = Number(m, k, size)
          BY <5>1, Digits
        <5> HIDE DEF size, m, k
        <5>3. s \in Nat /\ n = k + s
          <6>1. s \in Nat
            BY <5>1, <5>2
          <6>2. n = s + k
            BY <5>2, Zenon DEF Number
          <6> HIDE DEF s
          <6> QED
            BY <5>1, <5>2, <6>1, <6>2
        <5>4. s % size = 0
          <6>1. s \div size \in Nat /\ s % size \in 0..(size - 1)
                /\ s = Number(s \div size, s % size, size)
            <7> HIDE DEF s
            <7> QED
              BY <5>1, <5>3, Digits
          <6>2. Number(m, 0, size) = s
            BY <5>3 DEF Number
          <6>3. 0 \in 0..(size - 1)
            BY <5>1
          <6> HIDE DEF s
          <6> QED
            BY <5>1, <5>2, <6>1, <6>2, <6>3, MixedRadix
        <5> HIDE DEF s
        <5>5. s \in 0..(dept - 1)
          BY <4>1, <5>1, <5>2, <5>3 DEF TilingTyped
        <5>6. s \in Starts
          BY <5>4, <5>5 DEF Starts, size
        <5>7. k \in Tile(s)
          BY <4>1, <5>2, <5>3 DEF Tile, size
        <5> QED
          BY <5>3, <5>6, <5>7
      <4>2. PICK s \in Starts : \E k \in Tile(s) : r = k + s
        BY <1>1, <4>1
      <4>6. PICK k \in Tile(s) : r = k + s
        BY <4>2
      <4>3. PICK e \in Starts : \E l \in Tile(e) : c = l + e
        BY <1>1, <4>1
      <4>7. PICK l \in Tile(e) : c = l + e
        BY <4>3
      <4>4. CASE c > r
        <5> DEFINE w == [i |-> e, j |-> s]
        <5>1. w \in Workers /\ w.i = e /\ w.j = s
          BY <3>2 DEF Workers, OmpWorkers
        <5> HIDE DEF w
        <5>2. OmpMirrored(w, <<l, k>>, r, c)
          BY <4>4, <4>6, <4>7, <5>1 DEF OmpMirrored
        <5>3. c # r
          BY <1>1, <4>4
        <5>4. Mirrored(w, <<l, k>>, r, c)
          BY <3>2, <5>2 DEF Mirrored
        <5> QED
          BY <5>1, <5>3, <5>4
      <4>5. CASE ~(c > r)
        <5> DEFINE w == [i |-> s, j |-> e]
        <5>1. w \in Workers /\ w.i = s /\ w.j = e
          BY <3>2 DEF Workers, OmpWorkers
        <5> HIDE DEF w
        <5>2. OmpSummed(w, <<k, size>>, r, c, TRUE) <=> r = c
          BY <4>6, <4>7, <5>1 DEF OmpSummed
        <5>3. OmpSummed(w, <<k, size>>, r, c, FALSE) <=> r > c
          BY <4>6, <4>7, <5>1 DEF OmpSummed
        <5>4. r = c \/ (r > c /\ c # r)
          BY <1>1, <4>5
        <5> QED
          BY <3>2, <5>1, <5>2, <5>3, <5>4 DEF Summed
      <4> QED
        BY <4>4, <4>5
    <3> QED
      BY <3>1, <3>2
  <2> QED
    BY <1>2, <2>1
<1>3. CASE c = r
  <2>1. (c = r) = TRUE
    BY <1>3
  <2> QED
    BY <1>2, <1>3, <2>1, AddsIs
<1>4. CASE c # r
  <2>1. (c = r) = FALSE
    BY <1>4
  <2> QED
    BY <1>2, <1>4, <2>1, AddsIs
<1> QED
  BY <1>3, <1>4

\* Additions stay inside the buffers.
LEMMA InsideBuffer ==
    ASSUME TilingTyped, NEW w \in Workers, NEW p \in DOMAIN Additions(w)
    PROVE  Additions(w)[p].to \in 0..(Buffer - 1)
<1>1. CASE config.device = "GPU"
  <2> DEFINE I == INTERNAL_BLOCK_SIZE
             T == THREAD_BLOCK_SIZE
  <2>1. /\ \A n \in 0..(grid - 1), x \in Ids, y \in Internal :
             Number(Number(n, x, T), y, I) \in 0..(dept + boundary_size - 1)
        /\ w.bx \in 0..(grid - 1) /\ w.by \in 0..(grid - 1) /\ w.tx \in Ids /\ w.ty \in Ids
        /\ \A k : FirstRow(w) + k = Number(Across(w), k, I) /\ FirstCol(w) + k = Number(Down(w), k, I)
    BY <1>1, GridHolds, WorkersTyped
  <2>2. \A k \in Internal : /\ FirstRow(w) + k \in 0..(dept + boundary_size - 1)
                            /\ FirstCol(w) + k \in 0..(dept + boundary_size - 1)
    BY <2>1 DEF Across, Down
  <2>3. /\ Additions(w) = GpuAdditions(w) /\ Buffer = dept + boundary_size
        /\ dept \in Nat /\ boundary_size \in Nat
    BY <1>1, GridHolds DEF Additions, Buffer, TilingTyped
  <2>4. CASE p \in Internal \X Internal /\ FirstRow(w) + p[1] > FirstCol(w) + p[2]
    <3>1. PICK x \in Internal, y \in Internal : p = <<x, y>>
      BY <2>4
    <3>2. GpuAdditions(w)[<<x, y>>].to = FirstRow(w) + y
      BY <2>4, <3>1, GpuShape
    <3> QED
      BY <2>2, <2>3, <3>1, <3>2
  <2>5. CASE p \in Internal \X {I}
    <3>1. PICK x \in Internal : p = <<x, I>>
      BY <2>5
    <3>2. GpuAdditions(w)[<<x, I>>].to = FirstCol(w) + x
      BY GpuShape
    <3> QED
      BY <2>2, <2>3, <3>1, <3>2
  <2> QED
    BY <2>3, <2>4, <2>5, GpuShape
<1>2. CASE config.device # "GPU"
  <2>1. Additions(w) = OmpAdditions(w) /\ Buffer = dept /\ dept \in Nat
    BY <1>2 DEF Additions, Buffer, TilingTyped
  <2>2. CASE p \in Tile(w.i) \X Tile(w.j) /\ p[1] + w.i > p[2] + w.j
    <3>1. PICK ii \in Tile(w.i), jj \in Tile(w.j) : p = <<ii, jj>>
      BY <2>2
    <3>2. OmpAdditions(w)[<<ii, jj>>].to = jj + w.j
      BY <2>2, <3>1, OmpShape
    <3>3. jj + w.j < dept /\ jj + w.j \in Nat
      BY <1>2, TileDigits
    <3> QED
      BY <2>1, <3>1, <3>2, <3>3
  <2>3. CASE p \in Tile(w.i) \X {OPENMP_BLOCK_SIZE}
    <3>1. PICK ii \in Tile(w.i) : p = <<ii, OPENMP_BLOCK_SIZE>>
      BY <2>3
    <3>2. OmpAdditions(w)[<<ii, OPENMP_BLOCK_SIZE>>].to = ii + w.i
      BY OmpShape
    <3>3. ii + w.i < dept /\ ii + w.i \in Nat
      BY <1>2, TileDigits
    <3> QED
      BY <2>1, <3>1, <3>2, <3>3
  <2> QED
    BY <2>1, <2>2, <2>3, OmpShape
<1> QED
  BY <1>1, <1>2

\* A worker has something to add, at places in its loops; what it adds is a
\* term each.
LEMMA AdditionsKnown ==
    ASSUME TilingTyped, NEW w \in Workers
    PROVE  /\ DOMAIN Additions(w) # {} /\ DOMAIN Additions(w) \subseteq Nat \X Nat
           /\ \A p \in DOMAIN Additions(w) :
                Additions(w)[p].terms = SetToBag(DOMAIN Additions(w)[p].terms)
<1>1. \A s : DOMAIN SetToBag(s) = s
  BY DEF SetToBag
<1>2. CASE config.device = "GPU"
  <2>1. Additions(w) = GpuAdditions(w)
    BY <1>2 DEF Additions
  <2>2. 0 \in Internal /\ Internal \subseteq Nat /\ INTERNAL_BLOCK_SIZE \in Nat
    BY DEF Internal, TilingTyped
  <2>3. DOMAIN GpuAdditions(w) # {} /\ DOMAIN GpuAdditions(w) \subseteq Nat \X Nat
    <3>1. <<0, INTERNAL_BLOCK_SIZE>> \in DOMAIN GpuAdditions(w)
      BY <2>2, GpuShape
    <3>2. DOMAIN GpuAdditions(w) \subseteq Nat \X Nat
      <4>1. /\ {p \in Internal \X Internal : FirstRow(w) + p[1] > FirstCol(w) + p[2]} \subseteq Nat \X Nat
            /\ Internal \X {INTERNAL_BLOCK_SIZE} \subseteq Nat \X Nat
        BY <2>2
      <4> QED
        BY <4>1, GpuShape
    <3> QED
      BY <3>1, <3>2
  <2>4. ASSUME NEW p \in DOMAIN GpuAdditions(w)
        PROVE  \E s : GpuAdditions(w)[p].terms = SetToBag(s)
    <3>1. CASE p \in Internal \X Internal /\ FirstRow(w) + p[1] > FirstCol(w) + p[2]
      <4>1. PICK x \in Internal, y \in Internal : p = <<x, y>>
        BY <3>1
      <4>2. GpuAdditions(w)[<<x, y>>].terms = SetToBag({Term(FirstRow(w) + y, FirstCol(w) + x, FALSE)})
        BY <3>1, <4>1, GpuShape
      <4> QED
        BY <4>1, <4>2, Zenon
    <3>2. CASE p \in Internal \X {INTERNAL_BLOCK_SIZE}
      <4>1. PICK x \in Internal : p = <<x, INTERNAL_BLOCK_SIZE>>
        BY <3>2
      <4>2. GpuAdditions(w)[<<x, INTERNAL_BLOCK_SIZE>>].terms =
              SetToBag(ret_jx(FirstRow(w), FirstCol(w), x))
        BY <4>1, GpuShape
      <4> QED
        BY <4>1, <4>2, Zenon
    <3> QED
      BY <3>1, <3>2, GpuShape
  <2> QED
    BY <1>1, <2>1, <2>3, <2>4
<1>3. CASE config.device # "GPU"
  <2>1. Additions(w) = OmpAdditions(w)
    BY <1>3 DEF Additions
  <2>2. /\ Tile(w.i) \subseteq Nat /\ Tile(w.j) \subseteq Nat /\ OPENMP_BLOCK_SIZE \in Nat
        /\ 0 \in Tile(w.i)
    <3>1. w.i \in Starts
      BY <1>3 DEF Workers, OmpWorkers
    <3>2. w.i \in Nat /\ w.i < dept
      BY <3>1 DEF Starts, TilingTyped
    <3> QED
      BY <3>2 DEF Tile, TilingTyped
  <2>3. DOMAIN OmpAdditions(w) # {} /\ DOMAIN OmpAdditions(w) \subseteq Nat \X Nat
    <3>1. <<0, OPENMP_BLOCK_SIZE>> \in DOMAIN OmpAdditions(w)
      BY <2>2, OmpShape
    <3>2. DOMAIN OmpAdditions(w) \subseteq Nat \X Nat
      <4>1. /\ {p \in Tile(w.i) \X Tile(w.j) : p[1] + w.i > p[2] + w.j} \subseteq Nat \X Nat
            /\ Tile(w.i) \X {OPENMP_BLOCK_SIZE} \subseteq Nat \X Nat
        BY <2>2
      <4> QED
        BY <4>1, OmpShape
    <3> QED
      BY <3>1, <3>2
  <2>4. ASSUME NEW p \in DOMAIN OmpAdditions(w)
        PROVE  \E s : OmpAdditions(w)[p].terms = SetToBag(s)
    <3>1. CASE p \in Tile(w.i) \X Tile(w.j) /\ p[1] + w.i > p[2] + w.j
      <4>1. PICK ii \in Tile(w.i), jj \in Tile(w.j) : p = <<ii, jj>>
        BY <3>1
      <4>2. OmpAdditions(w)[<<ii, jj>>].terms = SetToBag({Term(jj + w.j, ii + w.i, FALSE)})
        BY <3>1, <4>1, OmpShape
      <4> QED
        BY <4>1, <4>2, Zenon
    <3>2. CASE p \in Tile(w.i) \X {OPENMP_BLOCK_SIZE}
      <4>1. PICK ii \in Tile(w.i) : p = <<ii, OPENMP_BLOCK_SIZE>>
        BY <3>2
      <4>2. OmpAdditions(w)[<<ii, OPENMP_BLOCK_SIZE>>].terms = SetToBag(ret_iii(w.i, w.j, ii))
        BY <4>1, OmpShape
      <4> QED
        BY <4>1, <4>2, Zenon
    <3> QED
      BY <3>1, <3>2, OmpShape
  <2> QED
    BY <1>1, <2>1, <2>3, <2>4
<1> QED
  BY <1>2, <1>3

----------------------------------------------------------------------------
(* The workers run.                                                        *)

Done(w, p) == w \notin waiting /\ (w \in running => p \notin todo[w])

\* The terms that were added to entry r so far.
Added(r) ==
    UNION {UNION {IF Done(w, p) /\ Additions(w)[p].to = r THEN DOMAIN Additions(w)[p].terms ELSE {} :
                  p \in DOMAIN Additions(w)} : w \in Workers}

TilingInv ==
    /\ config \in Configurations
    /\ running \subseteq Workers /\ waiting \subseteq Workers /\ running \cap waiting = {}
    /\ \A w \in running : todo[w] # {} /\ todo[w] \subseteq DOMAIN Additions(w)
    /\ ret = [r \in 0..(Buffer - 1) |-> SetToBag(Added(r))]

LEMMA AddedHas ==
    ASSUME NEW r, NEW t
    PROVE  t \in Added(r) <=> \E w \in Workers : \E p : Done(w, p) /\ Adds(w, p, r, t)
BY DEF Added, Adds

LEMMA AddedHasNext ==
    ASSUME NEW r, NEW t
    PROVE  (t \in Added(r))' <=> \E w \in Workers' : \E p : Done(w, p)' /\ Adds(w, p, r, t)'
<1>1. (t \in Added(r) <=> \E w \in Workers : \E p : Done(w, p) /\ Adds(w, p, r, t))'
  BY AddedHas, PTL
<1> QED
  BY <1>1

LEMMA WorkStays ==
    ASSUME UNCHANGED config
    PROVE  /\ Workers' = Workers /\ Buffer' = Buffer
           /\ \A w : Additions(w)' = Additions(w)
           /\ \A w, p, r, t : Adds(w, p, r, t)' <=> Adds(w, p, r, t)
<1>1. /\ dept' = dept /\ THREAD_BLOCK_SIZE' = THREAD_BLOCK_SIZE
      /\ INTERNAL_BLOCK_SIZE' = INTERNAL_BLOCK_SIZE /\ OPENMP_BLOCK_SIZE' = OPENMP_BLOCK_SIZE
  BY DEF dept, THREAD_BLOCK_SIZE, INTERNAL_BLOCK_SIZE, OPENMP_BLOCK_SIZE
<1>2. /\ Internal' = Internal /\ Ids' = Ids /\ boundary_size' = boundary_size /\ grid' = grid
      /\ Starts' = Starts
  BY <1>1 DEF Internal, Ids, boundary_size, grid, Starts
<1>3. Workers' = Workers /\ Buffer' = Buffer
  BY <1>1, <1>2 DEF Workers, GpuWorkers, OmpWorkers, Buffer
<1>4. ASSUME NEW w PROVE Additions(w)' = Additions(w)
  <2>1. FirstRow(w)' = FirstRow(w) /\ FirstCol(w)' = FirstCol(w)
    BY <1>1 DEF FirstRow, FirstCol
  <2>2. \A i, j, x : ret_jx(i, j, x)' = ret_jx(i, j, x)
    BY <1>2, Zenon DEF ret_jx
  <2>3. \A s : Tile(s)' = Tile(s)
    BY <1>1 DEF Tile
  <2>4. \A i, j, ii : ret_iii(i, j, ii)' = ret_iii(i, j, ii)
    BY <2>3, Zenon DEF ret_iii
  <2>5. GpuAdditions(w)' = GpuAdditions(w)
    BY <1>1, <1>2, <2>1, <2>2, Zenon DEF GpuAdditions
  <2>6. OmpAdditions(w)' = OmpAdditions(w)
    BY <1>1, <2>3, <2>4, Zenon DEF OmpAdditions
  <2> QED
    BY <2>5, <2>6 DEF Additions
<1> QED
  BY <1>3, <1>4 DEF Adds

\* The first of the places that are left is one of them.
LEMMA FirstIsLeft ==
    ASSUME NEW positions, positions # {}, positions \subseteq Nat \X Nat
    PROVE  First(positions) \in positions
<1> DEFINE ones == {p[1] : p \in positions}
<1>1. ones \subseteq Nat /\ ones # {}
  OBVIOUS
<1>2. \A S \in SUBSET Nat : S # {} => \E n \in S : \A m \in S : n <= m
  <2> SUFFICES ASSUME NEW S \in SUBSET Nat, S # {} PROVE \E n \in S : \A m \in S : n <= m
    OBVIOUS
  <2>1. PICK n \in S : \A m \in S : <<m, n>> \notin OpToRel(<, Nat)
    BY NatLessThanWellFounded, WFMin
  <2>2. ASSUME NEW m \in S PROVE n <= m
    <3>1. ~(m < n)
      BY <2>1 DEF OpToRel
    <3> QED
      BY <3>1
  <2> QED
    BY <2>2
<1>3. PICK x \in ones : \A m \in ones : x <= m
  BY <1>1, <1>2
<1> DEFINE twos == {p[2] : p \in {q \in positions : q[1] = x}}
<1>4. twos \subseteq Nat /\ twos # {}
  OBVIOUS
<1>5. PICK y \in twos : \A m \in twos : y <= m
  BY <1>2, <1>4
<1>6. PICK p \in positions : p[1] = x /\ p[2] = y
  BY <1>5
<1>7. \A q \in positions : p[1] < q[1] \/ (p[1] = q[1] /\ p[2] <= q[2])
  <2> SUFFICES ASSUME NEW q \in positions PROVE p[1] < q[1] \/ (p[1] = q[1] /\ p[2] <= q[2])
    OBVIOUS
  <2>1. x <= q[1] /\ x \in Nat /\ q[1] \in Nat
    BY <1>1, <1>3
  <2>2. q[1] = x => y <= q[2]
    BY <1>5
  <2> QED
    BY <1>6, <2>1, <2>2
<1> QED
  BY <1>7 DEF First

LEMMA BagsOfSets ==
    ASSUME NEW s, NEW t, s \cap t = {}
    PROVE  SetToBag(s) (+) SetToBag(t) = SetToBag(s \cup t)
BY DEF SetToBag, (+)

LEMMA InitTiling == TilingInit => TilingInv
<1> SUFFICES ASSUME TilingInit PROVE TilingInv
  OBVIOUS
<1>1. \A r : Added(r) = {}
  BY DEF Added, Done, TilingInit
<1>2. ret = [r \in 0..(Buffer - 1) |-> SetToBag(Added(r))]
  BY <1>1, Zenon DEF TilingInit, EmptyBag
<1> QED
  BY <1>2 DEF TilingInit, TilingInv

\* Steps that leave the result alone and finish nothing.
LEMMA NothingAdded ==
    ASSUME TilingInv, UNCHANGED <<config, ret>>,
           running' \subseteq Workers, waiting' \subseteq Workers, running' \cap waiting' = {},
           \A w \in running' : todo[w]' # {} /\ todo[w]' \subseteq DOMAIN Additions(w),
           \A w \in Workers : \A p \in DOMAIN Additions(w) : Done(w, p)' <=> Done(w, p)
    PROVE  TilingInv'
<1>1. \A r : Added(r)' = Added(r)
  <2> TAKE r
  <2>1. \A t : (t \in Added(r))' <=> t \in Added(r)
    <3> TAKE t
    <3>1. (t \in Added(r))' <=> \E w \in Workers : \E p : Done(w, p)' /\ Adds(w, p, r, t)
      BY AddedHasNext, WorkStays
    <3> QED
      BY <3>1, AddedHas DEF Adds
  <2> QED
    BY <2>1
<1>2. ret' = [r \in 0..(Buffer' - 1) |-> SetToBag(Added(r)')]
  BY <1>1, WorkStays DEF TilingInv
<1> QED
  BY <1>2, WorkStays DEF TilingInv

LEMMA StartTiling ==
    ASSUME TilingInv, NEW w \in Workers, StartWorker(w)
    PROVE  TilingInv'
<1>1. /\ w \in waiting /\ w \notin running /\ running' = running \cup {w} /\ waiting' = waiting \ {w}
      /\ todo' = [v \in running' |-> IF v = w THEN DOMAIN Additions(w) ELSE todo[v]]
      /\ UNCHANGED <<config, ret>>
  BY DEF TilingInv, StartWorker
<1>2. /\ todo[w]' = DOMAIN Additions(w)
      /\ \A v \in running : todo[v]' = todo[v]
  BY <1>1
<1>3. DOMAIN Additions(w) # {}
  BY ConfigTyped, AdditionsKnown DEF TilingInv
<1>4. \A v \in running' : todo[v]' # {} /\ todo[v]' \subseteq DOMAIN Additions(v)
  BY <1>1, <1>2, <1>3 DEF TilingInv
<1>5. ASSUME NEW v \in Workers, NEW p \in DOMAIN Additions(v)
      PROVE  Done(v, p)' <=> Done(v, p)
  <2>1. CASE v = w
    BY <1>1, <1>2, <2>1 DEF Done
  <2>2. CASE v # w
    BY <1>1, <1>2, <2>2 DEF Done
  <2> QED
    BY <2>1, <2>2
<1>6. running' \subseteq Workers /\ waiting' \subseteq Workers /\ running' \cap waiting' = {}
  BY <1>1 DEF TilingInv
<1> QED
  BY <1>1, <1>4, <1>5, <1>6, NothingAdded

\* An addition is done, and its terms are added to its entry.
LEMMA AdditionTiling ==
    ASSUME TilingInv, NEW w \in running, UNCHANGED <<config, waiting>>, GoOn(w),
           ret' = [ret EXCEPT ![Current(w).to] = @ (+) Current(w).terms]
    PROVE  TilingInv'
<1> DEFINE a == Current(w)
           f == First(todo[w])
           rest == todo[w] \ {f}
           left == IF rest = {} THEN running \ {w} ELSE running
<1>1. /\ TilingTyped /\ w \in Workers /\ todo[w] # {} /\ todo[w] \subseteq DOMAIN Additions(w)
      /\ DOMAIN Additions(w) \subseteq Nat \X Nat
  BY ConfigTyped, AdditionsKnown DEF TilingInv
<1>2. f \in todo[w] /\ f \in DOMAIN Additions(w)
  BY <1>1, FirstIsLeft
<1>3. a = Additions(w)[f] /\ a.to \in 0..(Buffer - 1) /\ a.terms = SetToBag(DOMAIN a.terms)
  BY <1>1, <1>2, InsideBuffer, AdditionsKnown DEF Current
<1>4. running' = left /\ todo' = [v \in left |-> IF v = w THEN rest ELSE todo[v]]
  BY Zenon DEF GoOn
<1> HIDE DEF a, f
<1>5. ASSUME NEW v \in Workers, NEW p \in DOMAIN Additions(v)
      PROVE  Done(v, p)' <=> Done(v, p) \/ (v = w /\ p = f)
  <2>1. CASE v = w
    <3>1. CASE rest = {}
      BY <1>1, <1>2, <1>4, <2>1, <3>1 DEF Done, TilingInv
    <3>2. CASE rest # {}
      BY <1>1, <1>2, <1>4, <2>1, <3>2 DEF Done, TilingInv
    <3> QED
      BY <3>1, <3>2
  <2>2. CASE v # w
    <3>1. v \in left <=> v \in running
      BY <2>2
    <3>2. v \in left => todo[v]' = todo[v]
      BY <1>4, <2>2
    <3> QED
      BY <1>4, <2>2, <3>1, <3>2 DEF Done
  <2> QED
    BY <2>1, <2>2
<1>6. ~Done(w, f)
  BY <1>2 DEF Done
<1>7. ASSUME NEW r, NEW t
      PROVE  (t \in Added(r))' <=> t \in Added(r) \/ Adds(w, f, r, t)
  <2>1. (t \in Added(r))' <=> \E v \in Workers' : \E p : Done(v, p)' /\ Adds(v, p, r, t)'
    BY AddedHasNext
  <2>2. Workers' = Workers /\ \A v, p : Adds(v, p, r, t)' <=> Adds(v, p, r, t)
    BY WorkStays
  <2>3. (t \in Added(r))' <=> \E v \in Workers : \E p : Done(v, p)' /\ Adds(v, p, r, t)
    BY <2>1, <2>2
  <2>4. \A v \in Workers : \A p : Adds(v, p, r, t) => p \in DOMAIN Additions(v)
    BY DEF Adds
  <2>5. t \in Added(r) <=> \E v \in Workers : \E p : Done(v, p) /\ Adds(v, p, r, t)
    BY AddedHas
  <2>6. ASSUME NEW v \in Workers, NEW p
        PROVE  Done(v, p)' /\ Adds(v, p, r, t) <=>
                 (Done(v, p) /\ Adds(v, p, r, t)) \/ (v = w /\ p = f /\ Adds(v, p, r, t))
    BY <1>5, <2>4
  <2> QED
    BY <1>1, <2>3, <2>5, <2>6
<1>8. ASSUME NEW r
      PROVE  Added(r)' = IF r = a.to THEN Added(r) \cup DOMAIN a.terms ELSE Added(r)
  <2>1. \A t : Adds(w, f, r, t) <=> r = a.to /\ t \in DOMAIN a.terms
    BY <1>2, <1>3 DEF Adds
  <2>2. \A t : (t \in Added(r))' <=> t \in Added(r) \/ (r = a.to /\ t \in DOMAIN a.terms)
    BY <1>7, <2>1
  <2> QED
    BY <2>2
<1>9. Added(a.to) \cap DOMAIN a.terms = {}
  <2> SUFFICES ASSUME NEW t, t \in Added(a.to), t \in DOMAIN a.terms
               PROVE  FALSE
    OBVIOUS
  <2>1. Adds(w, f, a.to, t)
    BY <1>2, <1>3 DEF Adds
  <2>2. PICK v \in Workers : \E p : Done(v, p) /\ Adds(v, p, a.to, t)
    BY AddedHas
  <2>3. PICK p : Done(v, p) /\ Adds(v, p, a.to, t)
    BY <2>2
  <2>4. v = w /\ p = f
    BY <1>1, <2>1, <2>3, AddedOnce
  <2> QED
    BY <1>6, <2>3, <2>4
<1>10. SetToBag(Added(a.to)) (+) a.terms = SetToBag(Added(a.to) \cup DOMAIN a.terms)
  <2>1. SetToBag(Added(a.to)) (+) SetToBag(DOMAIN a.terms) = SetToBag(Added(a.to) \cup DOMAIN a.terms)
    BY <1>9, BagsOfSets
  <2> QED
    BY <1>3, <2>1
<1>11. ret = [r \in 0..(Buffer - 1) |-> SetToBag(Added(r))]
  BY DEF TilingInv
<1>12. ret' = [r \in 0..(Buffer - 1) |-> SetToBag(Added(r)')]
  <2>1. ret' = [ret EXCEPT ![a.to] = @ (+) a.terms]
    BY DEF a
  <2>2. ret[a.to] = SetToBag(Added(a.to))
    BY <1>3, <1>11
  <2>3. ret' = [r \in 0..(Buffer - 1) |-> IF r = a.to THEN ret[a.to] (+) a.terms ELSE ret[r]]
    BY <1>11, <2>1
  <2>4. ASSUME NEW r \in 0..(Buffer - 1)
        PROVE  (IF r = a.to THEN ret[a.to] (+) a.terms ELSE ret[r]) = SetToBag(Added(r)')
    <3>1. CASE r = a.to
      BY <1>8, <1>10, <2>2, <3>1
    <3>2. CASE r # a.to
      BY <1>8, <1>11, <3>2
    <3> QED
      BY <3>1, <3>2
  <2> QED
    BY <2>3, <2>4, Zenon
<1>13. \A v \in running' : todo[v]' # {} /\ todo[v]' \subseteq DOMAIN Additions(v)
  <2> SUFFICES ASSUME NEW v \in running'
               PROVE  todo[v]' # {} /\ todo[v]' \subseteq DOMAIN Additions(v)
    OBVIOUS
  <2>1. CASE v = w
    <3>1. rest # {}
      BY <1>4, <2>1
    <3> QED
      BY <1>1, <1>4, <2>1, <3>1
  <2>2. CASE v # w
    BY <1>4, <2>2 DEF TilingInv
  <2> QED
    BY <2>1, <2>2
<1>14. /\ running' \subseteq Workers /\ waiting' \subseteq Workers /\ running' \cap waiting' = {}
       /\ config' \in Configurations
  BY <1>4 DEF TilingInv
<1> QED
  BY <1>12, <1>13, <1>14, WorkStays DEF TilingInv

LEMMA NextTiling == TilingInv /\ [TilingNext]_tiling_vars => TilingInv'
<1> SUFFICES ASSUME TilingInv, [TilingNext]_tiling_vars PROVE TilingInv'
  OBVIOUS
<1>1. ASSUME UNCHANGED <<config, ret, running, waiting, todo>> PROVE TilingInv'
  <2>1. \A w \in running' : todo[w]' # {} /\ todo[w]' \subseteq DOMAIN Additions(w)
    BY <1>1 DEF TilingInv
  <2>2. \A w \in Workers : \A p \in DOMAIN Additions(w) : Done(w, p)' <=> Done(w, p)
    BY <1>1 DEF Done
  <2>3. running' \subseteq Workers /\ waiting' \subseteq Workers /\ running' \cap waiting' = {}
    BY <1>1 DEF TilingInv
  <2> QED
    BY <1>1, <2>1, <2>2, <2>3, NothingAdded
<1>2. CASE \E w \in Workers : Step(w)
  <2>1. PICK w \in Workers : Step(w)
    BY <1>2
  <2>2. CASE StartWorker(w)
    BY <2>2, StartTiling
  <2>3. CASE AddNative(w)
    <3>1. w \in running /\ GoOn(w) /\ UNCHANGED <<config, waiting>>
      BY <2>3 DEF AddNative
    <3>2. ret' = [ret EXCEPT ![Current(w).to] = @ (+) Current(w).terms]
      BY <2>3 DEF AddNative
    <3> QED
      BY <3>1, <3>2, AdditionTiling
  <2>4. CASE ReadOld(w)
    BY <1>1, <2>4 DEF ReadOld
  <2>5. CASE CompareAndSwap(w)
    <3>1. PICK expected \in old[w] :
            \/ /\ ret[Current(w).to] = expected
               /\ ret' = [ret EXCEPT ![Current(w).to] = expected (+) Current(w).terms]
               /\ GoOn(w)
            \/ UNCHANGED <<ret, running, todo>>
      BY <2>5, Zenon DEF CompareAndSwap
    <3>2. w \in running /\ UNCHANGED <<config, waiting>>
      BY <2>5 DEF CompareAndSwap
    <3>3. CASE /\ ret[Current(w).to] = expected
               /\ ret' = [ret EXCEPT ![Current(w).to] = expected (+) Current(w).terms]
               /\ GoOn(w)
      <4>1. ret' = [ret EXCEPT ![Current(w).to] = @ (+) Current(w).terms]
        BY <3>3
      <4> QED
        BY <3>2, <3>3, <4>1, AdditionTiling
    <3>4. CASE UNCHANGED <<ret, running, todo>>
      BY <1>1, <3>2, <3>4
    <3> QED
      BY <3>1, <3>3, <3>4
  <2> QED
    BY <2>1, <2>2, <2>3, <2>4, <2>5 DEF Step
<1>3. CASE Terminated
  BY <1>1, <1>3 DEF Terminated, tiling_vars
<1>4. CASE UNCHANGED tiling_vars
  BY <1>1, <1>4 DEF tiling_vars
<1> QED
  BY <1>2, <1>3, <1>4 DEF TilingNext

LEMMA TilingCorrect == TilingInv => EveryEntryOnce
<1> SUFFICES ASSUME TilingInv PROVE EveryEntryOnce
  OBVIOUS
<1>1. TilingTyped
  BY ConfigTyped DEF TilingInv
<1>2. ASSUME NEW w \in running PROVE Current(w).to < Buffer
  <2>1. /\ w \in Workers /\ todo[w] # {} /\ todo[w] \subseteq DOMAIN Additions(w)
        /\ DOMAIN Additions(w) \subseteq Nat \X Nat
    BY <1>1, AdditionsKnown DEF TilingInv
  <2>2. First(todo[w]) \in DOMAIN Additions(w)
    BY <2>1, FirstIsLeft
  <2>3. Current(w).to \in 0..(Buffer - 1)
    BY <1>1, <2>1, <2>2, InsideBuffer DEF Current
  <2>4. Buffer \in Nat
    BY <1>1, GridHolds DEF Buffer, TilingTyped
  <2> QED
    BY <2>3, <2>4
<1>3. ASSUME NEW r \in Rows
      PROVE  Real(ret[r]) \sqsubseteq Product(r) /\ (Finished => Real(ret[r]) = Product(r))
  <2> DEFINE some == {t \in Added(r) : t.col \in Rows}
             all == {Term(r, col, col = r) : col \in Rows}
  <2>1. ret[r] = SetToBag(Added(r))
    <3>1. r \in 0..(Buffer - 1)
      BY <1>1, GridHolds DEF Rows, Buffer, TilingTyped
    <3> QED
      BY <3>1 DEF TilingInv
  <2>2. Real(ret[r]) = SetToBag(some)
    BY <2>1 DEF Real, SetToBag
  <2>3. some \subseteq all
    <3> SUFFICES ASSUME NEW t \in Added(r), t.col \in Rows PROVE t \in all
      OBVIOUS
    <3>1. PICK w \in Workers : \E p : Done(w, p) /\ Adds(w, p, r, t)
      BY AddedHas
    <3>2. PICK p : Adds(w, p, r, t)
      BY <3>1
    <3>3. t = Term(r, t.col, t.col = r)
      BY <1>1, <3>2, AddedBelongs
    <3> QED
      BY <3>3
  <2>4. ASSUME Finished PROVE all \subseteq some
    <3> SUFFICES ASSUME NEW col \in Rows PROVE Term(r, col, col = r) \in some
      OBVIOUS
    <3>1. PICK w \in Workers : \E p : Adds(w, p, r, Term(r, col, col = r))
      BY <1>1, EveryPairAdded
    <3>2. PICK p : Adds(w, p, r, Term(r, col, col = r))
      BY <3>1
    <3>3. Done(w, p)
      BY <2>4 DEF Finished, Done
    <3>4. Term(r, col, col = r) \in Added(r)
      BY <3>2, <3>3, AddedHas
    <3>5. Term(r, col, col = r).col = col
      BY DEF Term
    <3> QED
      BY <3>4, <3>5
  <2>5. Product(r) = SetToBag(all)
    BY DEF Product
  <2>6. SetToBag(some) \sqsubseteq SetToBag(all)
    BY <2>3 DEF SetToBag, \sqsubseteq
  <2>7. Finished => some = all
    BY <2>3, <2>4
  <2> QED
    BY <2>2, <2>5, <2>6, <2>7, Zenon
<1> QED
  BY <1>2, <1>3 DEF EveryEntryOnce

\* Whatever the sizes of the system, the blocks, the threads' parts and the
\* tiles, and however the workers are scheduled, no term of the product is
\* added twice to an entry of ret or to one it does not belong to, none is
\* missing at the end, no concurrent addition is lost, and nothing is added
\* outside of the padded buffers.
THEOREM EveryEntry == TilingSpec => []EveryEntryOnce
<1>1. TilingInit => TilingInv
  BY InitTiling
<1>2. TilingInv /\ [TilingNext]_tiling_vars => TilingInv'
  BY NextTiling
<1>3. TilingInv => EveryEntryOnce
  BY TilingCorrect
<1> QED
  BY <1>1, <1>2, <1>3, PTL DEF TilingSpec

----------------------------------------------------------------------------
(* OpenCLCache.                                                            *)

AllDevices == UNION {{list[j] : j \in 1..Len(list)} : list \in DeviceLists}
FileStates == {NoFile, TornFile} \cup {Binary(r, d) : r \in RealTypes, d \in AllDevices}
Positions(k) == 1..k.num_devices
Locations == Off \cup {"exists", "count", "build", "create", "open", "flush", "read", "link"}

CacheTyped ==
    /\ DOMAIN dir = Directories
    /\ \A k \in Directories : Exists(k) => dir[k] \in [Positions(k) -> FileStates]
    /\ at \in [Processes -> Locations]
    /\ devices \in [Processes -> DeviceLists]
    /\ real \in [Processes -> RealTypes]
    /\ index \in [Processes -> Nat \ {0}]
    /\ DOMAIN binaries = Processes
    /\ spoiled \in [Directories -> BOOLEAN]
    /\ writers \in [Directories -> SUBSET DeviceLists]
    /\ overlap \in [Processes -> BOOLEAN]

\* The files that a process has found or written.
Passed(p) ==
    IF at[p] = "open" THEN 1..(index[p] - 1)
    ELSE IF at[p] = "flush" THEN 1..index[p]
    ELSE IF at[p] \in {"read", "link", "failed"} THEN 1..Len(devices[p])
    ELSE {}

InPlaceOf(p) ==
    /\ at[p] \in {"open", "flush", "read"} => index[p] <= Len(devices[p]) /\ Exists(Key(p))
    /\ Passed(p) \subseteq Files(Key(p))
    /\ at[p] \in {"exists", "count"} => binaries[p] = <<>>

InPlace == \A p \in Processes : InPlaceOf(p)

\* Who has written is known.
WritersKnown ==
    /\ \A k \in Directories :
         /\ Files(k) # {} => writers[k] # {}
         /\ \A list \in writers[k] : Len(list) = k.num_devices
    /\ \A p \in Processes :
         at[p] = "flush" \/ (at[p] = "open" /\ index[p] > 1) => devices[p] \in writers[Key(p)]

\* The binaries of a build: the right ones or none.
Unbuilt(p) == [j \in 1..Len(devices[p]) |-> TornFile]

BuiltOf(p) ==
    at[p] \in {"create", "open", "flush"} =>
        \/ binaries[p] = Mine(p)
        \/ binaries[p] = Unbuilt(p) /\ (Writing(p) /\ index[p] > 1 => spoiled[Key(p)])

Built == \A p \in Processes : BuiltOf(p)

\* A directory that one list of devices was written to, and nothing spoiled.
Sane(k, list) == ~spoiled[k] /\ writers[k] = {list}

RightFiles ==
    \A k \in Directories, list \in DeviceLists : Sane(k, list) =>
        \A j \in Files(k) : dir[k][j] \in {TornFile, Binary(k.real, list[j])}

\* A file that is torn is being written, or a file behind it is missing, and
\* whoever writes has still to come to the torn one.
TornHere(k, j) == \E p \in Processes : at[p] = "flush" /\ Key(p) = k /\ index[p] = j

TornBefore(k, j) ==
    /\ \E m \in Positions(k) : m > j /\ m \notin Files(k)
    /\ \A p \in Processes : Writing(p) /\ Key(p) = k => index[p] <= j

TornForAReason ==
    \A k \in Directories, list \in DeviceLists : Sane(k, list) =>
        \A j \in Files(k) : dir[k][j] = TornFile => TornHere(k, j) \/ TornBefore(k, j)

\* A process that reads without an overlap reads alone: others can at most have
\* come to their first file.
ReadsAlone ==
    \A p, q \in Processes :
        p # q /\ at[p] = "read" /\ ~overlap[p] /\ Key(p) = Key(q) =>
            at[q] # "flush" /\ (at[q] = "open" => index[q] = 1)

Excused(p) == overlap[p] \/ spoiled[Key(p)] \/ writers[Key(p)] # {devices[p]}

\* What was read is right, or there is an excuse.
ReadRightOf(p) ==
    /\ at[p] = "read" =>
         /\ binaries[p] \in Seq(FileStates) /\ Len(binaries[p]) = index[p] - 1
         /\ Excused(p) \/ \A j \in 1..(index[p] - 1) : binaries[p][j] = Mine(p)[j]
    /\ at[p] = "link" => Excused(p) \/ binaries[p] = Mine(p)
    /\ at[p] = "failed" => Excused(p)

ReadRight == \A p \in Processes : ReadRightOf(p)

CacheInv ==
    /\ CacheTyped /\ InPlace /\ WritersKnown /\ Built /\ RightFiles /\ TornForAReason
    /\ ReadsAlone /\ ReadRight

----------------------------------------------------------------------------
(* Types.                                                                  *)

\* A process has a directory of its own kind.
LEMMA KeyType ==
    ASSUME CacheTyped, NEW p \in Processes
    PROVE  /\ Key(p) \in Directories
           /\ Key(p).real = real[p] /\ Key(p).num_devices = Len(devices[p])
           /\ Len(devices[p]) \in Nat \ {0}
<1>1. devices[p] \in DeviceLists /\ real[p] \in RealTypes
  BY DEF CacheTyped
<1> QED
  BY <1>1, DeviceListsAssumption DEF Key, Directories

LEMMA KeysType ==
    ASSUME NEW k \in Directories
    PROVE  k.num_devices \in Nat \ {0} /\ k.real \in RealTypes
BY DeviceListsAssumption DEF Directories

\* The files of a directory, and where it has none.
LEMMA FilesType ==
    ASSUME CacheTyped, NEW k \in Directories
    PROVE  /\ Files(k) \subseteq Positions(k)
           /\ \A j \in Files(k) : dir[k][j] \in FileStates \ {NoFile} /\ Exists(k)
           /\ Exists(k) => \A j \in Positions(k) \ Files(k) : dir[k][j] = NoFile
           /\ Full(k) => Exists(k)
<1>1. Positions(k) # {}
  BY KeysType DEF Positions
<1> QED
  BY <1>1 DEF CacheTyped, Files, Full, Positions

LEMMA StatesDiffer == NoFile # TornFile /\ \A r, d : Binary(r, d) \notin {NoFile, TornFile}
<1>1. NoFile.is = "missing" /\ TornFile.is = "torn" /\ \A r, d : Binary(r, d).is = "binary"
  BY DEF NoFile, TornFile, Binary
<1> QED
  BY <1>1

----------------------------------------------------------------------------
(* Types are kept.                                                         *)

LEMMA InitTyped == CacheInit => CacheTyped
BY DeviceListsAssumption DEF CacheInit, CacheTyped, Locations, Off, Exists, RealTypes

\* A build puts known states into the files.
LEMMA ContentType ==
    ASSUME CacheTyped, Built, NEW p \in Processes, at[p] \in {"open", "flush"},
           index[p] <= Len(devices[p])
    PROVE  /\ Content(p) \in FileStates \ {NoFile}
           /\ Content(p) # TornFile => Content(p) = Binary(real[p], devices[p][index[p]])
           /\ Content(p) = TornFile => binaries[p] = Unbuilt(p)
<1>1. index[p] \in 1..Len(devices[p]) /\ devices[p] \in DeviceLists /\ real[p] \in RealTypes
  BY KeyType DEF CacheTyped
<1>2. devices[p][index[p]] \in AllDevices
  BY <1>1 DEF AllDevices
<1>3. binaries[p] = Mine(p) \/ binaries[p] = Unbuilt(p)
  BY DEF Built, BuiltOf
<1>4. Binary(real[p], devices[p][index[p]]) \in FileStates
  BY <1>1, <1>2 DEF FileStates
<1>5. TornFile \in FileStates
  BY DEF FileStates
<1> QED
  BY <1>1, <1>3, <1>4, <1>5, StatesDiffer DEF Content, Mine, Unbuilt

\* What a flush leaves in a file.
LEMMA FlushedType ==
    ASSUME NEW before \in FileStates, NEW new \in FileStates \ {NoFile}, NEW file \in Flushed(before, new)
    PROVE  file \in FileStates \ {NoFile}
BY StatesDiffer DEF Flushed, FileStates

\* Types are kept in every step.
LEMMA NextTyped ==
    ASSUME CacheInv, [CacheNext]_cache_vars
    PROVE  CacheTyped'
<1>0. CacheTyped /\ InPlace /\ Built
  BY DEF CacheInv
<1>1. CASE UNCHANGED cache_vars
  BY <1>0, <1>1 DEF CacheTyped, cache_vars, history, Exists
<1>2. ASSUME NEW p \in Processes, NEW list \in DeviceLists, Start(p, list) PROVE CacheTyped'
  BY <1>0, <1>2 DEF CacheTyped, Start, Go, Locations, RealTypes, Exists
<1>3. ASSUME NEW p \in Processes, Construct(p) PROVE CacheTyped'
  <2>0. Key(p) \in Directories /\ Key(p).num_devices = Len(devices[p]) /\ Len(devices[p]) \in Nat \ {0}
    BY <1>0, KeyType
  <2>1. CASE CheckExists(p)
    BY <1>0, <2>1 DEF CacheTyped, CheckExists, Go, Locations, Exists, history
  <2>2. CASE CheckCount(p)
    BY <1>0, <2>2 DEF CacheTyped, CheckCount, Go, Locations, Exists
  <2>3. ASSUME NEW succeeds \in BOOLEAN, Build(p, succeeds) PROVE CacheTyped'
    BY <1>0, <2>3 DEF CacheTyped, Build, Go, Locations, Exists, history
  <2>4. CASE CreateDirectory(p)
    <3>1. [j \in 1..Len(devices[p]) |-> NoFile] \in [Positions(Key(p)) -> FileStates]
      BY <2>0 DEF Positions, FileStates
    <3>2. \A k \in Directories : Exists(k)' => dir'[k] \in [Positions(k) -> FileStates]
      BY <1>0, <2>0, <2>4, <3>1 DEF CacheTyped, CreateDirectory, Exists
    <3> QED
      BY <1>0, <2>4, <3>2 DEF CacheTyped, CreateDirectory, Go, Locations, history
  <2>5. CASE OpenFile(p)
    <3>1. Exists(Key(p)) /\ index[p] \in Positions(Key(p))
      BY <1>0, <2>0, <2>5 DEF InPlace, InPlaceOf, OpenFile, CacheTyped, Positions
    <3>2. \A k \in Directories : Exists(k)' => dir'[k] \in [Positions(k) -> FileStates]
      BY <1>0, <2>0, <2>5, <3>1 DEF CacheTyped, OpenFile, Exists, FileStates
    <3> QED
      BY <1>0, <2>0, <2>5, <3>2 DEF CacheTyped, OpenFile, Go, Locations
  <2>6. CASE FlushFile(p)
    <3>1. Exists(Key(p)) /\ index[p] \in Positions(Key(p)) /\ at[p] = "flush"
      BY <1>0, <2>0, <2>6 DEF InPlace, InPlaceOf, FlushFile, CacheTyped, Positions
    <3>2. Content(p) \in FileStates \ {NoFile}
      BY <1>0, <3>1, ContentType DEF InPlace, InPlaceOf
    <3>3. PICK file \in Flushed(dir[Key(p)][index[p]], Content(p)) :
            dir' = [dir EXCEPT ![Key(p)][index[p]] = file]
      BY <2>6 DEF FlushFile
    <3>4. file \in FileStates
      BY <1>0, <2>0, <3>1, <3>2, <3>3, FlushedType DEF CacheTyped
    <3>5. \A k \in Directories : Exists(k)' => dir'[k] \in [Positions(k) -> FileStates]
      BY <1>0, <2>0, <3>1, <3>3, <3>4 DEF CacheTyped, Exists
    <3> QED
      BY <1>0, <2>0, <2>6, <3>3, <3>5 DEF CacheTyped, FlushFile, Go, Locations
  <2>7. CASE ReadFile(p)
    BY <1>0, <2>7 DEF CacheTyped, ReadFile, Go, Locations, Exists, history
  <2>8. CASE LinkProgram(p)
    BY <1>0, <2>8 DEF CacheTyped, LinkProgram, Go, Locations, Off, Exists, history, RealTypes
  <2> QED
    BY <1>3, <2>1, <2>2, <2>3, <2>4, <2>5, <2>6, <2>7, <2>8 DEF Construct
<1>4. ASSUME NEW p \in Processes, Crash(p) PROVE CacheTyped'
  BY <1>0, <1>4, KeyType DEF CacheTyped, Crash, Go, Locations, Off, Exists
<1> QED
  BY <1>1, <1>2, <1>3, <1>4 DEF CacheNext

----------------------------------------------------------------------------
(* What a step leaves alone.                                               *)

\* A step of a process changes nothing of the other ones but that they may
\* have an overlap from now on.
LEMMA Others ==
    ASSUME CacheTyped, NEW p \in Processes, NEW q \in Processes \ {p},
           (\E list \in DeviceLists : Start(p, list)) \/ Construct(p) \/ Crash(p)
    PROVE  /\ at'[q] = at[q] /\ index'[q] = index[q] /\ binaries'[q] = binaries[q]
           /\ devices'[q] = devices[q] /\ real'[q] = real[q]
           /\ Key(q)' = Key(q) /\ (overlap[q] => overlap'[q])
<1>1. CASE \E list \in DeviceLists : Start(p, list)
  BY <1>1 DEF CacheTyped, Start, Go, Key
<1>2. CASE CheckExists(p) \/ CheckCount(p) \/ \E succeeds \in BOOLEAN : Build(p, succeeds)
  BY <1>2 DEF CacheTyped, CheckExists, CheckCount, Build, Go, Key, history
<1>3. CASE CreateDirectory(p) \/ OpenFile(p) \/ FlushFile(p)
  BY <1>3 DEF CacheTyped, CreateDirectory, OpenFile, FlushFile, Go, Key, history
<1>4. CASE ReadFile(p) \/ LinkProgram(p)
  BY <1>4 DEF CacheTyped, ReadFile, LinkProgram, Go, Key, history
<1>5. CASE Crash(p)
  BY <1>5 DEF CacheTyped, Crash, Go, Key
<1> QED
  BY <1>1, <1>2, <1>3, <1>4, <1>5 DEF Construct

\* An excuse remains one.
LEMMA StillExcused ==
    ASSUME NEW p, NEW k, Key(p) = k, Key(p)' = k, devices'[p] = devices[p], Excused(p),
           writers[k] # {}, writers[k] \subseteq writers'[k],
           spoiled[k] => spoiled'[k], overlap[p] => overlap'[p]
    PROVE  Excused(p)'
BY DEF Excused

\* Where nobody has come to the point of writing, the directories remain right.
LEMMA QuietStep ==
    ASSUME CacheInv, NEW p \in Processes,
           dir' = dir /\ writers' = writers /\ spoiled' = spoiled,
           ~Writing(p), ~Writing(p)',
           \A q \in Processes \ {p} : at'[q] = at[q] /\ index'[q] = index[q] /\ Key(q)' = Key(q)
                                         /\ devices'[q] = devices[q]
    PROVE  WritersKnown' /\ RightFiles' /\ TornForAReason'
<1>0. WritersKnown /\ RightFiles /\ TornForAReason
  BY DEF CacheInv
<1>1. \A k \in Directories : Files(k)' = Files(k)
  BY DEF Files, Exists
<1>2. WritersKnown'
  BY <1>0, <1>1 DEF WritersKnown, Writing
<1>3. RightFiles'
  BY <1>0, <1>1 DEF RightFiles, Sane
<1>4. ASSUME NEW k \in Directories, NEW j \in Files(k), TornHere(k, j) PROVE TornHere(k, j)'
  BY <1>4 DEF TornHere, Writing
<1>5. ASSUME NEW k \in Directories, NEW j \in Files(k), TornBefore(k, j) PROVE TornBefore(k, j)'
  BY <1>1, <1>5 DEF TornBefore, Writing
<1>6. TornForAReason'
  BY <1>0, <1>1, <1>4, <1>5 DEF TornForAReason, Sane
<1> QED
  BY <1>2, <1>3, <1>6

\* Files, and what is known of a directory, only become more.
LEMMA Grows ==
    ASSUME CacheInv, NEW p \in Processes, NEW k \in Directories,
           (\E list \in DeviceLists : Start(p, list)) \/ Construct(p) \/ Crash(p)
    PROVE  /\ Exists(k) => Exists(k)'
           /\ Files(k) \subseteq Files(k)'
           /\ writers[k] \subseteq writers'[k]
           /\ spoiled[k] => spoiled'[k]
<1>0. CacheTyped /\ InPlace /\ Built /\ Key(p) \in Directories
  BY KeyType DEF CacheInv
<1>1. ASSUME dir' = dir PROVE Exists(k)' = Exists(k) /\ Files(k)' = Files(k)
  BY <1>1 DEF Exists, Files
<1>2. CASE \/ \E list \in DeviceLists : Start(p, list)
           \/ CheckExists(p) \/ CheckCount(p) \/ \E succeeds \in BOOLEAN : Build(p, succeeds)
           \/ ReadFile(p) \/ LinkProgram(p)
  BY <1>1, <1>2 DEF Start, CheckExists, CheckCount, Build, ReadFile, LinkProgram, history
<1>3. CASE Crash(p)
  BY <1>0, <1>1, <1>3 DEF Crash, CacheTyped
<1>4. CASE CreateDirectory(p)
  BY <1>0, <1>4 DEF CreateDirectory, CacheTyped, Exists, Files, history
<1>5. ASSUME OpenFile(p) \/ FlushFile(p) PROVE Exists(Key(p)) /\ index[p] \in Positions(Key(p))
  BY <1>0, <1>5, KeyType DEF OpenFile, FlushFile, InPlace, InPlaceOf, CacheTyped, Positions
<1>6. CASE OpenFile(p)
  <2>1. dir' = [dir EXCEPT ![Key(p)][index[p]] = TornFile]
    BY <1>6 DEF OpenFile
  <2>2. Exists(k) => Exists(k)' /\ \A j \in Positions(k) : dir[k][j] # NoFile => dir'[k][j] # NoFile
    BY <1>0, <1>5, <1>6, <2>1, StatesDiffer DEF CacheTyped, Exists
  <2> QED
    BY <1>0, <1>6, <2>2 DEF Files, Positions, OpenFile, CacheTyped
<1>7. CASE FlushFile(p)
  <2>1. PICK file \in Flushed(dir[Key(p)][index[p]], Content(p)) :
          dir' = [dir EXCEPT ![Key(p)][index[p]] = file]
    BY <1>7 DEF FlushFile
  <2>2. Content(p) \in FileStates \ {NoFile} /\ dir[Key(p)][index[p]] \in FileStates
    <3>1. at[p] = "flush" /\ index[p] <= Len(devices[p])
      BY <1>0, <1>7 DEF FlushFile, InPlace, InPlaceOf
    <3>2. Content(p) \in FileStates \ {NoFile}
      BY <1>0, <3>1, ContentType
    <3>3. dir[Key(p)][index[p]] \in FileStates
      BY <1>0, <1>5, <1>7 DEF CacheTyped
    <3> QED
      BY <3>2, <3>3
  <2>3. file # NoFile
    BY <2>1, <2>2, FlushedType
  <2>4. Exists(k) => Exists(k)' /\ \A j \in Positions(k) : dir[k][j] # NoFile => dir'[k][j] # NoFile
    <3>1. CASE k # Key(p)
      BY <1>0, <2>1, <3>1 DEF CacheTyped, Exists
    <3>2. CASE k = Key(p)
      <4>1. dir[k] \in [Positions(k) -> FileStates]
        BY <1>0, <1>5, <1>7, <3>2 DEF CacheTyped
      <4>2. dir'[k] = [dir[k] EXCEPT ![index[p]] = file]
        BY <1>0, <2>1, <3>2 DEF CacheTyped
      <4>3. dir'[k] # <<>> /\ \A j \in Positions(k) : dir[k][j] # NoFile => dir'[k][j] # NoFile
        BY <1>5, <1>7, <2>3, <3>2, <4>1, <4>2
      <4> QED
        BY <4>3 DEF Exists
    <3> QED
      BY <3>1, <3>2
  <2> QED
    BY <1>0, <1>7, <2>4 DEF Files, Positions, FlushFile, CacheTyped
<1> QED
  BY <1>2, <1>3, <1>4, <1>6, <1>7 DEF Construct

\* A step of one process keeps what is known of another one.
LEMMA OthersKeep ==
    ASSUME CacheInv, NEW p \in Processes, NEW q \in Processes \ {p},
           (\E list \in DeviceLists : Start(p, list)) \/ Construct(p) \/ Crash(p)
    PROVE  InPlaceOf(q)' /\ BuiltOf(q)' /\ ReadRightOf(q)'
<1>0. CacheTyped /\ InPlaceOf(q) /\ BuiltOf(q) /\ ReadRightOf(q) /\ WritersKnown
  BY DEF CacheInv, InPlace, Built, ReadRight
<1>1. Key(q) \in Directories /\ Key(q).num_devices = Len(devices[q]) /\ Len(devices[q]) \in Nat \ {0}
  BY <1>0, KeyType
<1>2. /\ at'[q] = at[q] /\ index'[q] = index[q] /\ binaries'[q] = binaries[q]
      /\ devices'[q] = devices[q] /\ real'[q] = real[q]
      /\ Key(q)' = Key(q) /\ (overlap[q] => overlap'[q])
  BY <1>0, Others
<1>3. /\ Exists(Key(q)) => Exists(Key(q))'
      /\ Files(Key(q)) \subseteq Files(Key(q))'
      /\ writers[Key(q)] \subseteq writers'[Key(q)]
      /\ spoiled[Key(q)] => spoiled'[Key(q)]
  <2> DEFINE k == Key(q)
  <2>1. k' = k
    BY <1>2
  <2>2. /\ Exists(k) => (dir'[k] # <<>>)
        /\ \A K \in Directories : K = k => Files(K) \subseteq Files(K)'
        /\ \A K \in Directories : K = k => writers[K] \subseteq writers'[K] /\ (spoiled[K] => spoiled'[K])
    BY <1>1, Grows DEF Exists
  <2> QED
    BY <1>1, <2>1, <2>2 DEF Exists, Files
<1>4. Passed(q)' = Passed(q) /\ Mine(q)' = Mine(q) /\ Unbuilt(q)' = Unbuilt(q) /\ Writing(q)' = Writing(q)
  BY <1>2 DEF Passed, Mine, Unbuilt, Writing
<1>5. InPlaceOf(q)'
  BY <1>0, <1>2, <1>3, <1>4 DEF InPlaceOf
<1>6. BuiltOf(q)'
  BY <1>0, <1>2, <1>3, <1>4 DEF BuiltOf
<1>7. at[q] \in {"read", "link", "failed"} => (Excused(q) => Excused(q)')
  <2>1. at[q] \in {"read", "link", "failed"} => 1 \in Passed(q)
    BY <1>1 DEF Passed
  <2>2. at[q] \in {"read", "link", "failed"} => writers[Key(q)] # {}
    BY <1>0, <1>1, <2>1 DEF InPlaceOf, WritersKnown
  <2> QED
    BY <1>2, <1>3, <2>2, StillExcused
<1>8. ReadRightOf(q)'
  BY <1>0, <1>2, <1>4, <1>7 DEF ReadRightOf
<1> QED
  BY <1>5, <1>6, <1>8

----------------------------------------------------------------------------
(* The process that takes the step.                                        *)

\* A directory in which a process alone reads is right, file by file.
LEMMA ReadsRightFile ==
    ASSUME CacheInv, NEW p \in Processes, at[p] = "read", ~Excused(p)
    PROVE  dir[Key(p)][index[p]] = Mine(p)[index[p]]
<1>0. /\ CacheTyped /\ InPlaceOf(p) /\ RightFiles /\ TornForAReason /\ ReadsAlone
      /\ Key(p) \in Directories /\ Key(p).real = real[p] /\ Key(p).num_devices = Len(devices[p])
      /\ Len(devices[p]) \in Nat \ {0}
  BY KeyType DEF CacheInv, InPlace
<1>1. index[p] \in 1..Len(devices[p]) /\ Sane(Key(p), devices[p]) /\ devices[p] \in DeviceLists
  BY <1>0 DEF InPlaceOf, CacheTyped, Excused, Sane
<1>2. \A m \in 1..Len(devices[p]) : m \in Files(Key(p))
  BY <1>0 DEF InPlaceOf, Passed
<1>3. dir[Key(p)][index[p]] \in {TornFile, Binary(real[p], devices[p][index[p]])}
  BY <1>0, <1>1, <1>2 DEF RightFiles
<1>4. ~TornHere(Key(p), index[p])
  BY <1>0 DEF TornHere, ReadsAlone, Excused
<1>5. ~TornBefore(Key(p), index[p])
  BY <1>0, <1>2 DEF TornBefore, Positions
<1>6. dir[Key(p)][index[p]] # TornFile
  BY <1>0, <1>1, <1>2, <1>4, <1>5 DEF TornForAReason
<1> QED
  BY <1>1, <1>3, <1>6 DEF Mine

\* What is known of a process holds after its own step.
LEMMA OwnStep ==
    ASSUME CacheInv, CacheTyped', NEW p \in Processes,
           (\E list \in DeviceLists : Start(p, list)) \/ Construct(p) \/ Crash(p)
    PROVE  InPlaceOf(p)' /\ BuiltOf(p)' /\ ReadRightOf(p)'
<1>0. /\ CacheTyped /\ InPlaceOf(p) /\ BuiltOf(p) /\ ReadRightOf(p) /\ WritersKnown
      /\ Key(p) \in Directories /\ Key(p).num_devices = Len(devices[p]) /\ Len(devices[p]) \in Nat \ {0}
      /\ index[p] \in Nat \ {0}
  BY KeyType DEF CacheInv, InPlace, Built, ReadRight, CacheTyped
<1>1. /\ Exists(Key(p)) => dir'[Key(p)] # <<>>
      /\ \A K \in Directories : Files(K) \subseteq Files(K)'
      /\ writers[Key(p)] \subseteq writers'[Key(p)]
      /\ spoiled[Key(p)] => spoiled'[Key(p)]
  <2>1. \A K \in Directories :
          /\ Exists(K) => dir'[K] # <<>>
          /\ Files(K) \subseteq Files(K)'
          /\ writers[K] \subseteq writers'[K] /\ (spoiled[K] => spoiled'[K])
    BY Grows DEF Exists
  <2>2. \A K \in Directories : Files(K) \subseteq Files(K)'
    BY <2>1
  <2>3. /\ Exists(Key(p)) => dir'[Key(p)] # <<>>
        /\ writers[Key(p)] \subseteq writers'[Key(p)]
        /\ spoiled[Key(p)] => spoiled'[Key(p)]
    BY <1>0, <2>1
  <2> QED
    BY <2>2, <2>3
<1>2. devices'[p] = devices[p] /\ real'[p] = real[p] =>
        /\ Key(p)' = Key(p) /\ Mine(p)' = Mine(p) /\ Unbuilt(p)' = Unbuilt(p)
        /\ Files(Key(p)) \subseteq Files(Key(p))'
  <2> SUFFICES ASSUME devices'[p] = devices[p] /\ real'[p] = real[p]
               PROVE  /\ Key(p)' = Key(p) /\ Mine(p)' = Mine(p) /\ Unbuilt(p)' = Unbuilt(p)
                      /\ Files(Key(p)) \subseteq Files(Key(p))'
    OBVIOUS
  <2>1. Key(p)' = Key(p) /\ Mine(p)' = Mine(p) /\ Unbuilt(p)' = Unbuilt(p)
    BY DEF Key, Mine, Unbuilt
  <2>2. Files(Key(p)) \subseteq Files(Key(p))'
    BY <1>0, <1>1, <2>1 DEF Files, Exists
  <2> QED
    BY <2>1, <2>2
<1>3. CASE (\E list \in DeviceLists : Start(p, list)) \/ Crash(p)
  <2>1. at'[p] \in {"exists", "off"} /\ binaries'[p] = <<>>
    BY <1>0, <1>3 DEF Start, Crash, Go, CacheTyped
  <2> QED
    BY <2>1 DEF InPlaceOf, BuiltOf, ReadRightOf, Passed
<1>4. CASE CheckExists(p)
  <2>1. at'[p] \in {"count", "build"} /\ binaries'[p] = <<>>
    BY <1>0, <1>4 DEF CheckExists, Go, CacheTyped, InPlaceOf
  <2> QED
    BY <2>1 DEF InPlaceOf, BuiltOf, ReadRightOf, Passed
<1>5. CASE CheckCount(p)
  <2>1. /\ dir' = dir /\ binaries'[p] = <<>> /\ index'[p] = 1 /\ Key(p)' = Key(p)
        /\ devices'[p] = devices[p] /\ at'[p] \in {"read", "build"}
        /\ at'[p] = "read" => Full(Key(p))
    BY <1>0, <1>2, <1>5 DEF CheckCount, Go, CacheTyped, InPlaceOf, Usable
  <2>2. at'[p] = "read" => Exists(Key(p)) /\ Files(Key(p)) = 1..Len(devices[p])
    BY <1>0, <2>1, FilesType DEF Full
  <2>3. InPlaceOf(p)'
    BY <1>0, <2>1, <2>2 DEF InPlaceOf, Passed, Exists, Files
  <2>4. binaries'[p] \in Seq(FileStates) /\ Len(binaries'[p]) = index'[p] - 1
    BY <2>1
  <2> QED
    BY <2>1, <2>3, <2>4 DEF BuiltOf, ReadRightOf
<1>6. ASSUME NEW succeeds \in BOOLEAN, Build(p, succeeds) PROVE InPlaceOf(p)' /\ BuiltOf(p)' /\ ReadRightOf(p)'
  <2>1. /\ at'[p] = "create" /\ Mine(p)' = Mine(p) /\ Unbuilt(p)' = Unbuilt(p)
        /\ binaries'[p] \in {Mine(p), Unbuilt(p)}
    BY <1>0, <1>2, <1>6 DEF Build, Go, CacheTyped, Unbuilt
  <2> QED
    BY <2>1 DEF InPlaceOf, BuiltOf, ReadRightOf, Passed, Writing
<1>7. CASE CreateDirectory(p)
  <2>1. /\ at'[p] = "open" /\ Key(p)' = Key(p) /\ Mine(p)' = Mine(p) /\ Unbuilt(p)' = Unbuilt(p)
        /\ binaries'[p] = binaries[p] /\ index'[p] = 1 /\ devices'[p] = devices[p]
    BY <1>0, <1>2, <1>7 DEF CreateDirectory, Go, CacheTyped
  <2>2. dir'[Key(p)] # <<>>
    <3>1. CASE Exists(Key(p))
      BY <1>1, <3>1
    <3>2. CASE ~Exists(Key(p))
      <4>1. dir'[Key(p)] = [j \in 1..Len(devices[p]) |-> NoFile]
        BY <1>0, <1>7, <3>2 DEF CreateDirectory, CacheTyped
      <4>2. 1 \in DOMAIN dir'[Key(p)]
        BY <1>0, <4>1
      <4> QED
        BY <4>2
    <3> QED
      BY <3>1, <3>2
  <2> QED
    BY <1>0, <1>7, <2>1, <2>2 DEF InPlaceOf, BuiltOf, ReadRightOf, Passed, Writing, Exists, CreateDirectory
<1>8. CASE OpenFile(p)
  <2>1. /\ at[p] = "open" /\ at'[p] = "flush"
        /\ Key(p)' = Key(p) /\ Mine(p)' = Mine(p) /\ Unbuilt(p)' = Unbuilt(p)
        /\ binaries'[p] = binaries[p] /\ index'[p] = index[p] /\ devices'[p] = devices[p]
    BY <1>0, <1>2, <1>8 DEF OpenFile, Go, CacheTyped, history
  <2>2. index[p] \in Positions(Key(p)) /\ Exists(Key(p))
    BY <1>0, <2>1 DEF InPlaceOf, Positions
  <2>3. dir'[Key(p)][index[p]] = TornFile /\ dir'[Key(p)] # <<>>
    BY <1>0, <1>1, <1>8, <2>2 DEF OpenFile, CacheTyped
  <2>4. index[p] \in Files(Key(p))'
    BY <1>0, <2>1, <2>2, <2>3, StatesDiffer DEF Files, Positions, Exists
  <2>5. InPlaceOf(p)'
    BY <1>0, <1>2, <1>8, <2>1, <2>2, <2>3, <2>4 DEF InPlaceOf, Passed, Exists, OpenFile
  <2>6. BuiltOf(p)'
    BY <1>0, <1>1, <2>1 DEF BuiltOf, Writing
  <2> QED
    BY <2>1, <2>5, <2>6 DEF ReadRightOf
<1>9. CASE FlushFile(p)
  <2>1. /\ at[p] = "flush"
        /\ Key(p)' = Key(p) /\ Mine(p)' = Mine(p) /\ Unbuilt(p)' = Unbuilt(p)
        /\ binaries'[p] = binaries[p] /\ index'[p] = index[p] + 1 /\ devices'[p] = devices[p]
        /\ real'[p] = real[p] /\ index[p] <= Len(devices[p]) /\ Exists(Key(p))
        /\ at'[p] = (IF index[p] < Len(devices[p]) THEN "open" ELSE "link")
        /\ spoiled'[Key(p)] = (spoiled[Key(p)] \/ Content(p) = TornFile)
    BY <1>0, <1>2, <1>9 DEF FlushFile, Go, CacheTyped, InPlaceOf
  <2>2. 1..index[p] \subseteq Files(Key(p))'
    BY <1>0, <1>2, <2>1 DEF InPlaceOf, Passed
  <2>3. InPlaceOf(p)'
    BY <1>0, <1>1, <2>1, <2>2 DEF InPlaceOf, Passed, Exists
  <2>4. binaries[p] = Mine(p) \/ (binaries[p] = Unbuilt(p) /\ spoiled'[Key(p)])
    <3>1. CASE binaries[p] = Unbuilt(p)
      <4>1. Content(p) = TornFile
        BY <1>0, <2>1, <3>1 DEF Content, Unbuilt
      <4> QED
        BY <2>1, <3>1, <4>1
    <3> QED
      BY <1>0, <2>1, <3>1 DEF BuiltOf
  <2>5. BuiltOf(p)'
    BY <2>1, <2>4 DEF BuiltOf
  <2> QED
    BY <2>1, <2>3, <2>4, <2>5 DEF ReadRightOf, Excused
<1>10. CASE ReadFile(p)
  <2> DEFINE file == dir[Key(p)][index[p]]
  <2>1. /\ at[p] = "read" /\ at'[p] \in {"read", "link"} /\ dir' = dir
        /\ at'[p] = "read" => index[p] < Len(devices[p])
        /\ at'[p] = "link" => index[p] = Len(devices[p])
        /\ Key(p)' = Key(p) /\ Mine(p)' = Mine(p) /\ real'[p] = real[p]
        /\ binaries'[p] = Append(binaries[p], file)
        /\ index'[p] = index[p] + 1 /\ devices'[p] = devices[p] /\ index[p] <= Len(devices[p])
        /\ Excused(p)' <=> Excused(p)
    BY <1>0, <1>2, <1>10 DEF ReadFile, Go, CacheTyped, history, Excused, InPlaceOf
  <2>2. Exists(Key(p)) /\ 1..Len(devices[p]) \subseteq Files(Key(p))
    BY <1>0, <2>1 DEF InPlaceOf, Passed
  <2>3. InPlaceOf(p)'
    BY <1>0, <1>2, <2>1, <2>2 DEF InPlaceOf, Passed, Exists
  <2>4. file \in FileStates
    BY <1>0, <2>1, <2>2 DEF CacheTyped, Positions
  <2>5. binaries[p] \in Seq(FileStates) /\ Len(binaries[p]) = index[p] - 1
    BY <1>0, <2>1 DEF ReadRightOf
  <2>6. /\ binaries'[p] \in Seq(FileStates) /\ Len(binaries'[p]) = index[p]
        /\ \A j \in 1..(index[p] - 1) : binaries'[p][j] = binaries[p][j]
        /\ binaries'[p][index[p]] = file
    BY <1>0, <2>1, <2>4, <2>5, AppendProperties
  <2>7. ~Excused(p) => \A j \in 1..index[p] : binaries'[p][j] = Mine(p)[j]
    BY <1>0, <2>1, <2>6, ReadsRightFile DEF ReadRightOf
  <2>8. ~Excused(p) /\ index[p] = Len(devices[p]) => binaries'[p] = Mine(p)
    <3>1. DOMAIN binaries'[p] = 1..index[p] /\ binaries'[p] = [j \in 1..index[p] |-> binaries'[p][j]]
      BY <2>6
    <3> QED
      BY <1>0, <2>7, <3>1 DEF Mine
  <2> QED
    BY <1>0, <2>1, <2>3, <2>6, <2>7, <2>8 DEF BuiltOf, ReadRightOf
<1>11. CASE LinkProgram(p)
  <2>1. CASE Accepted(p)
    <3>1. at'[p] \in {"exists", "up"} /\ binaries'[p] = <<>>
      BY <1>0, <1>11, <2>1 DEF LinkProgram, Go, CacheTyped
    <3> QED
      BY <3>1 DEF InPlaceOf, BuiltOf, ReadRightOf, Passed
  <2>2. CASE ~Accepted(p)
    <3>1. /\ at[p] = "link" /\ at'[p] = "failed" /\ Key(p)' = Key(p) /\ devices'[p] = devices[p]
          /\ Excused(p)' <=> Excused(p)
      BY <1>0, <1>2, <1>11, <2>2 DEF LinkProgram, Go, CacheTyped, history, Excused
    <3> QED
      BY <1>0, <1>2, <1>11, <2>2, <3>1 DEF InPlaceOf, BuiltOf, ReadRightOf, Passed, Accepted, LinkProgram
  <2> QED
    BY <2>1, <2>2
<1> QED
  BY <1>3, <1>4, <1>5, <1>6, <1>7, <1>8, <1>9, <1>10, <1>11 DEF Construct

----------------------------------------------------------------------------
(* The directories.                                                        *)

\* Nobody comes to write in a directory a process reads alone without being
\* seen.
LEMMA NextReadsAlone ==
    ASSUME CacheInv, CacheTyped', NEW p \in Processes,
           (\E list \in DeviceLists : Start(p, list)) \/ Construct(p) \/ Crash(p)
    PROVE  ReadsAlone'
<1>0. CacheTyped /\ ReadsAlone
  BY DEF CacheInv
<1>1. \A q \in Processes \ {p} :
        /\ at'[q] = at[q] /\ index'[q] = index[q] /\ Key(q)' = Key(q) /\ (overlap[q] => overlap'[q])
  BY <1>0, Others
<1>2. ASSUME NEW r \in Processes, NEW q \in Processes, r # q, at'[r] = "read", ~overlap'[r],
             Key(r)' = Key(q)'
      PROVE  at'[q] # "flush" /\ (at'[q] = "open" => index'[q] = 1)
  <2>1. CASE r # p /\ q # p
    <3>1. at[r] = "read" /\ ~overlap[r] /\ Key(r) = Key(q)
      BY <1>1, <1>2, <2>1
    <3> QED
      BY <1>0, <1>1, <1>2, <2>1, <3>1 DEF ReadsAlone
  <2>2. CASE r = p
    <3>1. CASE CheckCount(p)
      <4>1. Key(p)' = Key(p) /\ ~(Writing(q) /\ Key(q) = Key(p))
        BY <1>0, <1>2, <2>2, <3>1 DEF CheckCount, CacheTyped, Key
      <4> QED
        BY <1>1, <1>2, <2>2, <4>1 DEF Writing
    <3>2. CASE ~CheckCount(p)
      <4>1. ReadFile(p)
        BY <1>0, <1>2, <2>2, <3>2 DEF Construct, Start, CheckExists, Build, CreateDirectory, OpenFile,
                                   FlushFile, LinkProgram, Crash, Go, CacheTyped
      <4>2. at[p] = "read" /\ ~overlap[p] /\ Key(p)' = Key(p)
        BY <1>2, <2>2, <4>1 DEF ReadFile, Key, history
      <4>3. Key(p) = Key(q)
        BY <1>1, <1>2, <2>2, <4>2
      <4> QED
        BY <1>0, <1>1, <1>2, <2>2, <4>2, <4>3 DEF ReadsAlone
    <3> QED
      BY <3>1, <3>2
  <2>3. CASE q = p
    <3>1. at[r] = "read" /\ ~overlap[r] /\ Key(r)' = Key(r)
      BY <1>1, <1>2, <2>3
    <3>2. CASE OpenFile(p)
      <4>1. Key(p)' = Key(p)
        BY <3>2 DEF OpenFile, Key
      <4>2. r \in Readers(p)
        BY <1>2, <2>3, <3>1, <4>1 DEF Readers
      <4> QED
        BY <1>2, <3>2, <4>2 DEF OpenFile
    <3>3. CASE FlushFile(p)
      <4>1. at[p] = "flush" /\ Key(p)' = Key(p)
        BY <3>3 DEF FlushFile, Key
      <4>2. Key(r) = Key(p)
        BY <1>2, <2>3, <3>1, <4>1
      <4> QED
        BY <1>0, <1>2, <2>3, <3>1, <4>1, <4>2 DEF ReadsAlone
    <3>4. CASE CreateDirectory(p)
      BY <1>0, <2>3, <3>4 DEF CreateDirectory, Go, CacheTyped
    <3>5. CASE ~OpenFile(p) /\ ~FlushFile(p) /\ ~CreateDirectory(p)
      <4>1. at'[p] \notin {"open", "flush"}
        BY <1>0, <3>5 DEF Construct, Start, CheckExists, CheckCount, Build, ReadFile, LinkProgram,
                          Crash, Go, CacheTyped
      <4> QED
        BY <2>3, <4>1
    <3> QED
      BY <3>2, <3>3, <3>4, <3>5
  <2> QED
    BY <2>1, <2>2, <2>3
<1> QED
  BY <1>2 DEF ReadsAlone

\* A new directory, or one that is there: no file is made.
LEMMA CreateStep ==
    ASSUME CacheInv, NEW p \in Processes, CreateDirectory(p)
    PROVE  WritersKnown' /\ RightFiles' /\ TornForAReason'
<1>0. /\ CacheTyped /\ WritersKnown /\ RightFiles /\ TornForAReason
      /\ Key(p) \in Directories /\ Key(p).num_devices = Len(devices[p]) /\ Len(devices[p]) \in Nat \ {0}
  BY KeyType DEF CacheInv
<1>1. /\ writers' = writers /\ spoiled' = spoiled
      /\ at[p] = "create" /\ at'[p] = "open" /\ index'[p] = 1
  BY <1>0 DEF CreateDirectory, Go, CacheTyped, history
<1>2. \A q \in Processes : Key(q)' = Key(q) /\ devices'[q] = devices[q]
  BY DEF CreateDirectory, Key
<1>3. \A q \in Processes \ {p} : at'[q] = at[q] /\ index'[q] = index[q]
  BY <1>0, Others DEF Construct
<1>4. \A k \in Directories : Files(k)' = Files(k) /\ \A j \in Files(k) : dir'[k][j] = dir[k][j]
  <2> SUFFICES ASSUME NEW k \in Directories
               PROVE  Files(k)' = Files(k) /\ \A j \in Files(k) : dir'[k][j] = dir[k][j]
    OBVIOUS
  <2>1. CASE k # Key(p) \/ Exists(k)
    <3>1. dir'[k] = dir[k]
      BY <1>0, <2>1 DEF CreateDirectory, CacheTyped, Exists
    <3> QED
      BY <3>1 DEF Files, Exists
  <2>2. CASE k = Key(p) /\ ~Exists(k)
    <3>1. dir'[k] = [j \in 1..Len(devices[p]) |-> NoFile]
      BY <1>0, <2>2 DEF CreateDirectory, CacheTyped
    <3> QED
      BY <1>0, <2>2, <3>1 DEF Files, Exists
  <2> QED
    BY <2>1, <2>2
<1>5. WritersKnown'
  BY <1>0, <1>1, <1>2, <1>3, <1>4 DEF WritersKnown
<1>6. RightFiles'
  BY <1>0, <1>1, <1>4 DEF RightFiles, Sane
<1>7. ASSUME NEW k \in Directories, NEW j \in Files(k), TornHere(k, j) PROVE TornHere(k, j)'
  BY <1>1, <1>2, <1>3, <1>7 DEF TornHere
<1>8. ASSUME NEW k \in Directories, NEW j \in Files(k), TornBefore(k, j) PROVE TornBefore(k, j)'
  <2>1. j \in Nat \ {0}
    BY KeysType DEF Files
  <2> QED
    BY <1>1, <1>2, <1>3, <1>4, <1>8, <2>1 DEF TornBefore, Writing
<1>9. TornForAReason'
  BY <1>0, <1>1, <1>4, <1>7, <1>8 DEF TornForAReason, Sane
<1> QED
  BY <1>5, <1>6, <1>9

\* The file that is opened is torn here; one that is torn before remains so.
LEMMA OpenStep ==
    ASSUME CacheInv, NEW p \in Processes, OpenFile(p)
    PROVE  WritersKnown' /\ RightFiles' /\ TornForAReason'
<1>0. /\ CacheTyped /\ InPlaceOf(p) /\ WritersKnown /\ RightFiles /\ TornForAReason
      /\ Key(p) \in Directories /\ Key(p).num_devices = Len(devices[p]) /\ Len(devices[p]) \in Nat \ {0}
      /\ devices[p] \in DeviceLists
  BY KeyType DEF CacheInv, InPlace, CacheTyped
<1>1. /\ spoiled' = spoiled /\ at[p] = "open" /\ at'[p] = "flush" /\ index' = index
      /\ writers' = [writers EXCEPT ![Key(p)] = @ \cup {devices[p]}]
      /\ index[p] \in Positions(Key(p)) /\ Exists(Key(p))
  BY <1>0 DEF OpenFile, Go, CacheTyped, InPlaceOf, Positions
<1>2. \A q \in Processes : Key(q)' = Key(q) /\ devices'[q] = devices[q]
  BY DEF OpenFile, Key
<1>3. \A q \in Processes \ {p} : at'[q] = at[q]
  BY <1>0, Others DEF Construct
<1>4. \A k \in Directories :
        /\ Files(k)' = Files(k) \cup (IF k = Key(p) THEN {index[p]} ELSE {})
        /\ \A j \in Files(k)' : dir'[k][j] = (IF k = Key(p) /\ j = index[p] THEN TornFile ELSE dir[k][j])
  <2> SUFFICES ASSUME NEW k \in Directories
               PROVE  /\ Files(k)' = Files(k) \cup (IF k = Key(p) THEN {index[p]} ELSE {})
                      /\ \A j \in Files(k)' : dir'[k][j] = (IF k = Key(p) /\ j = index[p] THEN TornFile ELSE dir[k][j])
    OBVIOUS
  <2>1. CASE k # Key(p)
    <3>1. dir'[k] = dir[k]
      BY <1>0, <2>1 DEF OpenFile, CacheTyped
    <3> QED
      BY <2>1, <3>1 DEF Files, Exists
  <2>2. CASE k = Key(p)
    <3>1. dir[k] \in [Positions(k) -> FileStates] /\ dir'[k] = [dir[k] EXCEPT ![index[p]] = TornFile]
      BY <1>0, <1>1, <2>2 DEF OpenFile, CacheTyped
    <3>2. /\ dir'[k] # <<>> /\ dir'[k][index[p]] = TornFile
          /\ \A j \in Positions(k) \ {index[p]} : dir'[k][j] = dir[k][j]
      BY <1>1, <2>2, <3>1
    <3> QED
      BY <1>1, <2>2, <3>2, StatesDiffer DEF Files, Exists, Positions
  <2> QED
    BY <2>1, <2>2
<1>5. WritersKnown'
  <2>1. \A k \in Directories : writers'[k] = writers[k] \cup (IF k = Key(p) THEN {devices[p]} ELSE {})
    BY <1>0, <1>1 DEF CacheTyped
  <2>2. ASSUME NEW k \in Directories
        PROVE  (Files(k)' # {} => writers'[k] # {}) /\ \A list \in writers'[k] : Len(list) = k.num_devices
    <3>1. (Files(k) # {} => writers[k] # {}) /\ \A list \in writers[k] : Len(list) = k.num_devices
      BY <1>0 DEF WritersKnown
    <3>2. CASE k = Key(p)
      <4>1. writers'[k] = writers[k] \cup {devices[p]}
        BY <2>1, <3>2
      <4> QED
        BY <1>0, <3>1, <3>2, <4>1
    <3>3. CASE k # Key(p)
      <4>1. writers'[k] = writers[k] \cup {} /\ Files(k)' = Files(k) \cup {}
        BY <1>4, <2>1, <3>3
      <4> QED
        BY <3>1, <4>1
    <3> QED
      BY <3>2, <3>3
  <2>3. ASSUME NEW q \in Processes, at'[q] = "flush" \/ (at'[q] = "open" /\ index'[q] > 1)
        PROVE  devices'[q] \in writers'[Key(q)']
    BY <1>0, <1>1, <1>2, <1>3, <2>1, <2>3, KeyType DEF WritersKnown
  <2> QED
    BY <2>2, <2>3 DEF WritersKnown
<1>6. ASSUME NEW k \in Directories, NEW list \in DeviceLists, Sane(k, list)', NEW j \in Files(k)
      PROVE  Sane(k, list)
  <2>1. writers'[k] = {list} /\ ~spoiled[k] /\ writers[k] # {}
    BY <1>0, <1>1, <1>6 DEF Sane, WritersKnown
  <2>2. writers[k] \subseteq writers'[k]
    BY Grows DEF Construct
  <2> QED
    BY <2>1, <2>2 DEF Sane
<1>7. RightFiles'
  <2> SUFFICES ASSUME NEW k \in Directories, NEW list \in DeviceLists, Sane(k, list)', NEW j \in Files(k)'
               PROVE  dir'[k][j] \in {TornFile, Binary(k.real, list[j])}
    BY DEF RightFiles
  <2> QED
    BY <1>0, <1>4, <1>6 DEF RightFiles
<1>8. TornForAReason'
  <2> SUFFICES ASSUME NEW k \in Directories, NEW list \in DeviceLists, Sane(k, list)', NEW j \in Files(k)',
                      dir'[k][j] = TornFile
               PROVE  TornHere(k, j)' \/ TornBefore(k, j)'
    BY DEF TornForAReason
  <2>1. CASE k = Key(p) /\ j = index[p]
    <3>1. at'[p] = "flush" /\ Key(p)' = k /\ index'[p] = j
      BY <1>1, <1>2, <2>1
    <3> QED
      BY <3>1 DEF TornHere
  <2>2. CASE ~(k = Key(p) /\ j = index[p])
    <3>1. j \in Files(k) /\ dir[k][j] = TornFile /\ Sane(k, list)
      BY <1>4, <1>6, <2>2
    <3>2. TornHere(k, j) \/ TornBefore(k, j)
      BY <1>0, <3>1 DEF TornForAReason
    <3>3. ASSUME TornHere(k, j) PROVE TornHere(k, j)'
      BY <1>1, <1>2, <1>3, <3>3 DEF TornHere
    <3>4. ASSUME TornBefore(k, j) PROVE TornBefore(k, j)'
      <4>1. PICK m \in Positions(k) : m > j /\ m \notin Files(k)
        BY <3>4 DEF TornBefore
      <4>2. \A q \in Processes : (Writing(q) /\ Key(q) = k)' => index'[q] <= j
        BY <1>1, <1>2, <1>3, <3>4 DEF TornBefore, Writing
      <4>3. k = Key(p) => index[p] <= j
        BY <1>1, <3>4 DEF TornBefore, Writing
      <4>4. m \notin Files(k)'
        <5>1. m \in Nat /\ j \in Nat /\ index[p] \in Nat
          BY <1>0, <3>1, KeysType DEF Positions, Files, CacheTyped
        <5> QED
          BY <1>4, <4>1, <4>3, <5>1
      <4> QED
        BY <4>1, <4>2, <4>4 DEF TornBefore, Positions
    <3> QED
      BY <3>2, <3>3, <3>4
  <2> QED
    BY <2>1, <2>2
<1> QED
  BY <1>5, <1>7, <1>8

\* A file that is written is right, or the directory is spoiled.
LEMMA FlushStep ==
    ASSUME CacheInv, NEW p \in Processes, FlushFile(p)
    PROVE  WritersKnown' /\ RightFiles' /\ TornForAReason'
<1>0. /\ CacheTyped /\ InPlaceOf(p) /\ Built /\ WritersKnown /\ RightFiles /\ TornForAReason
      /\ Key(p) \in Directories /\ Key(p).real = real[p] /\ Key(p).num_devices = Len(devices[p])
      /\ Len(devices[p]) \in Nat \ {0}
  BY KeyType DEF CacheInv, InPlace, CacheTyped
<1>1. /\ spoiled' = [spoiled EXCEPT ![Key(p)] = @ \/ Content(p) = TornFile]
      /\ at[p] = "flush" /\ index[p] <= Len(devices[p])
      /\ at'[p] = (IF index[p] < Len(devices[p]) THEN "open" ELSE "link")
      /\ index'[p] = index[p] + 1 /\ writers' = writers
      /\ index[p] \in Positions(Key(p)) /\ Exists(Key(p)) /\ index[p] \in Files(Key(p))
      /\ devices[p] \in writers[Key(p)]
  BY <1>0 DEF FlushFile, Go, CacheTyped, InPlaceOf, Positions, Passed, WritersKnown
<1>2. \A q \in Processes : Key(q)' = Key(q) /\ devices'[q] = devices[q]
  BY DEF FlushFile, Key
<1>3. \A q \in Processes \ {p} : at'[q] = at[q] /\ index'[q] = index[q]
  BY <1>0, Others DEF Construct
<1>4. PICK file \in Flushed(dir[Key(p)][index[p]], Content(p)) :
        dir' = [dir EXCEPT ![Key(p)][index[p]] = file]
  BY DEF FlushFile
<1>5. /\ Content(p) \in FileStates \ {NoFile}
      /\ Content(p) # TornFile => Content(p) = Binary(real[p], devices[p][index[p]])
  BY <1>0, <1>1, ContentType
<1>6. file # NoFile
  <2>1. dir[Key(p)][index[p]] \in FileStates
    BY <1>0, <1>1 DEF CacheTyped
  <2> QED
    BY <1>4, <1>5, <2>1, FlushedType
<1>7. \A k \in Directories :
        /\ Files(k)' = Files(k)
        /\ \A j \in Files(k) : dir'[k][j] = (IF k = Key(p) /\ j = index[p] THEN file ELSE dir[k][j])
  <2> SUFFICES ASSUME NEW k \in Directories
               PROVE  /\ Files(k)' = Files(k)
                      /\ \A j \in Files(k) : dir'[k][j] = (IF k = Key(p) /\ j = index[p] THEN file ELSE dir[k][j])
    OBVIOUS
  <2>1. CASE k # Key(p)
    <3>1. dir'[k] = dir[k]
      BY <1>0, <1>4, <2>1 DEF CacheTyped
    <3> QED
      BY <2>1, <3>1 DEF Files, Exists
  <2>2. CASE k = Key(p)
    <3>1. dir[k] \in [Positions(k) -> FileStates] /\ dir'[k] = [dir[k] EXCEPT ![index[p]] = file]
      BY <1>0, <1>1, <1>4, <2>2 DEF CacheTyped
    <3>2. /\ dir'[k] # <<>> /\ dir'[k][index[p]] = file
          /\ \A j \in Positions(k) \ {index[p]} : dir'[k][j] = dir[k][j]
      BY <1>1, <2>2, <3>1
    <3>3. Files(k)' = {j \in Positions(k) : dir'[k][j] # NoFile} /\ Files(k) = {j \in Positions(k) : dir[k][j] # NoFile}
      BY <1>1, <2>2, <3>2 DEF Files, Exists, Positions
    <3> QED
      BY <1>1, <1>6, <2>2, <3>2, <3>3
  <2> QED
    BY <2>1, <2>2
<1>8. WritersKnown'
  <2>1. ASSUME NEW k \in Directories
        PROVE  (Files(k)' # {} => writers'[k] # {}) /\ \A list \in writers'[k] : Len(list) = k.num_devices
    BY <1>0, <1>1, <1>7 DEF WritersKnown
  <2>2. ASSUME NEW q \in Processes, at'[q] = "flush" \/ (at'[q] = "open" /\ index'[q] > 1)
        PROVE  devices'[q] \in writers'[Key(q)']
    BY <1>0, <1>1, <1>2, <1>3, <2>2 DEF WritersKnown
  <2> QED
    BY <2>1, <2>2 DEF WritersKnown
<1>9. ASSUME NEW k \in Directories, NEW list \in DeviceLists, Sane(k, list)'
      PROVE  /\ Sane(k, list)
             /\ k = Key(p) => file = Binary(k.real, list[index[p]])
  <2>1. Sane(k, list)
    BY <1>0, <1>1, <1>9 DEF Sane, CacheTyped
  <2>2. ASSUME k = Key(p) PROVE file = Binary(k.real, list[index[p]])
    <3>1. Content(p) # TornFile
      BY <1>0, <1>1, <1>9, <2>2 DEF Sane, CacheTyped
    <3>2. list = devices[p]
      BY <1>1, <2>1, <2>2 DEF Sane
    <3>3. Content(p) = Binary(k.real, list[index[p]])
      BY <1>0, <1>5, <2>2, <3>1, <3>2
    <3>4. dir[Key(p)][index[p]] \in {TornFile, Content(p)}
      BY <1>0, <1>1, <2>1, <2>2, <3>3 DEF RightFiles
    <3> QED
      BY <1>4, <3>3, <3>4 DEF Flushed
  <2> QED
    BY <2>1, <2>2
<1>10. RightFiles'
  <2> SUFFICES ASSUME NEW k \in Directories, NEW list \in DeviceLists, Sane(k, list)', NEW j \in Files(k)'
               PROVE  dir'[k][j] \in {TornFile, Binary(k.real, list[j])}
    BY DEF RightFiles
  <2> QED
    BY <1>0, <1>7, <1>9 DEF RightFiles
<1>11. TornForAReason'
  <2> SUFFICES ASSUME NEW k \in Directories, NEW list \in DeviceLists, Sane(k, list)', NEW j \in Files(k)',
                      dir'[k][j] = TornFile
               PROVE  TornHere(k, j)' \/ TornBefore(k, j)'
    BY DEF TornForAReason
  <2>1. ~(k = Key(p) /\ j = index[p])
    BY <1>7, <1>9, StatesDiffer
  <2>2. j \in Files(k) /\ dir[k][j] = TornFile /\ Sane(k, list)
    BY <1>7, <1>9, <2>1
  <2>3. TornHere(k, j) \/ TornBefore(k, j)
    BY <1>0, <2>2 DEF TornForAReason
  <2>4. ASSUME TornHere(k, j) PROVE TornHere(k, j)'
    BY <1>2, <1>3, <2>1, <2>4 DEF TornHere
  <2>5. ASSUME TornBefore(k, j) PROVE TornBefore(k, j)'
    <3>1. k = Key(p) => index[p] <= j /\ index[p] # j
      BY <1>1, <2>1, <2>5 DEF TornBefore, Writing
    <3>2. j \in Nat /\ index[p] \in Nat
      BY <1>0, <2>2, KeysType DEF Files, CacheTyped
    <3>3. \A q \in Processes : (Writing(q) /\ Key(q) = k)' => index'[q] <= j
      BY <1>1, <1>2, <1>3, <2>5, <3>1, <3>2 DEF TornBefore, Writing
    <3> QED
      BY <1>7, <2>5, <3>3 DEF TornBefore, Positions
  <2> QED
    BY <2>3, <2>4, <2>5
<1> QED
  BY <1>8, <1>10, <1>11

\* Who is killed with a file open leaves the files behind it missing, or has
\* spoiled the directory.
LEMMA CrashStep ==
    ASSUME CacheInv, NEW p \in Processes, Crash(p)
    PROVE  WritersKnown' /\ RightFiles' /\ TornForAReason'
<1>0. /\ CacheTyped /\ InPlaceOf(p) /\ WritersKnown /\ RightFiles /\ TornForAReason
      /\ Key(p) \in Directories /\ Key(p).num_devices = Len(devices[p]) /\ Len(devices[p]) \in Nat \ {0}
  BY KeyType DEF CacheInv, InPlace, CacheTyped
<1>1. /\ dir' = dir /\ writers' = writers /\ at'[p] = "off"
      /\ spoiled' = [spoiled EXCEPT ![Key(p)] = @
            \/ /\ at[p] = "flush"
               /\ \/ Full(Key(p))
                  \/ \E q \in Processes \ {p} : Writing(q) /\ Key(q) = Key(p)]
  BY <1>0 DEF Crash, Go, CacheTyped
<1>2. \A q \in Processes : Key(q)' = Key(q) /\ devices'[q] = devices[q]
  BY DEF Crash, Key
<1>3. \A q \in Processes \ {p} : at'[q] = at[q] /\ index'[q] = index[q]
  BY <1>0, Others
<1>4. \A k \in Directories : Files(k)' = Files(k)
  BY <1>1 DEF Files, Exists
<1>5. WritersKnown'
  BY <1>0, <1>1, <1>2, <1>3, <1>4 DEF WritersKnown
<1>6. \A k \in Directories, list \in DeviceLists : Sane(k, list)' => Sane(k, list)
  BY <1>0, <1>1 DEF Sane, CacheTyped
<1>7. RightFiles'
  <2> SUFFICES ASSUME NEW k \in Directories, NEW list \in DeviceLists, Sane(k, list)', NEW j \in Files(k)'
               PROVE  dir'[k][j] \in {TornFile, Binary(k.real, list[j])}
    BY DEF RightFiles
  <2> QED
    BY <1>0, <1>1, <1>4, <1>6 DEF RightFiles
<1>8. TornForAReason'
  <2> SUFFICES ASSUME NEW k \in Directories, NEW list \in DeviceLists, Sane(k, list)', NEW j \in Files(k)',
                      dir'[k][j] = TornFile
               PROVE  TornHere(k, j)' \/ TornBefore(k, j)'
    BY DEF TornForAReason
  <2>1. TornHere(k, j) \/ TornBefore(k, j)
    BY <1>0, <1>1, <1>4, <1>6 DEF TornForAReason
  <2>2. CASE TornBefore(k, j)
    <3>1. \A q \in Processes : (Writing(q) /\ Key(q) = k)' => index'[q] <= j
      BY <1>1, <1>2, <1>3, <2>2 DEF TornBefore, Writing
    <3>2. TornBefore(k, j)'
      BY <1>4, <2>2, <3>1 DEF TornBefore, Positions
    <3> QED
      BY <3>2
  <2>3. CASE TornHere(k, j)
    <3>1. PICK q \in Processes : at[q] = "flush" /\ Key(q) = k /\ index[q] = j
      BY <2>3 DEF TornHere
    <3>2. CASE q # p
      <4>1. at'[q] = "flush" /\ Key(q)' = k /\ index'[q] = j
        BY <1>2, <1>3, <3>1, <3>2
      <4>2. TornHere(k, j)'
        BY <4>1 DEF TornHere
      <4> QED
        BY <4>2
    <3>3. CASE q = p
      <4>1. ~Full(k) /\ \A r \in Processes \ {p} : ~(Writing(r) /\ Key(r) = k)
        BY <1>0, <1>1, <3>1, <3>3 DEF Sane, CacheTyped
      <4>2. \A m \in 1..j : m \in Files(k)
        BY <1>0, <3>1, <3>3 DEF InPlaceOf, Passed
      <4>3. PICK m \in Positions(k) : m \notin Files(k)
        BY <1>0, <4>1, FilesType DEF Full, Positions
      <4>4. m > j
        BY <1>0, <3>1, <3>3, <4>2, <4>3, KeysType DEF Positions, CacheTyped
      <4>5. \A r \in Processes : ~(Writing(r) /\ Key(r) = k)'
        BY <1>1, <1>2, <1>3, <4>1 DEF Writing
      <4>6. TornBefore(k, j)'
        BY <1>4, <4>3, <4>4, <4>5 DEF TornBefore, Positions
      <4> QED
        BY <4>6
    <3> QED
      BY <3>2, <3>3
  <2> QED
    BY <2>1, <2>2, <2>3
<1> QED
  BY <1>5, <1>7, <1>8

----------------------------------------------------------------------------
(* The theorems.                                                           *)

\* The invariant holds before any process is there.
LEMMA CacheInvInit == CacheInit => CacheInv
<1> SUFFICES ASSUME CacheInit PROVE CacheInv
  OBVIOUS
<1>1. CacheTyped
  BY InitTyped
<1>2. /\ \A p \in Processes : at[p] = "off"
      /\ \A k \in Directories : Files(k) = {} /\ writers[k] = {}
  BY DEF CacheInit, Files, Exists
<1>3. InPlace /\ Built /\ ReadRight
  BY <1>2 DEF InPlace, InPlaceOf, Passed, Built, BuiltOf, ReadRight, ReadRightOf
<1>4. WritersKnown /\ RightFiles /\ TornForAReason /\ ReadsAlone
  BY <1>2 DEF WritersKnown, RightFiles, TornForAReason, ReadsAlone
<1> QED
  BY <1>1, <1>3, <1>4 DEF CacheInv

\* The invariant is kept by every step.
LEMMA CacheInvNext == CacheInv /\ [CacheNext]_cache_vars => CacheInv'
<1> SUFFICES ASSUME CacheInv, [CacheNext]_cache_vars PROVE CacheInv'
  OBVIOUS
<1>0. CacheTyped /\ CacheTyped'
  BY NextTyped DEF CacheInv
<1>1. CASE UNCHANGED cache_vars
  <2>0. /\ dir' = dir /\ at' = at /\ devices' = devices /\ real' = real /\ index' = index
        /\ binaries' = binaries /\ spoiled' = spoiled /\ writers' = writers /\ overlap' = overlap
    BY <1>1 DEF cache_vars, history
  <2>1. ASSUME NEW p \in Processes PROVE InPlaceOf(p)' /\ BuiltOf(p)' /\ ReadRightOf(p)'
    <3>1. InPlaceOf(p) /\ BuiltOf(p) /\ ReadRightOf(p)
      BY DEF CacheInv, InPlace, Built, ReadRight
    <3>2. /\ Key(p)' = Key(p) /\ Mine(p)' = Mine(p) /\ Unbuilt(p)' = Unbuilt(p)
          /\ Passed(p)' = Passed(p) /\ Writing(p)' = Writing(p)
      BY <2>0 DEF Key, Mine, Unbuilt, Passed, Writing
    <3>3. Exists(Key(p))' = Exists(Key(p)) /\ Files(Key(p))' = Files(Key(p)) /\ Excused(p)' = Excused(p)
      BY <2>0, <3>2 DEF Exists, Files, Excused
    <3> QED
      BY <2>0, <3>1, <3>2, <3>3 DEF InPlaceOf, BuiltOf, ReadRightOf
  <2>2. WritersKnown' /\ RightFiles' /\ ReadsAlone'
    BY <1>1 DEF CacheInv, cache_vars, history, WritersKnown, RightFiles, ReadsAlone, Sane, Files, Exists, Key
  <2>3. TornForAReason'
    BY <1>1 DEF CacheInv, cache_vars, history, TornForAReason, TornHere, TornBefore, Sane, Files, Exists, Key, Writing
  <2> QED
    BY <1>0, <2>1, <2>2, <2>3 DEF CacheInv, InPlace, Built, ReadRight
<1>2. ASSUME NEW p \in Processes,
             (\E list \in DeviceLists : Start(p, list)) \/ Construct(p) \/ Crash(p)
      PROVE  CacheInv'
  <2>1. \A q \in Processes : InPlaceOf(q)' /\ BuiltOf(q)' /\ ReadRightOf(q)'
    BY <1>0, <1>2, OwnStep, OthersKeep
  <2>2. ReadsAlone'
    BY <1>0, <1>2, NextReadsAlone
  <2>3. WritersKnown' /\ RightFiles' /\ TornForAReason'
    <3>1. CASE CreateDirectory(p) \/ OpenFile(p) \/ FlushFile(p) \/ Crash(p)
      BY <3>1, CreateStep, OpenStep, FlushStep, CrashStep
    <3>2. CASE \/ \E list \in DeviceLists : Start(p, list)
               \/ CheckExists(p) \/ CheckCount(p) \/ \E succeeds \in BOOLEAN : Build(p, succeeds)
               \/ ReadFile(p) \/ LinkProgram(p)
      <4>1. dir' = dir /\ writers' = writers /\ spoiled' = spoiled
        BY <3>2 DEF Start, CheckExists, CheckCount, Build, ReadFile, LinkProgram, history
      <4>2. ~Writing(p) /\ ~Writing(p)'
        BY <1>0, <3>2 DEF Start, CheckExists, CheckCount, Build, ReadFile, LinkProgram, Go, CacheTyped, Writing, Off
      <4>3. \A q \in Processes \ {p} : at'[q] = at[q] /\ index'[q] = index[q] /\ Key(q)' = Key(q)
                                         /\ devices'[q] = devices[q]
        BY <1>0, <1>2, Others
      <4> QED
        BY <4>1, <4>2, <4>3, QuietStep
    <3> QED
      BY <1>2, <3>1, <3>2 DEF Construct
  <2> QED
    BY <1>0, <2>1, <2>2, <2>3 DEF CacheInv, InPlace, Built, ReadRight
<1> QED
  BY <1>1, <1>2 DEF CacheNext

LEMMA AlwaysIInv == CacheSpec => []CacheInv
BY CacheInvInit, CacheInvNext, PTL DEF CacheSpec

\* Number of files: where nobody writes, a full directory that is not spoiled
\* has no torn file, since no torn file has a writer or a missing one behind it.
LEMMA FullIsRight == CacheInv => NumberTellsComplete
<1> SUFFICES ASSUME CacheInv, NEW k \in Directories, NEW list \in writers[k],
                    ~spoiled[k], Full(k), writers[k] = {list},
                    \A p \in Processes : Writing(p) => Key(p) # k
             PROVE  dir[k] = [j \in 1..Len(list) |-> Binary(k.real, list[j])]
  BY DEF NumberTellsComplete
<1>0. CacheTyped /\ WritersKnown /\ RightFiles /\ TornForAReason
  BY DEF CacheInv
<1>1. list \in DeviceLists /\ Sane(k, list) /\ Len(list) = k.num_devices
  BY <1>0 DEF Sane, CacheTyped, WritersKnown
<1>2. dir[k] \in [Positions(k) -> FileStates] /\ Files(k) = Positions(k)
  BY <1>0, FilesType DEF CacheTyped, Full, Positions
<1>3. ASSUME NEW j \in Positions(k) PROVE dir[k][j] = Binary(k.real, list[j])
  <2>1. ~TornHere(k, j) /\ ~TornBefore(k, j)
    BY <1>2 DEF TornHere, TornBefore, Writing
  <2> QED
    BY <1>0, <1>1, <1>2, <2>1 DEF RightFiles, TornForAReason
<1> QED
  BY <1>1, <1>2, <1>3 DEF Positions

\* A directory with one file for each device holds the binaries of the devices
\* it was written for, unless it is spoiled: this is what the count of the files in
\* create_command_queues relies on, whatever processes start, are killed or build at a
\* time.
THEOREM CompleteCorrect == CacheSpec => []NumberTellsComplete
BY AlwaysIInv, FullIsRight, PTL

\* The constructor of an OpenCL csvm throws only after an overlap of writing
\* and reading, on a spoiled directory, or on one of other devices.
THEOREM FailuresCorrect == CacheSpec => []FailsForAReason
<1>1. CacheInv => FailsForAReason
  BY DEF CacheInv, ReadRight, ReadRightOf, Excused, FailsForAReason
<1> QED
  BY <1>1, AlwaysIInv, PTL

\* Nothing begins to build where there is a file for each device.
LEMMA SettledStep ==
    ASSUME CacheTyped, NEW p \in Processes, NEW k \in Directories, Settled(k),
           (\E list \in DeviceLists : Start(p, list)) \/ Construct(p) \/ Crash(p)
    PROVE  Settled(k)' /\ dir'[k] = dir[k]
<1>0. /\ Key(p) \in Directories /\ Exists(k) /\ Full(k) /\ DOMAIN dir = Directories
      /\ \A q \in Processes : Building(q) => Key(q) # k
  BY KeyType, FilesType DEF Settled, CacheTyped
<1>1. dir'[k] = dir[k]
  <2>1. CASE CreateDirectory(p) \/ OpenFile(p) \/ FlushFile(p)
    <3>1. Key(p) # k
      BY <1>0, <2>1 DEF Building, Writing, CreateDirectory, OpenFile, FlushFile
    <3> QED
      BY <1>0, <2>1, <3>1 DEF CreateDirectory, OpenFile, FlushFile
  <2>2. CASE ~(CreateDirectory(p) \/ OpenFile(p) \/ FlushFile(p))
    BY <2>2 DEF Construct, Start, CheckExists, CheckCount, Build, ReadFile, LinkProgram, Crash
  <2> QED
    BY <2>1, <2>2
<1>2. Full(k)'
  BY <1>0, <1>1 DEF Full, Files, Exists
<1>3. \A q \in Processes \ {p} : Building(q)' => Key(q)' # k
  BY <1>0, Others DEF Building, Writing
<1>4. Building(p)' => Key(p)' # k
  <2>1. CASE CheckExists(p)
    <3>1. Key(p)' = Key(p) /\ (Building(p)' => ~Exists(Key(p)))
      BY <2>1 DEF CheckExists, Go, Key, CacheTyped, Building, Writing
    <3> QED
      BY <1>0, <3>1
  <2>2. CASE CheckCount(p)
    <3>1. Key(p)' = Key(p) /\ (Building(p)' => ~Full(Key(p)))
      BY <2>2 DEF CheckCount, Go, Key, CacheTyped, Building, Writing, Usable
    <3> QED
      BY <1>0, <3>1
  <2>3. CASE (\E succeeds \in BOOLEAN : Build(p, succeeds)) \/ CreateDirectory(p) \/ OpenFile(p) \/ FlushFile(p)
    <3>1. Key(p)' = Key(p) /\ Building(p)
      BY <2>3 DEF Build, CreateDirectory, OpenFile, FlushFile, Key, Building, Writing
    <3> QED
      BY <1>0, <3>1
  <2>4. CASE (\E list \in DeviceLists : Start(p, list)) \/ ReadFile(p) \/ LinkProgram(p) \/ Crash(p)
    BY <2>4 DEF Start, ReadFile, LinkProgram, Crash, Go, CacheTyped, Building, Writing
  <2> QED
    BY <2>1, <2>2, <2>3, <2>4 DEF Construct
<1> QED
  BY <1>1, <1>2, <1>3, <1>4 DEF Settled

\* Once there is a file for each device and nobody builds, create_command_queues
\* compiles and writes nothing in this directory any more.
THEOREM KeptCorrect == CacheSpec => FullIsKept
<1>1. CacheInv /\ [CacheNext]_cache_vars =>
        [\A k \in Directories : Settled(k) => Settled(k)' /\ dir'[k] = dir[k]]_cache_vars
  <2> SUFFICES ASSUME CacheInv, CacheNext, NEW k \in Directories, Settled(k)
               PROVE  Settled(k)' /\ dir'[k] = dir[k]
    OBVIOUS
  <2> QED
    BY SettledStep DEF CacheInv, CacheNext
<1> QED
  BY <1>1, AlwaysIInv, PTL DEF CacheSpec, FullIsKept

----------------------------------------------------------------------------
(* CsvmInterface.                                                          *)

Calculating(t) == Predicting(t) /\ thread[t].at \in {"test", "calculate", "assign"}

SoundThread(t) ==
    Predicting(t) =>
        /\ thread[t] \in [at : {"test", "calculate", "assign", "use", "sum"}, model : Models]
        /\ Used(thread[t].model)
        /\ thread[t].at = "sum" => model[thread[t].model].kernel_type # "linear"
        /\ Calculating(t) => model[thread[t].model].kernel_type = "linear"

\* The members the proofs need to know of.
Typed ==
    /\ DOMAIN model = Models /\ DOMAIN vector = Vectors /\ DOMAIN thread = Threads
    /\ \A i \in Models : Used(i) => model[i].w \in Vectors
    /\ \A t \in Threads : SoundThread(t)
    /\ DOMAIN params = {"kernel_type", "gamma"}

\* Only copies share a vector.
CopiesShare ==
    \A i, j \in Models : Used(i) /\ Used(j) /\ model[i].w = model[j].w => model[i] = model[j]

\* What is in a vector, from what the threads that use it are doing.
VectorsFollow ==
    /\ \A i \in Models : Used(i) => vector[model[i].w] \in {Empty, Torn, Decision(model[i])}
    /\ \A i \in Models : Used(i) /\ vector[model[i].w] = Torn =>
         \E t \in Threads : At(t, "assign") /\ W(t) = model[i].w
    /\ \A t \in Threads : Predicting(t) =>
         /\ At(t, "calculate") => vector[W(t)] = Empty
         /\ At(t, "assign") => vector[W(t)] = Torn
         /\ At(t, "use") => vector[W(t)] = Decision(model[thread[t].model])

\* Before a vector is filled, one thread at most uses it.
OneFills ==
    \A t, u \in Threads :
        t # u /\ Predicting(t) /\ Predicting(u) /\ W(t) = W(u) /\ Calculating(t) => Filled(W(t))

Sharing == Typed /\ CopiesShare /\ VectorsFollow /\ OneFills

\* What set_params accepted, and what was never given.
GammaIInv ==
    /\ accepted => params.kernel_type = "linear" \/ params.gamma = Default \/ params.gamma.n > 0
    /\ ~gamma_given => params.gamma = Default

\* After a race nothing is known of the vectors.
IInv == (raced \/ Sharing) /\ GammaIInv

----------------------------------------------------------------------------
(* The shared vectors.                                                     *)

LEMMA VectorsDiffer ==
    /\ Empty # Torn /\ NoModel.w = 0
    /\ \A m : Decision(m).is = "decision" /\ Decision(m) \notin {Empty, Torn}
    /\ Empty.is # "decision" /\ Torn.is # "decision"
<1>1. Empty.is = "empty" /\ Torn.is = "torn" /\ NoModel.w = 0 /\ \A m : Decision(m).is = "decision"
  BY DEF Empty, Torn, Decision, NoModel
<1> QED
  BY <1>1

\* A model is assigned that is new or a copy of another one.
LEMMA AssignStep ==
    ASSUME Sharing, NEW i \in Models, NEW m, Assign(i, m), thread' = thread, DOMAIN params' = DOMAIN params,
           m.w \in Vectors,
           \/ \A j \in Models \ {i} : model[j].w # m.w
           \/ \E j \in Models \ {i} : Used(j) /\ m = model[j]
    PROVE  Sharing'
<1>0. Typed /\ CopiesShare /\ VectorsFollow /\ OneFills
  BY DEF Sharing
<1>1. /\ DOMAIN model' = Models /\ DOMAIN vector' = Vectors
      /\ model'[i] = m /\ \A j \in Models \ {i} : model'[j] = model[j]
      /\ \A v \in Vectors : (\E j \in Models \ {i} : model[j].w = v) => vector'[v] = vector[v]
      /\ \A v \in Vectors : (\A j \in Models \ {i} : model[j].w # v) => vector'[v] = Empty
  BY <1>0 DEF Assign, Typed
<1>2. \A j \in Models \ {i} : Used(j) => model[j].w \in Vectors /\ vector'[model[j].w] = vector[model[j].w]
  BY <1>0, <1>1 DEF Typed
<1>3. \A t \in Threads : Predicting(t) =>
        /\ thread[t].model \in Models \ {i} /\ Used(thread[t].model)
        /\ model'[thread[t].model] = model[thread[t].model]
        /\ W(t)' = W(t) /\ vector'[W(t)] = vector[W(t)]
  <2> SUFFICES ASSUME NEW t \in Threads, Predicting(t)
               PROVE  /\ thread[t].model \in Models \ {i} /\ Used(thread[t].model)
                      /\ model'[thread[t].model] = model[thread[t].model]
                      /\ W(t)' = W(t) /\ vector'[W(t)] = vector[W(t)]
    OBVIOUS
  <2>1. thread[t].model \in Models \ {i} /\ Used(thread[t].model)
    BY <1>0 DEF Typed, SoundThread, Assign
  <2> QED
    BY <1>1, <1>2, <2>1 DEF W
<1>4. \A t \in Threads : Predicting(t)' = Predicting(t) /\ Calculating(t)' = Calculating(t)
  BY DEF Predicting, Calculating
<1>5. \A j \in Models \ {i} : Used(j)' = Used(j)
  BY <1>1 DEF Used
<1>6. Typed'
  <2>1. ASSUME NEW j \in Models, Used(j)' PROVE model'[j].w \in Vectors
    BY <1>0, <1>1, <1>5, <2>1 DEF Typed
  <2>2. ASSUME NEW t \in Threads PROVE SoundThread(t)'
    <3>1. CASE ~Predicting(t)
      BY <1>4, <3>1 DEF SoundThread
    <3>2. CASE Predicting(t)
      <4>1. Used(thread[t].model)' /\ model'[thread[t].model] = model[thread[t].model]
        BY <1>3, <1>5, <3>2 DEF Used
      <4> QED
        BY <1>0, <1>4, <3>2, <4>1 DEF Typed, SoundThread
    <3> QED
      BY <3>1, <3>2
  <2> QED
    BY <1>0, <1>1, <2>1, <2>2 DEF Typed
<1>7. CopiesShare'
  <2> SUFFICES ASSUME NEW j \in Models, NEW l \in Models, Used(j)', Used(l)', model'[j].w = model'[l].w
               PROVE  model'[j] = model'[l]
    BY DEF CopiesShare
  <2>1. \A k \in Models \ {i} : Used(k) /\ model[k].w = m.w => model[k] = m
    BY <1>0 DEF CopiesShare
  <2> QED
    BY <1>0, <1>1, <1>5, <2>1 DEF CopiesShare
<1>8. VectorsFollow'
  <2>1. ASSUME NEW j \in Models \ {i}, Used(j)
        PROVE  /\ vector'[model'[j].w] \in {Empty, Torn, Decision(model'[j])}
               /\ vector'[model'[j].w] = Torn =>
                    \E t \in Threads : At(t, "assign")' /\ W(t)' = model'[j].w
    <3>1. /\ vector[model[j].w] \in {Empty, Torn, Decision(model[j])}
          /\ vector[model[j].w] = Torn => \E t \in Threads : At(t, "assign") /\ W(t) = model[j].w
      BY <1>0, <2>1 DEF VectorsFollow
    <3>2. \A t \in Threads : At(t, "assign") => At(t, "assign")' /\ W(t)' = W(t)
      BY <1>3 DEF At, Predicting, Idle
    <3> QED
      BY <1>1, <1>2, <2>1, <3>1, <3>2
  <2>2. /\ vector'[m.w] \in {Empty, Torn, Decision(m)}
        /\ vector'[m.w] = Torn => \E t \in Threads : At(t, "assign")' /\ W(t)' = m.w
    <3>1. CASE \A j \in Models \ {i} : model[j].w # m.w
      BY <1>1, <3>1, VectorsDiffer
    <3>2. CASE \E j \in Models \ {i} : Used(j) /\ m = model[j]
      BY <1>1, <2>1, <3>2
    <3> QED
      BY <3>1, <3>2
  <2>3. ASSUME NEW t \in Threads, Predicting(t)'
        PROVE  /\ At(t, "calculate")' => vector'[W(t)'] = Empty
               /\ At(t, "assign")' => vector'[W(t)'] = Torn
               /\ At(t, "use")' => vector'[W(t)'] = Decision(model'[thread'[t].model])
    BY <1>0, <1>3, <1>4, <2>3 DEF VectorsFollow, At
  <2>4. \A j \in Models : Used(j)' =>
          /\ vector'[model'[j].w] \in {Empty, Torn, Decision(model'[j])}
          /\ vector'[model'[j].w] = Torn => \E t \in Threads : At(t, "assign")' /\ W(t)' = model'[j].w
    BY <1>1, <1>5, <2>1, <2>2
  <2> QED
    BY <2>3, <2>4 DEF VectorsFollow
<1>9. OneFills'
  <2> SUFFICES ASSUME NEW t \in Threads, NEW u \in Threads, t # u, Predicting(t)', Predicting(u)',
                      W(t)' = W(u)', Calculating(t)'
               PROVE  Filled(W(t))'
    BY DEF OneFills
  <2>1. Filled(W(t))
    BY <1>0, <1>3, <1>4 DEF OneFills
  <2> QED
    BY <1>3, <1>4, <2>1 DEF Filled
<1> QED
  BY <1>6, <1>7, <1>8, <1>9 DEF Sharing

\* Another thread that starts to predict.
LEMMA BeginStep ==
    ASSUME Sharing, NEW t \in Threads, NEW i \in Models, NEW data \in DataSets,
           BeginPredict(t, i, data), ~raced'
    PROVE  Sharing'
<1>0. Typed /\ CopiesShare /\ VectorsFollow /\ OneFills
  BY DEF Sharing
<1>1. /\ model' = model /\ vector' = vector /\ params' = params
      /\ ~Predicting(t) /\ Used(i) /\ DOMAIN thread' = Threads
      /\ thread'[t] = [at |-> IF model[i].kernel_type = "linear" THEN "test" ELSE "sum", model |-> i]
      /\ \A u \in Threads \ {t} : thread'[u] = thread[u]
      /\ model[i].kernel_type = "linear" /\ ~Filled(model[i].w) =>
            ~\E u \in Threads : Predicting(u) /\ W(u) = model[i].w
  BY <1>0 DEF BeginPredict, Typed
<1>2. /\ Predicting(t)' /\ W(t)' = model[i].w /\ ~At(t, "assign")
      /\ \A u \in Threads \ {t} : /\ Predicting(u)' = Predicting(u) /\ W(u)' = W(u)
                                  /\ Calculating(u)' = Calculating(u)
                                  /\ \A here : At(u, here)' = At(u, here)
  BY <1>1 DEF Predicting, W, Calculating, At, Idle
<1>3. Typed'
  <2>1. ASSUME NEW u \in Threads PROVE SoundThread(u)'
    BY <1>0, <1>1, <1>2 DEF Typed, SoundThread, Used, Calculating
  <2> QED
    BY <1>0, <1>1, <2>1 DEF Typed, Used
<1>4. CopiesShare'
  BY <1>0, <1>1 DEF CopiesShare, Used
<1>5. VectorsFollow'
  <2>1. ASSUME NEW j \in Models, Used(j)'
        PROVE  /\ vector'[model'[j].w] \in {Empty, Torn, Decision(model'[j])}
               /\ vector'[model'[j].w] = Torn =>
                    \E u \in Threads : At(u, "assign")' /\ W(u)' = model'[j].w
    BY <1>0, <1>1, <1>2, <2>1 DEF VectorsFollow, Used
  <2>2. ASSUME NEW u \in Threads, Predicting(u)'
        PROVE  /\ At(u, "calculate")' => vector'[W(u)'] = Empty
               /\ At(u, "assign")' => vector'[W(u)'] = Torn
               /\ At(u, "use")' => vector'[W(u)'] = Decision(model'[thread'[u].model])
    BY <1>0, <1>1, <1>2, <2>2 DEF VectorsFollow, At
  <2> QED
    BY <2>1, <2>2 DEF VectorsFollow
<1>6. OneFills'
  <2> SUFFICES ASSUME NEW u \in Threads, NEW v \in Threads, u # v, Predicting(u)', Predicting(v)',
                      W(u)' = W(v)', Calculating(u)'
               PROVE  Filled(W(u))'
    BY DEF OneFills
  <2>1. Filled(W(u))' <=> Filled(W(u)')
    BY <1>1 DEF Filled
  <2>2. CASE u # t /\ v # t
    <3>1. Predicting(u) /\ Predicting(v) /\ W(u) = W(v) /\ Calculating(u) /\ W(u)' = W(u)
      BY <1>2, <2>2
    <3> QED
      BY <1>0, <2>1, <3>1 DEF OneFills
  <2>3. CASE u = t
    <3>1. model[i].kernel_type = "linear" /\ Predicting(v) /\ W(v) = model[i].w
      BY <1>1, <1>2, <2>3 DEF Calculating
    <3> QED
      BY <1>1, <1>2, <2>1, <2>3, <3>1
  <2>4. CASE v = t
    <3>1. Predicting(u) /\ Calculating(u) /\ W(u) = model[i].w
      BY <1>2, <2>4
    <3>2. model[thread[u].model] = model[i]
      BY <1>0, <1>1, <3>1 DEF CopiesShare, Typed, SoundThread, W
    <3>3. model[i].kernel_type = "linear"
      BY <1>0, <3>1, <3>2 DEF Typed, SoundThread
    <3> QED
      BY <1>1, <1>2, <2>1, <2>4, <3>1, <3>3
  <2> QED
    BY <2>2, <2>3, <2>4
<1> QED
  BY <1>3, <1>4, <1>5, <1>6 DEF Sharing

\* A thread goes on in predict, or is finished, without a change of a vector.
LEMMA GoOnStep ==
    ASSUME Sharing, NEW t \in Threads, Predicting(t),
           model' = model, vector' = vector, params' = params, DOMAIN thread' = Threads,
           \A u \in Threads \ {t} : thread'[u] = thread[u],
           ~At(t, "assign"),
           \/ thread'[t] = Idle
           \/ /\ At(t, "test") /\ thread'[t] = [thread[t] EXCEPT !.at = "use"]
              /\ vector[W(t)] = Decision(model[thread[t].model])
           \/ /\ At(t, "test") /\ thread'[t] = [thread[t] EXCEPT !.at = "calculate"]
              /\ vector[W(t)] = Empty
    PROVE  Sharing'
<1>0. Typed /\ CopiesShare /\ VectorsFollow /\ OneFills
  BY DEF Sharing
<1>1. thread[t] \in [at : {"test", "calculate", "assign", "use", "sum"}, model : Models]
  BY <1>0 DEF Typed, SoundThread
<1>2. \A u \in Threads \ {t} : /\ Predicting(u)' = Predicting(u) /\ W(u)' = W(u)
                               /\ Calculating(u)' = Calculating(u)
                               /\ \A here : At(u, here)' = At(u, here)
  BY DEF Predicting, W, Calculating, At
<1>3. Predicting(t)' =>
        /\ W(t)' = W(t) /\ thread'[t].model = thread[t].model /\ thread'[t].at \in {"use", "calculate"}
        /\ Calculating(t)' => Calculating(t)
        /\ At(t, "calculate")' => vector[W(t)] = Empty
        /\ At(t, "use")' => vector[W(t)] = Decision(model[thread[t].model])
        /\ thread'[t] \in [at : {"test", "calculate", "assign", "use", "sum"}, model : Models]
  BY <1>1 DEF Predicting, W, Calculating, At
<1>4. Typed'
  <2>1. ASSUME NEW u \in Threads PROVE SoundThread(u)'
    BY <1>0, <1>2, <1>3 DEF Typed, SoundThread, Used, Calculating
  <2> QED
    BY <1>0, <2>1 DEF Typed, Used
<1>5. CopiesShare'
  BY <1>0 DEF CopiesShare, Used
<1>6. VectorsFollow'
  <2>1. ASSUME NEW j \in Models, Used(j)'
        PROVE  /\ vector'[model'[j].w] \in {Empty, Torn, Decision(model'[j])}
               /\ vector'[model'[j].w] = Torn =>
                    \E u \in Threads : At(u, "assign")' /\ W(u)' = model'[j].w
    BY <1>0, <1>2, <2>1 DEF VectorsFollow, Used
  <2>2. ASSUME NEW u \in Threads, Predicting(u)'
        PROVE  /\ At(u, "calculate")' => vector'[W(u)'] = Empty
               /\ At(u, "assign")' => vector'[W(u)'] = Torn
               /\ At(u, "use")' => vector'[W(u)'] = Decision(model'[thread'[u].model])
    BY <1>0, <1>2, <1>3, <2>2 DEF VectorsFollow, At
  <2> QED
    BY <2>1, <2>2 DEF VectorsFollow
<1>7. OneFills'
  <2> SUFFICES ASSUME NEW u \in Threads, NEW v \in Threads, u # v, Predicting(u)', Predicting(v)',
                      W(u)' = W(v)', Calculating(u)'
               PROVE  Filled(W(u))'
    BY DEF OneFills
  <2>1. /\ Predicting(u) /\ Predicting(v) /\ W(u)' = W(u) /\ W(v)' = W(v) /\ Calculating(u)
    BY <1>2, <1>3
  <2>2. Filled(W(u))
    BY <1>0, <2>1 DEF OneFills
  <2> QED
    BY <2>1, <2>2 DEF Filled
<1> QED
  BY <1>4, <1>5, <1>6, <1>7 DEF Sharing

\* The one thread that uses a vector fills it.
LEMMA FillStep ==
    ASSUME Sharing, NEW t \in Threads, Predicting(t), NEW next, NEW value,
           model' = model, params' = params,
           vector' = [vector EXCEPT ![W(t)] = value],
           thread' = [thread EXCEPT ![t].at = next],
           \/ At(t, "calculate") /\ value = Torn /\ next = "assign"
           \/ At(t, "assign") /\ value = Decision(model[thread[t].model]) /\ next = "use"
    PROVE  Sharing'
<1>0. Typed /\ CopiesShare /\ VectorsFollow /\ OneFills
  BY DEF Sharing
<1>1. /\ thread[t] \in [at : {"test", "calculate", "assign", "use", "sum"}, model : Models]
      /\ Used(thread[t].model) /\ W(t) = model[thread[t].model].w /\ W(t) \in Vectors
      /\ Calculating(t) /\ model[thread[t].model].kernel_type = "linear"
  BY <1>0 DEF Typed, SoundThread, W, Calculating, At
<1>2. /\ DOMAIN thread' = Threads /\ DOMAIN vector' = Vectors
      /\ thread'[t] = [at |-> next, model |-> thread[t].model]
      /\ \A u \in Threads \ {t} : thread'[u] = thread[u]
      /\ vector'[W(t)] = value /\ \A v \in Vectors \ {W(t)} : vector'[v] = vector[v]
  BY <1>0, <1>1 DEF Typed
<1>3. /\ Predicting(t)' /\ W(t)' = W(t) /\ (Calculating(t)' => next = "assign")
      /\ \A u \in Threads \ {t} : /\ Predicting(u)' = Predicting(u) /\ W(u)' = W(u)
                                  /\ Calculating(u)' = Calculating(u)
                                  /\ \A here : At(u, here)' = At(u, here)
  BY <1>1, <1>2, VectorsDiffer DEF Predicting, W, Calculating, At, Idle
<1>4. ~Filled(W(t))
  BY <1>0, VectorsDiffer DEF VectorsFollow, Filled
<1>5. \A u \in Threads \ {t} : Predicting(u) => W(u) # W(t)
  BY <1>0, <1>1, <1>4 DEF OneFills
<1>6. Typed'
  <2>1. ASSUME NEW u \in Threads PROVE SoundThread(u)'
    BY <1>0, <1>1, <1>2, <1>3 DEF Typed, SoundThread, Used
  <2> QED
    BY <1>0, <1>2, <2>1 DEF Typed, Used
<1>7. CopiesShare'
  BY <1>0 DEF CopiesShare, Used
<1>8. VectorsFollow'
  <2>1. ASSUME NEW j \in Models, Used(j)'
        PROVE  /\ vector'[model'[j].w] \in {Empty, Torn, Decision(model'[j])}
               /\ vector'[model'[j].w] = Torn =>
                    \E u \in Threads : At(u, "assign")' /\ W(u)' = model'[j].w
    <3>0. Used(j) /\ model[j].w \in Vectors
      BY <1>0, <2>1 DEF Used, Typed
    <3>1. CASE model[j].w = W(t)
      <4>1. model[j] = model[thread[t].model]
        BY <1>0, <1>1, <3>0, <3>1 DEF CopiesShare
      <4>2. value = Torn => At(t, "assign")'
        BY <1>2, VectorsDiffer DEF At
      <4> QED
        BY <1>2, <1>3, <3>1, <4>1, <4>2
    <3>2. CASE model[j].w # W(t)
      <4>1. vector'[model[j].w] = vector[model[j].w]
        BY <1>2, <3>0, <3>2
      <4> QED
        BY <1>0, <1>3, <3>0, <3>2, <4>1 DEF VectorsFollow
    <3> QED
      BY <3>1, <3>2
  <2>2. ASSUME NEW u \in Threads, Predicting(u)'
        PROVE  /\ At(u, "calculate")' => vector'[W(u)'] = Empty
               /\ At(u, "assign")' => vector'[W(u)'] = Torn
               /\ At(u, "use")' => vector'[W(u)'] = Decision(model'[thread'[u].model])
    <3>1. CASE u = t
      BY <1>2, <1>3, <3>1 DEF At
    <3>2. CASE u # t
      <4>1. Predicting(u) /\ W(u)' = W(u) /\ W(u) # W(t) /\ W(u) \in Vectors
        BY <1>0, <1>3, <1>5, <2>2, <3>2 DEF Typed, SoundThread, W
      <4>2. vector'[W(u)'] = vector[W(u)] /\ thread'[u] = thread[u]
        BY <1>2, <3>2, <4>1
      <4> QED
        BY <1>0, <3>2, <4>1, <4>2 DEF VectorsFollow, At
    <3> QED
      BY <3>1, <3>2
  <2> QED
    BY <2>1, <2>2 DEF VectorsFollow
<1>9. OneFills'
  <2> SUFFICES ASSUME NEW u \in Threads, NEW v \in Threads, u # v, Predicting(u)', Predicting(v)',
                      W(u)' = W(v)', Calculating(u)'
               PROVE  Filled(W(u))'
    BY DEF OneFills
  <2>1. u # t /\ v # t
    BY <1>3, <1>5
  <2>2. Filled(W(u)) /\ W(u)' = W(u) /\ W(u) # W(t) /\ W(u) \in Vectors
    BY <1>0, <1>3, <1>5, <2>1 DEF OneFills, Typed, SoundThread, W
  <2>3. vector'[W(u)] = vector[W(u)]
    BY <1>2, <2>2
  <2> QED
    BY <2>2, <2>3 DEF Filled
<1> QED
  BY <1>6, <1>7, <1>8, <1>9 DEF Sharing

\* A new model has a vector of its own.
LEMMA NewStep ==
    ASSUME Sharing, NEW i \in Models, NEW m, NEW v \in Vectors, NewVector(i, v), m.w = v,
           Assign(i, m), thread' = thread, params' = params
    PROVE  Sharing'
BY AssignStep DEF NewVector

\* The steps of a thread in predict.
LEMMA PredictStep ==
    ASSUME Sharing, NEW t \in Threads, Predict(t)
    PROVE  Sharing' /\ UNCHANGED <<params, gamma_given, accepted, raced>>
<1>0. Typed /\ VectorsFollow
  BY DEF Sharing
<1>1. ASSUME NEW here, here \in {"test", "calculate", "assign", "use", "sum"}, At(t, here)
      PROVE  Predicting(t)
  BY <1>1 DEF At, Predicting, Idle
<1>2. ASSUME Predicting(t)
      PROVE  /\ thread[t].model \in Models /\ Used(thread[t].model)
             /\ vector[W(t)] \in {Empty, Torn, Decision(model[thread[t].model])}
  BY <1>0, <1>2 DEF Typed, SoundThread, VectorsFollow, W
<1>3. CASE TestVector(t)
  <2>1. At(t, "test") /\ Predicting(t) /\ ~At(t, "assign")
    BY <1>1, <1>3 DEF TestVector, At
  <2>2. vector[W(t)] # Torn
    <3> SUFFICES ASSUME vector[W(t)] = Torn PROVE FALSE
      OBVIOUS
    <3>1. PICK u \in Threads : At(u, "assign") /\ W(u) = W(t)
      BY <1>0, <1>2, <2>1 DEF VectorsFollow, W
    <3>2. Predicting(u) /\ u # t /\ Calculating(t)
      BY <2>1, <3>1 DEF At, Predicting, Idle, Calculating
    <3> QED
      BY <2>1, <3>1, <3>2, VectorsDiffer DEF Sharing, OneFills, Filled
  <2>3. \/ thread' = [thread EXCEPT ![t].at = "use"] /\ Filled(W(t))
        \/ thread' = [thread EXCEPT ![t].at = "calculate"] /\ vector[W(t)] = Empty
    BY <1>2, <1>3, <2>1, <2>2, VectorsDiffer DEF TestVector, Filled
  <2>4. Filled(W(t)) => vector[W(t)] = Decision(model[thread[t].model])
    BY <1>2, <2>1, VectorsDiffer DEF Filled
  <2>5. /\ DOMAIN thread' = Threads /\ \A u \in Threads \ {t} : thread'[u] = thread[u]
        /\ \/ thread'[t] = [thread[t] EXCEPT !.at = "use"] /\ Filled(W(t))
           \/ thread'[t] = [thread[t] EXCEPT !.at = "calculate"] /\ vector[W(t)] = Empty
    BY <1>0, <2>3 DEF Typed
  <2>6. model' = model /\ vector' = vector /\ UNCHANGED <<params, gamma_given, accepted, raced>>
    BY <1>3 DEF TestVector
  <2> QED
    BY <2>1, <2>4, <2>5, <2>6, GoOnStep
<1>4. CASE StartAssignment(t)
  <2>1. At(t, "calculate") /\ Predicting(t) /\ vector[W(t)] = Empty
    BY <1>0, <1>1, <1>4 DEF StartAssignment, VectorsFollow
  <2>2. Empty \notin {Torn, Undefined}
    BY DEF Empty, Torn, Undefined
  <2>3. vector' = [vector EXCEPT ![W(t)] = Torn]
    BY <1>0, <1>4, <2>1, <2>2 DEF StartAssignment
  <2> QED
    BY <1>4, <2>1, <2>3, FillStep DEF StartAssignment
<1>5. CASE EndAssignment(t)
  <2>1. At(t, "assign") /\ Predicting(t) /\ vector[W(t)] = Torn
    BY <1>0, <1>1, <1>5 DEF EndAssignment, VectorsFollow
  <2>2. Torn # Undefined
    BY DEF Torn, Undefined
  <2>3. vector' = [vector EXCEPT ![W(t)] = Decision(model[thread[t].model])]
    BY <1>5, <2>1, <2>2 DEF EndAssignment
  <2> QED
    BY <1>5, <2>1, <2>3, FillStep DEF EndAssignment
<1>6. CASE UseVector(t) \/ SumKernel(t)
  <2>1. Predicting(t) /\ ~At(t, "assign")
    BY <1>1, <1>6 DEF UseVector, SumKernel, At
  <2>2. /\ DOMAIN thread' = Threads /\ thread'[t] = Idle
        /\ \A u \in Threads \ {t} : thread'[u] = thread[u]
        /\ model' = model /\ vector' = vector /\ UNCHANGED <<params, gamma_given, accepted, raced>>
    BY <1>0, <1>6 DEF Typed, UseVector, SumKernel, Finish
  <2> QED
    BY <2>1, <2>2, GoOnStep
<1> QED
  BY <1>3, <1>4, <1>5, <1>6 DEF Predict

----------------------------------------------------------------------------
(* The parameters.                                                         *)

\* Vectors and threads are what they are for any parameters.
LEMMA OthersStep ==
    ASSUME Sharing, DOMAIN params' = {"kernel_type", "gamma"},
           model' = model, vector' = vector, thread' = thread
    PROVE  Sharing'
<1>0. /\ \A t \in Threads : /\ Predicting(t)' = Predicting(t) /\ Calculating(t)' = Calculating(t)
                            /\ W(t)' = W(t) /\ Filled(W(t))' = Filled(W(t))
                            /\ \A here : At(t, here)' = At(t, here)
      /\ \A i \in Models : Used(i)' = Used(i)
  BY DEF Predicting, Calculating, W, Filled, At, Used
<1>1. ASSUME NEW t \in Threads PROVE SoundThread(t)'
  BY <1>0 DEF Sharing, Typed, SoundThread, Used
<1>2. Typed'
  BY <1>0, <1>1 DEF Sharing, Typed
<1>3. CopiesShare'
  BY <1>0 DEF Sharing, CopiesShare
<1>4. VectorsFollow'
  BY <1>0 DEF Sharing, VectorsFollow
<1>5. OneFills'
  BY <1>0 DEF Sharing, OneFills
<1> QED
  BY <1>2, <1>3, <1>4, <1>5 DEF Sharing

LEMMA SetParamsStep ==
    ASSUME IInv, ~raced, NEW provided \in NamedArgs, SetParams(provided)
    PROVE  IInv'
<1>1. DOMAIN params = {"kernel_type", "gamma"} /\ DOMAIN params' = {"kernel_type", "gamma"}
  BY DEF IInv, Sharing, Typed, SetParams
<1>2. model' = model /\ vector' = vector /\ thread' = thread /\ raced' = raced
  BY DEF SetParams
<1>3. Sharing'
  BY <1>1, <1>2, OthersStep DEF IInv
<1>4. "gamma" \notin DOMAIN provided => params'.gamma = params.gamma
  BY <1>1 DEF SetParams
<1>5. GammaIInv'
  BY <1>4 DEF IInv, GammaIInv, SetParams, SanityCheck
<1> QED
  BY <1>3, <1>5 DEF IInv

LEMMA ReplaceParamsStep ==
    ASSUME IInv, ~raced, NEW p \in AllParams, ReplaceParams(p)
    PROVE  IInv'
<1>1. DOMAIN params' = {"kernel_type", "gamma"}
  BY DEF AllParams, ReplaceParams
<1>2. model' = model /\ vector' = vector /\ thread' = thread /\ raced' = raced
  BY DEF ReplaceParams
<1>3. Sharing'
  BY <1>1, <1>2, OthersStep DEF IInv
<1>4. GammaIInv'
  BY DEF GammaIInv, ReplaceParams
<1> QED
  BY <1>3, <1>4 DEF IInv

----------------------------------------------------------------------------
(* The inductive invariant.                                                *)

LEMMA InitIInv == Init => IInv
<1> SUFFICES ASSUME Init PROVE IInv
  OBVIOUS
<1>1. /\ \A i \in Models : ~Used(i)
      /\ \A t \in Threads : ~Predicting(t)
      /\ \A t \in Threads : thread[t].at = "idle"
  BY DEF Init, Used, Predicting, Idle
<1>2. DOMAIN params = {"kernel_type", "gamma"}
  BY DEF Init, AllParams
<1>3. Typed
  BY <1>1, <1>2 DEF Init, Typed, SoundThread
<1>4. CopiesShare /\ VectorsFollow /\ OneFills
  BY <1>1 DEF CopiesShare, VectorsFollow, OneFills, At
<1>5. GammaIInv
  BY DEF Init, GammaIInv, SanityCheck
<1> QED
  BY <1>3, <1>4, <1>5 DEF IInv, Sharing

LEMMA NextIInv == IInv /\ [Next]_vars => IInv'
<1> SUFFICES ASSUME IInv, [Next]_vars PROVE IInv'
  OBVIOUS
<1>1. CASE UNCHANGED vars
  <2>1. model' = model /\ vector' = vector /\ thread' = thread /\ params' = params
        /\ UNCHANGED <<gamma_given, accepted, raced>>
    BY <1>1 DEF vars
  <2>2. CASE raced
    BY <2>1, <2>2 DEF IInv, GammaIInv
  <2>3. CASE ~raced
    <3>1. Sharing /\ DOMAIN params' = {"kernel_type", "gamma"}
      BY <2>1, <2>3 DEF IInv, Sharing, Typed
    <3>2. Sharing'
      BY <2>1, <3>1, OthersStep
    <3> QED
      BY <2>1, <3>2 DEF IInv, GammaIInv
  <2> QED
    BY <2>2, <2>3
<1>2. CASE Next
  <2>0. ~raced /\ Sharing /\ GammaIInv
    BY <1>2 DEF Next, IInv
  <2>1. ASSUME NEW provided \in NamedArgs, SetParams(provided) PROVE IInv'
    BY <2>0, <2>1, SetParamsStep
  <2>2. ASSUME NEW p \in AllParams, ReplaceParams(p) PROVE IInv'
    BY <2>0, <2>2, ReplaceParamsStep
  <2>3. ASSUME NEW i \in Models, NEW data \in DataSets, Fit(i, data) PROVE IInv'
    <3>1. /\ params' = params /\ thread' = thread /\ UNCHANGED <<gamma_given, accepted>>
          /\ \E v \in Vectors : NewVector(i, v) /\ \E m : m.w = v /\ Assign(i, m)
      BY <2>3 DEF Fit, FitVector, FitParams
    <3>2. Sharing'
      BY <2>0, <3>1, NewStep
    <3> QED
      BY <2>0, <3>1, <3>2 DEF IInv, GammaIInv
  <2>4. ASSUME NEW i \in Models, NEW j \in Models, Copy(i, j) PROVE IInv'
    <3>1. /\ params' = params /\ thread' = thread /\ UNCHANGED <<gamma_given, accepted>>
          /\ Used(j) /\ j \in Models \ {i} /\ Assign(i, model[j]) /\ model[j].w \in Vectors
      BY <2>0, <2>4 DEF Copy, Sharing, Typed
    <3>2. Sharing'
      BY <2>0, <3>1, AssignStep
    <3> QED
      BY <2>0, <3>1, <3>2 DEF IInv, GammaIInv
  <2>5. ASSUME NEW i \in Models, NEW j \in Models, Reload(i, j) PROVE IInv'
    <3>1. PICK f : \E v \in Vectors : NewVector(i, v) /\ Assign(i, Loaded(f, v))
      BY <2>5 DEF Reload
    <3>2. PICK v \in Vectors : NewVector(i, v) /\ Assign(i, Loaded(f, v))
      BY <3>1
    <3>3. params' = params /\ thread' = thread /\ UNCHANGED <<gamma_given, accepted>>
      BY <2>5 DEF Reload
    <3>4. Loaded(f, v).w = v
      BY DEF Loaded
    <3>5. Sharing'
      BY <2>0, <3>2, <3>3, <3>4, NewStep
    <3> QED
      BY <2>0, <3>3, <3>5 DEF IInv, GammaIInv
  <2>6. ASSUME NEW t \in Threads, NEW i \in Models, NEW data \in DataSets, BeginPredict(t, i, data)
        PROVE  IInv'
    <3>1. UNCHANGED <<params, gamma_given, accepted>>
      BY <2>6 DEF BeginPredict
    <3>2. ~raced' => Sharing'
      BY <2>0, <2>6, BeginStep
    <3> QED
      BY <2>0, <3>1, <3>2 DEF IInv, GammaIInv
  <2>7. ASSUME NEW t \in Threads, Predict(t) PROVE IInv'
    <3>1. Sharing' /\ UNCHANGED <<params, gamma_given, accepted, raced>>
      BY <2>0, <2>7, PredictStep
    <3> QED
      BY <2>0, <3>1 DEF IInv, GammaIInv
  <2> QED
    BY <1>2, <2>1, <2>2, <2>3, <2>4, <2>5, <2>6, <2>7 DEF Next, Operation
<1> QED
  BY <1>1, <1>2

\* The invariant holds in every reachable state.
THEOREM IInvCorrect == Spec => []IInv
BY InitIInv, NextIInv, PTL DEF Spec

----------------------------------------------------------------------------
(* The theorems.                                                           *)

\* A model never has the normal vector of another one: the vector that
\* predict() fills (csvm.hpp, predict and score; model.hpp, w_) is that of
\* every model that shares it, whatever is fitted, copied, loaded and
\* overwritten, as long as no two threads start to fill it.
THEOREM SharedCorrect == Spec => []SharedVectorFits
<1>1. IInv => SharedVectorFits
  BY DEF IInv, Sharing, VectorsFollow, SharedVectorFits
<1> QED
  BY <1>1, IInvCorrect, PTL

\* What a model is given by fit.
LEMMA FitGives ==
    ASSUME Typed, NEW i \in Models, NEW data \in DataSets, Fit(i, data)
    PROVE  /\ model'[i].kernel_type = params.kernel_type
           /\ model'[i].gamma =
                IF params.gamma = Default THEN OneOver(data.features) ELSE params.gamma
BY DEF Fit, Assign, Typed

\* After a set_params() that returned, no model is fitted with a gamma that its
\* kernel function would not accept (csvm.hpp, sanity_check_parameter; the
\* assertions of the kernels).
THEOREM CheckedGammaCorrect == Spec => FitsWithCheckedGamma
<1>1. IInv /\ [Next]_vars =>
        [accepted => \A i \in Models, data \in DataSets : Fit(i, data) =>
            model'[i].kernel_type = "linear" \/ model'[i].gamma.n > 0]_vars
  <2> SUFFICES ASSUME IInv, Next, accepted, NEW i \in Models, NEW data \in DataSets, Fit(i, data)
               PROVE  model'[i].kernel_type = "linear" \/ model'[i].gamma.n > 0
    OBVIOUS
  <2>1. Typed /\ GammaIInv
    BY DEF Next, IInv, Sharing
  <2>2. OneOver(data.features).n > 0
    BY DEF OneOver
  <2> QED
    BY <2>1, <2>2, FitGives DEF GammaIInv
<1> QED
  BY <1>1, IInvCorrect, PTL DEF Spec, FitsWithCheckedGamma

\* While the program gives no gamma, every fit takes 1 / num_features of its
\* own data set (csvm.hpp, fit), not what an earlier fit took.
THEOREM DefaultGammaCorrect == Spec => DefaultGammaFollowsData
<1>1. IInv /\ [Next]_vars =>
        [~gamma_given => \A i \in Models, data \in DataSets : Fit(i, data) =>
            model'[i].gamma = OneOver(data.features)]_vars
  <2> SUFFICES ASSUME IInv, Next, ~gamma_given, NEW i \in Models, NEW data \in DataSets, Fit(i, data)
               PROVE  model'[i].gamma = OneOver(data.features)
    OBVIOUS
  <2>1. Typed /\ GammaIInv
    BY DEF Next, IInv, Sharing
  <2> QED
    BY <2>1, FitGives DEF GammaIInv
<1> QED
  BY <1>1, IInvCorrect, PTL DEF Spec, DefaultGammaFollowsData
----------------------------------------------------------------------------
(***************************************************************************)
(* The model file.  A header is read by its entries, whose keys differ, so *)
(* that their order does not matter; the labels of the support vectors are *)
(* the intervals that nr_sv cuts.                                          *)
(***************************************************************************)
Entries(header) == {header[k] : k \in DOMAIN header}

KeysDiffer(header) ==
    \A k, l \in DOMAIN header : header[k].key = header[l].key => k = l

\* A recursive function on a short sequence, by a witness.
LEMMA TotalOfFew ==
    ASSUME NEW counts \in Seq(Nat), Len(counts) \in 0..2
    PROVE  /\ Len(counts) = 0 => Total(counts) = 0
           /\ Len(counts) = 1 => Total(counts) = counts[1]
           /\ Len(counts) = 2 => Total(counts) = counts[1] + counts[2]
<1> DEFINE n == Len(counts)
           IsSum(sum) == sum = [k \in 0..n |-> IF k = 0 THEN 0 ELSE sum[k - 1] + counts[k]]
           f == [k \in 0..n |-> IF k = 0 THEN 0 ELSE IF k = 1 THEN counts[1] ELSE counts[1] + counts[2]]
           s == CHOOSE sum : IsSum(sum)
<1>0. /\ n \in {0, 1, 2} /\ n = Len(counts)
      /\ n # 0 => counts[1] \in Nat
      /\ n = 2 => counts[2] \in Nat
  OBVIOUS
<1> HIDE DEF n
<1>1. IsSum(f)
  <2>1. ASSUME NEW k \in 0..n PROVE f[k] = IF k = 0 THEN 0 ELSE f[k - 1] + counts[k]
    <3>1. k \in {0, 1, 2} /\ (k # 0 => counts[1] \in Nat) /\ (k = 2 => 1 \in 0..n)
      BY <1>0
    <3>2. CASE k = 0
      BY <3>2
    <3>3. CASE k = 1
      BY <1>0, <3>1, <3>3
    <3>4. CASE k = 2
      <4>1. n = 2 /\ counts[1] \in Nat /\ counts[2] \in Nat
        BY <1>0, <3>4
      <4>2. f[1] = counts[1] /\ f[2] = counts[1] + counts[2]
        BY <4>1
      <4>3. QED
        BY <3>4, <4>2
    <3>5. QED
      BY <3>1, <3>2, <3>3, <3>4
  <2> HIDE DEF f
  <2>2. f = [k \in 0..n |-> f[k]]
    BY DEF f
  <2>3. QED
    BY <2>1, <2>2, Zenon
<1>2. IsSum(s)
  <2> HIDE DEF IsSum, f
  <2>1. QED
    BY <1>1, Zenon DEF s
<1>3. Total(counts) = s[n]
  BY Zenon DEF Total, n
<1> HIDE DEF s
<1>4. s = [k \in 0..n |-> IF k = 0 THEN 0 ELSE s[k - 1] + counts[k]]
  BY <1>2, Zenon
<1>5. /\ s[0] = 0
      /\ n # 0 => s[1] = s[0] + counts[1]
      /\ n = 2 => s[2] = s[1] + counts[2]
  BY <1>0, <1>4
<1>6. QED
  BY <1>0, <1>3, <1>5

LEMMA ValueOfEntry ==
    ASSUME NEW header, NEW e \in Entries(header), KeysDiffer(header),
           DOMAIN header \subseteq Int
    PROVE  Value(header, e.key) = e.value
<1>1. PICK k \in DOMAIN header : header[k] = e
  BY DEF Entries
<1>2. {l \in DOMAIN header : header[l].key = e.key} = {k}
  BY <1>1 DEF KeysDiffer
<1>3. k \in Int
  BY <1>1
<1>4. Max({k}) = k
  BY <1>3 DEF Max
<1>5. QED
  BY <1>1, <1>2, <1>4 DEF Value

\* What a header says does not depend on the order of its entries.
LEMMA SameEntries ==
    ASSUME NEW g, NEW h, Entries(g) = Entries(h), KeysDiffer(g), KeysDiffer(h),
           DOMAIN g \subseteq Int, DOMAIN h \subseteq Int, NEW default
    PROVE  ParseHeader(g, default) = ParseHeader(h, default)
<1>1. /\ Keys(g) = {e.key : e \in Entries(g)} /\ Keys(h) = {e.key : e \in Entries(g)}
      /\ (\A k \in DOMAIN g : ~EntryRefused(g[k])) <=> \A e \in Entries(g) : ~EntryRefused(e)
      /\ (\A k \in DOMAIN h : ~EntryRefused(h[k])) <=> \A e \in Entries(h) : ~EntryRefused(e)
  BY DEF Keys, Entries
<1>2. \A key \in Keys(g) : Value(g, key) = Value(h, key)
  <2>1. SUFFICES ASSUME NEW e \in Entries(g) PROVE Value(g, e.key) = Value(h, e.key)
    BY <1>1
  <2>2. QED
    BY ValueOfEntry
<1>3. Required \subseteq Keys(g) => (Consistent(g) <=> Consistent(h))
  BY <1>1, <1>2 DEF Required, Consistent
<1>4. CASE ~(Required \subseteq Keys(g))
  BY <1>1, <1>4 DEF ParseHeader
<1>5. CASE Required \subseteq Keys(g)
  <2>1. /\ Value(g, "kernel_type") = Value(h, "kernel_type")
        /\ Value(g, "label") = Value(h, "label") /\ Value(g, "nr_sv") = Value(h, "nr_sv")
        /\ "gamma" \in Keys(g) => Value(g, "gamma") = Value(h, "gamma")
    BY <1>2, <1>5 DEF Required
  <2>2. (\A k \in DOMAIN g : ~EntryRefused(g[k])) <=> (\A k \in DOMAIN h : ~EntryRefused(h[k]))
    BY <1>1
  <2>3. QED
    BY <1>1, <1>3, <1>5, <2>1, <2>2 DEF ParseHeader
<1>6. QED
  BY <1>4, <1>5

LEMMA ReverseKeepsEntries ==
    ASSUME NEW S, NEW h \in Seq(S), KeysDiffer(h)
    PROVE  Entries(Reverse(h)) = Entries(h) /\ KeysDiffer(Reverse(h)) /\ DOMAIN Reverse(h) \subseteq Int
<1>1. /\ DOMAIN Reverse(h) = 1..Len(h) /\ DOMAIN h = 1..Len(h)
      /\ \A k \in 1..Len(h) : Reverse(h)[k] = h[Len(h) - k + 1] /\ Len(h) - k + 1 \in 1..Len(h)
  BY DEF Reverse
<1>2. ASSUME NEW k \in DOMAIN h PROVE h[k] \in Entries(Reverse(h))
  <2>1. Len(h) - k + 1 \in 1..Len(h) /\ Reverse(h)[Len(h) - k + 1] = h[k]
    BY <1>1
  <2>2. QED
    BY <1>1, <2>1 DEF Entries
<1>3. Entries(Reverse(h)) = Entries(h)
  <2>1. ASSUME NEW k \in DOMAIN Reverse(h) PROVE Reverse(h)[k] \in Entries(h)
    <3>1. Reverse(h)[k] = h[Len(h) - k + 1] /\ Len(h) - k + 1 \in DOMAIN h
      BY <1>1
    <3>2. QED
      BY <3>1 DEF Entries
  <2>2. Entries(h) \subseteq Entries(Reverse(h))
    BY <1>2 DEF Entries
  <2>3. Entries(Reverse(h)) \subseteq Entries(h)
    BY <2>1 DEF Entries
  <2>4. QED
    BY <2>2, <2>3, Zenon
<1>4. QED
  BY <1>1, <1>3 DEF KeysDiffer

LEMMA RemovedIsGone ==
    ASSUME NEW S, NEW h \in Seq(S), KeysDiffer(h), NEW k \in DOMAIN h
    PROVE  h[k].key \notin Keys(RemoveAt(h, k))
<1> DEFINE r == RemoveAt(h, k)
<1>1. ASSUME NEW l \in DOMAIN r PROVE \E x \in DOMAIN h \ {k} : r[l] = h[x]
  <2>1. /\ SubSeq(h, 1, k - 1) \in Seq(S) /\ Len(SubSeq(h, 1, k - 1)) = k - 1
        /\ SubSeq(h, k + 1, Len(h)) \in Seq(S) /\ Len(SubSeq(h, k + 1, Len(h))) = Len(h) - k
    OBVIOUS
  <2>2. l \in 1..(Len(h) - 1)
    BY <2>1 DEF RemoveAt
  <2>3. CASE l < k
    <3>1. r[l] = SubSeq(h, 1, k - 1)[l]
      BY <2>1, <2>2, <2>3 DEF RemoveAt
    <3>2. QED
      BY <2>2, <2>3, <3>1
  <2>4. CASE l >= k
    <3>1. r[l] = SubSeq(h, k + 1, Len(h))[l - (k - 1)]
      <4> DEFINE a == SubSeq(h, 1, k - 1)
                 b == SubSeq(h, k + 1, Len(h))
      <4>1. r = a \o b
        BY Zenon DEF RemoveAt
      <4>2. a \in Seq(S) /\ b \in Seq(S) /\ Len(a) = k - 1 /\ Len(b) = Len(h) - k
        BY <2>1
      <4> HIDE DEF a, b, r
      <4>3. r[l] = b[l - Len(a)]
        <5>1. l \in 1..(Len(a) + Len(b)) /\ ~(l <= Len(a))
          BY <2>2, <2>4, <4>2
        <5>2. QED
          BY <4>1, <4>2, <5>1, ConcatProperties
      <4>4. QED
        BY <4>2, <4>3 DEF b
    <3>2. r[l] = h[l + 1]
      BY <2>1, <2>2, <2>4, <3>1
    <3>3. QED
      BY <2>2, <2>4, <3>2
  <2>5. QED
    BY <2>2, <2>3, <2>4
<1>2. QED
  BY <1>1 DEF Keys, KeysDiffer

LEMMA ThreeParts ==
    ASSUME NEW S, NEW a \in Seq(S), NEW b \in Seq(S), NEW c \in Seq(S), NEW h, h = a \o b \o c
    PROVE  /\ h \in Seq(S) /\ Len(h) = Len(a) + Len(b) + Len(c)
           /\ \A k \in 1..Len(a) : h[k] = a[k]
           /\ \A k \in 1..Len(b) : h[Len(a) + k] = b[k]
           /\ \A k \in 1..Len(c) : h[Len(a) + Len(b) + k] = c[k]
<1>1. a \o b \in Seq(S) /\ Len(a \o b) = Len(a) + Len(b)
  OBVIOUS
<1>2. /\ \A k \in 1..Len(a) : (a \o b)[k] = a[k]
      /\ \A k \in 1..Len(b) : (a \o b)[Len(a) + k] = b[k]
  OBVIOUS
<1>3. h \in Seq(S) /\ Len(h) = Len(a) + Len(b) + Len(c)
  BY <1>1
<1>4. /\ \A k \in 1..Len(a \o b) : h[k] = (a \o b)[k]
      /\ \A k \in 1..Len(c) : h[Len(a \o b) + k] = c[k]
  BY <1>1
<1>5. QED
  BY <1>1, <1>2, <1>3, <1>4

\* The entries of a header.
Always(kernel_type, labels, counts) ==
    {Entry("svm_type", "c_svc"), Entry("kernel_type", kernel_type),
     Entry("nr_class", Len(labels)), Entry("label", labels),
     Entry("total_sv", Total(counts)), Entry("nr_sv", counts), Entry("rho", "rho")}

Parameters(kernel_type, gamma) ==
    CASE kernel_type = "linear" -> {}
      [] kernel_type = "polynomial" -> {Entry("degree", 3), Entry("gamma", gamma), Entry("coef0", 0)}
      [] kernel_type = "rbf" -> {Entry("gamma", gamma)}

LEMMA HeaderEntries ==
    ASSUME NEW kernel_type \in {"linear", "polynomial", "rbf"}, NEW gamma, NEW labels, NEW counts,
           NEW h, h = WriteHeader(kernel_type, gamma, labels, counts)
    PROVE  /\ h \in Seq(Entries(h)) /\ DOMAIN h \subseteq Int /\ KeysDiffer(h)
           /\ Entries(h) = Always(kernel_type, labels, counts) \cup Parameters(kernel_type, gamma)
<1> DEFINE e1 == Entry("svm_type", "c_svc")
           e2 == Entry("kernel_type", kernel_type)
           d == Entry("degree", 3)
           g == Entry("gamma", gamma)
           c0 == Entry("coef0", 0)
           e3 == Entry("nr_class", Len(labels))
           e4 == Entry("label", labels)
           e5 == Entry("total_sv", Total(counts))
           e6 == Entry("nr_sv", counts)
           e7 == Entry("rho", "rho")
           E == {e1, e2, d, g, c0, e3, e4, e5, e6, e7}
           first == <<e1, e2>>
           parameters == ParameterEntries(kernel_type, gamma)
           last == <<e3, e4, e5, e6, e7>>
<1>1. /\ e1.key = "svm_type" /\ e2.key = "kernel_type" /\ d.key = "degree" /\ g.key = "gamma"
      /\ c0.key = "coef0" /\ e3.key = "nr_class" /\ e4.key = "label" /\ e5.key = "total_sv"
      /\ e6.key = "nr_sv" /\ e7.key = "rho"
  BY DEF Entry
<1>2. parameters = CASE kernel_type = "linear" -> <<>>
                     [] kernel_type = "polynomial" -> <<d, g, c0>>
                     [] kernel_type = "rbf" -> <<g>>
  BY DEF ParameterEntries
<1>3. Always(kernel_type, labels, counts) = {e1, e2, e3, e4, e5, e6, e7}
  BY Zenon DEF Always
<1>4. Parameters(kernel_type, gamma) = CASE kernel_type = "linear" -> {}
                                         [] kernel_type = "polynomial" -> {d, g, c0}
                                         [] kernel_type = "rbf" -> {g}
  BY Zenon DEF Parameters
<1>5. h = first \o parameters \o last
  BY Zenon DEF WriteHeader
<1> HIDE DEF e1, e2, d, g, c0, e3, e4, e5, e6, e7, parameters
<1>6. first \in Seq(E) /\ last \in Seq(E) /\ Len(first) = 2 /\ Len(last) = 5
  OBVIOUS
<1>7. /\ kernel_type = "linear" => parameters = <<>>
      /\ kernel_type = "polynomial" => parameters = <<d, g, c0>>
      /\ kernel_type = "rbf" => parameters = <<g>>
  BY <1>2
<1>8. /\ parameters \in Seq(E) /\ Len(parameters) \in {0, 1, 3}
      /\ kernel_type = "linear" => Len(parameters) = 0
      /\ kernel_type = "polynomial" => Len(parameters) = 3
      /\ kernel_type = "rbf" => Len(parameters) = 1
  <2>1. /\ <<>> \in Seq(E) /\ <<d, g, c0>> \in Seq(E) /\ <<g>> \in Seq(E)
        /\ Len(<<>>) = 0 /\ Len(<<d, g, c0>>) = 3 /\ Len(<<g>>) = 1
    OBVIOUS
  <2> HIDE DEF E
  <2>2. CASE kernel_type = "linear"
    BY <1>7, <2>1, <2>2
  <2>3. CASE kernel_type = "polynomial"
    BY <1>7, <2>1, <2>3
  <2>4. CASE kernel_type = "rbf"
    BY <1>7, <2>1, <2>4
  <2>5. QED
    BY <2>2, <2>3, <2>4
<1> DEFINE n == Len(parameters)
<1>9. /\ h \in Seq(E) /\ Len(h) = 7 + n
      /\ h[1] = e1 /\ h[2] = e2
      /\ \A k \in 1..n : h[2 + k] = parameters[k]
      /\ h[3 + n] = e3 /\ h[4 + n] = e4 /\ h[5 + n] = e5 /\ h[6 + n] = e6 /\ h[7 + n] = e7
  <2> HIDE DEF first, last, E
  <2>1. /\ h \in Seq(E) /\ Len(h) = Len(first) + n + Len(last)
        /\ \A k \in 1..Len(first) : h[k] = first[k]
        /\ \A k \in 1..n : h[Len(first) + k] = parameters[k]
        /\ \A k \in 1..Len(last) : h[Len(first) + n + k] = last[k]
    <3>1. first \in Seq(E) /\ parameters \in Seq(E) /\ last \in Seq(E)
      BY <1>6, <1>8
    <3>2. QED
      BY <1>5, <3>1, ThreeParts
  <2>2. /\ first[1] = e1 /\ first[2] = e2 /\ last[1] = e3 /\ last[2] = e4 /\ last[3] = e5
        /\ last[4] = e6 /\ last[5] = e7
    BY DEF first, last
  <2>3. n \in Nat /\ Len(first) = 2 /\ Len(last) = 5
    BY <1>6, <1>8
  <2>4. \A k \in 1..5 : h[2 + n + k] = last[k]
    BY <2>1, <2>3
  <2>5. h[3 + n] = last[1] /\ h[4 + n] = last[2] /\ h[5 + n] = last[3] /\ h[6 + n] = last[4] /\ h[7 + n] = last[5]
    <3>1. 3 + n = 2 + n + 1 /\ 4 + n = 2 + n + 2 /\ 5 + n = 2 + n + 3 /\ 6 + n = 2 + n + 4 /\ 7 + n = 2 + n + 5
      BY <2>3
    <3> HIDE DEF n
    <3>2. QED
      BY <2>4, <3>1
  <2>6. Len(h) = 7 + n /\ h[1] = first[1] /\ h[2] = first[2]
    BY <2>1, <2>3
  <2>7. \A k \in 1..n : h[2 + k] = parameters[k]
    BY <2>1, <2>3
  <2>8. QED
    BY <2>1, <2>2, <2>5, <2>6, <2>7
<1>10. h \in Seq(Entries(h)) /\ DOMAIN h = 1..(7 + n) /\ DOMAIN h \subseteq Int
  BY <1>8, <1>9 DEF Entries
<1> HIDE DEF n
<1>11. CASE kernel_type = "linear"
  <2>1. n = 0 /\ DOMAIN h = 1..7
    BY <1>8, <1>10, <1>11 DEF n
  <2>2. h[1] = e1 /\ h[2] = e2 /\ h[3] = e3 /\ h[4] = e4 /\ h[5] = e5 /\ h[6] = e6 /\ h[7] = e7
    BY <1>9, <2>1
  <2>3. Entries(h) = {e1, e2, e3, e4, e5, e6, e7}
    BY <2>1, <2>2 DEF Entries
  <2>4. KeysDiffer(h)
    BY <1>1, <2>1, <2>2 DEF KeysDiffer
  <2>5. QED
    BY <1>3, <1>4, <1>10, <1>11, <2>3, <2>4
<1>12. CASE kernel_type = "polynomial"
  <2>1. n = 3 /\ DOMAIN h = 1..10
    <3>1. n = 3
      BY <1>8, <1>12 DEF n
    <3>2. 7 + n = 10
      BY <3>1
    <3>3. QED
      BY <1>10, <3>1, <3>2
  <2>2. parameters[1] = d /\ parameters[2] = g /\ parameters[3] = c0
    BY <1>7, <1>12
  <2>3. /\ h[1] = e1 /\ h[2] = e2 /\ h[3] = d /\ h[4] = g /\ h[5] = c0
        /\ h[6] = e3 /\ h[7] = e4 /\ h[8] = e5 /\ h[9] = e6 /\ h[10] = e7
    BY <1>9, <2>1, <2>2
  <2>4. Entries(h) = {e1, e2, d, g, c0, e3, e4, e5, e6, e7}
    BY <2>1, <2>3 DEF Entries
  <2>5. KeysDiffer(h)
    BY <1>1, <2>1, <2>3 DEF KeysDiffer
  <2>6. QED
    BY <1>3, <1>4, <1>10, <1>12, <2>4, <2>5
<1>13. CASE kernel_type = "rbf"
  <2>1. n = 1 /\ DOMAIN h = 1..8
    <3>1. n = 1
      BY <1>8, <1>13 DEF n
    <3>2. 7 + n = 8
      BY <3>1
    <3>3. QED
      BY <1>10, <3>1, <3>2
  <2>2. parameters[1] = g
    BY <1>7, <1>13
  <2>3. /\ h[1] = e1 /\ h[2] = e2 /\ h[3] = g
        /\ h[4] = e3 /\ h[5] = e4 /\ h[6] = e5 /\ h[7] = e6 /\ h[8] = e7
    BY <1>9, <2>1, <2>2
  <2>4. Entries(h) = {e1, e2, g, e3, e4, e5, e6, e7}
    BY <2>1, <2>3 DEF Entries
  <2>5. KeysDiffer(h)
    BY <1>1, <2>1, <2>3 DEF KeysDiffer
  <2>6. QED
    BY <1>3, <1>4, <1>10, <1>13, <2>4, <2>5
<1>14. QED
  BY <1>11, <1>12, <1>13
\* The labels of the support vectors, from nr_sv and back.
LEMMA TwoClasses ==
    ASSUME NEW counts \in [1..2 -> Nat \ {0}]
    PROVE  /\ counts \in Seq(Nat) /\ Len(counts) = 2 /\ DOMAIN counts = 1..2
           /\ counts[1] \in Nat \ {0} /\ counts[2] \in Nat \ {0}
           /\ Total(counts) = counts[1] + counts[2]
<1>1. counts \in Seq(Nat) /\ Len(counts) = 2 /\ DOMAIN counts = 1..2
  <2>1. counts \in [1..2 -> Nat]
    OBVIOUS
  <2>2. counts \in Seq(Nat)
    BY <2>1, SeqDef
  <2>3. 1..Len(counts) = 1..2 /\ Len(counts) \in Nat
    BY <2>1, <2>2, LenProperties
  <2>4. Len(counts) = 2
    BY <2>3
  <2>5. QED
    BY <2>1, <2>2, <2>4
<1>2. counts[1] \in Nat \ {0} /\ counts[2] \in Nat \ {0}
  OBVIOUS
<1>3. Total(counts) = counts[1] + counts[2]
  BY <1>1, TotalOfFew
<1>4. QED
  BY <1>1, <1>2, <1>3

LEMMA LabelIntervals ==
    ASSUME NEW counts \in [1..2 -> Nat \ {0}]
    PROVE  DataLabels([c \in DOMAIN counts |-> c], counts) =
             [k \in 1..Total(counts) |-> IF k <= counts[1] THEN 1 ELSE 2]
<1> DEFINE labels == [c \in DOMAIN counts |-> c]
           upTo(c) == Total(SubSeq(counts, 1, c))
           class(k) == CHOOSE c \in DOMAIN counts : k <= upTo(c) /\ k > upTo(c - 1)
           n1 == counts[1]
           n2 == counts[2]
<1>1. /\ counts \in Seq(Nat) /\ Len(counts) = 2 /\ DOMAIN counts = {1, 2}
      /\ n1 \in Nat \ {0} /\ n2 \in Nat \ {0} /\ Total(counts) = n1 + n2
  BY TwoClasses
<1>2. upTo(0) = 0 /\ upTo(1) = n1 /\ upTo(2) = n1 + n2
  <2>1. SubSeq(counts, 1, 0) \in Seq(Nat) /\ Len(SubSeq(counts, 1, 0)) = 0
    BY <1>1
  <2>2. /\ SubSeq(counts, 1, 1) \in Seq(Nat) /\ Len(SubSeq(counts, 1, 1)) = 1
        /\ SubSeq(counts, 1, 1)[1] = n1
    BY <1>1
  <2>3. /\ SubSeq(counts, 1, 2) \in Seq(Nat) /\ Len(SubSeq(counts, 1, 2)) = 2
        /\ SubSeq(counts, 1, 2)[1] = n1 /\ SubSeq(counts, 1, 2)[2] = n2
    BY <1>1
  <2>4. ASSUME NEW s \in Seq(Nat), Len(s) \in 0..2
        PROVE  /\ Len(s) = 0 => Total(s) = 0
               /\ Len(s) = 1 => Total(s) = s[1]
               /\ Len(s) = 2 => Total(s) = s[1] + s[2]
    BY TotalOfFew
  <2>5. upTo(0) = 0
    <3> DEFINE s == SubSeq(counts, 1, 0)
    <3>1. s \in Seq(Nat) /\ Len(s) = 0 /\ Len(s) \in 0..2
      BY <2>1
    <3> HIDE DEF s
    <3>2. Total(s) = 0
      BY <2>4, <3>1, Zenon
    <3>3. QED
      BY <3>2 DEF s
  <2>6. upTo(1) = n1
    <3> DEFINE s == SubSeq(counts, 1, 1)
    <3>1. s \in Seq(Nat) /\ Len(s) = 1 /\ s[1] = n1
      BY <2>2
    <3> HIDE DEF s
    <3>2. Total(s) = n1
      BY <2>4, <3>1
    <3>3. QED
      BY <3>2 DEF s
  <2>7. upTo(2) = n1 + n2
    <3> DEFINE s == SubSeq(counts, 1, 2)
    <3>1. s \in Seq(Nat) /\ Len(s) = 2 /\ s[1] = n1 /\ s[2] = n2
      BY <2>3
    <3> HIDE DEF s
    <3>2. Total(s) = n1 + n2
      BY <2>4, <3>1
    <3>3. QED
      BY <3>2 DEF s
  <2>8. QED
    BY <2>5, <2>6, <2>7
<1>3. labels[1] = 1 /\ labels[2] = 2
  BY <1>1
<1>4. DataLabels(labels, counts) = [k \in 1..Total(counts) |-> labels[class(k)]]
  BY DEF DataLabels
<1> HIDE DEF n1, n2, upTo, labels
<1>5. ASSUME NEW k \in 1..(n1 + n2) PROVE class(k) = IF k <= n1 THEN 1 ELSE 2
  <2>1. CASE k <= n1
    <3>1. \A c \in DOMAIN counts : (k <= upTo(c) /\ k > upTo(c - 1)) <=> c = 1
      BY <1>1, <1>2, <2>1
    <3>2. QED
      BY <1>1, <2>1, <3>1
  <2>2. CASE k > n1
    <3>1. \A c \in DOMAIN counts : (k <= upTo(c) /\ k > upTo(c - 1)) <=> c = 2
      BY <1>1, <1>2, <2>2
    <3>2. QED
      BY <1>1, <2>2, <3>1
  <2>3. QED
    BY <1>1, <2>1, <2>2
<1> HIDE DEF class
<1>6. \A k \in 1..Total(counts) : labels[class(k)] = IF k <= n1 THEN 1 ELSE 2
  BY <1>1, <1>3, <1>5
<1>7. QED
  BY <1>4, <1>6 DEF labels, n1

Counted(labels) == [c \in 1..2 |-> Cardinality({k \in DOMAIN labels : labels[k] = c})]

LEMMA CountedLabels ==
    ASSUME NEW counts \in [1..2 -> Nat \ {0}], NEW labels,
           labels = [k \in 1..Total(counts) |-> IF k <= counts[1] THEN 1 ELSE 2]
    PROVE  /\ Len(labels) = Total(counts)
           /\ Counted(labels) = counts
<1>1. /\ counts[1] \in Nat \ {0} /\ counts[2] \in Nat \ {0}
      /\ Total(counts) = counts[1] + counts[2] /\ Total(counts) \in Nat
  BY TwoClasses
<1>2. DOMAIN labels = 1..Total(counts) /\ Len(labels) = Total(counts)
  BY <1>1
<1>3. {k \in DOMAIN labels : labels[k] = 1} = 1..counts[1]
  BY <1>1, <1>2
<1>4. {k \in DOMAIN labels : labels[k] = 2} = (counts[1] + 1)..(counts[1] + counts[2])
  BY <1>1, <1>2
<1>5. Cardinality(1..counts[1]) = counts[1]
  BY <1>1, FS_Interval
<1>6. Cardinality((counts[1] + 1)..(counts[1] + counts[2])) = counts[2]
  BY <1>1, FS_Interval
<1> DEFINE card(c) == Cardinality({k \in DOMAIN labels : labels[k] = c})
<1>7. card(1) = counts[1] /\ card(2) = counts[2]
  BY <1>3, <1>4, <1>5, <1>6
<1> HIDE DEF card
<1>8. \A c \in 1..2 : card(c) = counts[c]
  BY <1>7
<1>9. [c \in 1..2 |-> card(c)] = counts
  BY <1>8
<1>10. QED
  BY <1>2, <1>9 DEF card, Counted

\* A header with the entries of one that was written, in any order.
LEMMA ParsesTo ==
    ASSUME NEW kernel_type \in {"linear", "polynomial", "rbf"}, NEW gamma, NEW default,
           NEW counts \in [1..2 -> Nat \ {0}], NEW labels, labels = [c \in DOMAIN counts |-> c],
           NEW h, KeysDiffer(h), DOMAIN h \subseteq Int,
           Entries(h) = Always(kernel_type, labels, counts) \cup Parameters(kernel_type, gamma)
    PROVE  /\ ParseHeader(h, default) # Error
           /\ ParseHeader(h, default) =
                [kernel_type |-> kernel_type,
                 gamma |-> IF kernel_type = "linear" THEN default ELSE gamma,
                 labels |-> DataLabels(labels, counts)]
<1>1. /\ counts \in Seq(Nat) /\ Len(counts) = 2 /\ DOMAIN counts = 1..2
      /\ Total(counts) # 0 /\ Len(labels) = 2 /\ IsInjective(labels)
  BY TwoClasses DEF IsInjective
<1>3. Entries(h) = Always(kernel_type, labels, counts) \cup Parameters(kernel_type, gamma)
  OBVIOUS
<1>4. \A e \in Always(kernel_type, labels, counts) :
        ~EntryRefused(e) /\ e \in Entries(h) /\ Value(h, e.key) = e.value
  <2>1. \A e \in Always(kernel_type, labels, counts) : Value(h, e.key) = e.value
    BY <1>3, ValueOfEntry
  <2>2. \A e \in Always(kernel_type, labels, counts) : ~EntryRefused(e)
    <3>1. ASSUME NEW e \in Always(kernel_type, labels, counts)
          PROVE  \/ e.key = "svm_type" /\ e.value = "c_svc"
                 \/ e.key = "kernel_type" /\ e.value = kernel_type
                 \/ e.key = "label" /\ e.value = labels
                 \/ e.key = "total_sv" /\ e.value = Total(counts)
                 \/ e.key = "nr_sv" /\ e.value = counts
                 \/ e.key \in {"nr_class", "rho"}
      BY DEF Always, Entry
    <3>2. ASSUME NEW e
          PROVE  /\ e.key = "svm_type" => (EntryRefused(e) <=> e.value # "c_svc")
                 /\ e.key = "kernel_type" =>
                      (EntryRefused(e) <=> e.value \notin {"linear", "polynomial", "rbf"})
                 /\ e.key = "label" => (EntryRefused(e) <=> Len(e.value) < 2 \/ ~IsInjective(e.value))
                 /\ e.key = "total_sv" => (EntryRefused(e) <=> e.value = 0)
                 /\ e.key = "nr_sv" => (EntryRefused(e) <=> Len(e.value) < 2)
                 /\ e.key \in {"nr_class", "rho"} => ~EntryRefused(e)
      BY DEF EntryRefused, Required, Optional
    <3>3. ~(Len(labels) < 2) /\ ~(Len(counts) < 2)
      BY <1>1
    <3>4. QED
      BY <1>1, <3>1, <3>2, <3>3, Zenon
  <2>3. QED
    BY <1>3, <2>1, <2>2
<1>5. \A e \in Parameters(kernel_type, gamma) :
        ~EntryRefused(e) /\ e \in Entries(h) /\ Value(h, e.key) = e.value
  <2>1. \A e \in Parameters(kernel_type, gamma) : Value(h, e.key) = e.value
    BY <1>3, ValueOfEntry
  <2>2. \A e \in Parameters(kernel_type, gamma) : ~EntryRefused(e)
    BY DEF Parameters, EntryRefused, Entry, Required, Optional
  <2>3. QED
    BY <1>3, <2>1, <2>2
<1>6. Keys(h) = {e.key : e \in Always(kernel_type, labels, counts)}
                  \cup {e.key : e \in Parameters(kernel_type, gamma)}
  BY <1>3 DEF Keys, Entries
<1>7. {e.key : e \in Always(kernel_type, labels, counts)} = Required
  BY DEF Always, Entry, Required
<1>8. {e.key : e \in Parameters(kernel_type, gamma)} =
        CASE kernel_type = "linear" -> {}
          [] kernel_type = "polynomial" -> {"degree", "gamma", "coef0"}
          [] kernel_type = "rbf" -> {"gamma"}
  <2>1. CASE kernel_type = "linear"
    BY <2>1 DEF Parameters
  <2>2. CASE kernel_type = "polynomial"
    BY <2>2 DEF Parameters, Entry
  <2>3. CASE kernel_type = "rbf"
    BY <2>3 DEF Parameters, Entry
  <2>4. QED
    BY <2>1, <2>2, <2>3
<1>9. /\ Value(h, "svm_type") = "c_svc" /\ Value(h, "kernel_type") = kernel_type
      /\ Value(h, "nr_class") = 2 /\ Value(h, "label") = labels
      /\ Value(h, "total_sv") = Total(counts) /\ Value(h, "nr_sv") = counts
  BY <1>1, <1>4 DEF Always, Entry
<1>10. kernel_type # "linear" => Value(h, "gamma") = gamma
  BY <1>5 DEF Parameters, Entry
<1>11. Required \subseteq Keys(h)
  BY <1>6, <1>7
<1>12. "gamma" \in Keys(h) <=> kernel_type # "linear"
  BY <1>6, <1>7, <1>8 DEF Required
<1>13. Keys(h) \cap Unused(kernel_type) = {}
  BY <1>6, <1>7, <1>8 DEF Required, Unused, Optional
<1>14. Consistent(h)
  BY <1>1, <1>9, <1>13 DEF Consistent
<1>15. \A k \in DOMAIN h : ~EntryRefused(h[k])
  BY <1>3, <1>4, <1>5 DEF Entries
<1>16. ParseHeader(h, default) =
         [kernel_type |-> kernel_type,
          gamma |-> IF kernel_type = "linear" THEN default ELSE gamma,
          labels |-> DataLabels(labels, counts)]
  BY <1>9, <1>10, <1>11, <1>12, <1>14, <1>15 DEF ParseHeader
<1>17. QED
  BY <1>16 DEF Error
----------------------------------------------------------------------------
(* What a model says of its training, also after trips through the file.   *)

SoundModel(m) ==
    LET alpha == m.alpha
    IN  /\ m.kernel_type \in KernelTypes /\ m.kernel_type = alpha.kernel_type
        /\ alpha.data \in DataSets /\ alpha.data.counts # <<>>
        /\ m.data \in {alpha.data, ReadBack(alpha.data)}
        /\ m.kernel_type # "linear" =>
             /\ alpha.gamma \in [n : Int, d : Nat \ {0}]
             /\ m.gamma \in {alpha.gamma, Written(alpha.gamma)}

\* Also after a race, which disturbs the vectors only.
ModelsSound ==
    /\ params \in AllParams
    /\ DOMAIN model = Models
    /\ \A i \in Models : Used(i) => SoundModel(model[i])

LEMMA WrittenOnce ==
    ASSUME NEW gamma \in [n : Int, d : Nat \ {0}]
    PROVE  Written(Written(gamma)) = Written(gamma)
<1>1. SixDigits % SixDigits = 0
  BY SMT DEF SixDigits
<1>2. CASE SixDigits % gamma.d = 0
  BY <1>2 DEF Written
<1>3. CASE SixDigits % gamma.d # 0
  <2>1. Written(gamma).d = SixDigits
    BY <1>3 DEF Written
  <2>2. SixDigits % Written(gamma).d = 0
    BY <1>1, <2>1
  <2>3. QED
    BY <2>2, Zenon DEF Written
<1>4. QED
  BY <1>2, <1>3

LEMMA ReadBackOnce ==
    ASSUME NEW data \in DataSets
    PROVE  /\ ReadBack(data) = [features |-> data.last, last |-> data.last, counts |-> data.counts]
           /\ ReadBack(ReadBack(data)) = ReadBack(data)
           /\ data.last = data.features => ReadBack(data) = data
<1>1. data = [features |-> data.features, last |-> data.last, counts |-> data.counts]
  BY DataSetsAssumption
<1>2. ReadBack(data) = [features |-> data.last, last |-> data.last, counts |-> data.counts]
  BY <1>1 DEF ReadBack
<1>3. QED
  BY <1>1, <1>2 DEF ReadBack

\* The file of a sound model, with its entries in any order.
LEMMA LoadsWhatWasSaved ==
    ASSUME NEW m, SoundModel(m), NEW v, NEW h, KeysDiffer(h), DOMAIN h \subseteq Int,
           Entries(h) = Entries(Header(m))
    PROVE  LET f == [Saved(m) EXCEPT !.header = h]
           IN  /\ Readable(f) <=> m.alpha.data.last > 0
               /\ Loaded(f, v) =
                    [kernel_type |-> m.kernel_type,
                     gamma |-> IF m.kernel_type = "linear" THEN Default ELSE Written(m.gamma),
                     data |-> ReadBack(m.alpha.data), alpha |-> m.alpha, w |-> v]
<1> DEFINE data == m.alpha.data
           counts == data.counts
           f == [Saved(m) EXCEPT !.header = h]
           gamma == Written(m.gamma)
           parsed == ParseHeader(h, Default)
           classes == [c \in DOMAIN counts |-> c]
           labels == DataLabels(classes, counts)
<1>1. /\ m.kernel_type \in {"linear", "polynomial", "rbf"}
      /\ data \in DataSets /\ counts \in [1..2 -> Nat \ {0}] /\ data.last \in Nat
      /\ m.data \in {data, ReadBack(data)}
  BY KernelTypesAssumption, DataSetsAssumption DEF SoundModel
<1>2. ReadBack(m.data) = ReadBack(data) /\ m.data.counts = counts
  BY <1>1, ReadBackOnce
<1>3. /\ f.header = h /\ f.data = ReadBack(data) /\ f.alpha = m.alpha
  BY <1>2 DEF Saved
<1>4. Header(m) = WriteHeader(m.kernel_type, gamma, classes, counts)
  BY <1>2 DEF Header, Labels
<1>0. classes = [c \in DOMAIN counts |-> c]
  OBVIOUS
<1> HIDE DEF f, gamma, counts, classes, labels, parsed
<1>5. Entries(h) = Always(m.kernel_type, classes, counts)
                       \cup Parameters(m.kernel_type, gamma)
  BY <1>1, <1>4, HeaderEntries
<1>6. /\ parsed # Error
      /\ parsed = [kernel_type |-> m.kernel_type,
                   gamma |-> IF m.kernel_type = "linear" THEN Default ELSE gamma,
                   labels |-> labels]
  <2>1. m.kernel_type \in {"linear", "polynomial", "rbf"} /\ counts \in [1..2 -> Nat \ {0}]
    BY <1>1
  <2>2. KeysDiffer(h) /\ DOMAIN h \subseteq Int
    OBVIOUS
  <2>3. QED
    BY <1>5, <2>1, <2>2, ParsesTo DEF classes, labels, parsed
<1>7. /\ Len(labels) = Total(counts)
      /\ Counted(labels) = counts
  <2>1. labels = [k \in 1..Total(counts) |-> IF k <= counts[1] THEN 1 ELSE 2]
    BY <1>1, LabelIntervals DEF classes, labels
  <2>2. counts \in [1..2 -> Nat \ {0}]
    BY <1>1
  <2>3. QED
    BY <2>1, <2>2, CountedLabels
<1>8. f.data.last = data.last /\ f.data.counts = counts
  BY <1>1, <1>3, ReadBackOnce DEF counts
<1>9. Readable(f) <=> data.last > 0
  BY <1>3, <1>6, <1>7, <1>8 DEF Readable, parsed
<1>10. [f.data EXCEPT !.counts = counts] = f.data
  BY <1>1, <1>3, ReadBackOnce DEF counts
<1>11. Loaded(f, v) =
         [kernel_type |-> parsed.kernel_type, gamma |-> parsed.gamma,
          data |-> [f.data EXCEPT !.counts = Counted(parsed.labels)], alpha |-> f.alpha, w |-> v]
  BY <1>3 DEF Loaded, parsed, Counted
<1>12. Loaded(f, v) =
         [kernel_type |-> m.kernel_type,
          gamma |-> IF m.kernel_type = "linear" THEN Default ELSE gamma,
          data |-> ReadBack(data), alpha |-> m.alpha, w |-> v]
  BY <1>3, <1>6, <1>7, <1>10, <1>11
<1>13. QED
  BY <1>9, <1>12 DEF f, gamma
LEMMA HeaderIsSound ==
    ASSUME NEW m, SoundModel(m)
    PROVE  /\ Header(m) \in Seq(Entries(Header(m))) /\ DOMAIN Header(m) \subseteq Int
           /\ KeysDiffer(Header(m)) /\ DOMAIN Header(m) = 1..Len(Header(m))
           /\ [Saved(m) EXCEPT !.header = Header(m)] = Saved(m)
<1>1. m.kernel_type \in {"linear", "polynomial", "rbf"}
  BY KernelTypesAssumption DEF SoundModel
<1>2. /\ Header(m) \in Seq(Entries(Header(m))) /\ DOMAIN Header(m) \subseteq Int
      /\ KeysDiffer(Header(m))
  BY <1>1, HeaderEntries DEF Header
<1>3. [Saved(m) EXCEPT !.header = Header(m)] = Saved(m)
  BY DEF Saved
<1>4. QED
  BY <1>2, <1>3

LEMMA LoadedIsSound ==
    ASSUME NEW m, SoundModel(m), NEW v
    PROVE  /\ SoundModel(Loaded(Saved(m), v))
           /\ Loaded(Saved(m), v) =
                [kernel_type |-> m.kernel_type,
                 gamma |-> IF m.kernel_type = "linear" THEN Default ELSE Written(m.gamma),
                 data |-> ReadBack(m.alpha.data), alpha |-> m.alpha, w |-> v]
           /\ Readable(Saved(m)) <=> m.alpha.data.last > 0
<1> DEFINE l == Loaded(Saved(m), v)
<1>1. /\ l = [kernel_type |-> m.kernel_type,
              gamma |-> IF m.kernel_type = "linear" THEN Default ELSE Written(m.gamma),
              data |-> ReadBack(m.alpha.data), alpha |-> m.alpha, w |-> v]
      /\ Readable(Saved(m)) <=> m.alpha.data.last > 0
  <2> DEFINE h == Header(m)
             f == [Saved(m) EXCEPT !.header = h]
  <2>1. KeysDiffer(h) /\ DOMAIN h \subseteq Int /\ Entries(h) = Entries(Header(m)) /\ f = Saved(m)
    BY HeaderIsSound
  <2> HIDE DEF h
  <2>2. /\ Readable(f) <=> m.alpha.data.last > 0
        /\ Loaded(f, v) =
             [kernel_type |-> m.kernel_type,
              gamma |-> IF m.kernel_type = "linear" THEN Default ELSE Written(m.gamma),
              data |-> ReadBack(m.alpha.data), alpha |-> m.alpha, w |-> v]
    BY <2>1, LoadsWhatWasSaved
  <2> HIDE DEF f
  <2>3. QED
    BY <2>1, <2>2
<1> HIDE DEF l
<1>2. m.kernel_type # "linear" => Written(m.gamma) = Written(m.alpha.gamma)
  BY WrittenOnce DEF SoundModel
<1>3. SoundModel(l)
  BY <1>1, <1>2 DEF SoundModel
<1>4. QED
  BY <1>1, <1>3 DEF l

LEMMA AssignedIsSound ==
    ASSUME ModelsSound, NEW i \in Models, NEW m, SoundModel(m), Assign(i, m), UNCHANGED params
    PROVE  ModelsSound'
<1>1. model' = [model EXCEPT ![i] = m] /\ DOMAIN model = Models
  BY DEF Assign, ModelsSound
<1>2. \A j \in Models : Used(j)' => SoundModel(model'[j])
  BY <1>1 DEF ModelsSound, Used
<1>3. QED
  BY <1>1, <1>2 DEF ModelsSound

LEMMA FitSound ==
    ASSUME ModelsSound, NEW i \in Models, NEW data \in DataSets, Fit(i, data)
    PROVE  ModelsSound'
<1> DEFINE gamma == IF params.gamma = Default THEN OneOver(data.features) ELSE params.gamma
           alpha == [kernel_type |-> params.kernel_type, gamma |-> gamma, data |-> data]
           m(v) == [kernel_type |-> params.kernel_type, gamma |-> gamma,
                    data |-> data, alpha |-> alpha, w |-> v]
<1>1. PICK v \in Vectors : Assign(i, m(v))
  BY DEF Fit
<1>2. UNCHANGED params
  BY DEF Fit, FitParams
<1>3. data.counts # <<>>
  BY DEF Fit
<1>4. params.kernel_type \in KernelTypes /\ params.gamma \in GivenGammas \cup {Default}
  BY DEF ModelsSound, AllParams
<1>5. gamma \in [n : Int, d : Nat \ {0}]
  BY <1>4, GammasAssumption, DataSetsAssumption DEF OneOver
<1> HIDE DEF gamma
<1>6. SoundModel(m(v))
  BY <1>3, <1>4, <1>5 DEF SoundModel
<1> HIDE DEF m
<1>7. QED
  BY <1>1, <1>2, <1>6, AssignedIsSound

LEMMA NextModelsSound == ModelsSound /\ [Next]_vars => ModelsSound'
<1> SUFFICES ASSUME ModelsSound, [Next]_vars PROVE ModelsSound'
  OBVIOUS
<1>1. ASSUME NEW provided \in NamedArgs, SetParams(provided) PROVE ModelsSound'
  <2>1. params' \in AllParams
    <3>1. /\ params = [kernel_type |-> params.kernel_type, gamma |-> params.gamma]
          /\ params.kernel_type \in KernelTypes /\ params.gamma \in GivenGammas \cup {Default}
      BY DEF ModelsSound, AllParams
    <3>2. /\ "kernel_type" \in DOMAIN provided => provided["kernel_type"] \in KernelTypes
          /\ "gamma" \in DOMAIN provided => provided["gamma"] \in GivenGammas
      BY DEF NamedArgs
    <3>3. DOMAIN params = {"kernel_type", "gamma"}
      BY <3>1
    <3>4. params' = [x \in {"kernel_type", "gamma"} |->
                       IF x \in DOMAIN provided THEN provided[x] ELSE params[x]]
      BY <1>1, <3>3 DEF SetParams
    <3>5. QED
      BY <3>1, <3>2, <3>4 DEF AllParams
  <2>2. model' = model
    BY <1>1 DEF SetParams
  <2>3. QED
    BY <2>1, <2>2 DEF ModelsSound, Used
<1>2. ASSUME NEW p \in AllParams, ReplaceParams(p) PROVE ModelsSound'
  BY <1>2 DEF ReplaceParams, ModelsSound, Used
<1>3. ASSUME NEW i \in Models, NEW data \in DataSets, Fit(i, data) PROVE ModelsSound'
  BY <1>3, FitSound
<1>4. ASSUME NEW i \in Models, NEW j \in Models, Copy(i, j) PROVE ModelsSound'
  <2>1. SoundModel(model[j]) /\ Assign(i, model[j]) /\ UNCHANGED params
    BY <1>4 DEF Copy, ModelsSound
  <2>2. QED
    BY <2>1, AssignedIsSound
<1>5. ASSUME NEW i \in Models, NEW j \in Models, Reload(i, j) PROVE ModelsSound'
  <2>1. PICK v \in Vectors : Assign(i, Loaded(Saved(model[j]), v))
    BY <1>5 DEF Reload
  <2>2. SoundModel(model[j]) /\ UNCHANGED params
    BY <1>5 DEF Reload, ModelsSound
  <2>3. SoundModel(Loaded(Saved(model[j]), v))
    BY <2>2, LoadedIsSound
  <2>4. QED
    BY <2>1, <2>2, <2>3, AssignedIsSound
<1>6. ASSUME NEW t \in Threads, NEW i \in Models, NEW data \in DataSets, BeginPredict(t, i, data)
      PROVE  ModelsSound'
  BY <1>6 DEF BeginPredict, ModelsSound, Used
<1>7. ASSUME NEW t \in Threads, Predict(t) PROVE ModelsSound'
  <2>1. UNCHANGED <<params, model>>
    BY <1>7 DEF Predict, TestVector, StartAssignment, EndAssignment, UseVector, SumKernel, Finish
  <2>2. QED
    BY <2>1 DEF ModelsSound, Used
<1>8. CASE UNCHANGED vars
  BY <1>8 DEF vars, ModelsSound, Used
<1>9. QED
  BY <1>1, <1>2, <1>3, <1>4, <1>5, <1>6, <1>7, <1>8 DEF Next, Operation

LEMMA ModelsSoundCorrect == Spec => []ModelsSound
<1>1. Init => ModelsSound
  BY DEF Init, ModelsSound, Used
<1>2. QED
  BY <1>1, NextModelsSound, PTL DEF Spec

\* A prediction uses the kernel, gamma, data and weights of the model's own
\* training: whatever the parameters of the csvm became, whichever models were
\* overwritten, copied, saved and loaded, and whatever other threads do with
\* the model and its copies, as long as they do not both start to fill a vector.
THEOREM PredictsCorrect == Spec => []PredictsAsTrained
<1>1. IInv /\ ModelsSound => PredictsAsTrained
  <2> SUFFICES ASSUME IInv, ModelsSound, ~raced, NEW t \in Threads, thread[t].at \in {"use", "sum"}
               PROVE  LET m == model[thread[t].model]
                          alpha == m.alpha
                          decision == IF At(t, "use") THEN vector[m.w] ELSE Decision(m)
                      IN  /\ decision.is = "decision"
                          /\ decision.alpha = alpha
                          /\ decision.data \in {alpha.data, ReadBack(alpha.data)}
                          /\ decision.kernel_type = alpha.kernel_type
                          /\ alpha.kernel_type # "linear" =>
                               decision.gamma \in {alpha.gamma, Written(alpha.gamma)}
    BY DEF PredictsAsTrained
  <2> DEFINE m == model[thread[t].model]
             decision == IF At(t, "use") THEN vector[m.w] ELSE Decision(m)
  <2>1. Typed /\ VectorsFollow
    BY DEF IInv, Sharing
  <2>2. Predicting(t)
    BY DEF Predicting, Idle
  <2>3. thread[t].model \in Models /\ Used(thread[t].model)
    BY <2>1, <2>2 DEF Typed, SoundThread
  <2>4. SoundModel(m)
    BY <2>3 DEF ModelsSound
  <2>5. decision = Decision(m)
    BY <2>1, <2>2 DEF VectorsFollow, W
  <2> HIDE DEF m, decision
  <2>6. /\ decision.is = "decision" /\ decision.alpha = m.alpha
        /\ decision.data \in {m.alpha.data, ReadBack(m.alpha.data)}
        /\ decision.kernel_type = m.alpha.kernel_type
        /\ m.alpha.kernel_type # "linear" =>
             decision.gamma \in {m.alpha.gamma, Written(m.alpha.gamma)}
    BY <2>4, <2>5 DEF Decision, SoundModel
  <2>7. QED
    BY <2>6 DEF m, decision
<1>2. QED
  BY <1>1, IInvCorrect, ModelsSoundCorrect, PTL

\* A file is read as the model that was saved, whatever the order of its
\* entries; it is written as the same file again; and one from which an entry
\* is missing that is no parameter is refused.
THEOREM FileCorrect == Spec => []SurvivesItsFile
<1>1. ModelsSound => SurvivesItsFile
  <2> SUFFICES ASSUME ModelsSound, NEW i \in Models, Used(i),
                      model[i].alpha.data.last = model[i].alpha.data.features
               PROVE  LET data == model[i].alpha.data
                          f == Saved(model[i])
                          With(header) == [f EXCEPT !.header = header]
                      IN  /\ Readable(f) /\ Saved(Loaded(f, 1)) = f /\ Loaded(f, 1).data = data
                          /\ LET g == With(Reverse(f.header))
                             IN  Readable(g) /\ Loaded(g, 1) = Loaded(f, 1)
                          /\ \A k \in DOMAIN f.header : f.header[k].key \in Required =>
                                ~Readable(With(RemoveAt(f.header, k)))
    BY DEF SurvivesItsFile
  <2> DEFINE m == model[i]
             data == m.alpha.data
             f == Saved(m)
             h == Header(m)
             With(header) == [f EXCEPT !.header = header]
             l == Loaded(f, 1)
  <2>1. SoundModel(m)
    BY DEF ModelsSound
  <2>2. data \in DataSets /\ data.last > 0 /\ data.last = data.features
    BY <2>1, DataSetsAssumption DEF SoundModel
  <2>3. m.data = data /\ ReadBack(data) = data
    BY <2>1, <2>2, ReadBackOnce DEF SoundModel
  <2>4. f = [header |-> h, data |-> data, alpha |-> m.alpha]
    BY <2>3 DEF Saved
  <2>5. /\ h \in Seq(Entries(h)) /\ DOMAIN h \subseteq Int /\ KeysDiffer(h)
    BY <2>1, HeaderIsSound
  <2> HIDE DEF m
  <2>6. /\ Readable(f)
        /\ l = [kernel_type |-> m.kernel_type,
                gamma |-> IF m.kernel_type = "linear" THEN Default ELSE Written(m.gamma),
                data |-> data, alpha |-> m.alpha, w |-> 1]
    BY <2>1, <2>2, <2>3, LoadedIsSound
  <2> HIDE DEF l
  <2>7. Saved(l) = f
    <3>1. Header(l) = h
      <4>1. m.kernel_type \in {"linear", "polynomial", "rbf"}
        BY <2>1, KernelTypesAssumption DEF SoundModel
      <4>2. CASE m.kernel_type = "linear"
        <5>1. \A g1, g2, labels, counts :
                WriteHeader("linear", g1, labels, counts) = WriteHeader("linear", g2, labels, counts)
          BY DEF WriteHeader, ParameterEntries
        <5>2. l.kernel_type = "linear" /\ l.data = m.data
          BY <2>3, <2>6, <4>2
        <5>3. QED
          BY <4>2, <5>1, <5>2 DEF Header
      <4>3. CASE m.kernel_type # "linear"
        <5>1. Written(Written(m.gamma)) = Written(m.gamma)
          BY <2>1, <4>3, WrittenOnce DEF SoundModel
        <5>2. l.kernel_type = m.kernel_type /\ l.data = m.data /\ l.gamma = Written(m.gamma)
          BY <2>3, <2>6, <4>3
        <5>3. QED
          BY <5>1, <5>2, Zenon DEF Header
      <4>4. QED
        BY <4>2, <4>3
    <3>2. ReadBack(l.data) = data /\ l.alpha = m.alpha
      BY <2>3, <2>6
    <3>3. QED
      BY <2>4, <3>1, <3>2 DEF Saved
  <2>8. LET g == With(Reverse(h)) IN Readable(g) /\ Loaded(g, 1) = l
    <3>1. /\ Entries(Reverse(h)) = Entries(h) /\ KeysDiffer(Reverse(h))
          /\ DOMAIN Reverse(h) \subseteq Int
      BY <2>5, ReverseKeepsEntries
    <3> DEFINE r == Reverse(h)
    <3> HIDE DEF r
    <3>2. /\ Readable(With(r)) <=> data.last > 0
          /\ Loaded(With(r), 1) =
               [kernel_type |-> m.kernel_type,
                gamma |-> IF m.kernel_type = "linear" THEN Default ELSE Written(m.gamma),
                data |-> ReadBack(data), alpha |-> m.alpha, w |-> 1]
      BY <2>1, <3>1, LoadsWhatWasSaved DEF r
    <3>3. QED
      BY <2>2, <2>3, <2>6, <3>2 DEF r
  <2>9. ASSUME NEW k \in DOMAIN h, h[k].key \in Required PROVE ~Readable(With(RemoveAt(h, k)))
    <3> DEFINE r == RemoveAt(h, k)
    <3>1. ~(Required \subseteq Keys(r))
      BY <2>5, <2>9, RemovedIsGone
    <3> HIDE DEF r
    <3>2. ParseHeader(r, Default) = Error
      BY <3>1 DEF ParseHeader
    <3>3. With(r).header = r
      BY <2>4
    <3>4. QED
      BY <3>2, <3>3 DEF Readable, r
  <2>10. f.header = h /\ l.data = data
    BY <2>4, <2>6
  <2>11. QED
    BY <2>6, <2>7, <2>8, <2>9, <2>10 DEF l, m
<1>2. QED
  BY <1>1, ModelsSoundCorrect, PTL
=============================================================================
