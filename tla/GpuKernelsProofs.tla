------------------------- MODULE GpuKernelsProofs ---------------------------
(***************************************************************************)
(* No device uses memory that is not there, and q and the predictions are  *)
(* what they should be: for any sizes, devices and backends.               *)
(*                                                                         *)
(* What a device still has to execute was put into its queue by a program  *)
(* that allocates before and frees after it; what is proved first is that  *)
(* a program only goes on to free when the queue is empty (IInv).          *)
(*                                                                         *)
(* The commands of a call reach a device in one order (Nth), so that the   *)
(* number of those it has executed says what is in its buffers, wherever   *)
(* the host and the other devices are (ValuesInv).                         *)
(***************************************************************************)
EXTENDS GpuKernels, FiniteSetTheorems, SequenceTheorems, WellFoundedInduction, TLAPS

IsSeq(s) == \E S : s \in Seq(S)

Buffers == {"data_last_d", "data_d", "q_d", "alpha_d", "w_d", "out_d", "point_d"}

\* What is allocated when a phase begins.
Base(name) ==
    CASE name = "setup" -> {}
      [] name \in {"q", "alpha"} -> {"data_last_d", "data_d"}
      [] name = "reduction" -> {"data_last_d", "data_d", "q_d"}
      [] name \in {"w", "predict", "host"} -> {"data_last_d", "data_d", "alpha_d"}
      [] name = "release" /\ call.operation = "q" -> {"data_last_d", "data_d"}
      [] name = "release" /\ call.operation # "q" -> {"data_last_d", "data_d", "alpha_d"}

Size(b, dev) ==
    CASE b = "data_last_d" -> num_features_in_range(dev) + boundary_size
      [] b = "data_d" -> num_features_in_range(dev) * num_rows
      [] b = "q_d" -> num_support_vectors - 1 + boundary_size
      [] b = "alpha_d" -> num_support_vectors + THREAD_BLOCK_SIZE
      [] b = "w_d" -> num_features_in_range(dev)
      [] b = "out_d" -> num_predict_points + boundary_size
      [] b = "point_d" -> num_features * (num_predict_points + boundary_size)

\* The buffers that are allocated after the first k commands.
Live(commands, base, k) ==
    {b \in Buffers :
        /\ b \in base \/ \E j \in 1..k : commands[j].op = "allocate" /\ commands[j].buffer = b
        /\ \A j \in 1..k : ~(commands[j].op = "free" /\ commands[j].buffer = b)}

Whole(name, dev) == IF name = "host" THEN <<>> ELSE Program(name, dev)

Queued(c) ==
    /\ c.op \in {"memset", "copy_to_device", "q", "w", "predict", "copy_to_host"}
    /\ c.buffer \in Buffers
    /\ c.op = "q" => c.buffer = "q_d"
    /\ c.op = "w" => c.buffer = "w_d"
    /\ c.op = "predict" => c.buffer = "out_d" /\ call.kernel_type # "linear"

\* The device has nothing left to do, or the host waits until it has not.
Settled(dev) == waiting[dev] \/ queue[dev] = <<>>

\* The thread of a device has issued the first k commands of its phase.
Issued(dev, k) ==
    LET commands == Whole(Head(phase), dev)
    IN  /\ program[dev] = SubSeq(commands, k + 1, Len(commands))
        /\ DOMAIN mem[dev] = Live(commands, Base(Head(phase)), k)
        /\ k < Len(commands) /\ commands[k + 1].op = "free" => Settled(dev)
        /\ k = Len(commands) /\ Head(phase) # "q" => Settled(dev)

DeviceInv(dev) ==
    /\ \E k \in 0..Len(Whole(Head(phase), dev)) : Issued(dev, k)
    /\ \A b \in DOMAIN mem[dev] : DOMAIN mem[dev][b] = UpTo(Size(b, dev))
    /\ IsSeq(queue[dev])
    /\ \A x \in DOMAIN queue[dev] :
         Queued(queue[dev][x]) /\ Uses(queue[dev][x]) \subseteq DOMAIN mem[dev]

\* The phases that are left.
Stage ==
    \/ /\ call.operation = "q"
       /\ phase \in {<<"setup", "q", "reduction", "release">>, <<"q", "reduction", "release">>,
                     <<"reduction", "release">>, <<"release">>}
    \/ /\ call.operation = "predict" /\ call.kernel_type # "linear"
       /\ phase \in {<<"setup", "alpha", "predict", "release">>, <<"alpha", "predict", "release">>,
                     <<"predict", "release">>, <<"release">>}
    \/ /\ call.operation = "predict" /\ call.kernel_type = "linear"
       /\ phase \in {<<"setup", "alpha", "w", "host", "release">>, <<"alpha", "w", "host", "release">>,
                     <<"w", "host", "release">>, <<"setup", "alpha", "host", "release">>,
                     <<"alpha", "host", "release">>, <<"host", "release">>, <<"release">>}

IInv ==
    /\ call \in Calls /\ Stage
    /\ DOMAIN program = Devices /\ DOMAIN queue = Devices
    /\ DOMAIN waiting = Devices /\ DOMAIN mem = Devices
    /\ \A dev \in Devices : DeviceInv(dev)
----------------------------------------------------------------------------
(* Sequences of commands.                                                  *)

LEMMA AppendElements ==
    ASSUME NEW s, IsSeq(s), NEW c
    PROVE  /\ IsSeq(Append(s, c))
           /\ \A x \in DOMAIN Append(s, c) :
                \/ x \in DOMAIN s /\ Append(s, c)[x] = s[x]
                \/ Append(s, c)[x] = c
<1>1. PICK S : s \in Seq(S)
  BY DEF IsSeq
<1>2. s \in Seq(S \cup {c}) /\ c \in S \cup {c}
  BY <1>1
<1>3. Append(s, c) \in Seq(S \cup {c}) /\ Len(Append(s, c)) = Len(s) + 1
  BY <1>2
<1>4. \A x \in 1..(Len(s) + 1) : Append(s, c)[x] = IF x <= Len(s) THEN s[x] ELSE c
  BY <1>2, AppendProperties
<1>5. QED
  BY <1>2, <1>3, <1>4 DEF IsSeq

LEMMA TailElements ==
    ASSUME NEW s, IsSeq(s), s # <<>>
    PROVE  /\ IsSeq(Tail(s)) /\ Head(s) = s[1] /\ 1 \in DOMAIN s
           /\ \A x \in DOMAIN Tail(s) : x + 1 \in DOMAIN s /\ Tail(s)[x] = s[x + 1]
<1>1. PICK S : s \in Seq(S)
  BY DEF IsSeq
<1>2. Tail(s) \in Seq(S)
  BY <1>1
<1>3. QED
  BY <1>1, <1>2 DEF IsSeq

LEMMA EmptyIsSeq == IsSeq(<<>>) /\ DOMAIN <<>> = {}
<1>1. <<>> \in Seq({})
  OBVIOUS
<1>2. QED
  BY <1>1 DEF IsSeq

LEMMA Suffix ==
    ASSUME NEW s, IsSeq(s), NEW k \in 0..Len(s), NEW t, t = SubSeq(s, k + 1, Len(s))
    PROVE  /\ t = <<>> <=> k = Len(s)
           /\ t # <<>> => /\ k < Len(s) /\ k + 1 \in 0..Len(s)
                          /\ Head(t) = s[k + 1]
                          /\ Tail(t) = SubSeq(s, (k + 1) + 1, Len(s))
<1>1. PICK S : s \in Seq(S)
  BY DEF IsSeq
<1>2. k \in Nat /\ Len(s) \in Nat /\ k <= Len(s)
  BY <1>1
<1>3. t \in Seq(S) /\ Len(t) = Len(s) - k
  BY <1>1, <1>2
<1>5. t = <<>> <=> k = Len(s)
  <2>1. t = <<>> <=> Len(t) = 0
    BY <1>3, EmptySeq
  <2>2. QED
    BY <1>2, <1>3, <2>1
<1>6. ASSUME t # <<>>
      PROVE  /\ k < Len(s) /\ k + 1 \in 0..Len(s) /\ Head(t) = s[k + 1]
             /\ Tail(t) = SubSeq(s, (k + 1) + 1, Len(s))
  <2>1. k < Len(s) /\ k + 1 \in 0..Len(s)
    BY <1>2, <1>5, <1>6
  <2>2. k + 1 \in 1..Len(s) /\ Len(s) \in (k + 1)..Len(s)
    BY <1>2, <2>1
  <2>3. QED
    BY <1>1, <2>1, <2>2, HeadTailOfSubSeq
<1>7. QED
  BY <1>5, <1>6
----------------------------------------------------------------------------
(* The programs of the phases.                                             *)

Names == {"setup", "q", "reduction", "alpha", "w", "predict", "host", "release"}

\* What is allocated when the phase ends.
Left(name) ==
    CASE name = "setup" -> {"data_last_d", "data_d"}
      [] name = "q" -> {"data_last_d", "data_d", "q_d"}
      [] name = "reduction" -> {"data_last_d", "data_d"}
      [] name \in {"alpha", "w", "predict", "host"} -> {"data_last_d", "data_d", "alpha_d"}
      [] name = "release" -> {}

Ops == {"memset", "copy_to_device", "q", "w", "predict", "copy_to_host"}

\* Allocated before and freed after it is used, and freed only behind a command
\* that is waited for.
GoodProgram(P, name, dev) ==
    /\ IsSeq(P)
    /\ \A k \in 1..Len(P) :
         /\ P[k].op \in Ops \cup {"allocate", "free", "synchronize"}
         /\ P[k].op = "allocate" =>
              /\ P[k].buffer \in Buffers /\ P[k].size = Size(P[k].buffer, dev)
              /\ \A j \in 1..k : ~(P[j].op = "free" /\ P[j].buffer = P[k].buffer)
         /\ P[k].op \in Ops => Queued(P[k]) /\ Uses(P[k]) \subseteq Live(P, Base(name), k - 1)
         /\ P[k].op = "free" =>
              IF k = 1 THEN name = "release" ELSE P[k - 1].op \in {"copy_to_host", "free"}
    /\ name \notin {"q", "host"} => Len(P) > 0 /\ P[Len(P)].op \in {"copy_to_device", "free"}
    /\ Live(P, Base(name), Len(P)) = Left(name)

\* The fields that the proofs look at.
LEMMA Fields ==
    \A b, x, n :
        /\ Allocate(b, n).op = "allocate" /\ Allocate(b, n).buffer = b /\ Allocate(b, n).size = n
        /\ MemsetZero(b, x).op = "memset" /\ MemsetZero(b, x).buffer = b
        /\ CopyToDevice(b, x, n).op = "copy_to_device" /\ CopyToDevice(b, x, n).buffer = b
        /\ Kernel(x, b).op = x /\ Kernel(x, b).buffer = b
        /\ Synchronize.op = "synchronize"
        /\ CopyToHost(b).op = "copy_to_host" /\ CopyToHost(b).buffer = b
        /\ Free(b).op = "free" /\ Free(b).buffer = b
  BY DEF Allocate, MemsetZero, CopyToDevice, Kernel, Synchronize, CopyToHost, Free

\* A command uses its buffer, and a kernel what it reads.
LEMMA UsedBuffers ==
    \A c :
        /\ c.buffer \in Uses(c)
        /\ c.op = "q" => Uses(c) = {c.buffer, "data_d", "data_last_d"}
        /\ c.op = "w" => Uses(c) = {c.buffer, "data_d", "data_last_d", "alpha_d"}
        /\ c.op = "predict" => Uses(c) = {c.buffer, "data_d", "data_last_d", "alpha_d", "point_d"}
        /\ c.op \in {"memset", "copy_to_device", "copy_to_host"} => Uses(c) = {c.buffer}
  BY DEF Uses

LEMMA SetupProgram ==
    ASSUME NEW dev
    PROVE  GoodProgram(setup_data_on_device(dev), "setup", dev)
<1> DEFINE n == num_features_in_range(dev)
           size == n * num_rows
           last == [f \in UpTo(n) |-> SupportVector(num_support_vectors - 1, feature_ranges(dev - 1) + f)]
           data == [k \in UpTo(size) |->
                       transform_to_layout("sv", num_support_vectors - 1)[feature_ranges(dev - 1) * num_rows + k]]
           c1 == Allocate("data_last_d", n + boundary_size)
           c2 == MemsetZero("data_last_d", Zero)
           c3 == CopyToDevice("data_last_d", last, n)
           c4 == Allocate("data_d", size)
           c5 == CopyToDevice("data_d", data, size)
           P == setup_data_on_device(dev)
<1>1. P = <<c1, c2, c3, c4, c5>>
  BY DEF setup_data_on_device
<1>2. c1.size = Size("data_last_d", dev) /\ c4.size = Size("data_d", dev)
  BY Fields DEF Size
<1> HIDE DEF n, size, last, data
<1>3. /\ c1.op = "allocate" /\ c1.buffer = "data_last_d"
      /\ c2.op = "memset" /\ c2.buffer = "data_last_d"
      /\ c3.op = "copy_to_device" /\ c3.buffer = "data_last_d"
      /\ c4.op = "allocate" /\ c4.buffer = "data_d"
      /\ c5.op = "copy_to_device" /\ c5.buffer = "data_d"
  BY Fields
<1> HIDE DEF c1, c2, c3, c4, c5, P
<1>4. /\ IsSeq(P) /\ Len(P) = 5
      /\ P[1] = c1 /\ P[2] = c2 /\ P[3] = c3 /\ P[4] = c4 /\ P[5] = c5
  <2>1. <<c1, c2, c3, c4, c5>> \in Seq({c1, c2, c3, c4, c5})
    OBVIOUS
  <2>2. QED
    BY <1>1, <2>1 DEF IsSeq
<1>5. ASSUME NEW k \in 1..5
      PROVE  /\ P[k].op \in Ops \cup {"allocate", "free", "synchronize"}
             /\ P[k].op = "allocate" =>
                  /\ P[k].buffer \in Buffers /\ P[k].size = Size(P[k].buffer, dev)
                  /\ \A j \in 1..k : ~(P[j].op = "free" /\ P[j].buffer = P[k].buffer)
             /\ P[k].op \in Ops => Queued(P[k]) /\ Uses(P[k]) \subseteq Live(P, {}, k - 1)
             /\ P[k].op = "free" =>
                  IF k = 1 THEN "setup" = "release" ELSE P[k - 1].op \in {"copy_to_host", "free"}
  <2>1. CASE k = 1
    BY <1>2, <1>3, <1>4, <2>1 DEF Ops, Buffers
  <2>2. CASE k = 2
    BY <1>2, <1>3, <1>4, <2>2, UsedBuffers DEF Ops, Buffers, Queued, Live
  <2>3. CASE k = 3
    BY <1>2, <1>3, <1>4, <2>3, UsedBuffers DEF Ops, Buffers, Queued, Live
  <2>4. CASE k = 4
    BY <1>2, <1>3, <1>4, <2>4 DEF Ops, Buffers
  <2>5. CASE k = 5
    BY <1>2, <1>3, <1>4, <2>5, UsedBuffers DEF Ops, Buffers, Queued, Live
  <2>6. QED
    BY <2>1, <2>2, <2>3, <2>4, <2>5
<1>6. Live(P, {}, 5) = {"data_last_d", "data_d"}
  BY <1>3, <1>4 DEF Live, Buffers
<1>7. QED
  BY <1>3, <1>4, <1>5, <1>6 DEF GoodProgram, Base, Left, P

LEMMA QProgram ==
    ASSUME NEW dev
    PROVE  GoodProgram(generate_q(dev), "q", dev)
<1> DEFINE c1 == Allocate("q_d", num_support_vectors - 1 + boundary_size)
           c2 == MemsetZero("q_d", Zero)
           c3 == Kernel("q", "q_d")
           P == generate_q(dev)
<1>1. P = <<c1, c2, c3>>
  BY DEF generate_q
<1>2. c1.size = Size("q_d", dev)
  BY Fields DEF Size
<1>3. /\ c1.op = "allocate" /\ c1.buffer = "q_d"
      /\ c2.op = "memset" /\ c2.buffer = "q_d"
      /\ c3.op = "q" /\ c3.buffer = "q_d"
  BY Fields
<1> HIDE DEF c1, c2, c3, P
<1>4. /\ IsSeq(P) /\ Len(P) = 3
      /\ P[1] = c1 /\ P[2] = c2 /\ P[3] = c3
  <2>1. <<c1, c2, c3>> \in Seq({c1, c2, c3})
    OBVIOUS
  <2>2. QED
    BY <1>1, <2>1 DEF IsSeq
<1>5. ASSUME NEW k \in 1..3
      PROVE  /\ P[k].op \in Ops \cup {"allocate", "free", "synchronize"}
             /\ P[k].op = "allocate" =>
                  /\ P[k].buffer \in Buffers /\ P[k].size = Size(P[k].buffer, dev)
                  /\ \A j \in 1..k : ~(P[j].op = "free" /\ P[j].buffer = P[k].buffer)
             /\ P[k].op \in Ops => Queued(P[k]) /\ Uses(P[k]) \subseteq Live(P, {"data_last_d", "data_d"}, k - 1)
             /\ P[k].op = "free" =>
                  IF k = 1 THEN "q" = "release" ELSE P[k - 1].op \in {"copy_to_host", "free"}
  <2>1. CASE k = 1
    BY <1>2, <1>3, <1>4, <2>1 DEF Ops, Buffers
  <2>2. CASE k = 2
    BY <1>2, <1>3, <1>4, <2>2, UsedBuffers DEF Ops, Buffers, Queued, Live
  <2>3. CASE k = 3
    BY <1>2, <1>3, <1>4, <2>3, UsedBuffers DEF Ops, Buffers, Queued, Live
  <2>4. QED
    BY <2>1, <2>2, <2>3
<1>6. Live(P, {"data_last_d", "data_d"}, 3) = {"data_last_d", "data_d", "q_d"}
  BY <1>3, <1>4 DEF Live, Buffers
<1>7. QED
  BY <1>3, <1>4, <1>5, <1>6 DEF GoodProgram, Base, Left, P

LEMMA ReductionProgram ==
    ASSUME NEW dev
    PROVE  GoodProgram(device_reduction(dev), "reduction", dev)
<1> DEFINE c1 == Synchronize
           c2 == CopyToHost("q_d")
           c3 == Free("q_d")
           P == device_reduction(dev)
<1>1. P = <<c1, c2, c3>>
  BY DEF device_reduction
<1>3. /\ c1.op = "synchronize"
      /\ c2.op = "copy_to_host" /\ c2.buffer = "q_d"
      /\ c3.op = "free" /\ c3.buffer = "q_d"
  BY Fields
<1> HIDE DEF c1, c2, c3, P
<1>4. /\ IsSeq(P) /\ Len(P) = 3
      /\ P[1] = c1 /\ P[2] = c2 /\ P[3] = c3
  <2>1. <<c1, c2, c3>> \in Seq({c1, c2, c3})
    OBVIOUS
  <2>2. QED
    BY <1>1, <2>1 DEF IsSeq
<1>5. ASSUME NEW k \in 1..3
      PROVE  /\ P[k].op \in Ops \cup {"allocate", "free", "synchronize"}
             /\ P[k].op = "allocate" =>
                  /\ P[k].buffer \in Buffers /\ P[k].size = Size(P[k].buffer, dev)
                  /\ \A j \in 1..k : ~(P[j].op = "free" /\ P[j].buffer = P[k].buffer)
             /\ P[k].op \in Ops => Queued(P[k]) /\ Uses(P[k]) \subseteq Live(P, {"data_last_d", "data_d", "q_d"}, k - 1)
             /\ P[k].op = "free" =>
                  IF k = 1 THEN "reduction" = "release" ELSE P[k - 1].op \in {"copy_to_host", "free"}
  <2>1. CASE k = 1
    BY <1>3, <1>4, <2>1 DEF Ops
  <2>2. CASE k = 2
    BY <1>3, <1>4, <2>2, UsedBuffers DEF Ops, Buffers, Queued, Live
  <2>3. CASE k = 3
    BY <1>3, <1>4, <2>3 DEF Ops
  <2>4. QED
    BY <2>1, <2>2, <2>3
<1>6. Live(P, {"data_last_d", "data_d", "q_d"}, 3) = {"data_last_d", "data_d"}
  BY <1>3, <1>4 DEF Live, Buffers
<1>7. QED
  BY <1>3, <1>4, <1>5, <1>6 DEF GoodProgram, Base, Left, P

LEMMA AlphaProgram ==
    ASSUME NEW dev
    PROVE  GoodProgram(setup_alpha(dev), "alpha", dev)
<1> DEFINE weights == [i \in UpTo(num_support_vectors) |-> Alpha(i)]
           c1 == Allocate("alpha_d", num_support_vectors + THREAD_BLOCK_SIZE)
           c2 == MemsetZero("alpha_d", Zero)
           c3 == CopyToDevice("alpha_d", weights, num_support_vectors)
           P == setup_alpha(dev)
<1>1. P = <<c1, c2, c3>>
  BY DEF setup_alpha
<1>2. c1.size = Size("alpha_d", dev)
  BY Fields DEF Size
<1> HIDE DEF weights
<1>3. /\ c1.op = "allocate" /\ c1.buffer = "alpha_d"
      /\ c2.op = "memset" /\ c2.buffer = "alpha_d"
      /\ c3.op = "copy_to_device" /\ c3.buffer = "alpha_d"
  BY Fields
<1> HIDE DEF c1, c2, c3, P
<1>4. /\ IsSeq(P) /\ Len(P) = 3
      /\ P[1] = c1 /\ P[2] = c2 /\ P[3] = c3
  <2>1. <<c1, c2, c3>> \in Seq({c1, c2, c3})
    OBVIOUS
  <2>2. QED
    BY <1>1, <2>1 DEF IsSeq
<1>5. ASSUME NEW k \in 1..3
      PROVE  /\ P[k].op \in Ops \cup {"allocate", "free", "synchronize"}
             /\ P[k].op = "allocate" =>
                  /\ P[k].buffer \in Buffers /\ P[k].size = Size(P[k].buffer, dev)
                  /\ \A j \in 1..k : ~(P[j].op = "free" /\ P[j].buffer = P[k].buffer)
             /\ P[k].op \in Ops => Queued(P[k]) /\ Uses(P[k]) \subseteq Live(P, {"data_last_d", "data_d"}, k - 1)
             /\ P[k].op = "free" =>
                  IF k = 1 THEN "alpha" = "release" ELSE P[k - 1].op \in {"copy_to_host", "free"}
  <2>1. CASE k = 1
    BY <1>2, <1>3, <1>4, <2>1 DEF Ops, Buffers
  <2>2. CASE k = 2
    BY <1>2, <1>3, <1>4, <2>2, UsedBuffers DEF Ops, Buffers, Queued, Live
  <2>3. CASE k = 3
    BY <1>2, <1>3, <1>4, <2>3, UsedBuffers DEF Ops, Buffers, Queued, Live
  <2>4. QED
    BY <2>1, <2>2, <2>3
<1>6. Live(P, {"data_last_d", "data_d"}, 3) = {"data_last_d", "data_d", "alpha_d"}
  BY <1>3, <1>4 DEF Live, Buffers
<1>7. QED
  BY <1>3, <1>4, <1>5, <1>6 DEF GoodProgram, Base, Left, P

LEMMA WProgram ==
    ASSUME NEW dev
    PROVE  GoodProgram(calculate_w(dev), "w", dev)
<1> DEFINE c1 == Allocate("w_d", num_features_in_range(dev))
           c2 == Kernel("w", "w_d")
           c3 == Synchronize
           c4 == CopyToHost("w_d")
           c5 == Free("w_d")
           P == calculate_w(dev)
<1>1. P = <<c1, c2, c3, c4, c5>>
  BY DEF calculate_w
<1>2. c1.size = Size("w_d", dev)
  BY Fields DEF Size
<1>3. /\ c1.op = "allocate" /\ c1.buffer = "w_d"
      /\ c2.op = "w" /\ c2.buffer = "w_d"
      /\ c3.op = "synchronize"
      /\ c4.op = "copy_to_host" /\ c4.buffer = "w_d"
      /\ c5.op = "free" /\ c5.buffer = "w_d"
  BY Fields
<1> HIDE DEF c1, c2, c3, c4, c5, P
<1>4. /\ IsSeq(P) /\ Len(P) = 5
      /\ P[1] = c1 /\ P[2] = c2 /\ P[3] = c3 /\ P[4] = c4 /\ P[5] = c5
  <2>1. <<c1, c2, c3, c4, c5>> \in Seq({c1, c2, c3, c4, c5})
    OBVIOUS
  <2>2. QED
    BY <1>1, <2>1 DEF IsSeq
<1>5. ASSUME NEW k \in 1..5
      PROVE  /\ P[k].op \in Ops \cup {"allocate", "free", "synchronize"}
             /\ P[k].op = "allocate" =>
                  /\ P[k].buffer \in Buffers /\ P[k].size = Size(P[k].buffer, dev)
                  /\ \A j \in 1..k : ~(P[j].op = "free" /\ P[j].buffer = P[k].buffer)
             /\ P[k].op \in Ops => Queued(P[k]) /\ Uses(P[k]) \subseteq Live(P, {"data_last_d", "data_d", "alpha_d"}, k - 1)
             /\ P[k].op = "free" =>
                  IF k = 1 THEN "w" = "release" ELSE P[k - 1].op \in {"copy_to_host", "free"}
  <2>1. CASE k = 1
    BY <1>2, <1>3, <1>4, <2>1 DEF Ops, Buffers
  <2>2. CASE k = 2
    BY <1>2, <1>3, <1>4, <2>2, UsedBuffers DEF Ops, Buffers, Queued, Live
  <2>3. CASE k = 3
    BY <1>2, <1>3, <1>4, <2>3 DEF Ops
  <2>4. CASE k = 4
    BY <1>2, <1>3, <1>4, <2>4, UsedBuffers DEF Ops, Buffers, Queued, Live
  <2>5. CASE k = 5
    BY <1>2, <1>3, <1>4, <2>5 DEF Ops
  <2>6. QED
    BY <2>1, <2>2, <2>3, <2>4, <2>5
<1>6. Live(P, {"data_last_d", "data_d", "alpha_d"}, 5) = {"data_last_d", "data_d", "alpha_d"}
  BY <1>3, <1>4 DEF Live, Buffers
<1>7. QED
  BY <1>3, <1>4, <1>5, <1>6 DEF GoodProgram, Base, Left, P

LEMMA PredictProgram ==
    ASSUME NEW dev, call.kernel_type # "linear"
    PROVE  GoodProgram(predict(dev), "predict", dev)
<1> DEFINE size == num_features * (num_predict_points + boundary_size)
           points == transform_to_layout("point", num_predict_points)
           c1 == Allocate("out_d", num_predict_points + boundary_size)
           c2 == MemsetZero("out_d", EmptyBag)
           c3 == Allocate("point_d", size)
           c4 == MemsetZero("point_d", Zero)
           c5 == CopyToDevice("point_d", points, size)
           c6 == Kernel("predict", "out_d")
           c7 == CopyToHost("out_d")
           c8 == Free("point_d")
           c9 == Free("out_d")
           P == predict(dev)
<1>1. P = <<c1, c2, c3, c4, c5, c6, c7, c8, c9>>
  BY DEF predict
<1>2. c1.size = Size("out_d", dev) /\ c3.size = Size("point_d", dev)
  BY Fields DEF Size
<1> HIDE DEF size, points
<1>3. /\ c1.op = "allocate" /\ c1.buffer = "out_d"
      /\ c2.op = "memset" /\ c2.buffer = "out_d"
      /\ c3.op = "allocate" /\ c3.buffer = "point_d"
      /\ c4.op = "memset" /\ c4.buffer = "point_d"
      /\ c5.op = "copy_to_device" /\ c5.buffer = "point_d"
      /\ c6.op = "predict" /\ c6.buffer = "out_d"
      /\ c7.op = "copy_to_host" /\ c7.buffer = "out_d"
      /\ c8.op = "free" /\ c8.buffer = "point_d"
      /\ c9.op = "free" /\ c9.buffer = "out_d"
  BY Fields
<1> HIDE DEF c1, c2, c3, c4, c5, c6, c7, c8, c9, P
<1>4. /\ IsSeq(P) /\ Len(P) = 9
      /\ P[1] = c1 /\ P[2] = c2 /\ P[3] = c3 /\ P[4] = c4 /\ P[5] = c5 /\ P[6] = c6 /\ P[7] = c7 /\ P[8] = c8 /\ P[9] = c9
  <2>1. <<c1, c2, c3, c4, c5, c6, c7, c8, c9>> \in Seq({c1, c2, c3, c4, c5, c6, c7, c8, c9})
    OBVIOUS
  <2>2. QED
    BY <1>1, <2>1 DEF IsSeq
<1>5. ASSUME NEW k \in 1..9
      PROVE  /\ P[k].op \in Ops \cup {"allocate", "free", "synchronize"}
             /\ P[k].op = "allocate" =>
                  /\ P[k].buffer \in Buffers /\ P[k].size = Size(P[k].buffer, dev)
                  /\ \A j \in 1..k : ~(P[j].op = "free" /\ P[j].buffer = P[k].buffer)
             /\ P[k].op \in Ops => Queued(P[k]) /\ Uses(P[k]) \subseteq Live(P, {"data_last_d", "data_d", "alpha_d"}, k - 1)
             /\ P[k].op = "free" =>
                  IF k = 1 THEN "predict" = "release" ELSE P[k - 1].op \in {"copy_to_host", "free"}
  <2>1. CASE k = 1
    BY <1>2, <1>3, <1>4, <2>1 DEF Ops, Buffers
  <2>2. CASE k = 2
    BY <1>2, <1>3, <1>4, <2>2, UsedBuffers DEF Ops, Buffers, Queued, Live
  <2>3. CASE k = 3
    BY <1>2, <1>3, <1>4, <2>3 DEF Ops, Buffers
  <2>4. CASE k = 4
    BY <1>2, <1>3, <1>4, <2>4, UsedBuffers DEF Ops, Buffers, Queued, Live
  <2>5. CASE k = 5
    BY <1>2, <1>3, <1>4, <2>5, UsedBuffers DEF Ops, Buffers, Queued, Live
  <2>6. CASE k = 6
    BY <1>2, <1>3, <1>4, <2>6, UsedBuffers DEF Ops, Buffers, Queued, Live
  <2>7. CASE k = 7
    BY <1>2, <1>3, <1>4, <2>7, UsedBuffers DEF Ops, Buffers, Queued, Live
  <2>8. CASE k = 8
    BY <1>2, <1>3, <1>4, <2>8 DEF Ops
  <2>9. CASE k = 9
    BY <1>2, <1>3, <1>4, <2>9 DEF Ops
  <2>10. QED
    BY <2>1, <2>2, <2>3, <2>4, <2>5, <2>6, <2>7, <2>8, <2>9
<1>6. Live(P, {"data_last_d", "data_d", "alpha_d"}, 9) = {"data_last_d", "data_d", "alpha_d"}
  BY <1>3, <1>4 DEF Live, Buffers
<1>7. QED
  BY <1>3, <1>4, <1>5, <1>6 DEF GoodProgram, Base, Left, P

LEMMA ReleaseAllProgram ==
    ASSUME NEW dev, call.operation = "predict"
    PROVE  GoodProgram(release(dev), "release", dev)
<1> DEFINE c1 == Free("alpha_d")
           c2 == Free("data_last_d")
           c3 == Free("data_d")
           P == release(dev)
<1>1. P = <<c1, c2, c3>>
  <2>1. ASSUME NEW a, NEW b, NEW c PROVE <<a>> \o <<b, c>> = <<a, b, c>>
    <3> DEFINE s == <<a>>
               t == <<b, c>>
               u == <<a, b, c>>
    <3>1. /\ s \in Seq({a, b, c}) /\ t \in Seq({a, b, c}) /\ u \in Seq({a, b, c})
          /\ Len(s) = 1 /\ Len(t) = 2 /\ Len(u) = 3
          /\ s[1] = a /\ t[1] = b /\ t[2] = c /\ u[1] = a /\ u[2] = b /\ u[3] = c
      OBVIOUS
    <3> HIDE DEF s, t, u
    <3>2. /\ s \o t \in Seq({a, b, c}) /\ Len(s \o t) = 3
          /\ \A x \in 1..3 : (s \o t)[x] = IF x <= 1 THEN s[x] ELSE t[x - 1]
      BY <3>1, ConcatProperties
    <3>3. \A x \in 1..3 : (s \o t)[x] = u[x]
      BY <3>1, <3>2
    <3>4. s \o t = u
      BY <3>1, <3>2, <3>3, SeqEqual
    <3>5. QED
      BY <3>4 DEF s, t, u
  <2>2. P = <<c1>> \o <<c2, c3>>
    BY DEF release
  <2>3. QED
    BY <2>1, <2>2, Zenon
<1>3. /\ c1.op = "free" /\ c1.buffer = "alpha_d"
      /\ c2.op = "free" /\ c2.buffer = "data_last_d"
      /\ c3.op = "free" /\ c3.buffer = "data_d"
  BY Fields
<1> HIDE DEF c1, c2, c3, P
<1>4. /\ IsSeq(P) /\ Len(P) = 3
      /\ P[1] = c1 /\ P[2] = c2 /\ P[3] = c3
  <2>1. <<c1, c2, c3>> \in Seq({c1, c2, c3})
    OBVIOUS
  <2>2. QED
    BY <1>1, <2>1 DEF IsSeq
<1>5. ASSUME NEW k \in 1..3
      PROVE  /\ P[k].op \in Ops \cup {"allocate", "free", "synchronize"}
             /\ P[k].op = "allocate" =>
                  /\ P[k].buffer \in Buffers /\ P[k].size = Size(P[k].buffer, dev)
                  /\ \A j \in 1..k : ~(P[j].op = "free" /\ P[j].buffer = P[k].buffer)
             /\ P[k].op \in Ops => Queued(P[k]) /\ Uses(P[k]) \subseteq Live(P, {"data_last_d", "data_d", "alpha_d"}, k - 1)
             /\ P[k].op = "free" =>
                  IF k = 1 THEN "release" = "release" ELSE P[k - 1].op \in {"copy_to_host", "free"}
  <2>1. CASE k = 1
    BY <1>3, <1>4, <2>1 DEF Ops
  <2>2. CASE k = 2
    BY <1>3, <1>4, <2>2 DEF Ops
  <2>3. CASE k = 3
    BY <1>3, <1>4, <2>3 DEF Ops
  <2>4. QED
    BY <2>1, <2>2, <2>3
<1>6. Live(P, {"data_last_d", "data_d", "alpha_d"}, 3) = {}
  BY <1>3, <1>4 DEF Live, Buffers
<1>7. QED
  BY <1>3, <1>4, <1>5, <1>6 DEF GoodProgram, Base, Left, P

LEMMA ReleaseDataProgram ==
    ASSUME NEW dev, call.operation = "q"
    PROVE  GoodProgram(release(dev), "release", dev)
<1> DEFINE c1 == Free("data_last_d")
           c2 == Free("data_d")
           P == release(dev)
<1>1. P = <<c1, c2>>
  BY DEF release
<1>3. /\ c1.op = "free" /\ c1.buffer = "data_last_d"
      /\ c2.op = "free" /\ c2.buffer = "data_d"
  BY Fields
<1> HIDE DEF c1, c2, P
<1>4. /\ IsSeq(P) /\ Len(P) = 2
      /\ P[1] = c1 /\ P[2] = c2
  <2>1. <<c1, c2>> \in Seq({c1, c2})
    OBVIOUS
  <2>2. QED
    BY <1>1, <2>1 DEF IsSeq
<1>5. ASSUME NEW k \in 1..2
      PROVE  /\ P[k].op \in Ops \cup {"allocate", "free", "synchronize"}
             /\ P[k].op = "allocate" =>
                  /\ P[k].buffer \in Buffers /\ P[k].size = Size(P[k].buffer, dev)
                  /\ \A j \in 1..k : ~(P[j].op = "free" /\ P[j].buffer = P[k].buffer)
             /\ P[k].op \in Ops => Queued(P[k]) /\ Uses(P[k]) \subseteq Live(P, {"data_last_d", "data_d"}, k - 1)
             /\ P[k].op = "free" =>
                  IF k = 1 THEN "release" = "release" ELSE P[k - 1].op \in {"copy_to_host", "free"}
  <2>1. CASE k = 1
    BY <1>3, <1>4, <2>1 DEF Ops
  <2>2. CASE k = 2
    BY <1>3, <1>4, <2>2 DEF Ops
  <2>3. QED
    BY <2>1, <2>2
<1>6. Live(P, {"data_last_d", "data_d"}, 2) = {}
  BY <1>3, <1>4 DEF Live, Buffers
<1>7. QED
  BY <1>3, <1>4, <1>5, <1>6 DEF GoodProgram, Base, Left, P

LEMMA NoProgram == ASSUME NEW dev PROVE GoodProgram(<<>>, "host", dev)
<1>1. Len(<<>>) = 0 /\ IsSeq(<<>>)
  BY EmptyIsSeq
<1>2. Live(<<>>, {"data_last_d", "data_d", "alpha_d"}, 0) = {"data_last_d", "data_d", "alpha_d"}
  BY DEF Live, Buffers
<1>3. QED
  BY <1>1, <1>2 DEF GoodProgram, Base, Left

LEMMA WholeIsGood ==
    ASSUME NEW dev, NEW name \in Names, call.operation \in {"q", "predict"},
           name = "predict" => call.kernel_type # "linear"
    PROVE  GoodProgram(Whole(name, dev), name, dev)
<1>1. /\ Whole("setup", dev) = setup_data_on_device(dev) /\ Whole("q", dev) = generate_q(dev)
      /\ Whole("reduction", dev) = device_reduction(dev) /\ Whole("alpha", dev) = setup_alpha(dev)
      /\ Whole("w", dev) = calculate_w(dev) /\ Whole("predict", dev) = predict(dev)
      /\ Whole("release", dev) = release(dev) /\ Whole("host", dev) = <<>>
  BY DEF Whole, Program
<1>2. QED
  BY <1>1, SetupProgram, QProgram, ReductionProgram, AlphaProgram, WProgram, PredictProgram,
     ReleaseAllProgram, ReleaseDataProgram, NoProgram DEF Names
----------------------------------------------------------------------------
(* Sizes: none is zero, and the threads of a kernel fit into the padding.  *)

LEMMA Division ==
    ASSUME NEW a \in Nat, NEW d \in Nat \ {0}
    PROVE  a \div d \in Nat /\ d * (a \div d) <= a /\ a < d * (a \div d) + d
  OBVIOUS

LEMMA DivisionStep ==
    ASSUME NEW a \in Nat, NEW b \in Nat, NEW d \in Nat \ {0}, b >= a + d
    PROVE  (b \div d) - (a \div d) \in Nat \ {0}
<1> DEFINE x == a \div d
           y == b \div d
<1>1. x \in Nat /\ d * x <= a /\ y \in Nat /\ b < d * y + d
  BY Division
<1> HIDE DEF x, y
<1>2. d * x + d < d * y + d
  BY <1>1
<1>3. x < y
  <2>1. SUFFICES ASSUME x >= y PROVE FALSE
    BY <1>1
  <2>2. d * x >= d * y
    BY <1>1, <2>1
  <2>3. QED
    BY <1>1, <1>2, <2>2
<1>4. y - x \in Nat \ {0}
  BY <1>1, <1>3
<1>5. QED
  BY <1>4 DEF x, y

LEMMA RangesNotEmpty ==
    ASSUME call \in Calls, NEW dev \in Devices
    PROVE  num_features_in_range(dev) \in Nat \ {0}
<1> DEFINE n == num_features
           d == select_num_used_devices
<1>1. n \in Nat \ {0} /\ d \in 1..n /\ dev \in 1..d
  BY CallsAssumption DEF num_features, select_num_used_devices, Least, Devices
<1>2. num_features_in_range(dev) = (dev * n) \div d - ((dev - 1) * n) \div d
  BY DEF num_features_in_range, feature_ranges
<1> HIDE DEF n, d
<1>3. d \in Nat \ {0} /\ dev \in Nat /\ dev - 1 \in Nat
  BY <1>1
<1>4. dev * n \in Nat /\ (dev - 1) * n \in Nat /\ dev * n >= (dev - 1) * n + d
  BY <1>1, <1>3
<1> DEFINE a == (dev - 1) * n
           b == dev * n
<1> HIDE DEF a, b
<1>5. (b \div d) - (a \div d) \in Nat \ {0}
  BY <1>3, <1>4, DivisionStep DEF a, b
<1>6. QED
  BY <1>2, <1>5 DEF a, b

LEMMA SizesNotZero ==
    ASSUME call \in Calls, NEW dev \in Devices, NEW b \in Buffers
    PROVE  Size(b, dev) \in Nat \ {0}
<1> DEFINE n == num_features_in_range(dev)
<1>1. n \in Nat \ {0}
  BY RangesNotEmpty
<1> HIDE DEF n
<1>2. /\ num_support_vectors \in Nat \ {0, 1} /\ num_predict_points \in Nat \ {0}
      /\ num_features \in Nat \ {0} /\ THREAD_BLOCK_SIZE \in Nat \ {0}
  BY CallsAssumption DEF num_support_vectors, num_predict_points, num_features
<1>3. boundary_size \in Nat \ {0}
  BY CallsAssumption DEF boundary_size
<1>4. num_rows \in Nat \ {0}
  BY <1>2, <1>3 DEF num_rows
<1>5. \A x, y \in Nat \ {0} : x * y \in Nat \ {0} /\ x + y \in Nat \ {0}
  OBVIOUS
<1>6. n * num_rows \in Nat \ {0} /\ num_features * (num_predict_points + boundary_size) \in Nat \ {0}
  BY <1>1, <1>2, <1>3, <1>4, <1>5
<1>7. num_support_vectors - 1 + boundary_size \in Nat \ {0}
  BY <1>2, <1>3
<1>8. QED
  BY <1>1, <1>2, <1>3, <1>5, <1>6, <1>7 DEF Size, Buffers, n

\* Where a block of threads ends.
LEMMA Blocks ==
    ASSUME NEW n \in Nat \ {0}, NEW T \in Nat \ {0}
    PROVE  LET threads == CeilDiv(n, T) * Least(T, n)
           IN  /\ threads \in Nat /\ n <= threads /\ threads <= n + T - 1
               /\ n <= T \/ n % T = 0 => threads = n
<1> DEFINE a == n + T - 1
           d == a \div T
<1>1. a \in Nat /\ a >= T
  OBVIOUS
<1>2. d \in Nat /\ T * d <= a /\ a < T * d + T
  BY <1>1, Division
<1> HIDE DEF d
<1>3. CASE n <= T
  <2>1. Least(T, n) = n
    BY <1>3 DEF Least
  <2>2. d = 1
    <3>1. d # 0
      BY <1>1, <1>2
    <3>2. ~(d >= 2)
      <4>1. ASSUME d >= 2 PROVE T * d >= T + T
        BY <1>2, <4>1
      <4>2. QED
        BY <1>2, <1>3, <4>1
    <3>3. QED
      BY <1>2, <3>1, <3>2
  <2>3. CeilDiv(n, T) = 1
    BY <2>2 DEF CeilDiv, d
  <2>4. QED
    BY <1>3, <2>1, <2>3
<1>4. CASE T < n
  <2>1. CeilDiv(n, T) = d /\ Least(T, n) = T
    BY <1>4 DEF CeilDiv, Least, d
  <2>2. d * T = T * d
    BY <1>2
  <2> DEFINE t == T * d
  <2>3. t \in Nat /\ t <= a /\ a < t + T
    BY <1>2
  <2>4. n % T = 0 => t = n
    <3>1. ASSUME n % T = 0 PROVE t = n
      <4> DEFINE k == n \div T
      <4>1. k \in Nat /\ n = T * k
        BY <3>1
      <4> HIDE DEF k
      <4>2. d = k
        <5>1. ~(d < k)
          <6>1. ASSUME d < k PROVE T * d + T <= T * k
            <7>1. d + 1 <= k
              BY <1>2, <4>1, <6>1
            <7>2. T * (d + 1) <= T * k
              BY <1>2, <4>1, <7>1
            <7>3. T * (d + 1) = T * d + T
              BY <1>2
            <7>4. QED
              BY <7>2, <7>3
          <6>2. QED
            BY <1>2, <4>1, <6>1
        <5>2. ~(d > k)
          <6>1. ASSUME d > k PROVE T * k + T <= T * d
            <7>1. k + 1 <= d
              BY <1>2, <4>1, <6>1
            <7>2. T * (k + 1) <= T * d
              BY <1>2, <4>1, <7>1
            <7>3. T * (k + 1) = T * k + T
              BY <4>1
            <7>4. QED
              BY <7>2, <7>3
          <6>2. QED
            BY <1>2, <4>1, <6>1
        <5>3. QED
          BY <1>2, <4>1, <5>1, <5>2
      <4>3. QED
        BY <4>1, <4>2
    <3>2. QED
      BY <3>1
  <2> HIDE DEF t
  <2>5. QED
    BY <1>4, <2>1, <2>2, <2>3, <2>4 DEF t
<1>5. QED
  BY <1>3, <1>4

\* Whole blocks have a thread for every value, and what is left of the last
\* one stays in the padding.
LEMMA ExecutionRange ==
    ASSUME NEW n \in Nat \ {0}
    PROVE  /\ UpTo(n) \subseteq execution_range(n) /\ execution_range(n) \subseteq UpTo(n + THREAD_BLOCK_SIZE - 1)
           /\ IsFiniteSet(execution_range(n))
           /\ n <= THREAD_BLOCK_SIZE \/ n % THREAD_BLOCK_SIZE = 0 => execution_range(n) = UpTo(n)
<1> DEFINE T == THREAD_BLOCK_SIZE
           threads == CeilDiv(n, T) * Least(T, n)
<1>1. T \in Nat \ {0}
  BY CallsAssumption
<1>2. /\ threads \in Nat /\ n <= threads /\ threads <= n + T - 1
      /\ n <= T \/ n % T = 0 => threads = n
  BY <1>1, Blocks
<1>3. execution_range(n) = 0..(threads - 1)
  BY DEF execution_range, UpTo
<1> HIDE DEF threads, T
<1>4. IsFiniteSet(0..(threads - 1))
  BY <1>2, FS_Interval
<1>5. QED
  BY <1>1, <1>2, <1>3, <1>4 DEF UpTo, T

----------------------------------------------------------------------------
(* The steps.                                                              *)

LEMMA CallStays ==
    ASSUME call' = call, NEW dev
    PROVE  /\ Whole(Head(phase), dev)' = Whole(Head(phase'), dev)
           /\ Base(Head(phase))' = Base(Head(phase'))
           /\ Devices' = Devices
           /\ \A b : Size(b, dev)' = Size(b, dev)
           /\ \A c : Queued(c)' <=> Queued(c)
<1> USE DEF num_features, num_support_vectors, num_predict_points, num_rows, boundary_size,
            select_num_used_devices, feature_ranges, num_features_in_range
<1>1. Devices' = Devices
  BY DEF Devices
<1>2. \A b : Size(b, dev)' = Size(b, dev)
  BY DEF Size
<1>3. Base(Head(phase))' = Base(Head(phase'))
  BY DEF Base
<1>4. /\ setup_data_on_device(dev)' = setup_data_on_device(dev)
      /\ generate_q(dev)' = generate_q(dev)
      /\ device_reduction(dev)' = device_reduction(dev)
      /\ setup_alpha(dev)' = setup_alpha(dev)
      /\ calculate_w(dev)' = calculate_w(dev)
      /\ predict(dev)' = predict(dev)
      /\ release(dev)' = release(dev)
  BY DEF setup_data_on_device, generate_q, device_reduction, setup_alpha, calculate_w, predict, release,
         transform_to_layout
<1>5. Whole(Head(phase), dev)' = Whole(Head(phase'), dev)
  BY <1>4 DEF Whole, Program
<1>6. \A c : Queued(c)' <=> Queued(c)
  BY DEF Queued
<1>7. QED
  BY <1>1, <1>2, <1>3, <1>5, <1>6
LEMMA LiveStep ==
    ASSUME NEW P, NEW base, NEW k \in Nat
    PROVE  /\ /\ P[k + 1].op = "allocate" /\ P[k + 1].buffer \in Buffers
              /\ \A j \in 1..(k + 1) : ~(P[j].op = "free" /\ P[j].buffer = P[k + 1].buffer)
              => Live(P, base, k + 1) = Live(P, base, k) \cup {P[k + 1].buffer}
           /\ P[k + 1].op = "free" => Live(P, base, k + 1) = Live(P, base, k) \ {P[k + 1].buffer}
           /\ P[k + 1].op \notin {"allocate", "free"} => Live(P, base, k + 1) = Live(P, base, k)
<1>1. \A j : j \in 1..(k + 1) <=> j \in 1..k \/ j = k + 1
  OBVIOUS
<1> DEFINE allocated(b, l) == \E j \in 1..l : P[j].op = "allocate" /\ P[j].buffer = b
           freed(b, l) == \E j \in 1..l : P[j].op = "free" /\ P[j].buffer = b
<1>2. \A b : allocated(b, k + 1) <=> allocated(b, k) \/ (P[k + 1].op = "allocate" /\ P[k + 1].buffer = b)
  BY <1>1, Zenon
<1>3. \A b : freed(b, k + 1) <=> freed(b, k) \/ (P[k + 1].op = "free" /\ P[k + 1].buffer = b)
  BY <1>1, Zenon
<1>4. \A l : Live(P, base, l) = {b \in Buffers : (b \in base \/ allocated(b, l)) /\ ~freed(b, l)}
  BY Zenon DEF Live
<1>5. ASSUME P[k + 1].op = "allocate", P[k + 1].buffer \in Buffers,
             \A j \in 1..(k + 1) : ~(P[j].op = "free" /\ P[j].buffer = P[k + 1].buffer)
      PROVE  Live(P, base, k + 1) = Live(P, base, k) \cup {P[k + 1].buffer}
  <2>1. ~freed(P[k + 1].buffer, k + 1)
    BY <1>5, Zenon
  <2> HIDE DEF allocated, freed
  <2>2. QED
    BY <1>2, <1>3, <1>4, <1>5, <2>1
<1> HIDE DEF allocated, freed
<1>6. QED
  BY <1>2, <1>3, <1>4, <1>5

\* The next command of a program.
LEMMA NextCommand ==
    ASSUME IInv, NEW dev \in Devices, program[dev] # <<>>
    PROVE  \E k \in Nat : LET commands == Whole(Head(phase), dev)
                          IN  /\ Issued(dev, k) /\ GoodProgram(commands, Head(phase), dev)
                              /\ Head(phase) # "host"
                              /\ k + 1 \in 1..Len(commands) /\ Len(commands) \in Nat
                              /\ Head(program[dev]) = commands[k + 1]
                              /\ Tail(program[dev]) = SubSeq(commands, (k + 1) + 1, Len(commands))
<1> DEFINE commands == Whole(Head(phase), dev)
<1>1. /\ Head(phase) \in Names /\ call.operation \in {"q", "predict"}
      /\ Head(phase) = "predict" => call.kernel_type # "linear"
  BY DEF IInv, Stage, Names
<1>2. GoodProgram(commands, Head(phase), dev)
  BY <1>1, WholeIsGood
<1>3. PICK k \in 0..Len(commands) : Issued(dev, k)
  BY DEF IInv, DeviceInv
<1>4. program[dev] = SubSeq(commands, k + 1, Len(commands))
  BY <1>3 DEF Issued
<1>5. IsSeq(commands) /\ Len(commands) \in Nat
  BY <1>2 DEF GoodProgram, IsSeq
<1>6. Head(phase) # "host"
  <2>1. Head(phase) = "host" => Len(commands) = 0
    BY DEF Whole
  <2> HIDE DEF commands
  <2>2. Len(commands) # 0
    BY <1>3, <1>4, <1>5, Suffix
  <2>3. QED
    BY <2>1, <2>2
<1> HIDE DEF commands
<1>7. /\ k < Len(commands) /\ Head(program[dev]) = commands[k + 1]
      /\ Tail(program[dev]) = SubSeq(commands, (k + 1) + 1, Len(commands))
  BY <1>3, <1>4, <1>5, Suffix
<1>8. k \in Nat /\ k + 1 \in 1..Len(commands)
  BY <1>5, <1>7
<1>9. QED
  BY <1>2, <1>3, <1>5, <1>6, <1>7, <1>8 DEF commands

\* g is f but for dev.
Only(f, g, dev, x) ==
    DOMAIN g = DOMAIN f /\ g[dev] = x /\ \A d \in DOMAIN f \ {dev} : g[d] = f[d]

\* A step of one device.
LEMMA OneDevice ==
    ASSUME IInv, NEW dev \in Devices, UNCHANGED <<call, phase>>,
           NEW p, Only(program, program', dev, p), NEW s, Only(queue, queue', dev, s),
           NEW x, Only(waiting, waiting', dev, x), NEW m, Only(mem, mem', dev, m),
           LET commands == Whole(Head(phase), dev)
           IN  /\ \E k \in 0..Len(commands) :
                    /\ p = SubSeq(commands, k + 1, Len(commands))
                    /\ DOMAIN m = Live(commands, Base(Head(phase)), k)
                    /\ k < Len(commands) /\ commands[k + 1].op = "free" => x \/ s = <<>>
                    /\ k = Len(commands) /\ Head(phase) # "q" => x \/ s = <<>>
               /\ \A b \in DOMAIN m : DOMAIN m[b] = UpTo(Size(b, dev))
               /\ IsSeq(s)
               /\ \A y \in DOMAIN s : Queued(s[y]) /\ Uses(s[y]) \subseteq DOMAIN m
    PROVE  IInv'
<1>1. call' = call /\ phase' = phase /\ Devices' = Devices
  BY CallStays
<1>2. /\ DOMAIN program' = Devices /\ DOMAIN queue' = Devices
      /\ DOMAIN waiting' = Devices /\ DOMAIN mem' = Devices
  BY DEF IInv, Only
<1>3. /\ program'[dev] = p /\ queue'[dev] = s /\ waiting'[dev] = x /\ mem'[dev] = m
      /\ \A d \in Devices \ {dev} : /\ program'[d] = program[d] /\ queue'[d] = queue[d]
                                    /\ waiting'[d] = waiting[d] /\ mem'[d] = mem[d]
  BY DEF IInv, Only
<1>4. ASSUME NEW d
      PROVE  /\ Whole(Head(phase), d)' = Whole(Head(phase), d)
             /\ Base(Head(phase))' = Base(Head(phase))
             /\ \A b : Size(b, d)' = Size(b, d)
             /\ \A c : Queued(c)' <=> Queued(c)
  BY <1>1, CallStays
<1>5. DeviceInv(dev)'
  BY <1>1, <1>3, <1>4 DEF DeviceInv, Issued, Settled
<1>6. ASSUME NEW d \in Devices \ {dev} PROVE DeviceInv(d)'
  <2>1. DeviceInv(d)
    BY DEF IInv
  <2>2. QED
    BY <1>1, <1>3, <1>4, <1>6, <2>1 DEF DeviceInv, Issued, Settled
<1>7. Stage'
  BY <1>1 DEF IInv, Stage
<1>8. QED
  BY <1>1, <1>2, <1>5, <1>6, <1>7 DEF IInv
\* What the program of a device says of its next command, and of the one after it.
LEMMA Follows ==
    ASSUME NEW P, NEW name, NEW dev, GoodProgram(P, name, dev), name # "host",
           NEW k \in Nat, k + 1 \in 1..Len(P), Len(P) \in Nat
    PROVE  /\ P[k + 1].op \in Ops \cup {"allocate", "free", "synchronize"}
           /\ k + 1 < Len(P) /\ P[(k + 1) + 1].op = "free" => P[k + 1].op \in {"copy_to_host", "free"}
           /\ k + 1 = Len(P) /\ name # "q" => P[k + 1].op \in {"copy_to_device", "free"}
<1>1. k + 1 < Len(P) => (k + 1) + 1 \in 1..Len(P) /\ (k + 1) + 1 # 1 /\ ((k + 1) + 1) - 1 = k + 1
  OBVIOUS
<1>2. P[k + 1].op \in Ops \cup {"allocate", "free", "synchronize"}
  BY DEF GoodProgram
<1>3. k + 1 < Len(P) /\ P[(k + 1) + 1].op = "free" => P[k + 1].op \in {"copy_to_host", "free"}
  BY <1>1 DEF GoodProgram
<1>4. k + 1 = Len(P) /\ name # "q" => P[k + 1].op \in {"copy_to_device", "free"}
  BY DEF GoodProgram
<1>5. QED
  BY <1>2, <1>3, <1>4

LEMMA AllocateStep ==
    ASSUME IInv, NEW dev \in Devices, IssueAllocate(dev)
    PROVE  IInv'
<1> DEFINE commands == Whole(Head(phase), dev)
           c == Head(program[dev])
           m == [b \in DOMAIN mem[dev] \cup {c.buffer} |->
                   IF b = c.buffer THEN [k \in UpTo(c.size) |-> Junk] ELSE mem[dev][b]]
           s == queue[dev]
<1>1. /\ program[dev] # <<>> /\ c.op = "allocate"
      /\ Only(program, program', dev, Tail(program[dev]))
      /\ Only(queue, queue', dev, s)
      /\ Only(waiting, waiting', dev, FALSE)
      /\ Only(mem, mem', dev, m)
      /\ UNCHANGED <<call, phase>>
  <2>1. Only(queue, queue', dev, s)
    BY DEF IssueAllocate, Only
  <2>2. Only(program, program', dev, Tail(program[dev]))
    BY DEF IssueAllocate, Goes, Only, IInv
  <2>3. Only(mem, mem', dev, m)
    BY DEF IssueAllocate, Only, IInv
  <2>4. QED
    <3>1. Only(waiting, waiting', dev, FALSE)
      BY DEF IssueAllocate, Only, IInv
    <3>2. QED
      BY <2>1, <2>2, <2>3, <3>1 DEF IssueAllocate, Goes
<1>2. PICK k \in Nat :
        /\ Issued(dev, k) /\ GoodProgram(commands, Head(phase), dev) /\ Head(phase) # "host"
        /\ k + 1 \in 1..Len(commands) /\ Len(commands) \in Nat
        /\ c = commands[k + 1]
        /\ Tail(program[dev]) = SubSeq(commands, (k + 1) + 1, Len(commands))
  BY <1>1, NextCommand
<1>3. /\ c.buffer \in Buffers /\ c.size = Size(c.buffer, dev)
      /\ \A j \in 1..(k + 1) : ~(commands[j].op = "free" /\ commands[j].buffer = c.buffer)
  BY <1>1, <1>2 DEF GoodProgram
<1>4. DOMAIN mem[dev] = Live(commands, Base(Head(phase)), k)
  BY <1>2 DEF Issued
<1>5. DeviceInv(dev)
  BY DEF IInv
<1> HIDE DEF commands, c
<1>6. DOMAIN m = Live(commands, Base(Head(phase)), k + 1)
  <2> HIDE DEF m
  <2>1. DOMAIN m = DOMAIN mem[dev] \cup {c.buffer}
    BY DEF m
  <2>2. /\ commands[k + 1].op = "allocate" /\ commands[k + 1].buffer \in Buffers
        /\ \A j \in 1..(k + 1) : ~(commands[j].op = "free" /\ commands[j].buffer = commands[k + 1].buffer)
    BY <1>1, <1>2, <1>3
  <2>3. Live(commands, Base(Head(phase)), k + 1) = Live(commands, Base(Head(phase)), k) \cup {commands[k + 1].buffer}
    BY <2>2, LiveStep
  <2>4. QED
    BY <1>2, <1>4, <2>1, <2>3
<1>7. \A b \in DOMAIN m : DOMAIN m[b] = UpTo(Size(b, dev))
  BY <1>3, <1>5 DEF DeviceInv
<1>8. IsSeq(s) /\ \A y \in DOMAIN s : Queued(s[y]) /\ Uses(s[y]) \subseteq DOMAIN m
  BY <1>5 DEF DeviceInv
<1>9. /\ k + 1 < Len(commands) => commands[(k + 1) + 1].op # "free"
      /\ ~(k + 1 = Len(commands) /\ Head(phase) # "q")
  BY <1>1, <1>2, Follows
<1>10. k + 1 \in 0..Len(commands)
  BY <1>2
<1> HIDE DEF m, s
<1>11. QED
  BY <1>1, <1>2, <1>6, <1>7, <1>8, <1>9, <1>10, OneDevice DEF commands

\* The queue is empty, whichever the backend.
LEMMA FreeStep ==
    ASSUME IInv, NEW dev \in Devices, IssueFree(dev)
    PROVE  IInv'
<1> DEFINE commands == Whole(Head(phase), dev)
           c == Head(program[dev])
           m == [b \in DOMAIN mem[dev] \ {c.buffer} |-> mem[dev][b]]
           s == queue[dev]
<1>1. /\ program[dev] # <<>> /\ c.op = "free" /\ ~Blocked(dev)
      /\ Only(program, program', dev, Tail(program[dev]))
      /\ Only(queue, queue', dev, s)
      /\ Only(waiting, waiting', dev, FALSE)
      /\ Only(mem, mem', dev, m)
      /\ UNCHANGED <<call, phase>>
  <2>1. Only(queue, queue', dev, s)
    BY DEF IssueFree, Only
  <2>2. Only(program, program', dev, Tail(program[dev]))
    BY DEF IssueFree, Goes, Only, IInv
  <2>3. Only(mem, mem', dev, m)
    BY DEF IssueFree, Only, IInv
  <2>4. QED
    <3>1. Only(waiting, waiting', dev, FALSE)
      BY DEF IssueFree, Only, IInv
    <3>2. QED
      BY <2>1, <2>2, <2>3, <3>1 DEF IssueFree, Goes
<1>2. PICK k \in Nat :
        /\ Issued(dev, k) /\ GoodProgram(commands, Head(phase), dev) /\ Head(phase) # "host"
        /\ k + 1 \in 1..Len(commands) /\ Len(commands) \in Nat
        /\ c = commands[k + 1]
        /\ Tail(program[dev]) = SubSeq(commands, (k + 1) + 1, Len(commands))
  BY <1>1, NextCommand
<1>3. s = <<>>
  <2>1. Settled(dev)
    <3>1. k < Len(commands) /\ commands[k + 1].op = "free"
      BY <1>1, <1>2
    <3>2. QED
      BY <1>2, <3>1 DEF Issued
  <2>2. QED
    BY <1>1, <2>1, Zenon DEF Settled, Blocked
<1>4. DOMAIN mem[dev] = Live(commands, Base(Head(phase)), k)
  BY <1>2 DEF Issued
<1>5. DeviceInv(dev)
  BY DEF IInv
<1> HIDE DEF commands, c
<1>6. DOMAIN m = Live(commands, Base(Head(phase)), k + 1)
  <2>1. commands[k + 1].op = "free"
    BY <1>1, <1>2
  <2>2. Live(commands, Base(Head(phase)), k + 1) = Live(commands, Base(Head(phase)), k) \ {commands[k + 1].buffer}
    BY <2>1, LiveStep
  <2>3. QED
    BY <1>2, <1>4, <2>2
<1>7. \A b \in DOMAIN m : DOMAIN m[b] = UpTo(Size(b, dev))
  BY <1>5 DEF DeviceInv
<1>8. IsSeq(s) /\ \A y \in DOMAIN s : Queued(s[y]) /\ Uses(s[y]) \subseteq DOMAIN m
  BY <1>3, EmptyIsSeq
<1>9. k + 1 \in 0..Len(commands)
  BY <1>2
<1> HIDE DEF m, s
<1>10. QED
  BY <1>1, <1>2, <1>3, <1>6, <1>7, <1>8, <1>9, OneDevice DEF commands

LEMMA SynchronizeStep ==
    ASSUME IInv, NEW dev \in Devices, IssueSynchronize(dev)
    PROVE  IInv'
<1> DEFINE commands == Whole(Head(phase), dev)
           c == Head(program[dev])
           m == mem[dev]
           s == queue[dev]
<1>1. /\ program[dev] # <<>> /\ c.op = "synchronize" /\ s = <<>>
      /\ Only(program, program', dev, Tail(program[dev]))
      /\ Only(queue, queue', dev, s)
      /\ Only(waiting, waiting', dev, FALSE)
      /\ Only(mem, mem', dev, m)
      /\ UNCHANGED <<call, phase>>
  <2>1. Only(queue, queue', dev, s)
    BY DEF IssueSynchronize, Only
  <2>2. Only(program, program', dev, Tail(program[dev]))
    BY DEF IssueSynchronize, Goes, Only, IInv
  <2>3. Only(mem, mem', dev, m)
    BY DEF IssueSynchronize, Only
  <2>4. QED
    <3>1. Only(waiting, waiting', dev, FALSE)
      BY DEF IssueSynchronize, Only, IInv
    <3>2. QED
      BY <2>1, <2>2, <2>3, <3>1 DEF IssueSynchronize, Goes
<1>2. PICK k \in Nat :
        /\ Issued(dev, k) /\ GoodProgram(commands, Head(phase), dev) /\ Head(phase) # "host"
        /\ k + 1 \in 1..Len(commands) /\ Len(commands) \in Nat
        /\ c = commands[k + 1]
        /\ Tail(program[dev]) = SubSeq(commands, (k + 1) + 1, Len(commands))
  BY <1>1, NextCommand
<1>3. DOMAIN m = Live(commands, Base(Head(phase)), k)
  BY <1>2 DEF Issued
<1>4. DeviceInv(dev)
  BY DEF IInv
<1> HIDE DEF commands, c
<1>5. DOMAIN m = Live(commands, Base(Head(phase)), k + 1)
  <2>1. commands[k + 1].op \notin {"allocate", "free"}
    BY <1>1, <1>2
  <2> DEFINE base == Base(Head(phase))
  <2> HIDE DEF base
  <2>2. Live(commands, base, k + 1) = Live(commands, base, k)
    BY <2>1, LiveStep
  <2>3. QED
    BY <1>3, <2>2 DEF base
<1>6. /\ \A b \in DOMAIN m : DOMAIN m[b] = UpTo(Size(b, dev))
      /\ IsSeq(s) /\ \A y \in DOMAIN s : Queued(s[y]) /\ Uses(s[y]) \subseteq DOMAIN m
  BY <1>4 DEF DeviceInv
<1>7. k + 1 \in 0..Len(commands)
  BY <1>2
<1> HIDE DEF m, s
<1>8. QED
  BY <1>1, <1>2, <1>5, <1>6, <1>7, OneDevice DEF commands
LEMMA CommandStep ==
    ASSUME IInv, NEW dev \in Devices, IssueCommand(dev)
    PROVE  IInv'
<1> DEFINE commands == Whole(Head(phase), dev)
           c == Head(program[dev])
           m == mem[dev]
           s == Append(queue[dev], c)
<1>1. /\ program[dev] # <<>> /\ c.op \in Ops
      /\ Only(program, program', dev, Tail(program[dev]))
      /\ Only(queue, queue', dev, s)
      /\ Only(waiting, waiting', dev, Waits(c))
      /\ Only(mem, mem', dev, m)
      /\ UNCHANGED <<call, phase>>
  <2>1. Only(queue, queue', dev, s)
    BY DEF IssueCommand, Only, IInv
  <2>2. PICK op \in Ops : Goes(dev, op)
    BY DEF IssueCommand, Ops
  <2>3. /\ program[dev] # <<>> /\ c.op \in Ops
        /\ Only(program, program', dev, Tail(program[dev]))
    BY <2>2 DEF Goes, Only, IInv
  <2>4. Only(mem, mem', dev, m)
    BY DEF IssueCommand, Only
  <2>5. Only(waiting, waiting', dev, Waits(c))
    BY DEF IssueCommand, Only, IInv
  <2>6. UNCHANGED <<call, phase>>
    BY DEF IssueCommand
  <2>7. QED
    BY <2>1, <2>3, <2>4, <2>5, <2>6
<1>2. PICK k \in Nat :
        /\ Issued(dev, k) /\ GoodProgram(commands, Head(phase), dev) /\ Head(phase) # "host"
        /\ k + 1 \in 1..Len(commands) /\ Len(commands) \in Nat
        /\ c = commands[k + 1]
        /\ Tail(program[dev]) = SubSeq(commands, (k + 1) + 1, Len(commands))
  BY <1>1, NextCommand
<1>3. Queued(c) /\ Uses(c) \subseteq Live(commands, Base(Head(phase)), k)
  <2>1. ASSUME NEW l \in 1..Len(commands), commands[l].op \in Ops
        PROVE  Queued(commands[l]) /\ Uses(commands[l]) \subseteq Live(commands, Base(Head(phase)), l - 1)
    BY <1>2, <2>1 DEF GoodProgram
  <2>2. (k + 1) - 1 = k
    BY <1>2
  <2> HIDE DEF commands, c
  <2>3. QED
    BY <1>1, <1>2, <2>1, <2>2
<1>4. DOMAIN m = Live(commands, Base(Head(phase)), k)
  BY <1>2 DEF Issued
<1>5. DeviceInv(dev)
  BY DEF IInv
<1>6. c.op \in {"copy_to_device", "copy_to_host"} => Waits(c)
  BY DEF Waits
<1> HIDE DEF commands, c
<1>7. DOMAIN m = Live(commands, Base(Head(phase)), k + 1)
  <2>1. commands[k + 1].op \notin {"allocate", "free"}
    BY <1>1, <1>2 DEF Ops
  <2> DEFINE base == Base(Head(phase))
  <2> HIDE DEF base
  <2>2. Live(commands, base, k + 1) = Live(commands, base, k)
    BY <2>1, LiveStep
  <2>3. QED
    BY <1>4, <2>2 DEF base
<1>8. \A b \in DOMAIN m : DOMAIN m[b] = UpTo(Size(b, dev))
  BY <1>5 DEF DeviceInv
<1>9. IsSeq(s) /\ \A y \in DOMAIN s : Queued(s[y]) /\ Uses(s[y]) \subseteq DOMAIN m
  BY <1>3, <1>4, <1>5, AppendElements DEF DeviceInv
<1>10. /\ k + 1 < Len(commands) /\ commands[(k + 1) + 1].op = "free" => Waits(c)
       /\ k + 1 = Len(commands) /\ Head(phase) # "q" => Waits(c)
  <2>1. c.op # "free"
    BY <1>1 DEF Ops
  <2>2. QED
    BY <1>2, <1>6, <2>1, Follows
<1>11. k + 1 \in 0..Len(commands)
  BY <1>2
<1> HIDE DEF m, s
<1>12. QED
  BY <1>1, <1>2, <1>7, <1>8, <1>9, <1>10, <1>11, OneDevice DEF commands

LEMMA ExecuteStep ==
    ASSUME IInv, NEW dev \in Devices, Execute(dev)
    PROVE  IInv'
<1> DEFINE commands == Whole(Head(phase), dev)
           c == Head(queue[dev])
           m == [mem[dev] EXCEPT ![c.buffer] = Written(dev, c)]
           s == Tail(queue[dev])
<1>1. DeviceInv(dev)
  BY DEF IInv
<1>2. /\ queue[dev] # <<>> /\ c.buffer \in DOMAIN mem[dev]
      /\ Only(program, program', dev, program[dev])
      /\ Only(queue, queue', dev, s)
      /\ Only(waiting, waiting', dev, waiting[dev])
      /\ Only(mem, mem', dev, m)
      /\ UNCHANGED <<call, phase>>
  <2>1. Only(queue, queue', dev, s)
    BY DEF Execute, Only, IInv
  <2>2. Only(program, program', dev, program[dev]) /\ Only(waiting, waiting', dev, waiting[dev])
    BY DEF Execute, Only
  <2>3. mem' = [mem EXCEPT ![dev] = m]
    BY DEF Execute
  <2> HIDE DEF m
  <2>4. Only(mem, mem', dev, m)
    BY <2>3 DEF Only, IInv
  <2>5. queue[dev] # <<>> /\ c.buffer \in DOMAIN mem[dev] /\ UNCHANGED <<call, phase>>
    BY UsedBuffers DEF Execute
  <2>6. QED
    BY <2>1, <2>2, <2>4, <2>5
<1>3. Queued(c)
  BY <1>1, <1>2, TailElements DEF DeviceInv
<1>4. DOMAIN Written(dev, c) = DOMAIN mem[dev][c.buffer]
  <2>1. \/ c.op \in {"memset", "copy_to_device", "copy_to_host"}
        \/ c.op = "q" /\ c.buffer = "q_d"
        \/ c.op = "w" /\ c.buffer = "w_d"
        \/ c.op = "predict" /\ c.buffer = "out_d"
    BY <1>3 DEF Queued
  <2>2. /\ DOMAIN device_kernel_q(dev) = DOMAIN mem[dev]["q_d"]
        /\ DOMAIN device_kernel_w_linear(dev) = DOMAIN mem[dev]["w_d"]
        /\ DOMAIN device_kernel_predict(dev) = DOMAIN mem[dev]["out_d"]
    BY DEF device_kernel_q, device_kernel_w_linear, device_kernel_predict
  <2> HIDE DEF c
  <2>3. QED
    BY <2>1, <2>2 DEF Written
<1>5. DOMAIN m = DOMAIN mem[dev] /\ \A b \in DOMAIN m : DOMAIN m[b] = DOMAIN mem[dev][b]
  BY <1>2, <1>4
<1> HIDE DEF m
<1>6. \A b \in DOMAIN m : DOMAIN m[b] = UpTo(Size(b, dev))
  BY <1>1, <1>5 DEF DeviceInv
<1>7. IsSeq(s) /\ \A y \in DOMAIN s : Queued(s[y]) /\ Uses(s[y]) \subseteq DOMAIN m
  BY <1>1, <1>2, <1>5, TailElements DEF DeviceInv
<1>8. PICK k \in 0..Len(commands) : Issued(dev, k)
  BY <1>1 DEF DeviceInv
<1>9. /\ program[dev] = SubSeq(commands, k + 1, Len(commands))
      /\ DOMAIN m = Live(commands, Base(Head(phase)), k)
  BY <1>5, <1>8 DEF Issued
<1>10. /\ k < Len(commands) /\ commands[k + 1].op = "free" => waiting[dev] \/ s = <<>>
       /\ k = Len(commands) /\ Head(phase) # "q" => waiting[dev] \/ s = <<>>
  BY <1>2, <1>8 DEF Issued, Settled
<1> HIDE DEF s, commands
<1>11. QED
  BY <1>2, <1>6, <1>7, <1>8, <1>9, <1>10, OneDevice DEF commands

\* From one phase to the next one.
LEMMA Transitions ==
    ASSUME IInv, Len(phase) > 1, phase' = Tail(phase), call' = call
    PROVE  /\ Stage' /\ phase'[1] = Head(phase')
           /\ Head(phase) \in Names \ {"release"} /\ Head(phase') \in Names
           /\ Left(Head(phase)) = Base(Head(phase'))
           /\ Head(phase) = "q" => Head(phase') = "reduction"
           /\ "predict" \in {Head(phase), Head(phase')} => call.kernel_type # "linear"
<1>1. Stage
  BY DEF IInv
<1>2. ASSUME NEW a, NEW b, NEW c, NEW d, NEW e
      PROVE  /\ Len(<<a>>) = 1
             /\ Head(<<a, b>>) = a /\ Tail(<<a, b>>) = <<b>>
             /\ Head(<<a, b, c>>) = a /\ Tail(<<a, b, c>>) = <<b, c>>
             /\ Head(<<a, b, c, d>>) = a /\ Tail(<<a, b, c, d>>) = <<b, c, d>>
             /\ Head(<<a, b, c, d, e>>) = a /\ Tail(<<a, b, c, d, e>>) = <<b, c, d, e>>
  OBVIOUS
<1>3. CASE call.operation = "q"
  <2>1. phase \in {<<"setup", "q", "reduction", "release">>, <<"q", "reduction", "release">>,
                   <<"reduction", "release">>}
    BY <1>1, <1>2, <1>3 DEF Stage
  <2>2. CASE phase = <<"setup", "q", "reduction", "release">>
    BY <1>3, <2>2 DEF Stage, Names, Left, Base
  <2>3. CASE phase = <<"q", "reduction", "release">>
    BY <1>3, <2>3 DEF Stage, Names, Left, Base
  <2>4. CASE phase = <<"reduction", "release">>
    BY <1>3, <2>4 DEF Stage, Names, Left, Base
  <2>5. QED
    BY <2>1, <2>2, <2>3, <2>4
<1>4. CASE call.operation = "predict" /\ call.kernel_type # "linear"
  <2>1. phase \in {<<"setup", "alpha", "predict", "release">>, <<"alpha", "predict", "release">>,
                   <<"predict", "release">>}
    BY <1>1, <1>2, <1>4 DEF Stage
  <2>2. CASE phase = <<"setup", "alpha", "predict", "release">>
    BY <1>4, <2>2 DEF Stage, Names, Left, Base
  <2>3. CASE phase = <<"alpha", "predict", "release">>
    BY <1>4, <2>3 DEF Stage, Names, Left, Base
  <2>4. CASE phase = <<"predict", "release">>
    BY <1>4, <2>4 DEF Stage, Names, Left, Base
  <2>5. QED
    BY <2>1, <2>2, <2>3, <2>4
<1>5. CASE call.operation = "predict" /\ call.kernel_type = "linear"
  <2>1. phase \in {<<"setup", "alpha", "w", "host", "release">>, <<"alpha", "w", "host", "release">>,
                   <<"w", "host", "release">>, <<"setup", "alpha", "host", "release">>,
                   <<"alpha", "host", "release">>, <<"host", "release">>}
    BY <1>1, <1>2, <1>5 DEF Stage
  <2>2. CASE phase = <<"setup", "alpha", "w", "host", "release">>
    BY <1>5, <2>2 DEF Stage, Names, Left, Base
  <2>3. CASE phase = <<"alpha", "w", "host", "release">>
    BY <1>5, <2>3 DEF Stage, Names, Left, Base
  <2>4. CASE phase = <<"w", "host", "release">>
    BY <1>5, <2>4 DEF Stage, Names, Left, Base
  <2>5. CASE phase = <<"setup", "alpha", "host", "release">>
    BY <1>5, <2>5 DEF Stage, Names, Left, Base
  <2>6. CASE phase = <<"alpha", "host", "release">>
    BY <1>5, <2>6 DEF Stage, Names, Left, Base
  <2>7. CASE phase = <<"host", "release">>
    BY <1>5, <2>7 DEF Stage, Names, Left, Base
  <2>8. QED
    BY <2>1, <2>2, <2>3, <2>4, <2>5, <2>6, <2>7
<1>6. QED
  BY <1>1, <1>3, <1>4, <1>5 DEF Stage
\* The programs of the next phase start with what the last ones left.
LEMMA StartPhase ==
    ASSUME IInv, Len(phase) > 1, phase' = Tail(phase), UNCHANGED <<call, queue, waiting, mem>>,
           program' = [dev \in Devices |-> Whole(Head(phase'), dev)],
           \A dev \in Devices : program[dev] = <<>>
    PROVE  IInv'
<1> DEFINE name == Head(phase)
           next == Head(phase')
<1>1. /\ Stage' /\ name \in Names \ {"release"} /\ next \in Names
      /\ Left(name) = Base(next)
      /\ name = "q" => next = "reduction"
      /\ "predict" \in {name, next} => call.kernel_type # "linear"
  BY Transitions
<1>2. call.operation \in {"q", "predict"} /\ Devices' = Devices
  BY CallStays DEF IInv, Stage
<1>3. ASSUME NEW dev \in Devices PROVE DeviceInv(dev)'
  <2> DEFINE old == Whole(name, dev)
             commands == Whole(next, dev)
  <2>1. GoodProgram(old, name, dev) /\ GoodProgram(commands, next, dev)
    BY <1>1, <1>2, WholeIsGood
  <2>2. DeviceInv(dev)
    BY DEF IInv
  <2>3. PICK k \in 0..Len(old) : Issued(dev, k)
    BY <2>2 DEF DeviceInv
  <2>4. IsSeq(old) /\ IsSeq(commands) /\ Len(old) \in Nat /\ Len(commands) \in Nat
    BY <2>1 DEF GoodProgram, IsSeq
  <2>5. k = Len(old)
    <3>1. program[dev] = SubSeq(old, k + 1, Len(old)) /\ program[dev] = <<>>
      BY <2>3 DEF Issued
    <3> HIDE DEF old
    <3>2. QED
      BY <2>3, <2>4, <3>1, Suffix
  <2>6. DOMAIN mem[dev] = Left(name) /\ (name # "q" => Settled(dev))
    BY <2>1, <2>3, <2>5 DEF GoodProgram, Issued
  <2>7. /\ program'[dev] = commands /\ queue'[dev] = queue[dev]
        /\ waiting'[dev] = waiting[dev] /\ mem'[dev] = mem[dev]
    OBVIOUS
  <2> HIDE DEF old, commands, name, next
  <2>8. SubSeq(commands, 0 + 1, Len(commands)) = commands
    <3>1. PICK S : commands \in Seq(S)
      BY <2>4 DEF IsSeq
    <3>2. QED
      BY <3>1, SubSeqFull
  <2>9. Live(commands, Base(next), 0) = Base(next)
    <3>1. Base(next) \subseteq Buffers
      BY <1>1, <1>2 DEF Base, Buffers, Names
    <3>2. QED
      BY <3>1 DEF Live
  <2>10. 0 < Len(commands) /\ commands[0 + 1].op = "free" => next = "release"
    <3>1. 0 < Len(commands) => 1 \in 1..Len(commands)
      BY <2>4
    <3>2. QED
      BY <2>1, <3>1 DEF GoodProgram
  <2>11. 0 = Len(commands) => next \in {"q", "host"}
    BY <2>1, <2>4 DEF GoodProgram
  <2>12. /\ Whole(Head(phase), dev)' = commands /\ Base(Head(phase))' = Base(next)
         /\ \A b : Size(b, dev)' = Size(b, dev)
        /\ \A c : Queued(c)' <=> Queued(c)
    BY CallStays DEF commands, next
  <2>13. next \in {"release", "host"} => Settled(dev)
    BY <1>1, <2>6
  <2>14. Issued(dev, 0)'
    <3>1. /\ program'[dev] = SubSeq(commands, 0 + 1, Len(commands))
          /\ DOMAIN mem'[dev] = Live(commands, Base(next), 0)
      BY <1>1, <2>6, <2>7, <2>8, <2>9
    <3>2. Settled(dev) => Settled(dev)'
      BY <2>7 DEF Settled
    <3>3. /\ 0 < Len(commands) /\ commands[0 + 1].op = "free" => Settled(dev)'
          /\ 0 = Len(commands) /\ next # "q" => Settled(dev)'
      BY <2>10, <2>11, <2>13, <3>2
    <3>4. QED
      BY <2>12, <3>1, <3>3 DEF Issued, next
  <2>15. QED
    BY <2>2, <2>4, <2>7, <2>12, <2>14 DEF DeviceInv
<1>4. QED
  BY <1>1, <1>2, <1>3 DEF IInv

LEMMA NextPhaseStep == ASSUME IInv, NextPhase PROVE IInv'
<1>1. /\ Len(phase) > 1 /\ phase' = Tail(phase) /\ UNCHANGED <<call, queue, waiting, mem>>
      /\ \A dev \in Devices : program[dev] = <<>>
  BY DEF NextPhase
<1>2. phase'[1] = Head(phase')
  BY <1>1, Transitions
<1>3. \A dev \in Devices : (IF phase'[1] = "host" THEN <<>> ELSE Program(phase'[1], dev)) = Whole(Head(phase'), dev)
  BY <1>2 DEF Whole
<1>4. program' = [dev \in Devices |-> Whole(Head(phase'), dev)]
  BY <1>3 DEF NextPhase
<1>5. QED
  BY <1>1, <1>4, StartPhase

LEMMA PredictLinearStep == ASSUME IInv, PredictLinear PROVE IInv'
<1>1. Head(phase) = "host" /\ phase' = Tail(phase) /\ UNCHANGED <<call, queue, waiting, mem>>
  BY DEF PredictLinear
<1>2. Len(phase) > 1 /\ Head(phase') = "release"
  <2>1. phase = <<"host", "release">>
    BY <1>1 DEF IInv, Stage
  <2>2. QED
    BY <1>1, <2>1
<1>3. program' = [dev \in Devices |-> Whole(Head(phase'), dev)]
  BY <1>2 DEF PredictLinear, Whole
<1>4. \A dev \in Devices : program[dev] = <<>>
  BY <1>1, NextCommand
<1>5. QED
  BY <1>1, <1>2, <1>3, <1>4, StartPhase
LEMMA InitIInv == Init => IInv
<1> SUFFICES ASSUME Init PROVE IInv
  OBVIOUS
<1>1. call \in Calls /\ phase = Phases(call)
  BY DEF Init
<1>2. /\ call.operation \in {"q", "predict"} /\ call.has_w \in BOOLEAN
      /\ call.kernel_type \in {"linear", "polynomial", "rbf"}
  BY <1>1, CallsAssumption
<1>3. Stage /\ Head(phase) = "setup"
  <2>1. CASE call.operation = "q"
    BY <1>1, <2>1 DEF Phases, Stage
  <2>2. CASE call.operation = "predict" /\ call.kernel_type # "linear"
    BY <1>1, <2>2 DEF Phases, Stage
  <2>3. CASE call.operation = "predict" /\ call.kernel_type = "linear" /\ call.has_w
    BY <1>1, <2>3 DEF Phases, Stage
  <2>4. CASE call.operation = "predict" /\ call.kernel_type = "linear" /\ ~call.has_w
    BY <1>1, <2>4 DEF Phases, Stage
  <2>5. QED
    BY <1>2, <2>1, <2>2, <2>3, <2>4
<1>4. ASSUME NEW dev \in Devices PROVE DeviceInv(dev)
  <2> DEFINE commands == Whole("setup", dev)
  <2>1. GoodProgram(commands, "setup", dev)
    BY <1>2, WholeIsGood DEF Names
  <2>2. /\ program[dev] = commands /\ queue[dev] = <<>> /\ mem[dev] = <<>>
    BY DEF Init, Whole
  <2> HIDE DEF commands
  <2>3. IsSeq(commands) /\ Len(commands) \in Nat
    BY <2>1 DEF GoodProgram, IsSeq
  <2>4. SubSeq(commands, 0 + 1, Len(commands)) = commands
    <3>1. PICK S : commands \in Seq(S)
      BY <2>3 DEF IsSeq
    <3>2. QED
      BY <3>1, SubSeqFull
  <2>5. Live(commands, Base("setup"), 0) = {}
    BY DEF Live, Base
  <2>6. DOMAIN mem[dev] = {}
    BY <2>2, EmptyIsSeq
  <2>7. Issued(dev, 0)
    BY <1>3, <2>2, <2>4, <2>5, <2>6 DEF Issued, Settled, commands
  <2>8. QED
    BY <1>3, <2>2, <2>3, <2>6, <2>7, EmptyIsSeq DEF DeviceInv, commands
<1>5. QED
  BY <1>1, <1>3, <1>4 DEF IInv, Init

LEMMA NextIInv == IInv /\ [Next]_vars => IInv'
<1> SUFFICES ASSUME IInv, [Next]_vars PROVE IInv'
  OBVIOUS
<1>1. ASSUME NEW dev \in Devices,
             \/ IssueAllocate(dev) \/ IssueFree(dev) \/ IssueSynchronize(dev) \/ IssueCommand(dev)
             \/ Execute(dev)
      PROVE  IInv'
  BY <1>1, AllocateStep, FreeStep, SynchronizeStep, CommandStep, ExecuteStep
<1>2. CASE NextPhase
  BY <1>2, NextPhaseStep
<1>3. CASE PredictLinear
  BY <1>3, PredictLinearStep
<1>4. CASE UNCHANGED vars
  <2>1. UNCHANGED <<call, phase, program, queue, waiting, mem>>
    BY <1>4 DEF vars
  <2>2. ASSUME NEW dev
        PROVE  /\ Whole(Head(phase), dev)' = Whole(Head(phase), dev)
               /\ Base(Head(phase))' = Base(Head(phase)) /\ Devices' = Devices
               /\ \A b : Size(b, dev)' = Size(b, dev)
               /\ \A c : Queued(c)' <=> Queued(c)
    BY <2>1, CallStays
  <2>3. Devices' = Devices
    BY <2>1, CallStays
  <2>4. ASSUME NEW dev \in Devices PROVE DeviceInv(dev)'
    <3>1. DeviceInv(dev)
      BY DEF IInv
    <3>2. QED
      BY <2>1, <2>2, <3>1 DEF DeviceInv, Issued, Settled
  <2>5. QED
    BY <2>1, <2>3, <2>4 DEF IInv, Stage
<1>5. QED
  BY <1>1, <1>2, <1>3, <1>4 DEF Next, Terminated
----------------------------------------------------------------------------
THEOREM IInvCorrect == Spec => []IInv
<1>1. QED
  BY InitIInv, NextIInv, PTL DEF Spec

----------------------------------------------------------------------------
(* What the memory holds.  The commands of a call are put into the queue   *)
(* of a device in one order, so that the number of those that have been    *)
(* executed says what is in each buffer.                                   *)

\* Where queued commands are in the programs: after the first k commands of
\* a phase the device has been sent so many.
SentIn(name, k) ==
    CASE name = "setup" -> IF k < 2 THEN 0 ELSE IF k = 2 THEN 1 ELSE IF k < 5 THEN 2 ELSE 3
      [] name \in {"q", "alpha"} -> IF k < 2 THEN 0 ELSE k - 1
      [] name = "reduction" -> IF k < 2 THEN 0 ELSE 1
      [] name = "w" -> IF k < 2 THEN 0 ELSE IF k < 4 THEN 1 ELSE 2
      [] name = "predict" -> IF k < 2 THEN 0 ELSE IF k < 4 THEN 1 ELSE IF k < 7 THEN k - 2 ELSE 5
      [] name \in {"host", "release"} -> 0

\* All commands that a device is sent in a call.
Total ==
    IF call.operation = "q" THEN 6
    ELSE IF call.kernel_type # "linear" THEN 10 ELSE IF call.has_w THEN 5 ELSE 7

SentBefore(name) ==
    CASE name = "setup" -> 0
      [] name \in {"q", "alpha"} -> 3
      [] name \in {"reduction", "w", "predict"} -> 5
      [] name \in {"host", "release"} -> Total

\* Command n of a call.
Nth(dev, n) ==
    CASE n = 1 -> setup_data_on_device(dev)[2]
      [] n = 2 -> setup_data_on_device(dev)[3]
      [] n = 3 -> setup_data_on_device(dev)[5]
      [] n = 4 -> IF call.operation = "q" THEN generate_q(dev)[2] ELSE setup_alpha(dev)[2]
      [] n = 5 -> IF call.operation = "q" THEN generate_q(dev)[3] ELSE setup_alpha(dev)[3]
      [] n = 6 -> IF call.operation = "q" THEN device_reduction(dev)[2]
                  ELSE IF call.kernel_type = "linear" THEN calculate_w(dev)[2] ELSE predict(dev)[2]
      [] n = 7 -> IF call.kernel_type = "linear" THEN calculate_w(dev)[4] ELSE predict(dev)[4]
      [] n \in 8..10 -> predict(dev)[n - 3]

\* Commands of the current phase that have been issued, commands that have been
\* sent since the call began, and commands that have been executed.
Position(dev) == Len(Whole(Head(phase), dev)) - Len(program[dev])
Sent(dev) == SentBefore(Head(phase)) + SentIn(Head(phase), Position(dev))
Executed(dev) == Sent(dev) - Len(queue[dev])

Ordered(dev) ==
    /\ Executed(dev) \in Nat
    /\ \A x \in DOMAIN queue[dev] : queue[dev][x] = Nth(dev, Executed(dev) + x)
    /\ Head(phase) \in {"host", "release"} => queue[dev] = <<>>
    /\ Head(phase) = "predict" /\ Position(dev) >= 8 => queue[dev] = <<>>

\* A normal vector is calculated if the model has none.
Route ==
    call.operation = "predict" /\ call.kernel_type = "linear" =>
        IF call.has_w
        THEN phase \notin {<<"setup", "alpha", "w", "host", "release">>,
                           <<"alpha", "w", "host", "release">>, <<"w", "host", "release">>}
        ELSE phase \notin {<<"setup", "alpha", "host", "release">>, <<"alpha", "host", "release">>}

\* What a device contributes to q.
Part(dev, n) ==
    {<<SupportVector(n, f), SupportVector(num_support_vectors - 1, f)>> :
        f \in feature_ranges(dev - 1)..(feature_ranges(dev) - 1)}

DataThere(dev) ==
    /\ "data_last_d" \in DOMAIN mem[dev] /\ Executed(dev) >= 2 =>
         \A f \in UpTo(num_features_in_range(dev)) :
            mem[dev].data_last_d[f] = SupportVector(num_support_vectors - 1, feature_ranges(dev - 1) + f)
    /\ "data_d" \in DOMAIN mem[dev] /\ Executed(dev) >= 3 =>
         \A f \in UpTo(num_features_in_range(dev)), n \in UpTo(num_rows) :
            mem[dev].data_d[f * num_rows + n] =
                IF n < num_support_vectors - 1 THEN SupportVector(n, feature_ranges(dev - 1) + f) ELSE Zero

QThere(dev) ==
    call.operation = "q" /\ "q_d" \in DOMAIN mem[dev] /\ Executed(dev) >= 5 =>
        \A n \in UpTo(num_support_vectors - 1) : mem[dev].q_d[n] = <<call.kernel_type, Part(dev, n)>>

AlphaThere(dev) ==
    call.operation = "predict" /\ "alpha_d" \in DOMAIN mem[dev] =>
        /\ Executed(dev) = 4 =>
             \A n \in UpTo(num_support_vectors + THREAD_BLOCK_SIZE) : mem[dev].alpha_d[n] = Zero
        /\ Executed(dev) >= 5 =>
             \A n \in UpTo(num_support_vectors + THREAD_BLOCK_SIZE) :
                mem[dev].alpha_d[n] = IF n < num_support_vectors THEN Alpha(n) ELSE Zero

WThere(dev) ==
    /\ call.operation = "predict" /\ call.kernel_type = "linear"
    /\ "w_d" \in DOMAIN mem[dev] /\ Executed(dev) >= 6
    => \A f \in UpTo(num_features_in_range(dev)) :
            mem[dev].w_d[f] = NormalVector[feature_ranges(dev - 1) + f]

OutThere(dev) ==
    call.operation = "predict" /\ call.kernel_type # "linear" =>
        /\ "point_d" \in DOMAIN mem[dev] /\ Executed(dev) >= 8 =>
             \A f \in UpTo(num_features), n \in UpTo(num_predict_points) :
                mem[dev].point_d[n + (num_predict_points + boundary_size) * f] = PredictPoint(n, f)
        /\ "out_d" \in DOMAIN mem[dev] =>
             /\ Executed(dev) \in 6..8 =>
                  \A n \in UpTo(num_predict_points) : mem[dev].out_d[n] = EmptyBag
             /\ Executed(dev) >= 9 /\ ~Spoiled =>
                  \A n \in UpTo(num_predict_points) : mem[dev].out_d[n] = SetToBag(ExpectedTerms(n))

Contents(dev) == DataThere(dev) /\ QThere(dev) /\ AlphaThere(dev) /\ WThere(dev) /\ OutThere(dev)

\* Devices that have delivered their part of q.
Delivered == {dev \in Devices : Executed(dev) >= 6}

Decided == \A n \in UpTo(num_predict_points) : out[n] = SetToBag(ExpectedTerms(n) \cup {<<"-rho">>})

Results ==
    /\ DOMAIN q = UpTo(num_support_vectors - 1) /\ DOMAIN w = UpTo(num_features)
    /\ DOMAIN out = UpTo(num_predict_points)
    /\ call.operation = "q" =>
         \A n \in UpTo(num_support_vectors - 1) :
            q[n] = <<call.kernel_type, UNION {Part(dev, n) : dev \in Delivered}>>
    /\ call.operation = "predict" /\ call.kernel_type = "linear" =>
         /\ call.has_w => w = NormalVector
         /\ ~call.has_w => \A dev \in Devices : Executed(dev) >= 7 =>
              \A f \in feature_ranges(dev - 1)..(feature_ranges(dev) - 1) : w[f] = NormalVector[f]
         /\ phase = <<"release">> => Decided
    /\ call.operation = "predict" /\ call.kernel_type # "linear" /\ ~Spoiled =>
         \A dev \in Devices : Executed(dev) >= 10 => Decided

ValuesInv ==
    /\ Route
    /\ \A dev \in Devices : Ordered(dev) /\ Contents(dev)
    /\ Results
----------------------------------------------------------------------------
(* Indices.                                                                *)

\* What the arithmetic of the indices needs to know of a call.
LEMMA CallSizes ==
    ASSUME call \in Calls
    PROVE  /\ num_support_vectors \in Nat \ {0, 1} /\ num_predict_points \in Nat \ {0}
           /\ num_features \in Nat \ {0} /\ boundary_size \in Nat \ {0}
           /\ THREAD_BLOCK_SIZE \in Nat \ {0} /\ boundary_size >= THREAD_BLOCK_SIZE
           /\ num_rows \in Nat \ {0} /\ num_rows = num_support_vectors - 1 + boundary_size
           /\ select_num_used_devices \in 1..num_features
           /\ call.kernel_type # "linear" => select_num_used_devices = 1
<1>1. /\ num_support_vectors \in Nat \ {0, 1} /\ num_predict_points \in Nat \ {0}
      /\ num_features \in Nat \ {0} /\ THREAD_BLOCK_SIZE \in Nat \ {0}
      /\ INTERNAL_BLOCK_SIZE \in Nat \ {0} /\ NumDevices \in Nat \ {0}
  BY CallsAssumption DEF num_support_vectors, num_predict_points, num_features
<1>2. boundary_size = THREAD_BLOCK_SIZE * INTERNAL_BLOCK_SIZE
  BY DEF boundary_size
<1>3. boundary_size \in Nat \ {0} /\ boundary_size >= THREAD_BLOCK_SIZE
  BY <1>1, <1>2
<1>4. /\ select_num_used_devices \in 1..num_features
      /\ call.kernel_type # "linear" => select_num_used_devices = 1
  BY <1>1 DEF select_num_used_devices, Least
<1>5. QED
  BY <1>1, <1>3, <1>4 DEF num_rows

LEMMA DivisionOrder ==
    ASSUME NEW a \in Nat, NEW b \in Nat, a <= b, NEW d \in Nat \ {0}
    PROVE  a \div d \in Nat /\ b \div d \in Nat /\ a \div d <= b \div d
<1> DEFINE x == a \div d
           y == b \div d
<1>1. x \in Nat /\ d * x <= a /\ y \in Nat /\ b < d * y + d
  BY Division
<1> HIDE DEF x, y
<1>2. d * x < d * (y + 1)
  BY <1>1
<1>3. x < y + 1
  <2>1. SUFFICES ASSUME x >= y + 1 PROVE FALSE
    BY <1>1
  <2>2. d * x >= d * (y + 1)
    BY <1>1, <2>1
  <2>3. QED
    BY <1>1, <1>2, <2>2
<1>4. QED
  BY <1>1, <1>3 DEF x, y

\* Row and column of an index.
LEMMA Quotient ==
    ASSUME NEW a \in Nat, NEW d \in Nat \ {0}, NEW r \in 0..(d - 1)
    PROVE  (a * d + r) \div d = a /\ (a * d + r) % d = r
<1> DEFINE n == a * d + r
           x == n \div d
<1>1. n \in Nat /\ a * d \in Nat /\ n = a * d + r
  OBVIOUS
<1> HIDE DEF n
<1>2. x \in Nat /\ d * x <= n /\ n < d * x + d /\ n % d = n - d * x
  BY <1>1
<1> HIDE DEF x
<1>3. x = a
  <2>1. ASSUME x > a PROVE FALSE
    <3>1. d * x >= d * (a + 1)
      BY <1>2, <2>1
    <3>2. d * (a + 1) = a * d + d
      OBVIOUS
    <3>3. QED
      BY <1>1, <1>2, <3>1, <3>2
  <2>2. ASSUME x < a PROVE FALSE
    <3>1. d * (x + 1) <= d * a
      BY <1>2, <2>2
    <3>2. d * (x + 1) = d * x + d /\ d * a = a * d
      BY <1>2
    <3>3. QED
      BY <1>1, <1>2, <3>1, <3>2
  <2>3. QED
    BY <1>2, <2>1, <2>2
<1>4. n % d = r
  <2>1. d * x = a * d
    BY <1>3
  <2>2. QED
    BY <1>1, <1>2, <2>1
<1>5. QED
  BY <1>3, <1>4 DEF n, x

LEMMA Inside ==
    ASSUME NEW m \in Nat, NEW d \in Nat \ {0}, NEW a \in 0..(m - 1), NEW r \in 0..(d - 1)
    PROVE  a * d + r \in 0..(m * d - 1)
<1>1. (a + 1) * d <= m * d
  OBVIOUS
<1>2. (a + 1) * d = a * d + d
  OBVIOUS
<1>3. a * d \in Nat /\ m * d \in Nat
  OBVIOUS
<1>4. QED
  BY <1>1, <1>2, <1>3

\* The ranges of the devices are the features, in their order.
LEMMA RangesOrdered ==
    ASSUME call \in Calls, NEW a \in 0..select_num_used_devices,
           NEW b \in 0..select_num_used_devices, a <= b
    PROVE  /\ feature_ranges(a) \in Nat /\ feature_ranges(b) \in Nat
           /\ feature_ranges(a) <= feature_ranges(b)
           /\ feature_ranges(0) = 0 /\ feature_ranges(select_num_used_devices) = num_features
<1> DEFINE d == select_num_used_devices
           n == num_features
<1>1. n \in Nat \ {0} /\ d \in 1..n
  BY CallSizes
<1>2. \A c : feature_ranges(c) = (c * n) \div d
  BY DEF feature_ranges
<1>3. a \in Nat /\ b \in Nat
  BY <1>1
<1> HIDE DEF d, n
<1>4. a * n \in Nat /\ b * n \in Nat /\ a * n <= b * n /\ d \in Nat \ {0}
  BY <1>1, <1>3
<1>5. 0 \div d = 0 /\ (n * d) \div d = n
  <2>1. (n * d + 0) \div d = n /\ (0 * d + 0) \div d = 0
    BY <1>1, <1>4, Quotient
  <2>2. n * d + 0 = n * d /\ 0 * d + 0 = 0
    BY <1>1, <1>4
  <2>3. QED
    BY <2>1, <2>2
<1>6. feature_ranges(0) = 0 /\ feature_ranges(d) = n
  <2>1. d * n = n * d /\ 0 * n = 0
    BY <1>1, <1>4
  <2>2. QED
    BY <1>2, <1>5, <2>1
<1>7. (a * n) \div d \in Nat /\ (b * n) \div d \in Nat /\ (a * n) \div d <= (b * n) \div d
  BY <1>4, DivisionOrder
<1>8. QED
  BY <1>2, <1>6, <1>7 DEF d, n

LEMMA RangeOf ==
    ASSUME call \in Calls, NEW dev \in Devices
    PROVE  /\ feature_ranges(dev - 1) \in Nat /\ feature_ranges(dev) \in Nat
           /\ feature_ranges(dev) <= num_features
           /\ num_features_in_range(dev) \in Nat \ {0}
           /\ feature_ranges(dev) = feature_ranges(dev - 1) + num_features_in_range(dev)
<1>1. dev - 1 \in 0..select_num_used_devices /\ dev \in 0..select_num_used_devices
  BY CallSizes DEF Devices
<1>2. select_num_used_devices \in 0..select_num_used_devices /\ dev <= select_num_used_devices
  BY CallSizes DEF Devices
<1>3. /\ feature_ranges(dev - 1) \in Nat /\ feature_ranges(dev) \in Nat
      /\ feature_ranges(dev) <= feature_ranges(select_num_used_devices)
      /\ feature_ranges(select_num_used_devices) = num_features
  BY <1>1, <1>2, RangesOrdered DEF Devices
<1>4. num_features_in_range(dev) \in Nat \ {0}
  BY RangesNotEmpty
<1>5. QED
  BY <1>3, <1>4 DEF num_features_in_range

\* Every feature is on a device.
LEMMA RangesCover ==
    ASSUME call \in Calls, NEW f \in UpTo(num_features)
    PROVE  \E dev \in Devices : f \in feature_ranges(dev - 1)..(feature_ranges(dev) - 1)
<1> DEFINE d == select_num_used_devices
           n == num_features
           t == (f + 1) * d
           dev == (t + (n - 1)) \div n
<1>1. n \in Nat \ {0} /\ d \in 1..n /\ f \in 0..(n - 1)
  BY CallSizes DEF UpTo
<1>2. \A c : feature_ranges(c) = (c * n) \div d
  BY DEF feature_ranges
<1> HIDE DEF d, n
<1>3. t \in Nat /\ d \in Nat \ {0} /\ t >= d /\ t <= n * d
  <2>1. (f + 1) * d <= n * d /\ (f + 1) * d >= 1 * d
    BY <1>1
  <2>2. QED
    BY <1>1, <2>1
<1>4. t = f * d + d
  BY <1>1
<1> HIDE DEF t
<1>5. /\ dev \in Nat /\ n * dev <= t + (n - 1) /\ t + (n - 1) < n * dev + n
  <2>1. t + (n - 1) \in Nat
    BY <1>1, <1>3
  <2>2. QED
    BY <1>1, <2>1, Division
<1> HIDE DEF dev
<1>6. dev \in 1..d
  <2>1. ASSUME dev = 0 PROVE FALSE
    BY <1>1, <1>3, <1>5, <2>1
  <2>2. ASSUME dev >= d + 1 PROVE FALSE
    <3>1. n * dev >= n * (d + 1)
      BY <1>1, <1>3, <1>5, <2>2
    <3>2. n * (d + 1) = n * d + n
      BY <1>1, <1>3
    <3>3. QED
      BY <1>1, <1>3, <1>5, <3>1, <3>2
  <2>3. QED
    BY <1>3, <1>5, <2>1, <2>2
\* The end of the range is behind f: dev * n >= (f + 1) * d.
<1>7. feature_ranges(dev) > f
  <2>1. dev * n >= t /\ dev * n \in Nat
    BY <1>1, <1>3, <1>5
  <2> DEFINE x == (dev * n) \div d
             m == dev * n
  <2>2. m \in Nat /\ m >= t /\ x = m \div d
    BY <2>1
  <2> HIDE DEF m, x
  <2>3. x \in Nat /\ m < d * x + d
    BY <1>3, <2>2, Division
  <2>4. ASSUME x <= f PROVE FALSE
    <3>1. d * x <= d * f
      BY <1>1, <1>3, <2>3, <2>4
    <3>2. d * f = f * d
      BY <1>1, <1>3
    <3>3. QED
      BY <1>1, <1>3, <1>4, <2>2, <2>3, <3>1, <3>2
  <2>5. x > f
    BY <1>1, <2>3, <2>4
  <2>6. QED
    BY <1>2, <2>5 DEF x, m
\* Its beginning is not: (dev - 1) * n < (f + 1) * d.
<1>8. feature_ranges(dev - 1) <= f /\ feature_ranges(dev - 1) \in Nat
  <2>1. (dev - 1) * n < t /\ (dev - 1) * n \in Nat
    <3>1. (dev - 1) * n = n * dev - n
      BY <1>1, <1>5
    <3>2. dev - 1 \in Nat
      BY <1>6
    <3>3. QED
      BY <1>1, <1>3, <1>5, <3>1, <3>2
  <2> DEFINE x == ((dev - 1) * n) \div d
             m == (dev - 1) * n
  <2>2. m \in Nat /\ m < t /\ x = m \div d
    BY <2>1
  <2> HIDE DEF m, x
  <2>3. x \in Nat /\ d * x <= m
    BY <1>3, <2>2, Division
  <2>4. ASSUME x >= f + 1 PROVE FALSE
    <3>1. d * x >= d * (f + 1)
      BY <1>1, <1>3, <2>3, <2>4
    <3>2. d * (f + 1) = f * d + d
      BY <1>1, <1>3
    <3>3. QED
      BY <1>1, <1>3, <1>4, <2>2, <2>3, <3>1, <3>2
  <2>5. x <= f /\ x \in Nat
    BY <1>1, <2>3, <2>4
  <2>6. QED
    BY <1>2, <2>5 DEF x, m
<1>9. dev \in Devices
  BY <1>6 DEF Devices, d
<1>10. feature_ranges(dev) \in Nat
  BY <1>9, RangeOf
<1>11. f \in feature_ranges(dev - 1)..(feature_ranges(dev) - 1)
  BY <1>1, <1>7, <1>8, <1>10
<1>12. QED
  BY <1>9, <1>11
----------------------------------------------------------------------------
(* The order of the commands.                                              *)

LEMMA TupleElements ==
    ASSUME NEW a, NEW b, NEW c, NEW d, NEW e, NEW f, NEW g, NEW h, NEW i
    PROVE  /\ Len(<<a, b>>) = 2 /\ <<a, b>>[1] = a /\ <<a, b>>[2] = b
           /\ Len(<<a, b, c>>) = 3 /\ <<a, b, c>>[1] = a /\ <<a, b, c>>[2] = b /\ <<a, b, c>>[3] = c
           /\ LET s == <<a, b, c, d, e>>
              IN  Len(s) = 5 /\ s[1] = a /\ s[2] = b /\ s[3] = c /\ s[4] = d /\ s[5] = e
           /\ LET s == <<a, b, c, d, e, f, g, h, i>>
              IN  /\ Len(s) = 9 /\ s[1] = a /\ s[2] = b /\ s[3] = c /\ s[4] = d /\ s[5] = e
                  /\ s[6] = f /\ s[7] = g /\ s[8] = h /\ s[9] = i
  OBVIOUS

\* The rows that are copied to a device.
LastRow(dev) ==
    [f \in UpTo(num_features_in_range(dev)) |->
        SupportVector(num_support_vectors - 1, feature_ranges(dev - 1) + f)]

Rows(dev) ==
    [k \in UpTo(num_features_in_range(dev) * num_rows) |->
        transform_to_layout("sv", num_support_vectors - 1)[feature_ranges(dev - 1) * num_rows + k]]

LEMMA SetupShape ==
    ASSUME NEW dev
    PROVE  LET P == setup_data_on_device(dev)
               n == num_features_in_range(dev)
           IN  /\ Len(P) = 5
               /\ P[1] = Allocate("data_last_d", n + boundary_size)
               /\ P[2] = MemsetZero("data_last_d", Zero)
               /\ P[3] = CopyToDevice("data_last_d", LastRow(dev), n)
               /\ P[4] = Allocate("data_d", n * num_rows)
               /\ P[5] = CopyToDevice("data_d", Rows(dev), n * num_rows)
<1> DEFINE n == num_features_in_range(dev)
           c1 == Allocate("data_last_d", n + boundary_size)
           c2 == MemsetZero("data_last_d", Zero)
           c3 == CopyToDevice("data_last_d", LastRow(dev), n)
           c4 == Allocate("data_d", n * num_rows)
           c5 == CopyToDevice("data_d", Rows(dev), n * num_rows)
<1>1. setup_data_on_device(dev) = <<c1, c2, c3, c4, c5>>
  BY DEF setup_data_on_device, LastRow, Rows
<1> HIDE DEF c1, c2, c3, c4, c5
<1>2. LET s == <<c1, c2, c3, c4, c5>>
      IN  Len(s) = 5 /\ s[1] = c1 /\ s[2] = c2 /\ s[3] = c3 /\ s[4] = c4 /\ s[5] = c5
  BY TupleElements
<1>3. QED
  BY <1>1, <1>2 DEF c1, c2, c3, c4, c5

LEMMA QShape ==
    ASSUME NEW dev
    PROVE  LET P == generate_q(dev)
           IN  /\ Len(P) = 3
               /\ P[1] = Allocate("q_d", num_support_vectors - 1 + boundary_size)
               /\ P[2] = MemsetZero("q_d", Zero) /\ P[3] = Kernel("q", "q_d")
<1> DEFINE c1 == Allocate("q_d", num_support_vectors - 1 + boundary_size)
           c2 == MemsetZero("q_d", Zero)
           c3 == Kernel("q", "q_d")
<1>1. generate_q(dev) = <<c1, c2, c3>>
  BY DEF generate_q
<1> HIDE DEF c1, c2, c3
<1>2. QED
  BY <1>1, TupleElements DEF c1, c2, c3

LEMMA ReductionShape ==
    ASSUME NEW dev
    PROVE  LET P == device_reduction(dev)
           IN  Len(P) = 3 /\ P[1] = Synchronize /\ P[2] = CopyToHost("q_d") /\ P[3] = Free("q_d")
<1> DEFINE c1 == Synchronize
           c2 == CopyToHost("q_d")
           c3 == Free("q_d")
<1>1. device_reduction(dev) = <<c1, c2, c3>>
  BY DEF device_reduction
<1> HIDE DEF c1, c2, c3
<1>2. QED
  BY <1>1, TupleElements DEF c1, c2, c3

Weights == [i \in UpTo(num_support_vectors) |-> Alpha(i)]

LEMMA AlphaShape ==
    ASSUME NEW dev
    PROVE  LET P == setup_alpha(dev)
           IN  /\ Len(P) = 3
               /\ P[1] = Allocate("alpha_d", num_support_vectors + THREAD_BLOCK_SIZE)
               /\ P[2] = MemsetZero("alpha_d", Zero)
               /\ P[3] = CopyToDevice("alpha_d", Weights, num_support_vectors)
<1> DEFINE c1 == Allocate("alpha_d", num_support_vectors + THREAD_BLOCK_SIZE)
           c2 == MemsetZero("alpha_d", Zero)
           c3 == CopyToDevice("alpha_d", Weights, num_support_vectors)
<1>1. setup_alpha(dev) = <<c1, c2, c3>>
  BY DEF setup_alpha, Weights
<1> HIDE DEF c1, c2, c3
<1>2. QED
  BY <1>1, TupleElements DEF c1, c2, c3

LEMMA WShape ==
    ASSUME NEW dev
    PROVE  LET P == calculate_w(dev)
           IN  /\ Len(P) = 5
               /\ P[1] = Allocate("w_d", num_features_in_range(dev)) /\ P[2] = Kernel("w", "w_d")
               /\ P[3] = Synchronize /\ P[4] = CopyToHost("w_d") /\ P[5] = Free("w_d")
<1> DEFINE c1 == Allocate("w_d", num_features_in_range(dev))
           c2 == Kernel("w", "w_d")
           c3 == Synchronize
           c4 == CopyToHost("w_d")
           c5 == Free("w_d")
<1>1. calculate_w(dev) = <<c1, c2, c3, c4, c5>>
  BY DEF calculate_w
<1> HIDE DEF c1, c2, c3, c4, c5
<1>2. LET s == <<c1, c2, c3, c4, c5>>
      IN  Len(s) = 5 /\ s[1] = c1 /\ s[2] = c2 /\ s[3] = c3 /\ s[4] = c4 /\ s[5] = c5
  BY TupleElements
<1>3. QED
  BY <1>1, <1>2 DEF c1, c2, c3, c4, c5

LEMMA PredictShape ==
    ASSUME NEW dev
    PROVE  LET P == predict(dev)
               size == num_features * (num_predict_points + boundary_size)
           IN  /\ Len(P) = 9
               /\ P[1] = Allocate("out_d", num_predict_points + boundary_size)
               /\ P[2] = MemsetZero("out_d", EmptyBag)
               /\ P[3] = Allocate("point_d", size) /\ P[4] = MemsetZero("point_d", Zero)
               /\ P[5] = CopyToDevice("point_d", transform_to_layout("point", num_predict_points), size)
               /\ P[6] = Kernel("predict", "out_d") /\ P[7] = CopyToHost("out_d")
               /\ P[8] = Free("point_d") /\ P[9] = Free("out_d")
<1> DEFINE size == num_features * (num_predict_points + boundary_size)
           c1 == Allocate("out_d", num_predict_points + boundary_size)
           c2 == MemsetZero("out_d", EmptyBag)
           c3 == Allocate("point_d", size)
           c4 == MemsetZero("point_d", Zero)
           c5 == CopyToDevice("point_d", transform_to_layout("point", num_predict_points), size)
           c6 == Kernel("predict", "out_d")
           c7 == CopyToHost("out_d")
           c8 == Free("point_d")
           c9 == Free("out_d")
<1>1. predict(dev) = <<c1, c2, c3, c4, c5, c6, c7, c8, c9>>
  BY DEF predict
<1> HIDE DEF c1, c2, c3, c4, c5, c6, c7, c8, c9
<1>2. LET s == <<c1, c2, c3, c4, c5, c6, c7, c8, c9>>
      IN  /\ Len(s) = 9 /\ s[1] = c1 /\ s[2] = c2 /\ s[3] = c3 /\ s[4] = c4 /\ s[5] = c5
          /\ s[6] = c6 /\ s[7] = c7 /\ s[8] = c8 /\ s[9] = c9
  BY TupleElements
<1>3. QED
  BY <1>1, <1>2 DEF c1, c2, c3, c4, c5, c6, c7, c8, c9

LEMMA OneAndTwo ==
    ASSUME NEW a, NEW b, NEW c PROVE <<a>> \o <<b, c>> = <<a, b, c>>
<1> DEFINE s == <<a>>
           t == <<b, c>>
           u == <<a, b, c>>
<1>1. /\ s \in Seq({a, b, c}) /\ t \in Seq({a, b, c}) /\ u \in Seq({a, b, c})
      /\ Len(s) = 1 /\ Len(t) = 2 /\ Len(u) = 3
      /\ s[1] = a /\ t[1] = b /\ t[2] = c /\ u[1] = a /\ u[2] = b /\ u[3] = c
  OBVIOUS
<1> HIDE DEF s, t, u
<1>2. /\ s \o t \in Seq({a, b, c}) /\ Len(s \o t) = 3
      /\ \A x \in 1..3 : (s \o t)[x] = IF x <= 1 THEN s[x] ELSE t[x - 1]
  BY <1>1, ConcatProperties, SMTT(60)
<1>3. \A x \in 1..3 : (s \o t)[x] = u[x]
  BY <1>1, <1>2
<1>4. s \o t = u
  BY <1>1, <1>2, <1>3, SeqEqual
<1>5. QED
  BY <1>4 DEF s, t, u

LEMMA ReleaseShape ==
    ASSUME NEW dev
    PROVE  LET P == release(dev)
           IN  Len(P) \in 2..3 /\ \A k \in 1..Len(P) : P[k].op = "free"
<1> DEFINE c1 == Free("alpha_d")
           c2 == Free("data_last_d")
           c3 == Free("data_d")
<1>1. c1.op = "free" /\ c2.op = "free" /\ c3.op = "free"
  BY Fields
<1>2. CASE call.operation = "predict"
  <2>1. release(dev) = <<c1>> \o <<c2, c3>>
    BY <1>2 DEF release
  <2>2. release(dev) = <<c1, c2, c3>>
    BY <2>1, OneAndTwo, Zenon
  <2> HIDE DEF c1, c2, c3
  <2>3. Len(release(dev)) = 3
    BY <2>2, TupleElements, Zenon
  <2>4. release(dev)[1] = c1 /\ release(dev)[2] = c2 /\ release(dev)[3] = c3
    BY <2>2
  <2>5. QED
    BY <1>1, <2>3, <2>4
<1>3. CASE call.operation # "predict"
  <2>1. release(dev) = <<c2, c3>>
    BY <1>3 DEF release
  <2> HIDE DEF c1, c2, c3
  <2>3. Len(release(dev)) = 2
    BY <2>1, TupleElements, Zenon
  <2>4. release(dev)[1] = c2 /\ release(dev)[2] = c3
    BY <2>1
  <2>5. QED
    BY <1>1, <2>3, <2>4
<1>4. QED
  BY <1>2, <1>3

\* The buffer is new: nothing is said of its contents yet.
NewBuffer(b, n) ==
    /\ b = "data_last_d" => n < 2
    /\ b = "data_d" => n < 3
    /\ b \in {"alpha_d", "q_d"} => n < 4
    /\ b \in {"w_d", "out_d"} => n < 6
    /\ b = "point_d" => n < 8

\* The next command of a program is the next one in the order.
NextSent(name, dev, k) ==
    LET c == Whole(name, dev)[k + 1]
        n == SentBefore(name) + SentIn(name, k)
    IN  /\ n \in Nat
        /\ IF c.op \in Ops
           THEN /\ SentBefore(name) + SentIn(name, k + 1) = n + 1
                /\ c = Nth(dev, n + 1)
           ELSE SentBefore(name) + SentIn(name, k + 1) = n
        /\ c.op = "allocate" => NewBuffer(c.buffer, n)

LEMMA Wholes ==
    ASSUME NEW dev
    PROVE  /\ Whole("setup", dev) = setup_data_on_device(dev) /\ Whole("q", dev) = generate_q(dev)
           /\ Whole("reduction", dev) = device_reduction(dev) /\ Whole("alpha", dev) = setup_alpha(dev)
           /\ Whole("w", dev) = calculate_w(dev) /\ Whole("predict", dev) = predict(dev)
           /\ Whole("release", dev) = release(dev) /\ Whole("host", dev) = <<>>
  BY DEF Whole, Program

\* Which phases there are in which calls.
Suits(name) ==
    /\ call.operation \in {"q", "predict"}
    /\ name \in {"q", "reduction"} => call.operation = "q"
    /\ name \in {"alpha", "w", "predict", "host"} => call.operation = "predict"
    /\ name \in {"w", "host"} => call.kernel_type = "linear"
    /\ name = "predict" => call.kernel_type # "linear"
    /\ name = "w" => ~call.has_w

LEMMA IsNext ==
    ASSUME NEW name, NEW dev, NEW k \in Nat, NEW c, NEW n \in Nat, c = Whole(name, dev)[k + 1],
           n = SentBefore(name) + SentIn(name, k),
           LET m == SentBefore(name) + SentIn(name, k + 1)
           IN  \/ c.op \in Ops /\ m = n + 1 /\ c = Nth(dev, n + 1)
               \/ c.op \in {"free", "synchronize"} /\ m = n
    PROVE  NextSent(name, dev, k)
  BY DEF NextSent, Ops

LEMMA IsAllocation ==
    ASSUME NEW name, NEW dev, NEW k, NEW b, NEW n \in Nat, NewBuffer(b, n),
           Whole(name, dev)[k + 1].op = "allocate", Whole(name, dev)[k + 1].buffer = b,
           SentBefore(name) + SentIn(name, k) = n, SentBefore(name) + SentIn(name, k + 1) = n
    PROVE  NextSent(name, dev, k)
  BY DEF NextSent, Ops

LEMMA OrderOfCommands ==
    ASSUME NEW dev, NEW name \in Names, Suits(name), NEW k \in 0..(Len(Whole(name, dev)) - 1)
    PROVE  NextSent(name, dev, k)
<1>2. CASE name = "setup"
  <2> DEFINE P == setup_data_on_device(dev)
  <2>1. /\ Len(P) = 5 /\ P[1].op = "allocate" /\ P[1].buffer = "data_last_d"
        /\ P[2].op = "memset" /\ P[3].op = "copy_to_device"
        /\ P[4].op = "allocate" /\ P[4].buffer = "data_d" /\ P[5].op = "copy_to_device"
    BY SetupShape, Fields
  <2>2. Nth(dev, 1) = P[2] /\ Nth(dev, 2) = P[3] /\ Nth(dev, 3) = P[5]
    BY DEF Nth
  <2>3. Whole(name, dev) = P
    BY <1>2, Wholes
  <2>4. SentBefore(name) = 0
    BY <1>2 DEF SentBefore
  <2> HIDE DEF P
  <2>5. k \in 0..4
    <3>1. Len(Whole(name, dev)) = 5
      BY <2>1, <2>3, Zenon
    <3>2. QED
      BY <3>1
  <2>6. CASE k = 0
    <3>1. P[1] = Whole(name, dev)[k + 1] /\ SentBefore(name) + SentIn(name, k) = 0
          /\ SentBefore(name) + SentIn(name, k + 1) = 0
      BY <1>2, <2>3, <2>4, <2>6 DEF SentIn
    <3>2. NewBuffer("data_last_d", 0)
      BY DEF NewBuffer
    <3>3. QED
      BY <2>1, <3>1, <3>2, IsAllocation
  <2>7. CASE k = 1
    <3>1. P[2] = Whole(name, dev)[k + 1] /\ 0 = SentBefore(name) + SentIn(name, k)
          /\ SentBefore(name) + SentIn(name, k + 1) = 1
      BY <1>2, <2>3, <2>4, <2>7 DEF SentIn
    <3>2. QED
      BY <2>1, <2>2, <2>7, <3>1, IsNext DEF Ops
  <2>8. CASE k = 2
    <3>1. P[3] = Whole(name, dev)[k + 1] /\ 1 = SentBefore(name) + SentIn(name, k)
          /\ SentBefore(name) + SentIn(name, k + 1) = 2
      BY <1>2, <2>3, <2>4, <2>8 DEF SentIn
    <3>2. QED
      BY <2>1, <2>2, <2>8, <3>1, IsNext DEF Ops
  <2>9. CASE k = 3
    <3>1. P[4] = Whole(name, dev)[k + 1] /\ SentBefore(name) + SentIn(name, k) = 2
          /\ SentBefore(name) + SentIn(name, k + 1) = 2
      BY <1>2, <2>3, <2>4, <2>9 DEF SentIn
    <3>2. NewBuffer("data_d", 2)
      BY DEF NewBuffer
    <3>3. QED
      BY <2>1, <3>1, <3>2, IsAllocation
  <2>10. CASE k = 4
    <3>1. P[5] = Whole(name, dev)[k + 1] /\ 2 = SentBefore(name) + SentIn(name, k)
          /\ SentBefore(name) + SentIn(name, k + 1) = 3
      BY <1>2, <2>3, <2>4, <2>10 DEF SentIn
    <3>2. QED
      BY <2>1, <2>2, <2>10, <3>1, IsNext DEF Ops
  <2>11. QED
    BY <2>5, <2>6, <2>7, <2>8, <2>9, <2>10
<1>3. CASE name = "q"
  <2> DEFINE P == generate_q(dev)
  <2>1. /\ Len(P) = 3 /\ P[1].op = "allocate" /\ P[1].buffer = "q_d"
        /\ P[2].op = "memset" /\ P[3].op = "q"
    BY QShape, Fields
  <2>2. Nth(dev, 4) = P[2] /\ Nth(dev, 5) = P[3]
    BY <1>3 DEF Nth, Suits
  <2>3. Whole(name, dev) = P
    BY <1>3, Wholes
  <2>4. SentBefore(name) = 3
    BY <1>3 DEF SentBefore
  <2> HIDE DEF P
  <2>5. k \in 0..2
    <3>1. Len(Whole(name, dev)) = 3
      BY <2>1, <2>3, Zenon
    <3>2. QED
      BY <3>1
  <2>6. CASE k = 0
    <3>1. P[1] = Whole(name, dev)[k + 1] /\ SentBefore(name) + SentIn(name, k) = 3
          /\ SentBefore(name) + SentIn(name, k + 1) = 3
      BY <1>3, <2>3, <2>4, <2>6 DEF SentIn
    <3>2. NewBuffer("q_d", 3)
      BY DEF NewBuffer
    <3>3. QED
      BY <2>1, <3>1, <3>2, IsAllocation
  <2>7. CASE k = 1
    <3>1. P[2] = Whole(name, dev)[k + 1] /\ 3 = SentBefore(name) + SentIn(name, k)
          /\ SentBefore(name) + SentIn(name, k + 1) = 4
      BY <1>3, <2>3, <2>4, <2>7 DEF SentIn
    <3>2. QED
      BY <2>1, <2>2, <2>7, <3>1, IsNext DEF Ops
  <2>8. CASE k = 2
    <3>1. P[3] = Whole(name, dev)[k + 1] /\ 4 = SentBefore(name) + SentIn(name, k)
          /\ SentBefore(name) + SentIn(name, k + 1) = 5
      BY <1>3, <2>3, <2>4, <2>8 DEF SentIn
    <3>2. QED
      BY <2>1, <2>2, <2>8, <3>1, IsNext DEF Ops
  <2>9. QED
    BY <2>5, <2>6, <2>7, <2>8
<1>4. CASE name = "reduction"
  <2> DEFINE P == device_reduction(dev)
  <2>1. Len(P) = 3 /\ P[1].op = "synchronize" /\ P[2].op = "copy_to_host" /\ P[3].op = "free"
    BY ReductionShape, Fields
  <2>2. Nth(dev, 6) = P[2]
    BY <1>4 DEF Nth, Suits
  <2>3. Whole(name, dev) = P
    BY <1>4, Wholes
  <2>4. SentBefore(name) = 5
    BY <1>4 DEF SentBefore
  <2> HIDE DEF P
  <2>5. k \in 0..2
    <3>1. Len(Whole(name, dev)) = 3
      BY <2>1, <2>3, Zenon
    <3>2. QED
      BY <3>1
  <2>6. CASE k = 0
    <3>1. P[1] = Whole(name, dev)[k + 1] /\ 5 = SentBefore(name) + SentIn(name, k)
          /\ SentBefore(name) + SentIn(name, k + 1) = 5
      BY <1>4, <2>3, <2>4, <2>6 DEF SentIn
    <3>2. QED
      BY <2>1, <2>2, <2>6, <3>1, IsNext DEF Ops
  <2>7. CASE k = 1
    <3>1. P[2] = Whole(name, dev)[k + 1] /\ 5 = SentBefore(name) + SentIn(name, k)
          /\ SentBefore(name) + SentIn(name, k + 1) = 6
      BY <1>4, <2>3, <2>4, <2>7 DEF SentIn
    <3>2. QED
      BY <2>1, <2>2, <2>7, <3>1, IsNext DEF Ops
  <2>8. CASE k = 2
    <3>1. P[3] = Whole(name, dev)[k + 1] /\ 6 = SentBefore(name) + SentIn(name, k)
          /\ SentBefore(name) + SentIn(name, k + 1) = 6
      BY <1>4, <2>3, <2>4, <2>8 DEF SentIn
    <3>2. QED
      BY <2>1, <2>2, <2>8, <3>1, IsNext DEF Ops
  <2>9. QED
    BY <2>5, <2>6, <2>7, <2>8
<1>5. CASE name = "alpha"
  <2> DEFINE P == setup_alpha(dev)
  <2>1. /\ Len(P) = 3 /\ P[1].op = "allocate" /\ P[1].buffer = "alpha_d"
        /\ P[2].op = "memset" /\ P[3].op = "copy_to_device"
    BY AlphaShape, Fields
  <2>2. Nth(dev, 4) = P[2] /\ Nth(dev, 5) = P[3]
    BY <1>5 DEF Nth, Suits
  <2>3. Whole(name, dev) = P
    BY <1>5, Wholes
  <2>4. SentBefore(name) = 3
    BY <1>5 DEF SentBefore
  <2> HIDE DEF P
  <2>5. k \in 0..2
    <3>1. Len(Whole(name, dev)) = 3
      BY <2>1, <2>3, Zenon
    <3>2. QED
      BY <3>1
  <2>6. CASE k = 0
    <3>1. P[1] = Whole(name, dev)[k + 1] /\ SentBefore(name) + SentIn(name, k) = 3
          /\ SentBefore(name) + SentIn(name, k + 1) = 3
      BY <1>5, <2>3, <2>4, <2>6 DEF SentIn
    <3>2. NewBuffer("alpha_d", 3)
      BY DEF NewBuffer
    <3>3. QED
      BY <2>1, <3>1, <3>2, IsAllocation
  <2>7. CASE k = 1
    <3>1. P[2] = Whole(name, dev)[k + 1] /\ 3 = SentBefore(name) + SentIn(name, k)
          /\ SentBefore(name) + SentIn(name, k + 1) = 4
      BY <1>5, <2>3, <2>4, <2>7 DEF SentIn
    <3>2. QED
      BY <2>1, <2>2, <2>7, <3>1, IsNext DEF Ops
  <2>8. CASE k = 2
    <3>1. P[3] = Whole(name, dev)[k + 1] /\ 4 = SentBefore(name) + SentIn(name, k)
          /\ SentBefore(name) + SentIn(name, k + 1) = 5
      BY <1>5, <2>3, <2>4, <2>8 DEF SentIn
    <3>2. QED
      BY <2>1, <2>2, <2>8, <3>1, IsNext DEF Ops
  <2>9. QED
    BY <2>5, <2>6, <2>7, <2>8
<1>6. CASE name = "w"
  <2> DEFINE P == calculate_w(dev)
  <2>1. /\ Len(P) = 5 /\ P[1].op = "allocate" /\ P[1].buffer = "w_d" /\ P[2].op = "w"
        /\ P[3].op = "synchronize" /\ P[4].op = "copy_to_host" /\ P[5].op = "free"
    BY WShape, Fields
  <2>2. Nth(dev, 6) = P[2] /\ Nth(dev, 7) = P[4]
    BY <1>6 DEF Nth, Suits
  <2>3. Whole(name, dev) = P
    BY <1>6, Wholes
  <2>4. SentBefore(name) = 5
    BY <1>6 DEF SentBefore
  <2> HIDE DEF P
  <2>5. k \in 0..4
    <3>1. Len(Whole(name, dev)) = 5
      BY <2>1, <2>3, Zenon
    <3>2. QED
      BY <3>1
  <2>6. CASE k = 0
    <3>1. P[1] = Whole(name, dev)[k + 1] /\ SentBefore(name) + SentIn(name, k) = 5
          /\ SentBefore(name) + SentIn(name, k + 1) = 5
      BY <1>6, <2>3, <2>4, <2>6 DEF SentIn
    <3>2. NewBuffer("w_d", 5)
      BY DEF NewBuffer
    <3>3. QED
      BY <2>1, <3>1, <3>2, IsAllocation
  <2>7. CASE k = 1
    <3>1. P[2] = Whole(name, dev)[k + 1] /\ 5 = SentBefore(name) + SentIn(name, k)
          /\ SentBefore(name) + SentIn(name, k + 1) = 6
      BY <1>6, <2>3, <2>4, <2>7 DEF SentIn
    <3>2. QED
      BY <2>1, <2>2, <2>7, <3>1, IsNext DEF Ops
  <2>8. CASE k = 2
    <3>1. P[3] = Whole(name, dev)[k + 1] /\ 6 = SentBefore(name) + SentIn(name, k)
          /\ SentBefore(name) + SentIn(name, k + 1) = 6
      BY <1>6, <2>3, <2>4, <2>8 DEF SentIn
    <3>2. QED
      BY <2>1, <2>2, <2>8, <3>1, IsNext DEF Ops
  <2>9. CASE k = 3
    <3>1. P[4] = Whole(name, dev)[k + 1] /\ 6 = SentBefore(name) + SentIn(name, k)
          /\ SentBefore(name) + SentIn(name, k + 1) = 7
      BY <1>6, <2>3, <2>4, <2>9 DEF SentIn
    <3>2. QED
      BY <2>1, <2>2, <2>9, <3>1, IsNext DEF Ops
  <2>10. CASE k = 4
    <3>1. P[5] = Whole(name, dev)[k + 1] /\ 7 = SentBefore(name) + SentIn(name, k)
          /\ SentBefore(name) + SentIn(name, k + 1) = 7
      BY <1>6, <2>3, <2>4, <2>10 DEF SentIn
    <3>2. QED
      BY <2>1, <2>2, <2>10, <3>1, IsNext DEF Ops
  <2>11. QED
    BY <2>5, <2>6, <2>7, <2>8, <2>9, <2>10
<1>7. CASE name = "predict"
  <2> DEFINE P == predict(dev)
  <2>1. /\ Len(P) = 9 /\ P[1].op = "allocate" /\ P[1].buffer = "out_d" /\ P[2].op = "memset"
        /\ P[3].op = "allocate" /\ P[3].buffer = "point_d" /\ P[4].op = "memset"
        /\ P[5].op = "copy_to_device" /\ P[6].op = "predict" /\ P[7].op = "copy_to_host"
        /\ P[8].op = "free" /\ P[9].op = "free"
    BY PredictShape, Fields
  <2>2. /\ Nth(dev, 6) = P[2] /\ Nth(dev, 7) = P[4] /\ Nth(dev, 8) = P[5]
        /\ Nth(dev, 9) = P[6] /\ Nth(dev, 10) = P[7]
    BY <1>7 DEF Nth, Suits
  <2>3. Whole(name, dev) = P
    BY <1>7, Wholes
  <2>4. SentBefore(name) = 5
    BY <1>7 DEF SentBefore
  <2> HIDE DEF P
  <2>5. k \in 0..8
    <3>1. Len(Whole(name, dev)) = 9
      BY <2>1, <2>3, Zenon
    <3>2. QED
      BY <3>1
  <2>6. CASE k = 0
    <3>1. P[1] = Whole(name, dev)[k + 1] /\ SentBefore(name) + SentIn(name, k) = 5
          /\ SentBefore(name) + SentIn(name, k + 1) = 5
      BY <1>7, <2>3, <2>4, <2>6 DEF SentIn
    <3>2. NewBuffer("out_d", 5)
      BY DEF NewBuffer
    <3>3. QED
      BY <2>1, <3>1, <3>2, IsAllocation
  <2>7. CASE k = 1
    <3>1. P[2] = Whole(name, dev)[k + 1] /\ 5 = SentBefore(name) + SentIn(name, k)
          /\ SentBefore(name) + SentIn(name, k + 1) = 6
      BY <1>7, <2>3, <2>4, <2>7 DEF SentIn
    <3>2. QED
      BY <2>1, <2>2, <2>7, <3>1, IsNext DEF Ops
  <2>8. CASE k = 2
    <3>1. P[3] = Whole(name, dev)[k + 1] /\ SentBefore(name) + SentIn(name, k) = 6
          /\ SentBefore(name) + SentIn(name, k + 1) = 6
      BY <1>7, <2>3, <2>4, <2>8 DEF SentIn
    <3>2. NewBuffer("point_d", 6)
      BY DEF NewBuffer
    <3>3. QED
      BY <2>1, <3>1, <3>2, IsAllocation
  <2>9. CASE k = 3
    <3>1. P[4] = Whole(name, dev)[k + 1] /\ 6 = SentBefore(name) + SentIn(name, k)
          /\ SentBefore(name) + SentIn(name, k + 1) = 7
      BY <1>7, <2>3, <2>4, <2>9 DEF SentIn
    <3>2. QED
      BY <2>1, <2>2, <2>9, <3>1, IsNext DEF Ops
  <2>10. CASE k = 4
    <3>1. P[5] = Whole(name, dev)[k + 1] /\ 7 = SentBefore(name) + SentIn(name, k)
          /\ SentBefore(name) + SentIn(name, k + 1) = 8
      BY <1>7, <2>3, <2>4, <2>10 DEF SentIn
    <3>2. QED
      BY <2>1, <2>2, <2>10, <3>1, IsNext DEF Ops
  <2>11. CASE k = 5
    <3>1. P[6] = Whole(name, dev)[k + 1] /\ 8 = SentBefore(name) + SentIn(name, k)
          /\ SentBefore(name) + SentIn(name, k + 1) = 9
      BY <1>7, <2>3, <2>4, <2>11 DEF SentIn
    <3>2. QED
      BY <2>1, <2>2, <2>11, <3>1, IsNext DEF Ops
  <2>12. CASE k = 6
    <3>1. P[7] = Whole(name, dev)[k + 1] /\ 9 = SentBefore(name) + SentIn(name, k)
          /\ SentBefore(name) + SentIn(name, k + 1) = 10
      BY <1>7, <2>3, <2>4, <2>12 DEF SentIn
    <3>2. QED
      BY <2>1, <2>2, <2>12, <3>1, IsNext DEF Ops
  <2>13. CASE k = 7
    <3>1. P[8] = Whole(name, dev)[k + 1] /\ 10 = SentBefore(name) + SentIn(name, k)
          /\ SentBefore(name) + SentIn(name, k + 1) = 10
      BY <1>7, <2>3, <2>4, <2>13 DEF SentIn
    <3>2. QED
      BY <2>1, <2>2, <2>13, <3>1, IsNext DEF Ops
  <2>14. CASE k = 8
    <3>1. P[9] = Whole(name, dev)[k + 1] /\ 10 = SentBefore(name) + SentIn(name, k)
          /\ SentBefore(name) + SentIn(name, k + 1) = 10
      BY <1>7, <2>3, <2>4, <2>14 DEF SentIn
    <3>2. QED
      BY <2>1, <2>2, <2>14, <3>1, IsNext DEF Ops
  <2>15. QED
    BY <2>5, <2>6, <2>7, <2>8, <2>9, <2>10, <2>11, <2>12, <2>13, <2>14
<1>8. CASE name = "host"
  BY <1>8, Wholes
<1>9. CASE name = "release"
  <2> DEFINE P == release(dev)
  <2>1. Len(P) \in 2..3 /\ \A l \in 1..Len(P) : P[l].op = "free"
    BY ReleaseShape
  <2>2. Whole(name, dev) = P
    BY <1>9, Wholes
  <2>3. SentBefore(name) \in Nat
    BY <1>9 DEF SentBefore, Total
  <2> HIDE DEF P
  <2>4. k \in 0..2 /\ P[k + 1].op = "free"
    BY <2>1, <2>2
  <2>5. SentIn(name, k) = 0 /\ SentIn(name, k + 1) = 0
    BY <1>9 DEF SentIn
  <2>6. QED
    BY <2>2, <2>3, <2>4, <2>5 DEF NextSent, Ops
<1>10. QED
  BY <1>2, <1>3, <1>4, <1>5, <1>6, <1>7, <1>8, <1>9 DEF Names

\* Commands of a phase; the last phase is followed by none.
Length(name) ==
    CASE name \in {"setup", "w"} -> 5
      [] name \in {"q", "reduction", "alpha"} -> 3
      [] name = "predict" -> 9
      [] name = "host" -> 0

LEMMA Lengths ==
    ASSUME NEW dev, NEW name \in Names \ {"release"}
    PROVE  Len(Whole(name, dev)) = Length(name)
<1>1. /\ Len(setup_data_on_device(dev)) = 5 /\ Len(generate_q(dev)) = 3 /\ Len(device_reduction(dev)) = 3
      /\ Len(setup_alpha(dev)) = 3 /\ Len(calculate_w(dev)) = 5 /\ Len(predict(dev)) = 9
  BY SetupShape, QShape, ReductionShape, AlphaShape, WShape, PredictShape
<1>2. Len(<<>>) = 0
  OBVIOUS
<1>3. CASE name \in {"setup", "w"}
  <2>1. Length(name) = 5 /\ Whole(name, dev) \in {setup_data_on_device(dev), calculate_w(dev)}
    BY <1>3, Wholes DEF Length
  <2>2. Len(Whole(name, dev)) = 5
    BY <1>1, <2>1, Zenon
  <2>3. QED
    BY <2>1, <2>2
<1>4. CASE name \in {"q", "reduction", "alpha"}
  <2>1. /\ Length(name) = 3
        /\ Whole(name, dev) \in {generate_q(dev), device_reduction(dev), setup_alpha(dev)}
    BY <1>4, Wholes DEF Length
  <2>2. Len(Whole(name, dev)) = 3
    BY <1>1, <2>1, Zenon
  <2>3. QED
    BY <2>1, <2>2
<1>5. CASE name = "predict"
  <2>1. Length(name) = 9 /\ Whole(name, dev) = predict(dev)
    BY <1>5, Wholes DEF Length
  <2>2. Len(Whole(name, dev)) = 9
    BY <1>1, <2>1, Zenon
  <2>3. QED
    BY <2>1, <2>2
<1>6. CASE name = "host"
  <2>1. Length(name) = 0 /\ Whole(name, dev) = <<>>
    BY <1>6, Wholes DEF Length
  <2>2. Len(Whole(name, dev)) = 0
    BY <1>2, <2>1, Zenon
  <2>3. QED
    BY <2>1, <2>2
<1>7. QED
  BY <1>3, <1>4, <1>5, <1>6 DEF Names

\* A phase begins where the one before has ended.
LEMMA OrderOfPhases ==
    ASSUME Stage, Route, Len(phase) > 1
    PROVE  /\ Suits(Head(phase)) /\ Suits(Head(Tail(phase)))
           /\ SentIn(Head(Tail(phase)), 0) = 0 /\ SentBefore(Head(Tail(phase))) \in Nat
           /\ SentBefore(Head(Tail(phase))) = SentBefore(Head(phase)) + SentIn(Head(phase), Length(Head(phase)))
<1>1. ASSUME NEW a, NEW b, NEW c, NEW d, NEW e
      PROVE  /\ Len(<<a>>) = 1
             /\ Head(<<a>>) = a /\ Head(<<a, b>>) = a /\ Tail(<<a, b>>) = <<b>>
             /\ Head(<<a, b, c>>) = a /\ Tail(<<a, b, c>>) = <<b, c>>
             /\ Head(<<a, b, c, d>>) = a /\ Tail(<<a, b, c, d>>) = <<b, c, d>>
             /\ Head(<<a, b, c, d, e>>) = a /\ Tail(<<a, b, c, d, e>>) = <<b, c, d, e>>
  OBVIOUS
<1>2. /\ Length("setup") = 5 /\ Length("q") = 3 /\ Length("reduction") = 3 /\ Length("alpha") = 3
      /\ Length("w") = 5 /\ Length("predict") = 9 /\ Length("host") = 0
  BY DEF Length
<1>3. /\ SentIn("setup", Length("setup")) = 3 /\ SentIn("q", Length("q")) = 2
      /\ SentIn("reduction", Length("reduction")) = 1 /\ SentIn("alpha", Length("alpha")) = 2
      /\ SentIn("w", Length("w")) = 2 /\ SentIn("predict", Length("predict")) = 5
      /\ SentIn("host", Length("host")) = 0
      /\ SentIn("q", 0) = 0 /\ SentIn("reduction", 0) = 0 /\ SentIn("alpha", 0) = 0
      /\ SentIn("w", 0) = 0 /\ SentIn("predict", 0) = 0 /\ SentIn("host", 0) = 0
      /\ SentIn("release", 0) = 0
  BY <1>2 DEF SentIn
<1>4. phase # <<"release">>
  <2>1. Len(<<"release">>) = 1
    OBVIOUS
  <2>2. ASSUME phase = <<"release">> PROVE FALSE
    <3>1. Len(phase) = 1
      BY <2>1, <2>2, Zenon
    <3>2. QED
      BY <3>1
  <2>3. QED
    BY <2>2
<1> DEFINE Moves(a, b) == Head(phase) = a /\ Head(Tail(phase)) = b
<1>5. CASE call.operation = "q"
  <2>1. phase \in {<<"setup", "q", "reduction", "release">>, <<"q", "reduction", "release">>,
                   <<"reduction", "release">>}
    BY <1>4, <1>5 DEF Stage
  <2>2. Moves("setup", "q") \/ Moves("q", "reduction") \/ Moves("reduction", "release")
    BY <1>1, <2>1
  <2>3. /\ Suits("setup") /\ Suits("q") /\ Suits("reduction") /\ Suits("release")
        /\ SentBefore("setup") = 0 /\ SentBefore("q") = 3 /\ SentBefore("reduction") = 5
        /\ SentBefore("release") = 6
    BY <1>5 DEF Suits, SentBefore, Total
  <2>4. CASE Moves("setup", "q")
    BY <1>3, <2>3, <2>4
  <2>5. CASE Moves("q", "reduction")
    BY <1>3, <2>3, <2>5
  <2>6. CASE Moves("reduction", "release")
    BY <1>3, <2>3, <2>6
  <2>7. QED
    BY <2>2, <2>4, <2>5, <2>6
<1>6. CASE call.operation = "predict" /\ call.kernel_type # "linear"
  <2>1. phase \in {<<"setup", "alpha", "predict", "release">>, <<"alpha", "predict", "release">>,
                   <<"predict", "release">>}
    BY <1>4, <1>6 DEF Stage
  <2>2. Moves("setup", "alpha") \/ Moves("alpha", "predict") \/ Moves("predict", "release")
    BY <1>1, <2>1
  <2>3. /\ Suits("setup") /\ Suits("alpha") /\ Suits("predict") /\ Suits("release")
        /\ SentBefore("setup") = 0 /\ SentBefore("alpha") = 3 /\ SentBefore("predict") = 5
        /\ SentBefore("release") = 10
    BY <1>6 DEF Suits, SentBefore, Total
  <2>4. CASE Moves("setup", "alpha")
    BY <1>3, <2>3, <2>4
  <2>5. CASE Moves("alpha", "predict")
    BY <1>3, <2>3, <2>5
  <2>6. CASE Moves("predict", "release")
    BY <1>3, <2>3, <2>6
  <2>7. QED
    BY <2>2, <2>4, <2>5, <2>6
<1>7. CASE call.operation = "predict" /\ call.kernel_type = "linear" /\ call.has_w
  <2>1. phase \in {<<"setup", "alpha", "host", "release">>, <<"alpha", "host", "release">>,
                   <<"host", "release">>}
    BY <1>4, <1>7 DEF Stage, Route
  <2>2. Moves("setup", "alpha") \/ Moves("alpha", "host") \/ Moves("host", "release")
    BY <1>1, <2>1
  <2>3. /\ Suits("setup") /\ Suits("alpha") /\ Suits("host") /\ Suits("release")
        /\ SentBefore("setup") = 0 /\ SentBefore("alpha") = 3 /\ SentBefore("host") = 5
        /\ SentBefore("release") = 5
    BY <1>7 DEF Suits, SentBefore, Total
  <2>4. CASE Moves("setup", "alpha")
    BY <1>3, <2>3, <2>4
  <2>5. CASE Moves("alpha", "host")
    BY <1>3, <2>3, <2>5
  <2>6. CASE Moves("host", "release")
    BY <1>3, <2>3, <2>6
  <2>7. QED
    BY <2>2, <2>4, <2>5, <2>6
<1>8. CASE call.operation = "predict" /\ call.kernel_type = "linear" /\ ~call.has_w
  <2>1. phase \in {<<"setup", "alpha", "w", "host", "release">>, <<"alpha", "w", "host", "release">>,
                   <<"w", "host", "release">>, <<"host", "release">>}
    BY <1>4, <1>8 DEF Stage, Route
  <2>2. \/ Moves("setup", "alpha") \/ Moves("alpha", "w") \/ Moves("w", "host")
        \/ Moves("host", "release")
    BY <1>1, <2>1
  <2>3. /\ Suits("setup") /\ Suits("alpha") /\ Suits("w") /\ Suits("host") /\ Suits("release")
        /\ SentBefore("setup") = 0 /\ SentBefore("alpha") = 3 /\ SentBefore("w") = 5
        /\ SentBefore("host") = 7 /\ SentBefore("release") = 7
    BY <1>8 DEF Suits, SentBefore, Total
  <2>4. CASE Moves("setup", "alpha")
    BY <1>3, <2>3, <2>4
  <2>5. CASE Moves("alpha", "w")
    BY <1>3, <2>3, <2>5
  <2>6. CASE Moves("w", "host")
    BY <1>3, <2>3, <2>6
  <2>7. CASE Moves("host", "release")
    BY <1>3, <2>3, <2>7
  <2>8. QED
    BY <2>2, <2>4, <2>5, <2>6, <2>7
<1>9. QED
  BY <1>5, <1>6, <1>7, <1>8 DEF Stage

LEMMA Suitable ==
    ASSUME Stage, Route PROVE Suits(Head(phase)) /\ Head(phase) \in Names
<1>1. ASSUME NEW a, NEW b, NEW c, NEW d, NEW e
      PROVE  /\ Head(<<a, b>>) = a /\ Head(<<a>>) = a /\ Head(<<a, b, c>>) = a
             /\ Head(<<a, b, c, d>>) = a /\ Head(<<a, b, c, d, e>>) = a
  OBVIOUS
<1>2. CASE call.operation = "q"
  <2>1. Head(phase) \in {"setup", "q", "reduction", "release"}
    BY <1>1, <1>2 DEF Stage
  <2>2. QED
    BY <1>2, <2>1 DEF Suits, Names
<1>3. CASE call.operation = "predict" /\ call.kernel_type # "linear"
  <2>1. Head(phase) \in {"setup", "alpha", "predict", "release"}
    BY <1>1, <1>3 DEF Stage
  <2>2. QED
    BY <1>3, <2>1 DEF Suits, Names
<1>4. CASE call.operation = "predict" /\ call.kernel_type = "linear"
  <2>1. /\ Head(phase) \in {"setup", "alpha", "w", "host", "release"}
        /\ Head(phase) = "w" => ~call.has_w
    BY <1>1, <1>4 DEF Stage, Route
  <2>2. QED
    BY <1>4, <2>1 DEF Suits, Names
<1>5. QED
  BY <1>2, <1>3, <1>4 DEF Stage

LEMMA ProgramsStay ==
    ASSUME call' = call, NEW dev
    PROVE  /\ setup_data_on_device(dev)' = setup_data_on_device(dev)
           /\ generate_q(dev)' = generate_q(dev)
           /\ device_reduction(dev)' = device_reduction(dev)
           /\ setup_alpha(dev)' = setup_alpha(dev)
           /\ calculate_w(dev)' = calculate_w(dev)
           /\ predict(dev)' = predict(dev)
           /\ release(dev)' = release(dev)
  BY DEF num_features, num_support_vectors, num_predict_points, num_rows, boundary_size,
         select_num_used_devices, feature_ranges, num_features_in_range, setup_data_on_device,
         generate_q, device_reduction, setup_alpha, calculate_w, predict, release, transform_to_layout
----------------------------------------------------------------------------
(* The commands that are sent and executed.                                *)

LEMMA Constants ==
    ASSUME call' = call
    PROVE  /\ num_support_vectors' = num_support_vectors /\ num_predict_points' = num_predict_points
           /\ num_features' = num_features /\ num_rows' = num_rows /\ NormalVector' = NormalVector
           /\ Devices' = Devices /\ Total' = Total /\ (Spoiled' <=> Spoiled)
           /\ \A d : /\ feature_ranges(d)' = feature_ranges(d)
                     /\ num_features_in_range(d)' = num_features_in_range(d)
           /\ \A n : ExpectedTerms(n)' = ExpectedTerms(n) /\ SentBefore(n)' = SentBefore(n)
           /\ \A d, n : Part(d, n)' = Part(d, n) /\ Nth(d, n)' = Nth(d, n)
<1>1. /\ num_support_vectors' = num_support_vectors /\ num_predict_points' = num_predict_points
      /\ num_features' = num_features /\ num_rows' = num_rows
      /\ select_num_used_devices' = select_num_used_devices /\ Total' = Total
  BY DEF num_support_vectors, num_predict_points, num_features, num_rows, select_num_used_devices, Total
<1>2. Devices' = Devices /\ (Spoiled' <=> Spoiled)
  BY <1>1 DEF Devices, Spoiled
<1>3. NormalVector' = NormalVector
  BY <1>1 DEF NormalVector
<1>4. ASSUME NEW d
      PROVE  /\ feature_ranges(d)' = feature_ranges(d)
             /\ num_features_in_range(d)' = num_features_in_range(d)
  BY <1>1 DEF feature_ranges, num_features_in_range
<1>5. ASSUME NEW n PROVE ExpectedTerms(n)' = ExpectedTerms(n) /\ SentBefore(n)' = SentBefore(n)
  BY <1>1, <1>3 DEF ExpectedTerms, SentBefore
<1>6. ASSUME NEW d, NEW n PROVE Part(d, n)' = Part(d, n) /\ Nth(d, n)' = Nth(d, n)
  <2>1. Part(d, n)' = Part(d, n)
    BY <1>1, <1>4 DEF Part
  <2>2. Nth(d, n)' = Nth(d, n)
    BY ProgramsStay DEF Nth
  <2>3. QED
    BY <2>1, <2>2
<1>7. QED
  BY <1>1, <1>2, <1>3, <1>4, <1>5, <1>6

\* What the rest of a program says of the commands that are issued.
LEMMA SuffixLength ==
    ASSUME NEW s, IsSeq(s), NEW k \in 0..Len(s)
    PROVE  /\ Len(s) \in Nat /\ Len(SubSeq(s, k + 1, Len(s))) = Len(s) - k
<1>1. PICK S : s \in Seq(S)
  BY DEF IsSeq
<1>2. Len(s) \in Nat
  BY <1>1
<1>3. QED
  BY <1>1, <1>2

LEMMA Counts ==
    ASSUME IInv, ValuesInv, NEW dev \in Devices
    PROVE  LET commands == Whole(Head(phase), dev)
               k == Position(dev)
           IN  /\ k \in 0..Len(commands) /\ Len(commands) \in Nat /\ IsSeq(commands)
               /\ program[dev] = SubSeq(commands, k + 1, Len(commands))
               /\ DOMAIN mem[dev] = Live(commands, Base(Head(phase)), k)
               /\ IsSeq(queue[dev]) /\ Len(queue[dev]) \in Nat /\ DOMAIN queue[dev] = 1..Len(queue[dev])
               /\ Executed(dev) \in Nat /\ Sent(dev) = Executed(dev) + Len(queue[dev])
               /\ Head(phase) \in Names /\ Suits(Head(phase))
<1> DEFINE commands == Whole(Head(phase), dev)
<1>1. Head(phase) \in Names /\ Suits(Head(phase)) /\ call.operation \in {"q", "predict"}
  BY Suitable DEF IInv, ValuesInv, Suits
<1>2. GoodProgram(commands, Head(phase), dev)
  BY <1>1, WholeIsGood DEF Suits
<1>3. DeviceInv(dev) /\ Ordered(dev)
  BY DEF IInv, ValuesInv
<1>4. PICK k \in 0..Len(commands) : Issued(dev, k)
  BY <1>3 DEF DeviceInv
<1>5. IsSeq(commands) /\ program[dev] = SubSeq(commands, k + 1, Len(commands))
  BY <1>2, <1>4 DEF GoodProgram, Issued
<1>6. DOMAIN mem[dev] = Live(commands, Base(Head(phase)), k)
  BY <1>4 DEF Issued
<1>7. Position(dev) = Len(commands) - Len(program[dev])
  BY Zenon DEF Position
<1> HIDE DEF commands
<1>8. Len(commands) \in Nat /\ Len(SubSeq(commands, k + 1, Len(commands))) = Len(commands) - k
  BY <1>4, <1>5, SuffixLength
<1>9. Len(program[dev]) = Len(commands) - k
  BY <1>5, <1>8, Zenon
<1>10. Position(dev) = k
  BY <1>4, <1>7, <1>8, <1>9
<1>11. IsSeq(queue[dev]) /\ Len(queue[dev]) \in Nat /\ DOMAIN queue[dev] = 1..Len(queue[dev])
  <2>1. PICK S : queue[dev] \in Seq(S)
    BY <1>3 DEF DeviceInv, IsSeq
  <2>2. QED
    BY <2>1 DEF IsSeq
<1>12. SentBefore(Head(phase)) \in Nat /\ SentIn(Head(phase), k) \in Nat
  <2>1. SentBefore(Head(phase)) \in Nat
    BY <1>1 DEF SentBefore, Total, Names
  <2>2. k \in Nat
    BY <1>4, <1>8
  <2>3. SentIn(Head(phase), k) \in Nat
    BY <1>1, <2>2 DEF SentIn, Names
  <2>4. QED
    BY <2>1, <2>3
<1>13. Executed(dev) \in Nat /\ Sent(dev) = Executed(dev) + Len(queue[dev])
  <2>1. Sent(dev) \in Nat
    BY <1>10, <1>12 DEF Sent
  <2>2. QED
    BY <1>3, <1>11, <2>1 DEF Ordered, Executed
<1>14. QED
  BY <1>1, <1>4, <1>5, <1>6, <1>8, <1>10, <1>11, <1>13 DEF commands

\* A thread issues its next command.
LEMMA IssueNext ==
    ASSUME IInv, ValuesInv, NEW dev \in Devices, program[dev] # <<>>,
           call' = call, phase' = phase, program'[dev] = Tail(program[dev])
    PROVE  LET c == Head(program[dev])
           IN  /\ Position(dev)' = Position(dev) + 1
               /\ c = Whole(Head(phase), dev)[Position(dev) + 1]
               /\ IF c.op \in Ops
                  THEN Sent(dev)' = Sent(dev) + 1 /\ c = Nth(dev, Sent(dev) + 1)
                  ELSE Sent(dev)' = Sent(dev)
               /\ c.op \in Ops => Head(phase) \notin {"host", "release"}
               /\ Head(phase) = "predict" /\ Position(dev) + 1 >= 8 => c.op = "free"
               /\ c.op = "allocate" => NewBuffer(c.buffer, Sent(dev))
<1> DEFINE name == Head(phase)
           commands == Whole(name, dev)
           k == Position(dev)
           c == Head(program[dev])
<1>1. /\ k \in 0..Len(commands) /\ Len(commands) \in Nat /\ IsSeq(commands)
      /\ program[dev] = SubSeq(commands, k + 1, Len(commands))
      /\ name \in Names /\ Suits(name)
  BY Counts
<1> HIDE DEF commands, k, name
<1>2. /\ k < Len(commands) /\ k + 1 \in 0..Len(commands) /\ c = commands[k + 1]
      /\ Tail(program[dev]) = SubSeq(commands, (k + 1) + 1, Len(commands))
  BY <1>1, Suffix
<1> HIDE DEF c
<1>3. Len(SubSeq(commands, (k + 1) + 1, Len(commands))) = Len(commands) - (k + 1)
  BY <1>1, <1>2, SuffixLength
<1>4. Len(program'[dev]) = Len(commands) - (k + 1)
  BY <1>2, <1>3, Zenon
<1>5. Position(dev)' = k + 1
  <2>1. Whole(Head(phase), dev)' = commands
    BY CallStays DEF commands, name
  <2>2. Position(dev)' = Len(Whole(Head(phase), dev)') - Len(program'[dev])
    BY Zenon DEF Position
  <2>3. Len(Whole(Head(phase), dev)') = Len(commands)
    BY <2>1, Zenon
  <2> DEFINE a == Len(Whole(Head(phase), dev)')
             b == Len(program'[dev])
  <2>4. Position(dev)' = a - b /\ a = Len(commands) /\ b = Len(commands) - (k + 1)
    BY <1>4, <2>2, <2>3, Zenon
  <2> HIDE DEF a, b
  <2>5. QED
    BY <1>1, <2>4
<1>6. NextSent(name, dev, k)
  BY <1>1, <1>2, OrderOfCommands DEF commands
<1>7. Sent(dev) = SentBefore(name) + SentIn(name, k) /\ Sent(dev)' = SentBefore(name) + SentIn(name, k + 1)
  <2>1. SentBefore(Head(phase))' = SentBefore(name)
    BY Constants DEF name
  <2>2. SentIn(Head(phase), Position(dev))' = SentIn(name, k + 1)
    BY <1>5 DEF name, SentIn
  <2>3. QED
    BY <2>1, <2>2 DEF Sent, name, k
<1>8. /\ Sent(dev) \in Nat
      /\ IF c.op \in Ops
         THEN Sent(dev)' = Sent(dev) + 1 /\ c = Nth(dev, Sent(dev) + 1)
         ELSE Sent(dev)' = Sent(dev)
      /\ c.op = "allocate" => NewBuffer(c.buffer, Sent(dev))
  BY <1>2, <1>6, <1>7 DEF NextSent, commands
<1>9. c.op \in Ops => name \notin {"host", "release"}
  <2>1. c.op \in Ops => SentIn(name, k + 1) # SentIn(name, k)
    BY <1>7, <1>8
  <2>2. QED
    BY <1>1, <2>1 DEF SentIn
<1>10. ASSUME name = "predict", k + 1 >= 8 PROVE c.op = "free"
  <2>1. /\ commands = predict(dev) /\ Len(predict(dev)) = 9
        /\ predict(dev)[8].op = "free" /\ predict(dev)[9].op = "free"
    BY <1>10, Wholes, PredictShape, Fields DEF commands
  <2>2. Len(commands) = 9
    BY <2>1, Zenon
  <2>3. QED
    BY <1>2, <1>10, <2>1, <2>2
<1>11. QED
  BY <1>2, <1>5, <1>8, <1>9, <1>10 DEF name, commands, k, c

LEMMA AppendOrder ==
    ASSUME NEW s, IsSeq(s), NEW c
    PROVE  /\ Len(Append(s, c)) = Len(s) + 1 /\ Len(s) \in Nat /\ DOMAIN s = 1..Len(s)
           /\ DOMAIN Append(s, c) = 1..(Len(s) + 1)
           /\ \A x \in 1..(Len(s) + 1) : Append(s, c)[x] = IF x <= Len(s) THEN s[x] ELSE c
<1>1. PICK S : s \in Seq(S)
  BY DEF IsSeq
<1>2. s \in Seq(S \cup {c}) /\ c \in S \cup {c}
  BY <1>1
<1>3. QED
  BY <1>2, AppendProperties

LEMMA TailOrder ==
    ASSUME NEW s, IsSeq(s), s # <<>>
    PROVE  /\ Len(s) \in Nat \ {0} /\ Len(Tail(s)) = Len(s) - 1 /\ DOMAIN s = 1..Len(s)
           /\ DOMAIN Tail(s) = 1..(Len(s) - 1)
           /\ \A x \in 1..(Len(s) - 1) : Tail(s)[x] = s[x + 1]
           /\ Head(s) = s[1]
<1>1. PICK S : s \in Seq(S)
  BY DEF IsSeq
<1>2. QED
  BY <1>1

\* What a command has left in memory is there while the buffer is.
LEMMA ContentsStay ==
    ASSUME ValuesInv, NEW dev \in Devices, call' = call, Executed(dev)' = Executed(dev),
           Executed(dev) \in Nat,
           \A b \in DOMAIN mem'[dev] :
                \/ b \in DOMAIN mem[dev] /\ mem'[dev][b] = mem[dev][b]
                \/ NewBuffer(b, Executed(dev))
    PROVE  Contents(dev)'
<1>1. Contents(dev)
  BY DEF ValuesInv
<1>2. /\ num_support_vectors' = num_support_vectors /\ num_predict_points' = num_predict_points
      /\ num_features' = num_features /\ num_rows' = num_rows /\ NormalVector' = NormalVector
      /\ num_features_in_range(dev)' = num_features_in_range(dev)
      /\ feature_ranges(dev - 1)' = feature_ranges(dev - 1)
      /\ (Spoiled' <=> Spoiled)
  BY Constants
<1> DEFINE e == Executed(dev)
           m == mem[dev]
           n == mem'[dev]
<1>3. /\ NewBuffer("data_last_d", e) <=> e < 2
      /\ NewBuffer("data_d", e) <=> e < 3
      /\ NewBuffer("alpha_d", e) <=> e < 4
      /\ NewBuffer("q_d", e) <=> e < 4
      /\ NewBuffer("w_d", e) <=> e < 6
      /\ NewBuffer("out_d", e) <=> e < 6
      /\ NewBuffer("point_d", e) <=> e < 8
  BY DEF NewBuffer
<1>4. \A b \in DOMAIN n : ~NewBuffer(b, e) => b \in DOMAIN m /\ n[b] = m[b]
  OBVIOUS
<1>5. /\ "data_last_d" \in DOMAIN n /\ e >= 2 => "data_last_d" \in DOMAIN m /\ n.data_last_d = m.data_last_d
      /\ "data_d" \in DOMAIN n /\ e >= 3 => "data_d" \in DOMAIN m /\ n.data_d = m.data_d
      /\ "alpha_d" \in DOMAIN n /\ e >= 4 => "alpha_d" \in DOMAIN m /\ n.alpha_d = m.alpha_d
      /\ "q_d" \in DOMAIN n /\ e >= 4 => "q_d" \in DOMAIN m /\ n.q_d = m.q_d
      /\ "w_d" \in DOMAIN n /\ e >= 6 => "w_d" \in DOMAIN m /\ n.w_d = m.w_d
      /\ "out_d" \in DOMAIN n /\ e >= 6 => "out_d" \in DOMAIN m /\ n.out_d = m.out_d
      /\ "point_d" \in DOMAIN n /\ e >= 8 => "point_d" \in DOMAIN m /\ n.point_d = m.point_d
  <2> HIDE DEF e, m, n
  <2>1. e \in Nat
    BY DEF e
  <2>2. QED
    BY <1>3, <1>4, <2>1
<1>6. Executed(dev)' = e /\ e \in Nat
  OBVIOUS
<1>7. DataThere(dev) /\ QThere(dev) /\ AlphaThere(dev) /\ WThere(dev) /\ OutThere(dev)
  BY <1>1 DEF Contents
<1>8. DataThere(dev)'
  <2> DEFINE n1 == n.data_last_d
             n2 == n.data_d
  <2>1. /\ "data_last_d" \in DOMAIN n /\ e >= 2 =>
            \A f \in UpTo(num_features_in_range(dev)) :
                n1[f] = SupportVector(num_support_vectors - 1, feature_ranges(dev - 1) + f)
        /\ "data_d" \in DOMAIN n /\ e >= 3 =>
            \A f \in UpTo(num_features_in_range(dev)), l \in UpTo(num_rows) :
                n2[f * num_rows + l] =
                    IF l < num_support_vectors - 1 THEN SupportVector(l, feature_ranges(dev - 1) + f) ELSE Zero
    BY <1>5, <1>7 DEF DataThere
  <2> HIDE DEF e
  <2>2. QED
    BY <1>2, <1>6, <2>1 DEF DataThere
<1>9. QThere(dev)'
  <2>1. \A l : Part(dev, l)' = Part(dev, l)
    BY Constants
  <2>2. call.operation = "q" /\ "q_d" \in DOMAIN n /\ e >= 5 =>
            \A l \in UpTo(num_support_vectors - 1) : n.q_d[l] = <<call.kernel_type, Part(dev, l)>>
    BY <1>5, <1>6, <1>7 DEF QThere
  <2> HIDE DEF e
  <2>3. QED
    BY <1>2, <1>6, <2>1, <2>2 DEF QThere
<1>10. AlphaThere(dev)'
  <2>1. call.operation = "predict" /\ "alpha_d" \in DOMAIN n =>
        /\ e = 4 => \A l \in UpTo(num_support_vectors + THREAD_BLOCK_SIZE) : n.alpha_d[l] = Zero
        /\ e >= 5 => \A l \in UpTo(num_support_vectors + THREAD_BLOCK_SIZE) :
                        n.alpha_d[l] = IF l < num_support_vectors THEN Alpha(l) ELSE Zero
    BY <1>5, <1>6, <1>7 DEF AlphaThere
  <2> HIDE DEF e
  <2>2. QED
    BY <1>2, <1>6, <2>1 DEF AlphaThere
<1>11. WThere(dev)'
  <2>1. /\ call.operation = "predict" /\ call.kernel_type = "linear"
        /\ "w_d" \in DOMAIN n /\ e >= 6
        => \A f \in UpTo(num_features_in_range(dev)) : n.w_d[f] = NormalVector[feature_ranges(dev - 1) + f]
    BY <1>5, <1>7 DEF WThere
  <2> HIDE DEF e
  <2>2. QED
    BY <1>2, <1>6, <2>1 DEF WThere
<1>12. OutThere(dev)'
  <2>1. \A l : ExpectedTerms(l)' = ExpectedTerms(l)
    BY Constants
  <2>2. call.operation = "predict" /\ call.kernel_type # "linear" =>
        /\ "point_d" \in DOMAIN n /\ e >= 8 =>
             \A f \in UpTo(num_features), l \in UpTo(num_predict_points) :
                n.point_d[l + (num_predict_points + boundary_size) * f] = PredictPoint(l, f)
        /\ "out_d" \in DOMAIN n =>
             /\ e \in 6..8 => \A l \in UpTo(num_predict_points) : n.out_d[l] = EmptyBag
             /\ e >= 9 /\ ~Spoiled => \A l \in UpTo(num_predict_points) : n.out_d[l] = SetToBag(ExpectedTerms(l))
    BY <1>5, <1>6, <1>7 DEF OutThere
  <2> HIDE DEF e
  <2>3. QED
    BY <1>2, <1>6, <2>1, <2>2 DEF OutThere
<1>13. QED
  BY <1>8, <1>9, <1>10, <1>11, <1>12 DEF Contents

\* The same commands have been executed, and no result has changed.
LEMMA ResultsStay ==
    ASSUME ValuesInv, UNCHANGED <<call, q, w, out>>,
           \A dev \in Devices : Executed(dev)' = Executed(dev),
           phase' = <<"release">> /\ call.operation = "predict" /\ call.kernel_type = "linear"
              => phase = <<"release">>
    PROVE  Results'
<1>1. Results
  BY DEF ValuesInv
<1>2. /\ num_support_vectors' = num_support_vectors /\ num_predict_points' = num_predict_points
      /\ num_features' = num_features /\ NormalVector' = NormalVector /\ Devices' = Devices
      /\ (Spoiled' <=> Spoiled)
  BY Constants
<1>3. Delivered' = Delivered
  BY <1>2 DEF Delivered
<1>4. \A n : UNION {Part(dev, n) : dev \in Delivered}' = UNION {Part(dev, n) : dev \in Delivered}
  <2>1. \A d, n : Part(d, n)' = Part(d, n)
    BY Constants
  <2>2. QED
    BY <1>3, <2>1
<1>5. \A d : feature_ranges(d)' = feature_ranges(d)
  BY Constants
<1>6. Decided' <=> Decided
  <2>1. \A n : ExpectedTerms(n)' = ExpectedTerms(n)
    BY Constants
  <2>2. QED
    BY <1>2, <2>1 DEF Decided
<1> HIDE DEF Delivered, Decided
<1>7. QED
  BY <1>1, <1>2, <1>4, <1>5, <1>6 DEF Results

\* A device that takes no part in a step.
LEMMA OtherStays ==
    ASSUME IInv, ValuesInv, NEW d \in Devices, UNCHANGED <<call, phase>>,
           program'[d] = program[d], queue'[d] = queue[d], mem'[d] = mem[d]
    PROVE  Executed(d)' = Executed(d) /\ Ordered(d)' /\ Contents(d)'
<1>1. Ordered(d) /\ Executed(d) \in Nat
  BY Counts DEF ValuesInv
<1>2. Position(d)' = Position(d)
  <2>1. Whole(Head(phase), d)' = Whole(Head(phase), d)
    BY CallStays
  <2>2. QED
    BY <2>1, Zenon DEF Position
<1>3. Executed(d)' = Executed(d)
  <2>1. SentBefore(Head(phase))' = SentBefore(Head(phase))
    BY Constants
  <2>2. SentIn(Head(phase), Position(d))' = SentIn(Head(phase), Position(d))
    BY <1>2 DEF SentIn
  <2>3. QED
    BY <2>1, <2>2 DEF Executed, Sent
<1>4. Ordered(d)'
  <2>1. \A n : Nth(d, n)' = Nth(d, n)
    BY Constants
  <2>2. QED
    BY <1>1, <1>2, <1>3, <2>1 DEF Ordered
<1>5. Contents(d)'
  BY <1>1, <1>3, ContentsStay
<1>6. QED
  BY <1>3, <1>4, <1>5

\* A thread issues a command.
LEMMA IssueValues ==
    ASSUME IInv, ValuesInv, NEW dev \in Devices, UNCHANGED <<call, phase, q, w, out>>,
           program[dev] # <<>>, NEW c, c = Head(program[dev]),
           Only(program, program', dev, Tail(program[dev])),
           NEW m, Only(mem, mem', dev, m), NEW s, Only(queue, queue', dev, s),
           IF c.op \in Ops THEN s = Append(queue[dev], c) ELSE s = queue[dev],
           c.op = "free" => queue[dev] = <<>>,
           \A b \in DOMAIN m : \/ b \in DOMAIN mem[dev] /\ m[b] = mem[dev][b]
                               \/ c.op = "allocate" /\ b = c.buffer
    PROVE  ValuesInv'
<1>1. /\ program'[dev] = Tail(program[dev]) /\ mem'[dev] = m /\ queue'[dev] = s
      /\ \A d \in Devices \ {dev} : /\ program'[d] = program[d] /\ queue'[d] = queue[d]
                                    /\ mem'[d] = mem[d]
  BY DEF IInv, Only
<1>2. /\ Position(dev)' = Position(dev) + 1
      /\ IF c.op \in Ops
         THEN Sent(dev)' = Sent(dev) + 1 /\ c = Nth(dev, Sent(dev) + 1)
         ELSE Sent(dev)' = Sent(dev)
      /\ c.op \in Ops => Head(phase) \notin {"host", "release"}
      /\ Head(phase) = "predict" /\ Position(dev) + 1 >= 8 => c.op = "free"
      /\ c.op = "allocate" => NewBuffer(c.buffer, Sent(dev))
  BY <1>1, IssueNext
<1>3. /\ IsSeq(queue[dev]) /\ Len(queue[dev]) \in Nat /\ DOMAIN queue[dev] = 1..Len(queue[dev])
      /\ Executed(dev) \in Nat /\ Sent(dev) = Executed(dev) + Len(queue[dev])
      /\ Ordered(dev)
  BY Counts DEF ValuesInv
<1>4. Executed(dev)' = Sent(dev)' - Len(s)
  <2>1. Executed(dev)' = Sent(dev)' - Len(queue'[dev])
    BY Zenon DEF Executed
  <2>2. QED
    BY <1>1, <2>1, Zenon
<1>5. Executed(dev)' = Executed(dev) /\ Ordered(dev)'
  <2>1. \A n : Nth(dev, n)' = Nth(dev, n)
    BY Constants
  <2>2. CASE c.op \in Ops
    <3>1. /\ Len(s) = Len(queue[dev]) + 1 /\ DOMAIN s = 1..(Len(queue[dev]) + 1)
          /\ \A x \in 1..(Len(queue[dev]) + 1) : s[x] = IF x <= Len(queue[dev]) THEN queue[dev][x] ELSE c
      BY <1>3, <2>2, AppendOrder
    <3>2. Executed(dev)' = Executed(dev)
      <4> HIDE DEF Ops
      <4>1. Sent(dev)' = Sent(dev) + 1
        BY <1>2, <2>2
      <4>2. QED
        BY <1>3, <1>4, <3>1, <4>1
    <3>3. \A x \in DOMAIN s : s[x] = Nth(dev, Executed(dev) + x)
      BY <1>2, <1>3, <2>2, <3>1 DEF Ordered
    <3>4. c.op # "free"
      BY <2>2 DEF Ops
    <3>5. /\ Head(phase') \notin {"host", "release"}
          /\ ~(Head(phase') = "predict" /\ Position(dev)' >= 8)
      BY <1>2, <2>2, <3>4
    <3>6. QED
      BY <1>1, <1>3, <2>1, <3>2, <3>3, <3>5 DEF Ordered
  <2>3. CASE c.op \notin Ops
    <3>1. s = queue[dev] /\ Sent(dev)' = Sent(dev)
      BY <1>2, <2>3
    <3>2. Len(s) = Len(queue[dev])
      BY <3>1, Zenon
    <3>3. Executed(dev)' = Executed(dev)
      BY <1>3, <1>4, <3>1, <3>2
    <3>4. Head(phase') = "predict" /\ Position(dev)' >= 8 => queue[dev] = <<>>
      BY <1>2
    <3>5. QED
      BY <1>1, <1>3, <2>1, <3>1, <3>3, <3>4 DEF Ordered
  <2>4. QED
    BY <2>2, <2>3
<1>6. Contents(dev)'
  <2>1. Executed(dev) <= Sent(dev) /\ Executed(dev) \in Nat /\ Sent(dev) \in Nat
    BY <1>3
  <2>2. c.op = "allocate" => NewBuffer(c.buffer, Executed(dev))
    <3>1. ASSUME NewBuffer(c.buffer, Sent(dev)) PROVE NewBuffer(c.buffer, Executed(dev))
      BY <2>1, <3>1 DEF NewBuffer
    <3>2. QED
      BY <1>2, <3>1
  <2>3. \A b \in DOMAIN mem'[dev] :
            \/ b \in DOMAIN mem[dev] /\ mem'[dev][b] = mem[dev][b]
            \/ NewBuffer(b, Executed(dev))
    BY <1>1, <2>2
  <2>4. QED
    BY <1>3, <1>5, <2>3, ContentsStay
<1>7. ASSUME NEW d \in Devices \ {dev}
      PROVE  Executed(d)' = Executed(d) /\ Ordered(d)' /\ Contents(d)'
  BY <1>1, OtherStays
<1>8. Results'
  BY <1>5, <1>7, ResultsStay
<1>9. QED
  BY <1>5, <1>6, <1>7, <1>8, Constants DEF ValuesInv, Route

\* Nothing is freed, and no phase that frees or uses results begins, while the
\* device has something left to do.
LEMMA EmptyBeforeFree ==
    ASSUME IInv, NEW dev \in Devices, program[dev] # <<>>, Head(program[dev]).op = "free", ~Blocked(dev)
    PROVE  queue[dev] = <<>>
<1> DEFINE commands == Whole(Head(phase), dev)
<1>1. PICK k \in Nat :
        /\ Issued(dev, k) /\ k + 1 \in 1..Len(commands) /\ Len(commands) \in Nat
        /\ Head(program[dev]) = commands[k + 1]
  BY NextCommand
<1>2. Settled(dev)
  <2>1. k < Len(commands) /\ commands[k + 1].op = "free"
    BY <1>1
  <2>2. QED
    BY <1>1, <2>1 DEF Issued
<1>3. QED
  BY <1>2, Zenon DEF Settled, Blocked

LEMMA EmptyAfterPhase ==
    ASSUME IInv, NEW dev \in Devices, program[dev] = <<>>, ~Blocked(dev), Head(phase) # "q"
    PROVE  queue[dev] = <<>>
<1> DEFINE commands == Whole(Head(phase), dev)
<1>1. /\ Head(phase) \in Names /\ call.operation \in {"q", "predict"}
      /\ Head(phase) = "predict" => call.kernel_type # "linear"
  BY DEF IInv, Stage, Names
<1>2. GoodProgram(commands, Head(phase), dev)
  BY <1>1, WholeIsGood
<1>3. PICK k \in 0..Len(commands) : Issued(dev, k)
  BY DEF IInv, DeviceInv
<1>4. IsSeq(commands) /\ program[dev] = SubSeq(commands, k + 1, Len(commands))
  BY <1>2, <1>3 DEF GoodProgram, Issued
<1>5. k = Len(commands)
  <2> HIDE DEF commands
  <2>1. QED
    BY <1>3, <1>4, Suffix
<1>6. Settled(dev)
  BY <1>3, <1>5 DEF Issued
<1>7. QED
  BY <1>6, Zenon DEF Settled, Blocked

LEMMA NextRoute ==
    ASSUME Stage, Route, Len(phase) > 1, phase' = Tail(phase), call' = call
    PROVE  /\ Route'
           /\ phase' = <<"release">> /\ call.operation = "predict" /\ call.kernel_type = "linear" =>
                Head(phase) = "host"
<1>1. ASSUME NEW a, NEW b, NEW c, NEW d, NEW e
      PROVE  /\ Head(<<a, b>>) = a /\ Tail(<<a, b>>) = <<b>> /\ Tail(<<a, b, c>>) = <<b, c>>
             /\ Tail(<<a, b, c, d>>) = <<b, c, d>> /\ Tail(<<a, b, c, d, e>>) = <<b, c, d, e>>
  OBVIOUS
<1>2. ASSUME NEW a, NEW b, NEW c, NEW d, NEW e, NEW x, NEW y, NEW z, NEW v
      PROVE  /\ <<a>> # <<x, y>> /\ <<a>> # <<x, y, z>> /\ <<a>> # <<x, y, z, v>>
             /\ <<a, b>> # <<x, y, z>> /\ <<a, b>> # <<x, y, z, v>>
             /\ <<a, b, c>> # <<x, y, z, v>>
             /\ <<a, b, c, d, e>> # <<x>> /\ <<a, b, c, d, e>> # <<x, y>>
             /\ <<a, b, c, d, e>> # <<x, y, z>> /\ <<a, b, c, d, e>> # <<x, y, z, v>>
  <2>1. /\ Len(<<a>>) = 1 /\ Len(<<a, b>>) = 2 /\ Len(<<a, b, c>>) = 3 /\ Len(<<x, y, z, v>>) = 4
        /\ Len(<<a, b, c, d, e>>) = 5 /\ Len(<<x>>) = 1 /\ Len(<<x, y>>) = 2 /\ Len(<<x, y, z>>) = 3
    OBVIOUS
  <2>2. /\ 1 # 2 /\ 1 # 3 /\ 1 # 4 /\ 2 # 3 /\ 2 # 4 /\ 3 # 4
        /\ 5 # 1 /\ 5 # 2 /\ 5 # 3 /\ 5 # 4
    OBVIOUS
  <2>3. QED
    BY <2>1, <2>2, Zenon
<1>3. /\ <<"w", "host", "release">> # <<"alpha", "host", "release">>
      /\ <<"alpha", "w", "host", "release">> # <<"setup", "alpha", "host", "release">>
  <2>1. ASSUME NEW a, NEW b, NEW c, NEW d
        PROVE  <<a, b, c>>[1] = a /\ <<a, b, c, d>>[1] = a
    OBVIOUS
  <2>2. "w" # "alpha" /\ "alpha" # "setup"
    OBVIOUS
  <2>3. QED
    BY <2>1, <2>2, Zenon
<1>4. SUFFICES ASSUME call.operation = "predict", call.kernel_type = "linear"
               PROVE  Route' /\ (phase' = <<"release">> => Head(phase) = "host")
  BY DEF Route
<1>5. phase # <<"release">>
  <2>1. Len(<<"release">>) = 1
    OBVIOUS
  <2>2. ASSUME phase = <<"release">> PROVE FALSE
    <3>1. Len(phase) = 1
      BY <2>1, <2>2, Zenon
    <3>2. QED
      BY <3>1
  <2>3. QED
    BY <2>2
<1>6. CASE call.has_w
  <2>1. phase \in {<<"setup", "alpha", "host", "release">>, <<"alpha", "host", "release">>,
                   <<"host", "release">>}
    BY <1>4, <1>5, <1>6 DEF Stage, Route
  <2>2. CASE phase = <<"host", "release">>
    BY <1>1, <1>4, <1>6, <2>2 DEF Route
  <2>3. CASE phase = <<"alpha", "host", "release">>
    <3>1. phase' = <<"host", "release">> /\ phase' # <<"release">>
      BY <1>1, <1>2, <2>3
    <3>2. QED
      BY <1>2, <1>3, <1>4, <1>6, <3>1 DEF Route
  <2>4. CASE phase = <<"setup", "alpha", "host", "release">>
    <3>1. phase' = <<"alpha", "host", "release">> /\ phase' # <<"release">>
      BY <1>1, <1>2, <2>4
    <3>2. QED
      BY <1>2, <1>3, <1>4, <1>6, <3>1 DEF Route
  <2>5. QED
    BY <2>1, <2>2, <2>3, <2>4
<1>7. CASE ~call.has_w
  <2>1. phase \in {<<"setup", "alpha", "w", "host", "release">>, <<"alpha", "w", "host", "release">>,
                   <<"w", "host", "release">>, <<"host", "release">>}
    BY <1>4, <1>5, <1>7 DEF Stage, Route
  <2>2. CASE phase = <<"host", "release">>
    BY <1>1, <1>4, <1>7, <2>2 DEF Route
  <2>3. CASE phase = <<"w", "host", "release">>
    <3>1. phase' = <<"host", "release">> /\ phase' # <<"release">>
      BY <1>1, <1>2, <2>3
    <3>2. QED
      BY <1>2, <1>3, <1>4, <1>7, <3>1 DEF Route
  <2>4. CASE phase = <<"alpha", "w", "host", "release">>
    <3>1. phase' = <<"w", "host", "release">> /\ phase' # <<"release">>
      BY <1>1, <1>2, <2>4
    <3>2. QED
      BY <1>2, <1>3, <1>4, <1>7, <3>1 DEF Route
  <2>5. CASE phase = <<"setup", "alpha", "w", "host", "release">>
    <3>1. phase' = <<"alpha", "w", "host", "release">> /\ phase' # <<"release">>
      BY <1>1, <1>2, <2>5
    <3>2. QED
      BY <1>2, <1>3, <1>4, <1>7, <3>1 DEF Route
  <2>6. QED
    BY <2>1, <2>2, <2>3, <2>4, <2>5
<1>8. QED
  BY <1>6, <1>7

LEMMA AllocateValues == ASSUME IInv, ValuesInv, NEW dev \in Devices, IssueAllocate(dev) PROVE ValuesInv'
<1> DEFINE c == Head(program[dev])
           m == [b \in DOMAIN mem[dev] \cup {c.buffer} |->
                   IF b = c.buffer THEN [k \in UpTo(c.size) |-> Junk] ELSE mem[dev][b]]
<1>1. /\ program[dev] # <<>> /\ c.op = "allocate" /\ UNCHANGED <<call, phase, q, w, out>>
      /\ Only(program, program', dev, Tail(program[dev]))
  BY DEF IssueAllocate, Goes, Only, IInv
<1>2. Only(mem, mem', dev, m)
  BY DEF IssueAllocate, Only, IInv
<1>3. Only(queue, queue', dev, queue[dev])
  BY DEF IssueAllocate, Only
<1>4. \A b \in DOMAIN m : \/ b \in DOMAIN mem[dev] /\ m[b] = mem[dev][b]
                          \/ b = c.buffer
  OBVIOUS
<1> HIDE DEF c, m
<1>5. c.op \notin Ops /\ c.op # "free"
  BY <1>1 DEF Ops
<1>6. QED
  BY <1>1, <1>2, <1>3, <1>4, <1>5, IssueValues DEF c

LEMMA FreeValues == ASSUME IInv, ValuesInv, NEW dev \in Devices, IssueFree(dev) PROVE ValuesInv'
<1> DEFINE commands == Whole(Head(phase), dev)
           c == Head(program[dev])
           m == [b \in DOMAIN mem[dev] \ {c.buffer} |-> mem[dev][b]]
<1>1. /\ program[dev] # <<>> /\ c.op = "free" /\ ~Blocked(dev) /\ UNCHANGED <<call, phase, q, w, out>>
      /\ Only(program, program', dev, Tail(program[dev]))
  BY DEF IssueFree, Goes, Only, IInv
<1>2. Only(mem, mem', dev, m)
  BY DEF IssueFree, Only, IInv
<1>3. Only(queue, queue', dev, queue[dev])
  BY DEF IssueFree, Only
<1>4. \A b \in DOMAIN m : b \in DOMAIN mem[dev] /\ m[b] = mem[dev][b]
  OBVIOUS
<1>5. queue[dev] = <<>>
  BY <1>1, EmptyBeforeFree
<1> HIDE DEF c, m
<1>6. c.op \notin Ops
  BY <1>1 DEF Ops
<1>7. QED
  BY <1>1, <1>2, <1>3, <1>4, <1>5, <1>6, IssueValues DEF c

LEMMA SynchronizeValues ==
    ASSUME IInv, ValuesInv, NEW dev \in Devices, IssueSynchronize(dev) PROVE ValuesInv'
<1> DEFINE c == Head(program[dev])
<1>1. /\ program[dev] # <<>> /\ c.op = "synchronize" /\ UNCHANGED <<call, phase, q, w, out>>
      /\ Only(program, program', dev, Tail(program[dev]))
  BY DEF IssueSynchronize, Goes, Only, IInv
<1>2. Only(mem, mem', dev, mem[dev]) /\ Only(queue, queue', dev, queue[dev])
  BY DEF IssueSynchronize, Only
<1> HIDE DEF c
<1>3. c.op \notin Ops /\ c.op # "free"
  BY <1>1 DEF Ops
<1>4. QED
  BY <1>1, <1>2, <1>3, IssueValues DEF c

LEMMA CommandValues ==
    ASSUME IInv, ValuesInv, NEW dev \in Devices, IssueCommand(dev) PROVE ValuesInv'
<1> DEFINE c == Head(program[dev])
           s == Append(queue[dev], c)
<1>1. PICK op \in Ops : Goes(dev, op)
  BY DEF IssueCommand, Ops
<1>2. /\ program[dev] # <<>> /\ c.op \in Ops
      /\ Only(program, program', dev, Tail(program[dev]))
  BY <1>1 DEF Goes, Only, IInv
<1>3. Only(mem, mem', dev, mem[dev]) /\ UNCHANGED <<call, phase, q, w, out>>
  BY DEF IssueCommand, Only
<1>4. Only(queue, queue', dev, s)
  BY DEF IssueCommand, Only, IInv
<1> HIDE DEF c
<1>5. c.op # "free"
  BY <1>2 DEF Ops
<1>6. QED
  BY <1>2, <1>3, <1>4, <1>5, IssueValues DEF c

\* A phase begins where the one before has ended, and the host waits before it
\* goes on with w or frees memory.
LEMMA PhaseValues ==
    ASSUME IInv, ValuesInv, Len(phase) > 1, phase' = Tail(phase), UNCHANGED <<call, queue, mem>>,
           program' = [dev \in Devices |-> Whole(Head(phase'), dev)],
           \A dev \in Devices : program[dev] = <<>> /\ ~Blocked(dev),
           Results' \/ UNCHANGED <<q, w, out>>,
           Results' \/ Head(phase) # "host"
    PROVE  ValuesInv'
<1> DEFINE name == Head(phase)
           next == Head(phase')
<1>1. /\ Stage' /\ name \in Names \ {"release"} /\ next \in Names
      /\ name = "q" => next = "reduction"
      /\ "predict" \in {name, next} => call.kernel_type # "linear"
  BY Transitions
<1>2. /\ SentIn(next, 0) = 0 /\ SentBefore(next) \in Nat /\ name \in Names
      /\ SentBefore(next) = SentBefore(name) + SentIn(name, Length(name))
  BY <1>1, OrderOfPhases DEF IInv, ValuesInv
<1>3. ASSUME NEW dev \in Devices
      PROVE  Executed(dev)' = Executed(dev) /\ Ordered(dev)' /\ Contents(dev)'
  <2>1. /\ IsSeq(Whole(name, dev)) /\ Len(Whole(name, dev)) \in Nat /\ Position(dev) \in 0..Len(Whole(name, dev))
        /\ program[dev] = SubSeq(Whole(name, dev), Position(dev) + 1, Len(Whole(name, dev)))
        /\ Executed(dev) \in Nat /\ Ordered(dev)
    BY Counts DEF ValuesInv
  <2>2. Position(dev) = Len(Whole(name, dev)) /\ Len(Whole(name, dev)) = Length(name)
    <3> HIDE DEF name
    <3>1. Len(Whole(name, dev)) = Length(name)
      BY <1>1, Lengths
    <3>2. QED
      BY <2>1, <3>1, Suffix
  <2>3. Sent(dev) = SentBefore(name) + SentIn(name, Length(name))
    <3>1. Position(dev) = Length(name)
      BY <2>2
    <3>2. QED
      BY <3>1 DEF Sent
  <2>4. Position(dev)' = 0
    <3>1. program'[dev] = Whole(next, dev)
      OBVIOUS
    <3>2. Whole(Head(phase), dev)' = Whole(next, dev)
      BY CallStays
    <3>3. Position(dev)' = Len(Whole(Head(phase), dev)') - Len(program'[dev])
      BY Zenon DEF Position
    <3>4. Position(dev)' = Len(Whole(next, dev)) - Len(Whole(next, dev))
      BY <3>1, <3>2, <3>3, Zenon
    <3>5. Len(Whole(next, dev)) \in Nat
      <4>1. GoodProgram(Whole(next, dev), next, dev)
        BY <1>1, WholeIsGood DEF IInv, Stage
      <4>2. QED
        BY <4>1, SuffixLength DEF GoodProgram, IsSeq
    <3>6. QED
      BY <3>4, <3>5
  <2>5. Sent(dev)' = SentBefore(next) + SentIn(next, 0)
    <3>1. SentBefore(Head(phase))' = SentBefore(next)
      BY Constants
    <3>2. SentIn(Head(phase), Position(dev))' = SentIn(next, 0)
      BY <2>4 DEF SentIn
    <3>3. QED
      BY <3>1, <3>2 DEF Sent
  <2>6. Executed(dev)' = Executed(dev)
    <3>1. Sent(dev)' = Sent(dev)
      BY <1>2, <2>3, <2>5
    <3>2. QED
      BY <3>1 DEF Executed
  <2>7. next \in {"host", "release"} => queue[dev] = <<>>
    BY <1>1, EmptyAfterPhase
  <2>8. Ordered(dev)'
    <3>1. \A n : Nth(dev, n)' = Nth(dev, n)
      BY Constants
    <3>2. ~(Position(dev)' >= 8)
      BY <2>4
    <3>3. QED
      BY <2>1, <2>6, <2>7, <3>1, <3>2 DEF Ordered
  <2>9. Contents(dev)'
    BY <2>1, <2>6, ContentsStay
  <2>10. QED
    BY <2>6, <2>8, <2>9
<1>4. Devices' = Devices
  BY Constants
<1>5. /\ Route'
      /\ phase' = <<"release">> /\ call.operation = "predict" /\ call.kernel_type = "linear" => name = "host"
  BY NextRoute DEF IInv, ValuesInv
<1>6. Results'
  <2>1. CASE Head(phase) # "host" /\ UNCHANGED <<q, w, out>>
    BY <1>3, <1>5, <2>1, ResultsStay
  <2>2. QED
    BY <2>1
<1>7. QED
  BY <1>3, <1>4, <1>5, <1>6 DEF ValuesInv

LEMMA NextPhaseValues == ASSUME IInv, ValuesInv, NextPhase PROVE ValuesInv'
<1>1. /\ Len(phase) > 1 /\ phase' = Tail(phase) /\ UNCHANGED <<call, queue, mem, q, w, out>>
      /\ \A dev \in Devices : program[dev] = <<>> /\ ~Blocked(dev)
      /\ Head(phase) # "host"
  BY DEF NextPhase
<1>2. phase'[1] = Head(phase')
  BY <1>1, Transitions
<1>3. \A dev \in Devices : (IF phase'[1] = "host" THEN <<>> ELSE Program(phase'[1], dev)) = Whole(Head(phase'), dev)
  BY <1>2 DEF Whole
<1>4. program' = [dev \in Devices |-> Whole(Head(phase'), dev)]
  BY <1>3 DEF NextPhase
<1>5. QED
  BY <1>1, <1>4, PhaseValues

\* The parts of the devices are the whole normal vector.
LEMMA NormalVectorThere ==
    ASSUME IInv, ValuesInv, Head(phase) = "host"
    PROVE  \A f \in UpTo(num_features) : w[f] = NormalVector[f]
<1>1. call.operation = "predict" /\ call.kernel_type = "linear" /\ call \in Calls
  BY DEF IInv, Stage
<1>2. CASE call.has_w
  BY <1>1, <1>2 DEF ValuesInv, Results
<1>3. CASE ~call.has_w
  <2>1. ASSUME NEW dev \in Devices PROVE Executed(dev) = 7
    <3>1. queue[dev] = <<>> /\ Executed(dev) \in Nat /\ Sent(dev) = Executed(dev) + Len(queue[dev])
      BY Counts DEF ValuesInv, Ordered
    <3>2. Len(queue[dev]) = 0
      <4>1. Len(<<>>) = 0
        OBVIOUS
      <4>2. QED
        BY <3>1, <4>1, Zenon
    <3>3. Sent(dev) = 7
      <4>1. SentBefore("host") = 7
        BY <1>1, <1>3 DEF SentBefore, Total
      <4>2. SentIn("host", Position(dev)) = 0
        BY DEF SentIn
      <4>3. QED
        BY <4>1, <4>2 DEF Sent
    <3>4. QED
      BY <3>1, <3>2, <3>3
  <2>2. ASSUME NEW f \in UpTo(num_features) PROVE w[f] = NormalVector[f]
    <3>1. PICK dev \in Devices : f \in feature_ranges(dev - 1)..(feature_ranges(dev) - 1)
      BY <1>1, RangesCover
    <3>2. Executed(dev) >= 7
      BY <2>1
    <3>3. QED
      BY <1>1, <1>3, <3>1, <3>2 DEF ValuesInv, Results
  <2>3. QED
    BY <2>2
<1>4. QED
  BY <1>2, <1>3

LEMMA PredictLinearValues == ASSUME IInv, ValuesInv, PredictLinear PROVE ValuesInv'
<1> DEFINE terms(p) == {<<w[f], PredictPoint(p, f)>> : f \in UpTo(num_features)}
<1>1. /\ Head(phase) = "host" /\ phase' = Tail(phase) /\ UNCHANGED <<call, queue, waiting, mem, q, w>>
  BY DEF PredictLinear
<1>2. phase = <<"host", "release">> /\ call.operation = "predict" /\ call.kernel_type = "linear"
  BY <1>1 DEF IInv, Stage
<1>3. Len(phase) > 1 /\ Head(phase') = "release"
  BY <1>1, <1>2
<1>4. program' = [dev \in Devices |-> Whole(Head(phase'), dev)]
  BY <1>3 DEF PredictLinear, Whole
<1>5. ASSUME NEW dev \in Devices PROVE program[dev] = <<>> /\ ~Blocked(dev)
  <2>1. program[dev] = <<>>
    BY <1>1, NextCommand
  <2>2. queue[dev] = <<>>
    BY <1>1 DEF ValuesInv, Ordered
  <2>3. QED
    BY <2>1, <2>2 DEF Blocked
<1>6. \A f \in UpTo(num_features) : w[f] = NormalVector[f]
  BY <1>1, NormalVectorThere
<1>7. /\ DOMAIN q = UpTo(num_support_vectors - 1) /\ DOMAIN w = UpTo(num_features)
      /\ DOMAIN out = UpTo(num_predict_points)
      /\ call.has_w => w = NormalVector
  BY <1>2 DEF ValuesInv, Results
<1>8. /\ DOMAIN out' = DOMAIN out
      /\ \A p \in DOMAIN out : out'[p] = SetToBag(terms(p) \cup {<<"-rho">>})
  BY Zenon DEF PredictLinear
<1>9. ASSUME NEW p \in UpTo(num_predict_points)
      PROVE  out'[p] = SetToBag(ExpectedTerms(p) \cup {<<"-rho">>})
  <2>1. ExpectedTerms(p) = {<<NormalVector[f], PredictPoint(p, f)>> : f \in UpTo(num_features)}
    BY <1>2 DEF ExpectedTerms
  <2>2. terms(p) = ExpectedTerms(p)
    BY <1>6, <2>1
  <2> HIDE DEF terms
  <2>3. QED
    BY <1>7, <1>8, <2>2
<1>10. Results'
  <2>1. /\ num_support_vectors' = num_support_vectors /\ num_predict_points' = num_predict_points
        /\ num_features' = num_features /\ NormalVector' = NormalVector /\ Devices' = Devices
        /\ \A n : ExpectedTerms(n)' = ExpectedTerms(n)
        /\ \A d : feature_ranges(d)' = feature_ranges(d)
    BY <1>1, Constants
  <2>2. Decided'
    BY <1>9, <2>1 DEF Decided
  <2>3. ASSUME NEW d \in Devices, NEW f \in feature_ranges(d - 1)..(feature_ranges(d) - 1)
        PROVE  w[f] = NormalVector[f]
    <3>1. call \in Calls
      BY DEF IInv
    <3>2. f \in UpTo(num_features)
      BY <3>1, RangeOf, CallSizes DEF UpTo
    <3>3. QED
      BY <1>6, <3>2
  <2> HIDE DEF Decided
  <2>4. DOMAIN out' = UpTo(num_predict_points)
    BY <1>8, <1>7
  <2>5. QED
    BY <1>1, <1>2, <1>7, <2>1, <2>2, <2>3, <2>4 DEF Results
<1>11. QED
  BY <1>1, <1>3, <1>4, <1>5, <1>10, PhaseValues

LEMMA InitValues == ASSUME Init PROVE ValuesInv
<1>1. IInv /\ call \in Calls /\ phase = Phases(call)
  BY InitIInv DEF Init
<1>2. /\ call.operation \in {"q", "predict"} /\ call.has_w \in BOOLEAN
      /\ call.kernel_type \in {"linear", "polynomial", "rbf"}
  BY <1>1, CallsAssumption
<1>3. Head(phase) = "setup" /\ Route /\ phase # <<"release">>
  <2>1. ASSUME NEW a, NEW b, NEW c, NEW d, NEW e
        PROVE  /\ Head(<<a, b, c, d>>) = a /\ Head(<<a, b, c, d, e>>) = a /\ Head(<<a>>) = a
               /\ Head(<<a, b>>) = a /\ Head(<<a, b, c>>) = a
               /\ Len(<<a, b, c, d>>) = 4 /\ Len(<<a, b, c, d, e>>) = 5
    OBVIOUS
  <2>2. \/ phase = <<"setup", "q", "reduction", "release">> /\ call.operation = "q"
        \/ phase = <<"setup", "alpha", "predict", "release">> /\ call.kernel_type # "linear"
        \/ phase = <<"setup", "alpha", "host", "release">> /\ call.has_w
        \/ phase = <<"setup", "alpha", "w", "host", "release">> /\ ~call.has_w
    BY <1>1, <1>2 DEF Phases
  <2>3. Head(phase) = "setup"
    BY <2>1, <2>2
  <2>4. "setup" # "alpha" /\ "setup" # "w" /\ "setup" # "release" /\ "setup" # "host" /\ 4 # 5
    OBVIOUS
  <2>5. phase # <<"release">> /\ phase # <<"alpha", "w", "host", "release">>
        /\ phase # <<"w", "host", "release">> /\ phase # <<"alpha", "host", "release">>
    <3>1. /\ Head(<<"release">>) = "release" /\ Head(<<"alpha", "w", "host", "release">>) = "alpha"
          /\ Head(<<"w", "host", "release">>) = "w" /\ Head(<<"alpha", "host", "release">>) = "alpha"
      BY <2>1
    <3>2. QED
      BY <2>3, <2>4, <3>1, Zenon
  <2>6. <<"setup", "alpha", "w", "host", "release">> # <<"setup", "alpha", "host", "release">>
    BY <2>1, <2>4, Zenon
  <2>7. QED
    BY <2>2, <2>3, <2>5, <2>6 DEF Route
<1>4. ASSUME NEW dev \in Devices PROVE Executed(dev) = 0 /\ Ordered(dev) /\ Contents(dev)
  <2>1. program[dev] = Whole("setup", dev) /\ queue[dev] = <<>> /\ mem[dev] = <<>>
    BY DEF Init, Whole
  <2>2. Len(Whole("setup", dev)) = 5 /\ DOMAIN <<>> = {} /\ Len(<<>>) = 0
    BY Lengths, EmptyIsSeq DEF Names, Length
  <2>3. Position(dev) = 0
    <3>1. Position(dev) = Len(Whole("setup", dev)) - Len(Whole("setup", dev))
      BY <1>3, <2>1, Zenon DEF Position
    <3>2. QED
      BY <2>2, <3>1
  <2>4. Sent(dev) = 0
    BY <1>3, <2>3 DEF Sent, SentBefore, SentIn
  <2>5. Len(queue[dev]) = 0 /\ DOMAIN queue[dev] = {} /\ DOMAIN mem[dev] = {}
    BY <2>1, <2>2, Zenon
  <2>6. Executed(dev) = 0
    BY <2>4, <2>5 DEF Executed
  <2>7. Ordered(dev)
    BY <2>1, <2>5, <2>6 DEF Ordered
  <2>8. Contents(dev)
    BY <2>5, <2>6 DEF Contents, DataThere, QThere, AlphaThere, WThere, OutThere
  <2>9. QED
    BY <2>6, <2>7, <2>8
<1>5. Results
  <2>1. Delivered = {}
    BY <1>4 DEF Delivered
  <2>2. \A n : UNION {Part(dev, n) : dev \in Delivered} = {}
    BY <2>1
  <2>3. /\ DOMAIN q = UpTo(num_support_vectors - 1) /\ DOMAIN w = UpTo(num_features)
        /\ DOMAIN out = UpTo(num_predict_points)
        /\ \A n \in UpTo(num_support_vectors - 1) : q[n] = <<call.kernel_type, {}>>
        /\ call.has_w => w = NormalVector
    BY DEF Init, NormalVector
  <2>4. \A dev \in Devices : ~(Executed(dev) >= 7) /\ ~(Executed(dev) >= 10)
    BY <1>4
  <2>5. QED
    BY <1>3, <2>2, <2>3, <2>4 DEF Results
<1>6. QED
  BY <1>3, <1>4, <1>5 DEF ValuesInv
----------------------------------------------------------------------------
(* What a device executes.                                                 *)

LEMMA SentBounds ==
    ASSUME NEW name \in Names \ {"host", "release"}, Suits(name), NEW k \in 0..Length(name)
    PROVE  LET sent == SentBefore(name) + SentIn(name, k)
           IN  /\ name = "setup" => sent <= 3
               /\ name \in {"q", "alpha"} => sent <= 5
               /\ name = "reduction" => sent <= 6
               /\ name = "w" => sent <= 7
               /\ name = "predict" => sent <= 10 /\ (k < 6 => sent <= 8)
<1>1. CASE name = "setup"
  BY <1>1 DEF SentBefore, SentIn, Length
<1>2. CASE name \in {"q", "alpha"}
  BY <1>2 DEF SentBefore, SentIn, Length
<1>3. CASE name = "reduction"
  BY <1>3 DEF SentBefore, SentIn, Length
<1>4. CASE name = "w"
  BY <1>4 DEF SentBefore, SentIn, Length
<1>5. CASE name = "predict"
  <2>1. SentBefore(name) = 5 /\ k \in 0..9
    BY <1>5 DEF SentBefore, Length
  <2>2. SentIn(name, k) <= 5 /\ SentIn(name, k) \in Nat /\ (k < 6 => SentIn(name, k) <= 3)
    BY <1>5, <2>1 DEF SentIn
  <2>3. QED
    BY <1>5, <2>1, <2>2
<1>6. QED
  BY <1>1, <1>2, <1>3, <1>4, <1>5 DEF Names

\* What is freed before the release: never the data or the weights.
LEMMA FreedIn ==
    ASSUME NEW dev, NEW name \in Names \ {"host", "release"}, NEW j \in 1..Length(name),
           Whole(name, dev)[j].op = "free"
    PROVE  /\ Whole(name, dev)[j].buffer \notin {"data_last_d", "data_d", "alpha_d"}
           /\ j < 8 => Whole(name, dev)[j].buffer # "point_d"
<1>1. CASE name = "setup"
  <2>1. j \in 1..5
    BY <1>1 DEF Length
  <2>2. QED
    BY <1>1, <2>1, Wholes, SetupShape, Fields
<1>2. CASE name = "q"
  <2>1. j \in 1..3
    BY <1>2 DEF Length
  <2>2. QED
    BY <1>2, <2>1, Wholes, QShape, Fields
<1>3. CASE name = "reduction"
  <2>1. j \in 1..3
    BY <1>3 DEF Length
  <2>2. QED
    BY <1>3, <2>1, Wholes, ReductionShape, Fields
<1>4. CASE name = "alpha"
  <2>1. j \in 1..3
    BY <1>4 DEF Length
  <2>2. QED
    BY <1>4, <2>1, Wholes, AlphaShape, Fields
<1>5. CASE name = "w"
  <2>1. j \in 1..5
    BY <1>5 DEF Length
  <2>2. QED
    BY <1>5, <2>1, Wholes, WShape, Fields
<1>6. CASE name = "predict"
  <2>1. j \in 1..9
    BY <1>6 DEF Length
  <2>2. QED
    BY <1>6, <2>1, Wholes, PredictShape, Fields
<1>7. QED
  BY <1>1, <1>2, <1>3, <1>4, <1>5, <1>6 DEF Names

LEMMA Present ==
    ASSUME IInv, ValuesInv, NEW dev \in Devices, Head(phase) \notin {"host", "release"}
    PROVE  /\ Head(phase) # "setup" => {"data_last_d", "data_d"} \subseteq DOMAIN mem[dev]
           /\ Head(phase) \in {"w", "predict"} => "alpha_d" \in DOMAIN mem[dev]
           /\ Head(phase) = "predict" /\ Position(dev) \in 6..7 => "point_d" \in DOMAIN mem[dev]
<1> DEFINE name == Head(phase)
           commands == Whole(name, dev)
           k == Position(dev)
<1>1. /\ k \in 0..Len(commands) /\ name \in Names \ {"host", "release"}
      /\ DOMAIN mem[dev] = Live(commands, Base(name), k)
  BY Counts
<1>2. Len(commands) = Length(name)
  BY <1>1, Lengths
<1>3. k \in Nat /\ k <= Length(name)
  <2>1. Length(name) \in Nat
    BY <1>1 DEF Length, Names
  <2> HIDE DEF commands, k, name
  <2>2. QED
    BY <1>1, <1>2, <2>1
<1>4. \A j \in 1..k : commands[j].op = "free" =>
        /\ commands[j].buffer \notin {"data_last_d", "data_d", "alpha_d"}
        /\ j < 8 => commands[j].buffer # "point_d"
  <2>1. Length(name) \in Nat
    BY <1>1 DEF Length, Names
  <2>2. \A j \in 1..k : j \in 1..Length(name)
    BY <1>3, <2>1
  <2>3. QED
    BY <1>1, <2>2, FreedIn
<1>5. ASSUME NEW b \in {"data_last_d", "data_d", "alpha_d"}, b \in Base(name)
      PROVE  b \in DOMAIN mem[dev]
  <2>1. \A j \in 1..k : ~(commands[j].op = "free" /\ commands[j].buffer = b)
    BY <1>4
  <2>2. b \in Buffers
    BY DEF Buffers
  <2> HIDE DEF commands, k, name
  <2>3. QED
    BY <1>1, <1>5, <2>1, <2>2 DEF Live
<1>6. /\ name # "setup" => "data_last_d" \in Base(name) /\ "data_d" \in Base(name)
      /\ name \in {"w", "predict"} => "alpha_d" \in Base(name)
  BY <1>1 DEF Base, Names
<1>7. ASSUME name = "predict", k \in 6..7 PROVE "point_d" \in DOMAIN mem[dev]
  <2>1. commands[3].op = "allocate" /\ commands[3].buffer = "point_d"
    BY <1>7, Wholes, PredictShape, Fields
  <2>2. \A j \in 1..k : ~(commands[j].op = "free" /\ commands[j].buffer = "point_d")
    BY <1>4, <1>7
  <2>3. 3 \in 1..k /\ "point_d" \in Buffers
    BY <1>7 DEF Buffers
  <2> HIDE DEF commands, k, name
  <2>4. QED
    BY <1>1, <2>1, <2>2, <2>3 DEF Live
<1>8. QED
  BY <1>5, <1>6, <1>7

LEMMA NextExecuted ==
    ASSUME IInv, ValuesInv, NEW dev \in Devices, queue[dev] # <<>>
    PROVE  LET n == Executed(dev) + 1
               linear == call.kernel_type = "linear"
           IN  /\ Head(queue[dev]) = Nth(dev, n) /\ Executed(dev) \in Nat
               /\ call.operation = "q" => n \in 1..6
               /\ call.operation = "predict" /\ ~linear => n \in 1..10
               /\ call.operation = "predict" /\ linear => n \in 1..7 /\ (call.has_w => n < 6)
               /\ n >= 4 => {"data_last_d", "data_d"} \subseteq DOMAIN mem[dev]
               /\ n >= 6 /\ call.operation = "predict" => "alpha_d" \in DOMAIN mem[dev]
               /\ n = 9 => "point_d" \in DOMAIN mem[dev]
<1> DEFINE name == Head(phase)
           k == Position(dev)
           n == Executed(dev) + 1
<1>1. /\ k \in 0..Len(Whole(name, dev)) /\ name \in Names /\ Suits(name)
      /\ IsSeq(queue[dev]) /\ Executed(dev) \in Nat /\ Sent(dev) = Executed(dev) + Len(queue[dev])
      /\ Ordered(dev)
  BY Counts DEF ValuesInv
<1>2. name \notin {"host", "release"} /\ (name = "predict" => ~(k >= 8))
  BY <1>1 DEF Ordered
<1>3. Len(queue[dev]) \in Nat \ {0} /\ DOMAIN queue[dev] = 1..Len(queue[dev])
      /\ Head(queue[dev]) = queue[dev][1]
  BY <1>1, TailOrder
<1>4. Head(queue[dev]) = Nth(dev, n)
  <2>1. 1 \in DOMAIN queue[dev]
    BY <1>3
  <2>2. QED
    BY <1>1, <1>3, <2>1 DEF Ordered
<1>5. n \in Nat /\ n >= 1 /\ n <= Sent(dev)
  BY <1>1, <1>3
<1>6. Len(Whole(name, dev)) = Length(name) /\ Length(name) \in Nat
  <2>1. Length(name) \in Nat
    BY <1>1, <1>2 DEF Length, Names
  <2>2. QED
    BY <1>1, <1>2, <2>1, Lengths
<1>7. k \in 0..Length(name)
  <2> HIDE DEF k, name
  <2>1. QED
    BY <1>1, <1>6
<1>8. Sent(dev) = SentBefore(name) + SentIn(name, k) /\ Sent(dev) \in Nat
  BY <1>1, <1>3 DEF Sent
<1> HIDE DEF n, k
<1>9. /\ name = "setup" => n <= 3
      /\ name \in {"q", "alpha"} => n <= 5
      /\ name = "reduction" => n <= 6
      /\ name = "w" => n <= 7
      /\ name = "predict" => n <= 10 /\ (k < 6 => n <= 8)
  <2> DEFINE sent == SentBefore(name) + SentIn(name, k)
  <2>1. /\ name = "setup" => sent <= 3
        /\ name \in {"q", "alpha"} => sent <= 5
        /\ name = "reduction" => sent <= 6
        /\ name = "w" => sent <= 7
        /\ name = "predict" => sent <= 10 /\ (k < 6 => sent <= 8)
    BY <1>1, <1>2, <1>7, SentBounds
  <2>2. n <= sent /\ sent \in Nat
    BY <1>5, <1>8
  <2> HIDE DEF sent, name
  <2>3. QED
    BY <1>5, <2>1, <2>2
<1>10. /\ name # "setup" => {"data_last_d", "data_d"} \subseteq DOMAIN mem[dev]
       /\ name \in {"w", "predict"} => "alpha_d" \in DOMAIN mem[dev]
       /\ name = "predict" /\ k \in 6..7 => "point_d" \in DOMAIN mem[dev]
  BY <1>2, Present DEF k
<1>11. /\ call.operation \in {"q", "predict"}
       /\ name \in {"q", "reduction"} => call.operation = "q"
       /\ name \in {"alpha", "w", "predict"} => call.operation = "predict"
       /\ name = "w" => call.kernel_type = "linear" /\ ~call.has_w
       /\ name = "predict" => call.kernel_type # "linear"
  BY <1>1 DEF Suits
<1>12. name \in {"setup", "q", "reduction", "alpha", "w", "predict"}
  BY <1>1, <1>2 DEF Names
<1>13. name = "predict" => k \in Nat /\ k < 8
  BY <1>2, <1>6, <1>7
<1> HIDE DEF name
<1>14. QED
  BY <1>1, <1>4, <1>5, <1>9, <1>10, <1>11, <1>12, <1>13 DEF n
----------------------------------------------------------------------------
(* The commands one by one.                                                *)

LEMMA NthIs ==
    ASSUME NEW dev
    PROVE  LET n == num_features_in_range(dev)
               size == num_features * (num_predict_points + boundary_size)
           IN  /\ Nth(dev, 1) = MemsetZero("data_last_d", Zero)
               /\ Nth(dev, 2) = CopyToDevice("data_last_d", LastRow(dev), n)
               /\ Nth(dev, 3) = CopyToDevice("data_d", Rows(dev), n * num_rows)
               /\ call.operation = "q" =>
                    /\ Nth(dev, 4) = MemsetZero("q_d", Zero) /\ Nth(dev, 5) = Kernel("q", "q_d")
                    /\ Nth(dev, 6) = CopyToHost("q_d")
               /\ call.operation # "q" =>
                    /\ Nth(dev, 4) = MemsetZero("alpha_d", Zero)
                    /\ Nth(dev, 5) = CopyToDevice("alpha_d", Weights, num_support_vectors)
               /\ call.operation # "q" /\ call.kernel_type = "linear" =>
                    Nth(dev, 6) = Kernel("w", "w_d") /\ Nth(dev, 7) = CopyToHost("w_d")
               /\ call.operation # "q" /\ call.kernel_type # "linear" =>
                    /\ Nth(dev, 6) = MemsetZero("out_d", EmptyBag) /\ Nth(dev, 7) = MemsetZero("point_d", Zero)
                    /\ Nth(dev, 8) = CopyToDevice("point_d", transform_to_layout("point", num_predict_points), size)
                    /\ Nth(dev, 9) = Kernel("predict", "out_d") /\ Nth(dev, 10) = CopyToHost("out_d")
<1>1. /\ Nth(dev, 1) = setup_data_on_device(dev)[2] /\ Nth(dev, 2) = setup_data_on_device(dev)[3]
      /\ Nth(dev, 3) = setup_data_on_device(dev)[5]
  BY DEF Nth
<1>2. call.operation = "q" =>
        /\ Nth(dev, 4) = generate_q(dev)[2] /\ Nth(dev, 5) = generate_q(dev)[3]
        /\ Nth(dev, 6) = device_reduction(dev)[2]
  BY DEF Nth
<1>3. call.operation # "q" => Nth(dev, 4) = setup_alpha(dev)[2] /\ Nth(dev, 5) = setup_alpha(dev)[3]
  BY DEF Nth
<1>4. call.operation # "q" /\ call.kernel_type = "linear" =>
        Nth(dev, 6) = calculate_w(dev)[2] /\ Nth(dev, 7) = calculate_w(dev)[4]
  BY DEF Nth
<1>5. call.operation # "q" /\ call.kernel_type # "linear" =>
        /\ Nth(dev, 6) = predict(dev)[2] /\ Nth(dev, 7) = predict(dev)[4] /\ Nth(dev, 8) = predict(dev)[5]
        /\ Nth(dev, 9) = predict(dev)[6] /\ Nth(dev, 10) = predict(dev)[7]
  BY DEF Nth
<1>6. QED
  BY <1>1, <1>2, <1>3, <1>4, <1>5, SetupShape, QShape, ReductionShape, AlphaShape, WShape, PredictShape, Zenon

LEMMA ExecuteFrame ==
    ASSUME IInv, ValuesInv, NEW dev \in Devices, Execute(dev)
    PROVE  LET c == Nth(dev, Executed(dev) + 1)
           IN  /\ UNCHANGED <<call, phase>>
               /\ Executed(dev)' = Executed(dev) + 1 /\ Executed(dev) \in Nat /\ Ordered(dev)'
               /\ c.buffer \in DOMAIN mem[dev]
               /\ \A b \in DOMAIN mem[dev] : DOMAIN mem[dev][b] = UpTo(Size(b, dev))
               /\ DOMAIN mem'[dev] = DOMAIN mem[dev]
               /\ mem'[dev][c.buffer] = Written(dev, c)
               /\ \A b \in DOMAIN mem[dev] \ {c.buffer} : mem'[dev][b] = mem[dev][b]
               /\ \A d \in Devices \ {dev} : Executed(d)' = Executed(d) /\ Ordered(d)' /\ Contents(d)'
<1> DEFINE c == Head(queue[dev])
           m == [mem[dev] EXCEPT ![c.buffer] = Written(dev, c)]
           s == Tail(queue[dev])
<1>1. /\ queue[dev] # <<>> /\ c.buffer \in DOMAIN mem[dev]
      /\ UNCHANGED <<call, phase, program>> /\ queue'[dev] = s /\ mem'[dev] = m
      /\ \A d \in Devices \ {dev} : queue'[d] = queue[d] /\ mem'[d] = mem[d]
  <2>1. mem' = [mem EXCEPT ![dev] = m] /\ queue' = [queue EXCEPT ![dev] = s]
    BY DEF Execute
  <2>2. queue[dev] # <<>> /\ c.buffer \in DOMAIN mem[dev] /\ UNCHANGED <<call, phase, program>>
    BY UsedBuffers DEF Execute
  <2>3. DOMAIN mem = Devices /\ DOMAIN queue = Devices
    BY DEF IInv
  <2> HIDE DEF m, s, c
  <2>4. QED
    BY <2>1, <2>2, <2>3
<1>2. /\ IsSeq(queue[dev]) /\ Executed(dev) \in Nat /\ Ordered(dev)
      /\ Sent(dev) = Executed(dev) + Len(queue[dev])
  BY Counts DEF ValuesInv
<1>3. c = Nth(dev, Executed(dev) + 1)
  BY <1>1, NextExecuted
<1>4. /\ Len(queue[dev]) \in Nat \ {0} /\ Len(s) = Len(queue[dev]) - 1 /\ DOMAIN queue[dev] = 1..Len(queue[dev])
      /\ DOMAIN s = 1..(Len(queue[dev]) - 1)
      /\ \A x \in 1..(Len(queue[dev]) - 1) : s[x] = queue[dev][x + 1]
  BY <1>1, <1>2, TailOrder
<1>5. Position(dev)' = Position(dev)
  <2>1. Whole(Head(phase), dev)' = Whole(Head(phase), dev)
    BY <1>1, CallStays
  <2>2. program'[dev] = program[dev]
    BY <1>1
  <2>3. QED
    BY <2>1, <2>2, Zenon DEF Position
<1>6. Sent(dev)' = Sent(dev)
  <2>1. SentBefore(Head(phase))' = SentBefore(Head(phase))
    BY <1>1, Constants
  <2>2. SentIn(Head(phase), Position(dev))' = SentIn(Head(phase), Position(dev))
    BY <1>1, <1>5 DEF SentIn
  <2>3. QED
    BY <2>1, <2>2 DEF Sent
<1>7. Executed(dev)' = Executed(dev) + 1
  <2>1. Executed(dev)' = Sent(dev)' - Len(queue'[dev])
    BY Zenon DEF Executed
  <2>2. Executed(dev)' = Sent(dev) - Len(s)
    BY <1>1, <1>6, <2>1, Zenon
  <2> HIDE DEF s
  <2>3. QED
    BY <1>2, <1>4, <2>2
<1>8. Ordered(dev)'
  <2>1. \A n : Nth(dev, n)' = Nth(dev, n)
    BY <1>1, Constants
  <2> HIDE DEF s
  <2>2. \A x \in DOMAIN s : s[x] = Nth(dev, (Executed(dev) + 1) + x)
    <3>1. ASSUME NEW x \in DOMAIN s PROVE s[x] = Nth(dev, (Executed(dev) + 1) + x)
      <4>1. x \in Nat /\ x + 1 \in DOMAIN queue[dev] /\ s[x] = queue[dev][x + 1]
        BY <1>4
      <4>2. queue[dev][x + 1] = Nth(dev, Executed(dev) + (x + 1))
        BY <1>2, <4>1 DEF Ordered
      <4>3. Executed(dev) + (x + 1) = (Executed(dev) + 1) + x
        BY <1>2, <4>1
      <4>4. QED
        BY <4>1, <4>2, <4>3
    <3>2. QED
      BY <3>1
  <2>3. Head(phase) \notin {"host", "release"} /\ ~(Head(phase) = "predict" /\ Position(dev) >= 8)
    BY <1>1, <1>2 DEF Ordered
  <2>4. QED
    BY <1>1, <1>2, <1>5, <1>7, <2>1, <2>2, <2>3 DEF Ordered
<1>9. ASSUME NEW d \in Devices \ {dev}
      PROVE  Executed(d)' = Executed(d) /\ Ordered(d)' /\ Contents(d)'
  BY <1>1, OtherStays
<1>10. \A b \in DOMAIN mem[dev] : DOMAIN mem[dev][b] = UpTo(Size(b, dev))
  BY DEF IInv, DeviceInv
<1> HIDE DEF c
<1>11. /\ DOMAIN mem'[dev] = DOMAIN mem[dev] /\ mem'[dev][c.buffer] = Written(dev, c)
       /\ \A b \in DOMAIN mem[dev] \ {c.buffer} : mem'[dev][b] = mem[dev][b]
  BY <1>1
<1> HIDE DEF m
<1>12. QED
  BY <1>1, <1>2, <1>3, <1>7, <1>8, <1>9, <1>10, <1>11
----------------------------------------------------------------------------
(* What commands write.                                                    *)

LEMMA ValuesDiffer ==
    ASSUME NEW a, NEW b, NEW c
    PROVE  /\ <<a, b>> # Junk /\ <<a, b>> # Zero /\ <<a, b, c>> # Junk /\ <<a, b, c>> # Zero
           /\ Junk # Zero /\ <<a, b>> # <<"-rho">>
<1>1. /\ Len(<<a, b>>) = 2 /\ Len(<<a, b, c>>) = 3 /\ Len(Junk) = 1 /\ Len(Zero) = 1 /\ Len(<<"-rho">>) = 1
      /\ Junk[1] = "junk" /\ Zero[1] = "zero"
  BY DEF Junk, Zero
<1>2. 1 # 2 /\ 1 # 3 /\ "junk" # "zero"
  OBVIOUS
<1>3. QED
  BY <1>1, <1>2, Zenon

LEMMA SummandOf ==
    ASSUME NEW combine, NEW a, NEW b, a \notin {Junk, Zero}, b \notin {Junk, Zero}
    PROVE  Summand(combine, a, b) = {<<a, b>>}
BY DEF Summand, Product, Difference

LEMMA EveryThread ==
    ASSUME NEW n \in Nat \ {0}, NEW kernel
    PROVE  UpTo(n) \subseteq Threads(kernel, n)
BY ExecutionRange DEF Threads

LEMMA Writes ==
    ASSUME NEW dev, NEW b
    PROVE  /\ \A zero : \A k \in DOMAIN mem[dev][b] : Written(dev, MemsetZero(b, zero))[k] = zero
           /\ \A data, count : \A k \in DOMAIN mem[dev][b] :
                Written(dev, CopyToDevice(b, data, count))[k] = IF k < count THEN data[k] ELSE mem[dev][b][k]
           /\ Written(dev, CopyToHost(b)) = mem[dev][b]
           /\ Written(dev, Kernel("q", b)) = device_kernel_q(dev)
           /\ Written(dev, Kernel("w", b)) = device_kernel_w_linear(dev)
           /\ Written(dev, Kernel("predict", b)) = device_kernel_predict(dev)
<1>1. ASSUME NEW zero, NEW k \in DOMAIN mem[dev][b]
      PROVE  Written(dev, MemsetZero(b, zero))[k] = zero
  BY DEF Written, MemsetZero
<1>2. ASSUME NEW data, NEW count, NEW k \in DOMAIN mem[dev][b]
      PROVE  Written(dev, CopyToDevice(b, data, count))[k] = IF k < count THEN data[k] ELSE mem[dev][b][k]
  BY DEF Written, CopyToDevice
<1>3. Written(dev, CopyToHost(b)) = mem[dev][b]
  BY DEF Written, CopyToHost
<1>4. /\ Written(dev, Kernel("q", b)) = device_kernel_q(dev)
      /\ Written(dev, Kernel("w", b)) = device_kernel_w_linear(dev)
      /\ Written(dev, Kernel("predict", b)) = device_kernel_predict(dev)
  BY DEF Written, Kernel
<1>5. QED
  BY <1>1, <1>2, <1>3, <1>4

LEMMA LastRowWritten ==
    ASSUME call \in Calls, NEW dev \in Devices,
           DOMAIN mem[dev].data_last_d = UpTo(Size("data_last_d", dev)),
           NEW f \in UpTo(num_features_in_range(dev))
    PROVE  Written(dev, Nth(dev, 2))[f] = SupportVector(num_support_vectors - 1, feature_ranges(dev - 1) + f)
<1> DEFINE n == num_features_in_range(dev)
<1>1. n \in Nat \ {0} /\ boundary_size \in Nat
  BY RangeOf, CallSizes
<1>2. f \in DOMAIN mem[dev]["data_last_d"] /\ f < n
  BY <1>1 DEF Size, UpTo
<1>3. Written(dev, CopyToDevice("data_last_d", LastRow(dev), n))[f] = LastRow(dev)[f]
  BY <1>2, Writes
<1>4. QED
  BY <1>3, NthIs DEF LastRow

\* A device gets the columns of its features, with their padding.
LEMMA RowsWritten ==
    ASSUME call \in Calls, NEW dev \in Devices,
           DOMAIN mem[dev].data_d = UpTo(Size("data_d", dev)),
           NEW f \in UpTo(num_features_in_range(dev)), NEW n \in UpTo(num_rows)
    PROVE  Written(dev, Nth(dev, 3))[f * num_rows + n] =
                IF n < num_support_vectors - 1 THEN SupportVector(n, feature_ranges(dev - 1) + f) ELSE Zero
<1> DEFINE range == num_features_in_range(dev)
           first == feature_ranges(dev - 1)
           size == range * num_rows
           k == f * num_rows + n
           rows == num_rows
           features == num_features
<1>1. /\ range \in Nat \ {0} /\ first \in Nat /\ first + range <= features /\ features \in Nat \ {0}
      /\ rows \in Nat \ {0} /\ rows = num_support_vectors - 1 + boundary_size
      /\ num_support_vectors - 1 \in Nat
  BY RangeOf, CallSizes
<1>2. f \in 0..(range - 1) /\ n \in 0..(rows - 1) /\ f \in Nat /\ n \in Nat
  BY <1>1 DEF UpTo
<1>3. k \in 0..(size - 1)
  <2> HIDE DEF range, rows
  <2>1. f * rows + n \in 0..(range * rows - 1)
    BY <1>1, <1>2, Inside
  <2>2. QED
    BY <2>1 DEF rows
<1>4. Written(dev, CopyToDevice("data_d", Rows(dev), size))[k] = Rows(dev)[k]
  <2>1. k \in DOMAIN mem[dev]["data_d"] /\ k < size
    <3>1. DOMAIN mem[dev]["data_d"] = 0..(size - 1)
      BY DEF Size, UpTo
    <3>2. size \in Nat
      BY <1>1
    <3> HIDE DEF k, size
    <3>3. QED
      BY <1>3, <3>1, <3>2
  <2> HIDE DEF k, size
  <2>2. QED
    BY <2>1, Writes
<1>5. Rows(dev)[k] = transform_to_layout("sv", num_support_vectors - 1)[first * rows + k]
  <2>1. k \in UpTo(size)
    BY <1>3 DEF UpTo
  <2> HIDE DEF k
  <2>2. QED
    BY <2>1 DEF Rows
<1>6. first * rows + k = (first + f) * rows + n
  <2> HIDE DEF first, rows
  <2>1. (first + f) * rows = first * rows + f * rows
    BY <1>1, <1>2
  <2>2. first * rows \in Nat /\ f * rows \in Nat
    BY <1>1, <1>2
  <2>3. QED
    BY <1>2, <2>1, <2>2 DEF rows
<1>7. LET i == (first + f) * rows + n
      IN  i \in UpTo(features * rows) /\ i \div rows = first + f /\ i % rows = n
  <2> HIDE DEF first, rows, range, features
  <2>1. first + f \in 0..(features - 1) /\ first + f \in Nat
    BY <1>1, <1>2
  <2>2. (first + f) * rows + n \in 0..(features * rows - 1)
    BY <1>1, <1>2, <2>1, Inside
  <2>3. ((first + f) * rows + n) \div rows = first + f /\ ((first + f) * rows + n) % rows = n
    BY <1>1, <1>2, <2>1, Quotient
  <2>4. QED
    BY <2>2, <2>3 DEF UpTo
<1>8. transform_to_layout("sv", num_support_vectors - 1)[(first + f) * rows + n] =
        IF n < num_support_vectors - 1 THEN <<"sv", n, first + f>> ELSE Zero
  <2> HIDE DEF first
  <2>1. (first + f) * rows + n \in UpTo(features * (num_support_vectors - 1 + boundary_size))
    BY <1>1, <1>7
  <2> DEFINE i == (first + f) * rows + n
  <2>2. transform_to_layout("sv", num_support_vectors - 1)[i] =
          IF i % rows < num_support_vectors - 1 THEN <<"sv", i % rows, i \div rows>> ELSE Zero
    <3> HIDE DEF i
    <3>1. i \in UpTo(num_features * (num_support_vectors - 1 + boundary_size))
      BY <2>1 DEF i
    <3>2. QED
      BY <1>1, <3>1 DEF transform_to_layout
  <2>3. i % rows = n /\ i \div rows = first + f
    BY <1>7
  <2> HIDE DEF i
  <2>4. QED
    BY <2>2, <2>3 DEF i
<1>9. Rows(dev)[k] = IF n < num_support_vectors - 1 THEN SupportVector(n, first + f) ELSE Zero
  <2> HIDE DEF k, first, rows
  <2>1. QED
    BY <1>5, <1>6, <1>8 DEF SupportVector
<1>10. Nth(dev, 3) = CopyToDevice("data_d", Rows(dev), size)
  BY NthIs
<1> HIDE DEF k, size
<1>11. QED
  BY <1>4, <1>9, <1>10 DEF k

LEMMA WeightsWritten ==
    ASSUME call \in Calls, call.operation # "q", NEW dev \in Devices,
           DOMAIN mem[dev].alpha_d = UpTo(Size("alpha_d", dev)),
           NEW n \in UpTo(num_support_vectors + THREAD_BLOCK_SIZE), mem[dev].alpha_d[n] = Zero
    PROVE  Written(dev, Nth(dev, 5))[n] = IF n < num_support_vectors THEN Alpha(n) ELSE Zero
<1>1. num_support_vectors \in Nat /\ THREAD_BLOCK_SIZE \in Nat
  BY CallSizes
<1>2. n \in DOMAIN mem[dev]["alpha_d"]
  BY DEF Size
<1>3. Written(dev, CopyToDevice("alpha_d", Weights, num_support_vectors))[n] =
        IF n < num_support_vectors THEN Weights[n] ELSE mem[dev]["alpha_d"][n]
  BY <1>2, Writes
<1>4. n < num_support_vectors => Weights[n] = Alpha(n)
  BY <1>1 DEF Weights, UpTo
<1>5. QED
  BY <1>3, <1>4, NthIs

LEMMA PointsWritten ==
    ASSUME call \in Calls, call.operation # "q", call.kernel_type # "linear", NEW dev \in Devices,
           DOMAIN mem[dev].point_d = UpTo(Size("point_d", dev)),
           NEW f \in UpTo(num_features), NEW n \in UpTo(num_predict_points)
    PROVE  Written(dev, Nth(dev, 8))[n + (num_predict_points + boundary_size) * f] = PredictPoint(n, f)
<1> DEFINE rows == num_predict_points + boundary_size
           features == num_features
           size == features * rows
           i == f * rows + n
<1>1. /\ features \in Nat \ {0} /\ rows \in Nat \ {0} /\ num_predict_points \in Nat \ {0}
      /\ boundary_size \in Nat
  BY CallSizes
<1>2. f \in 0..(features - 1) /\ n \in 0..(rows - 1) /\ f \in Nat /\ n \in Nat /\ n < num_predict_points
  BY <1>1 DEF UpTo
<1>3. i \in UpTo(features * rows) /\ i \div rows = f /\ i % rows = n
  <2> HIDE DEF rows, features
  <2>1. QED
    BY <1>1, <1>2, Inside, Quotient DEF UpTo
<1>4. transform_to_layout("point", num_predict_points)[i] = PredictPoint(n, f)
  <2> HIDE DEF i
  <2>1. i \in UpTo(num_features * (num_predict_points + boundary_size))
    BY <1>3
  <2>2. transform_to_layout("point", num_predict_points)[i] =
          IF i % rows < num_predict_points THEN <<"point", i % rows, i \div rows>> ELSE Zero
    BY <2>1 DEF transform_to_layout
  <2>3. QED
    BY <1>2, <1>3, <2>2 DEF PredictPoint
<1>5. Written(dev, CopyToDevice("point_d", transform_to_layout("point", num_predict_points), size))[i] =
        transform_to_layout("point", num_predict_points)[i]
  <2>1. i \in DOMAIN mem[dev]["point_d"] /\ i < size
    <3>1. DOMAIN mem[dev]["point_d"] = UpTo(size)
      BY DEF Size
    <3>2. size \in Nat
      BY <1>1
    <3> HIDE DEF i, size
    <3>3. i \in UpTo(size)
      BY <1>3 DEF size
    <3>4. QED
      BY <3>1, <3>2, <3>3 DEF UpTo
  <2> HIDE DEF i, size
  <2>2. QED
    BY <2>1, Writes
<1>6. i = n + rows * f
  <2> HIDE DEF rows
  <2>1. QED
    BY <1>1, <1>2
<1>7. Nth(dev, 8) = CopyToDevice("point_d", transform_to_layout("point", num_predict_points), size)
  BY NthIs
<1> HIDE DEF i, size
<1>8. QED
  BY <1>4, <1>5, <1>6, <1>7
----------------------------------------------------------------------------
(* What the kernels calculate.                                             *)

\* The data of a device is where its kernels look for it.
LEMMA DataCells ==
    ASSUME call \in Calls, NEW dev \in Devices, DataThere(dev), Executed(dev) \in Nat, Executed(dev) >= 3,
           {"data_last_d", "data_d"} \subseteq DOMAIN mem[dev],
           \A b \in DOMAIN mem[dev] : DOMAIN mem[dev][b] = UpTo(Size(b, dev)),
           NEW f \in UpTo(num_features_in_range(dev))
    PROVE  /\ Cell(mem[dev].data_last_d, f) = SupportVector(num_support_vectors - 1, feature_ranges(dev - 1) + f)
           /\ \A n \in UpTo(num_rows) :
                Cell(mem[dev].data_d, f * num_rows + n) =
                    IF n < num_support_vectors - 1 THEN SupportVector(n, feature_ranges(dev - 1) + f) ELSE Zero
<1> DEFINE range == num_features_in_range(dev)
           rows == num_rows
<1>1. range \in Nat \ {0} /\ boundary_size \in Nat /\ rows \in Nat \ {0}
  BY RangeOf, CallSizes
<1>2. DOMAIN mem[dev].data_last_d = UpTo(range + boundary_size) /\ DOMAIN mem[dev].data_d = UpTo(range * rows)
  BY DEF Size
<1>3. f \in UpTo(range + boundary_size)
  BY <1>1 DEF UpTo
<1>4. mem[dev].data_last_d[f] = SupportVector(num_support_vectors - 1, feature_ranges(dev - 1) + f)
  BY DEF DataThere
<1>5. ASSUME NEW n \in UpTo(rows)
      PROVE  Cell(mem[dev].data_d, f * rows + n) =
                IF n < num_support_vectors - 1 THEN SupportVector(n, feature_ranges(dev - 1) + f) ELSE Zero
  <2>1. f * rows + n \in UpTo(range * rows)
    <3> HIDE DEF range, rows
    <3>1. f \in 0..(range - 1) /\ n \in 0..(rows - 1)
      BY DEF UpTo, range
    <3>2. f * rows + n \in 0..(range * rows - 1)
      BY <1>1, <3>1, Inside
    <3>3. QED
      BY <3>2 DEF UpTo
  <2> DEFINE k == f * rows + n
  <2>2. mem[dev].data_d[k] =
           IF n < num_support_vectors - 1 THEN SupportVector(n, feature_ranges(dev - 1) + f) ELSE Zero
    BY DEF DataThere
  <2> HIDE DEF k
  <2>3. k \in DOMAIN mem[dev].data_d
    BY <1>2, <2>1 DEF k
  <2>4. Cell(mem[dev].data_d, k) = mem[dev].data_d[k]
    BY <2>3 DEF Cell
  <2>5. QED
    BY <2>2, <2>4 DEF k
<1>6. Cell(mem[dev].data_last_d, f) = mem[dev].data_last_d[f]
  BY <1>2, <1>3 DEF Cell
<1>7. QED
  BY <1>4, <1>5, <1>6

LEMMA QWritten ==
    ASSUME call \in Calls, NEW dev \in Devices, DataThere(dev), Executed(dev) \in Nat, Executed(dev) >= 3,
           {"data_last_d", "data_d", "q_d"} \subseteq DOMAIN mem[dev],
           \A b \in DOMAIN mem[dev] : DOMAIN mem[dev][b] = UpTo(Size(b, dev)),
           NEW n \in UpTo(num_support_vectors - 1)
    PROVE  device_kernel_q(dev)[n] = <<call.kernel_type, Part(dev, n)>>
<1> DEFINE range == num_features_in_range(dev)
           first == feature_ranges(dev - 1)
           last == num_support_vectors - 1
           term(i) == Summand(Combined("q"), Cell(mem[dev].data_d, i * num_rows + n), Cell(mem[dev].data_last_d, i))
           sum == UNION {term(i) : i \in UpTo(range)}
<1>1. /\ range \in Nat \ {0} /\ first \in Nat /\ feature_ranges(dev) = first + range
      /\ last \in Nat \ {0} /\ boundary_size \in Nat /\ num_rows = last + boundary_size
  BY RangeOf, CallSizes
<1>2. n \in UpTo(num_rows) /\ n < last
  BY <1>1 DEF UpTo
<1>3. ASSUME NEW i \in UpTo(range)
      PROVE  term(i) = {<<SupportVector(n, first + i), SupportVector(last, first + i)>>}
  <2>1. /\ Cell(mem[dev].data_d, i * num_rows + n) = SupportVector(n, first + i)
        /\ Cell(mem[dev].data_last_d, i) = SupportVector(last, first + i)
    BY <1>2, DataCells
  <2>2. SupportVector(n, first + i) \notin {Junk, Zero} /\ SupportVector(last, first + i) \notin {Junk, Zero}
    BY ValuesDiffer DEF SupportVector
  <2>3. QED
    BY <2>1, <2>2, SummandOf
<1> HIDE DEF term
<1>4. sum = Part(dev, n)
  <2> HIDE DEF range, first, last
  <2> DEFINE pair(f) == <<SupportVector(n, f), SupportVector(last, f)>>
  <2>1. Part(dev, n) = {pair(f) : f \in first..(first + range - 1)}
    BY <1>1 DEF Part, first, last
  <2>2. \A i \in UpTo(range) : term(i) = {pair(first + i)}
    BY <1>3
  <2> HIDE DEF pair
  <2>3. ASSUME NEW x \in sum PROVE x \in Part(dev, n)
    <3>1. PICK i \in UpTo(range) : x \in term(i)
      OBVIOUS
    <3>2. x = pair(first + i) /\ first + i \in first..(first + range - 1)
      BY <1>1, <2>2, <3>1 DEF UpTo
    <3>3. QED
      BY <2>1, <3>2
  <2>4. ASSUME NEW x \in Part(dev, n) PROVE x \in sum
    <3>1. PICK f \in first..(first + range - 1) : x = pair(f)
      BY <2>1
    <3>2. f - first \in UpTo(range) /\ first + (f - first) = f
      BY <1>1, <3>1 DEF UpTo
    <3>3. x \in term(f - first)
      BY <2>2, <3>1, <3>2
    <3>4. QED
      BY <3>2, <3>3
  <2>5. QED
    BY <2>3, <2>4
<1>5. n \in DOMAIN mem[dev].q_d
  <2>1. DOMAIN mem[dev].q_d = UpTo(num_support_vectors - 1 + boundary_size)
    BY DEF Size
  <2>2. QED
    BY <1>1, <2>1 DEF UpTo
<1>6. n \in Threads("q", num_support_vectors - 1)
  BY <1>1, EveryThread
<1>7. device_kernel_q(dev)[n] = Value(call.kernel_type, sum)
  BY <1>5, <1>6 DEF device_kernel_q, term
<1>8. Junk \notin Part(dev, n)
  BY ValuesDiffer DEF Part
<1>9. QED
  BY <1>4, <1>7, <1>8 DEF Value

\* The last thread that works is the one of the last feature.
LEMMA WWritten ==
    ASSUME call \in Calls, NEW dev \in Devices, DataThere(dev), AlphaThere(dev), Executed(dev) = 5,
           call.operation = "predict",
           {"data_last_d", "data_d", "alpha_d", "w_d"} \subseteq DOMAIN mem[dev],
           \A b \in DOMAIN mem[dev] : DOMAIN mem[dev][b] = UpTo(Size(b, dev)),
           NEW f \in UpTo(num_features_in_range(dev))
    PROVE  device_kernel_w_linear(dev)[f] = NormalVector[feature_ranges(dev - 1) + f]
<1> DEFINE range == num_features_in_range(dev)
           first == feature_ranges(dev - 1)
           last == num_support_vectors - 1
           term(i) == Summand(Combined("predict"), Cell(mem[dev].alpha_d, i), Cell(mem[dev].data_d, i + num_rows * f))
           one == Summand(Combined("predict"), Cell(mem[dev].alpha_d, last), Cell(mem[dev].data_last_d, f))
           sum == (UNION {term(i) : i \in UpTo(last)}) \cup one
<1>1. /\ range \in Nat \ {0} /\ first \in Nat /\ feature_ranges(dev) = first + range
      /\ feature_ranges(dev) <= num_features /\ num_features \in Nat
      /\ last \in Nat \ {0} /\ boundary_size \in Nat /\ num_rows = last + boundary_size
      /\ num_support_vectors = last + 1 /\ THREAD_BLOCK_SIZE \in Nat
  BY RangeOf, CallSizes
<1>2. ASSUME NEW i \in UpTo(num_support_vectors) PROVE Cell(mem[dev].alpha_d, i) = Alpha(i)
  <2>1. i \in UpTo(num_support_vectors + THREAD_BLOCK_SIZE) /\ i < num_support_vectors
    BY <1>1 DEF UpTo
  <2>2. DOMAIN mem[dev].alpha_d = UpTo(num_support_vectors + THREAD_BLOCK_SIZE)
    BY DEF Size
  <2>3. QED
    BY <2>1, <2>2 DEF AlphaThere, Cell
<1>3. ASSUME NEW i \in UpTo(last) PROVE term(i) = {<<Alpha(i), SupportVector(i, first + f)>>}
  <2>1. i \in UpTo(num_rows) /\ i < last /\ i \in UpTo(num_support_vectors)
    BY <1>1 DEF UpTo
  <2>2. Cell(mem[dev].data_d, f * num_rows + i) = SupportVector(i, first + f)
    BY <2>1, DataCells
  <2>3. f * num_rows + i = i + num_rows * f
    BY <1>1 DEF UpTo
  <2>4. SupportVector(i, first + f) \notin {Junk, Zero} /\ Alpha(i) \notin {Junk, Zero}
    BY ValuesDiffer DEF SupportVector, Alpha
  <2>5. QED
    BY <1>2, <2>1, <2>2, <2>3, <2>4, SummandOf
<1>4. one = {<<Alpha(last), SupportVector(last, first + f)>>}
  <2>1. last \in UpTo(num_support_vectors)
    BY <1>1 DEF UpTo
  <2>2. Cell(mem[dev].data_last_d, f) = SupportVector(last, first + f)
    BY DataCells
  <2>3. SupportVector(last, first + f) \notin {Junk, Zero} /\ Alpha(last) \notin {Junk, Zero}
    BY ValuesDiffer DEF SupportVector, Alpha
  <2>4. QED
    BY <1>2, <2>1, <2>2, <2>3, SummandOf
<1> DEFINE pair(i) == <<Alpha(i), SupportVector(i, first + f)>>
           pairs == {pair(i) : i \in UpTo(num_support_vectors)}
<1>5. sum = pairs
  <2> HIDE DEF term, one, pair, last
  <2>1. UpTo(num_support_vectors) = UpTo(last) \cup {last}
    BY <1>1 DEF UpTo
  <2>2. \A i \in UpTo(last) : term(i) = {pair(i)}
    BY <1>3 DEF pair
  <2>3. one = {pair(last)}
    BY <1>4 DEF pair
  <2>4. ASSUME NEW x \in sum PROVE x \in pairs
    <3>1. CASE x \in one
      BY <2>1, <2>3, <3>1
    <3>2. CASE x \in UNION {term(i) : i \in UpTo(last)}
      <4>1. PICK i \in UpTo(last) : x \in term(i)
        BY <3>2
      <4>2. x = pair(i) /\ i \in UpTo(num_support_vectors)
        BY <2>1, <2>2, <4>1
      <4>3. QED
        BY <4>2
    <3>3. QED
      BY <3>1, <3>2
  <2>5. ASSUME NEW x \in pairs PROVE x \in sum
    <3>1. PICK i \in UpTo(num_support_vectors) : x = pair(i)
      OBVIOUS
    <3>2. CASE i \in UpTo(last)
      <4>1. x \in term(i)
        BY <2>2, <3>1, <3>2
      <4>2. QED
        BY <3>2, <4>1
    <3>3. CASE i = last
      BY <2>3, <3>1, <3>3
    <3>4. QED
      BY <2>1, <3>2, <3>3
  <2> HIDE DEF sum, pairs
  <2>6. QED
    BY <2>4, <2>5
<1>6. NormalVector[first + f] = <<"linear", pairs>>
  <2>1. first + f \in UpTo(num_features)
    BY <1>1 DEF UpTo
  <2>2. QED
    BY <2>1 DEF NormalVector
<1>7. f \in DOMAIN mem[dev].w_d
  BY DEF Size
<1>8. f \in Threads("w", num_features_in_range(dev)) /\ f < num_features_in_range(dev)
  BY <1>1, EveryThread DEF UpTo
<1>9. device_kernel_w_linear(dev)[f] = Value("linear", sum)
  BY <1>7, <1>8 DEF device_kernel_w_linear
<1>10. Junk \notin pairs
  BY ValuesDiffer
<1> HIDE DEF sum, pairs
<1>11. QED
  BY <1>5, <1>6, <1>9, <1>10 DEF Value
----------------------------------------------------------------------------
(* The sum of a prediction.                                                *)

LEMMA OneMoreBag ==
    ASSUME NEW U, NEW t, U \cap t = {}
    PROVE  SetToBag(U) (+) SetToBag(t) = SetToBag(U \cup t)
  BY DEF SetToBag, (+)

PickOf(s) == CHOOSE a \in s : TRUE

\* The recursion of a sum of sets that starts with base.
IsFold(f, S, base, term) ==
    f = [s \in SUBSET S |-> IF s = {} THEN base ELSE f[s \ {PickOf(s)}] (+) SetToBag(term[PickOf(s)])]

\* The terms of a set of summands.
AllOf(term, s) == UNION {term[a] : a \in s}

LEMMA FoldStep ==
    ASSUME NEW S, NEW term, \A a, b \in S : a # b => term[a] \cap term[b] = {},
           NEW s \in SUBSET S, s # {}
    PROVE  /\ PickOf(s) \in s /\ s \ {PickOf(s)} \in SUBSET S
           /\ SetToBag(AllOf(term, s)) = SetToBag(AllOf(term, s \ {PickOf(s)})) (+) SetToBag(term[PickOf(s)])
<1> DEFINE c == PickOf(s)
           U == AllOf(term, s \ {c})
<1>1. c \in s
  BY DEF PickOf
<1> HIDE DEF c
<1>2. U \cap term[c] = {}
  BY <1>1 DEF AllOf
<1>3. U \cup term[c] = AllOf(term, s)
  BY <1>1 DEF AllOf
<1>4. QED
  BY <1>1, <1>2, <1>3, OneMoreBag DEF c

\* There is one, and it adds every set once.
LEMMA FoldThere ==
    ASSUME NEW S, NEW term, \A a, b \in S : a # b => term[a] \cap term[b] = {}
    PROVE  \E f : IsFold(f, S, EmptyBag, term)
<1> DEFINE Bag(s) == SetToBag(AllOf(term, s))
           bags == [s \in SUBSET S |-> Bag(s)]
<1>1. Bag({}) = EmptyBag
  BY DEF EmptyBag, AllOf
<1>2. \A s \in SUBSET S : s # {} =>
        /\ PickOf(s) \in s /\ s \ {PickOf(s)} \in SUBSET S
        /\ Bag(s) = Bag(s \ {PickOf(s)}) (+) SetToBag(term[PickOf(s)])
  BY FoldStep
<1>3. IsFold(bags, S, EmptyBag, term)
  <2> HIDE DEF Bag
  <2>1. QED
    BY <1>1, <1>2 DEF IsFold
<1>4. QED
  BY <1>3

LEMMA FoldIs ==
    ASSUME NEW S, IsFiniteSet(S), NEW term, \A a, b \in S : a # b => term[a] \cap term[b] = {},
           NEW f, IsFold(f, S, EmptyBag, term)
    PROVE  f[S] = SetToBag(AllOf(term, S))
<1> DEFINE Bag(s) == SetToBag(AllOf(term, s))
           Bad == {u \in SUBSET S : f[u] # Bag(u)}
<1>1. Bag({}) = EmptyBag
  BY DEF EmptyBag, AllOf
<1>2. ASSUME NEW s \in SUBSET S, s # {}
      PROVE  /\ PickOf(s) \in s /\ s \ {PickOf(s)} \in SUBSET S
             /\ Bag(s) = Bag(s \ {PickOf(s)}) (+) SetToBag(term[PickOf(s)])
  BY <1>2, FoldStep
<1>3. \A s \in SUBSET S : f[s] = IF s = {} THEN EmptyBag ELSE f[s \ {PickOf(s)}] (+) SetToBag(term[PickOf(s)])
  BY DEF IsFold
<1> HIDE DEF Bag
<1>4. ASSUME Bad # {} PROVE FALSE
  <2>1. IsWellFoundedOn(StrictSubsetOrdering(S), SUBSET S)
    BY FS_StrictSubsetOrderingWellFounded, FS_FiniteSubsetsOfFinite
  <2>2. Bad \subseteq SUBSET S
    OBVIOUS
  <2> HIDE DEF Bad
  <2>3. PICK u \in Bad : \A v \in Bad : ~(<<v, u>> \in StrictSubsetOrdering(S))
    BY <1>4, <2>1, <2>2, WFMin
  <2>4. u \in SUBSET S /\ f[u] # Bag(u)
    BY <2>3 DEF Bad
  <2>5. u # {}
    BY <1>1, <1>3, <2>4
  <2> DEFINE v == u \ {PickOf(u)}
  <2>6. PickOf(u) \in u /\ v \in SUBSET S /\ v \subseteq u /\ v # u
    BY <1>2, <2>4, <2>5
  <2>7. f[u] = f[v] (+) SetToBag(term[PickOf(u)])
    BY <1>3, <2>4, <2>5
  <2>8. f[v] # Bag(v)
    BY <1>2, <2>4, <2>5, <2>7
  <2>9. <<v, u>> \in StrictSubsetOrdering(S)
    BY <2>4, <2>6 DEF StrictSubsetOrdering
  <2>10. QED
    BY <2>3, <2>6, <2>8, <2>9 DEF Bad
<1>5. QED
  BY <1>4 DEF Bag

\* A device has all features if the kernel is not linear.
LEMMA OneDeviceOnly ==
    ASSUME call \in Calls, call.kernel_type # "linear", NEW dev \in Devices
    PROVE  feature_ranges(dev - 1) = 0 /\ num_features_in_range(dev) = num_features /\ Devices = {1} /\ dev = 1
<1>1. select_num_used_devices = 1 /\ num_features \in Nat
  BY CallSizes
<1>2. dev = 1 /\ Devices = {1}
  BY <1>1 DEF Devices
<1>3. feature_ranges(0) = 0 /\ feature_ranges(1) = num_features
  BY <1>1 DEF feature_ranges
<1>4. QED
  BY <1>1, <1>2, <1>3 DEF num_features_in_range

\* What a thread adds to a prediction.
PredictSum(dev, i, p) ==
    UNION {Summand(Combined("predict"),
                   IF i = num_support_vectors - 1 THEN Cell(mem[dev].data_last_d, f)
                   ELSE Cell(mem[dev].data_d, i + num_rows * f),
                   Cell(mem[dev].point_d, p + (num_predict_points + boundary_size) * f)) :
              f \in UpTo(num_features)}

PredictTerm(dev, i, p) == Weighted(Cell(mem[dev].alpha_d, i), Value(call.kernel_type, PredictSum(dev, i, p)))

Term(i, p) == <<Alpha(i), <<call.kernel_type, {<<SupportVector(i, f), PredictPoint(p, f)>> : f \in UpTo(num_features)}>>>>

\* What the prediction finds in memory.
ReadyToPredict(dev) ==
    /\ call \in Calls /\ call.operation = "predict" /\ call.kernel_type # "linear"
    /\ DataThere(dev) /\ AlphaThere(dev) /\ OutThere(dev) /\ Executed(dev) = 8
    /\ {"data_last_d", "data_d", "alpha_d", "point_d", "out_d"} \subseteq DOMAIN mem[dev]
    /\ \A b \in DOMAIN mem[dev] : DOMAIN mem[dev][b] = UpTo(Size(b, dev))

\* The padding of the data is zero for the threads that have no support vector.
LEMMA SupportVectorCell ==
    ASSUME NEW dev \in Devices, ReadyToPredict(dev), NEW f \in UpTo(num_features),
           NEW i \in execution_range(num_support_vectors)
    PROVE  (IF i = num_support_vectors - 1 THEN Cell(mem[dev].data_last_d, f)
            ELSE Cell(mem[dev].data_d, i + num_rows * f))
              = IF i < num_support_vectors THEN SupportVector(i, f) ELSE Zero
<1> DEFINE last == num_support_vectors - 1
<1>1. /\ num_support_vectors \in Nat \ {0, 1} /\ num_rows \in Nat /\ num_rows = last + boundary_size
      /\ boundary_size \in Nat /\ boundary_size >= THREAD_BLOCK_SIZE /\ THREAD_BLOCK_SIZE \in Nat \ {0}
      /\ num_features \in Nat
  BY CallSizes DEF ReadyToPredict
<1>2. i \in Nat /\ i < num_support_vectors + THREAD_BLOCK_SIZE - 1
  <2>1. i \in UpTo(num_support_vectors + THREAD_BLOCK_SIZE - 1)
    BY <1>1, ExecutionRange
  <2>2. QED
    BY <1>1, <2>1 DEF UpTo
<1>3. i \in UpTo(num_rows) /\ f \in Nat
  BY <1>1, <1>2 DEF UpTo
<1>4. feature_ranges(dev - 1) = 0 /\ num_features_in_range(dev) = num_features
  BY OneDeviceOnly DEF ReadyToPredict
<1>5. f \in UpTo(num_features_in_range(dev)) /\ 0 + f = f
  BY <1>3, <1>4
<1>6. /\ Cell(mem[dev].data_last_d, f) = SupportVector(last, f)
      /\ Cell(mem[dev].data_d, f * num_rows + i) = IF i < last THEN SupportVector(i, f) ELSE Zero
  BY <1>3, <1>4, <1>5, DataCells DEF ReadyToPredict
<1>7. f * num_rows + i = i + num_rows * f
  BY <1>1, <1>2, <1>3
<1>8. i # last => (i < last <=> i < num_support_vectors)
  BY <1>1, <1>2
<1>9. i = last => i < num_support_vectors
  BY <1>1
<1>10. QED
  BY <1>6, <1>7, <1>8, <1>9

LEMMA PointCell ==
    ASSUME NEW dev \in Devices, ReadyToPredict(dev), NEW f \in UpTo(num_features),
           NEW p \in UpTo(num_predict_points)
    PROVE  Cell(mem[dev].point_d, p + (num_predict_points + boundary_size) * f) = PredictPoint(p, f)
<1> DEFINE rows == num_predict_points + boundary_size
           k == p + rows * f
<1>1. mem[dev].point_d[k] = PredictPoint(p, f)
  BY DEF ReadyToPredict, OutThere
<1>2. /\ num_features \in Nat \ {0} /\ rows \in Nat \ {0} /\ num_predict_points \in Nat \ {0}
      /\ boundary_size \in Nat
  BY CallSizes DEF ReadyToPredict
<1>3. f \in 0..(num_features - 1) /\ p \in 0..(rows - 1)
  BY <1>2 DEF UpTo
<1>4. k \in UpTo(num_features * rows)
  <2> HIDE DEF rows
  <2>1. f * rows + p \in 0..(num_features * rows - 1)
    BY <1>2, <1>3, Inside
  <2>2. f * rows + p = k
    BY <1>2, <1>3
  <2>3. QED
    BY <2>1, <2>2 DEF UpTo
<1>5. DOMAIN mem[dev].point_d = UpTo(num_features * rows)
  BY DEF ReadyToPredict, Size
<1> HIDE DEF k
<1>6. QED
  BY <1>1, <1>4, <1>5 DEF Cell, k

LEMMA AlphaCell ==
    ASSUME NEW dev \in Devices, ReadyToPredict(dev), NEW i \in execution_range(num_support_vectors)
    PROVE  Cell(mem[dev].alpha_d, i) = IF i < num_support_vectors THEN Alpha(i) ELSE Zero
<1>1. num_support_vectors \in Nat \ {0, 1} /\ THREAD_BLOCK_SIZE \in Nat \ {0}
  BY CallSizes DEF ReadyToPredict
<1>2. i \in UpTo(num_support_vectors + THREAD_BLOCK_SIZE)
  <2>1. i \in UpTo(num_support_vectors + THREAD_BLOCK_SIZE - 1)
    BY <1>1, ExecutionRange
  <2>2. QED
    BY <1>1, <2>1 DEF UpTo
<1>3. DOMAIN mem[dev].alpha_d = UpTo(num_support_vectors + THREAD_BLOCK_SIZE)
  BY DEF ReadyToPredict, Size
<1>4. QED
  BY <1>2, <1>3 DEF Cell, ReadyToPredict, AlphaThere

\* A thread with a support vector adds its term, the others add nothing.
LEMMA PredictTermIs ==
    ASSUME NEW dev \in Devices, ReadyToPredict(dev), ~Spoiled,
           NEW i \in execution_range(num_support_vectors), NEW p \in UpTo(num_predict_points)
    PROVE  PredictTerm(dev, i, p) = IF i < num_support_vectors THEN {Term(i, p)} ELSE {}
<1> DEFINE sv(f) == IF i = num_support_vectors - 1 THEN Cell(mem[dev].data_last_d, f)
                    ELSE Cell(mem[dev].data_d, i + num_rows * f)
           point(f) == Cell(mem[dev].point_d, p + (num_predict_points + boundary_size) * f)
           part(f) == Summand(Combined("predict"), sv(f), point(f))
           sum == PredictSum(dev, i, p)
<1>1. sum = UNION {part(f) : f \in UpTo(num_features)}
  BY DEF PredictSum
<1>2. \A f \in UpTo(num_features) : sv(f) = IF i < num_support_vectors THEN SupportVector(i, f) ELSE Zero
  BY SupportVectorCell
<1>3. \A f \in UpTo(num_features) : point(f) = PredictPoint(p, f)
  BY PointCell
<1>4. \A f : PredictPoint(p, f) \notin {Junk, Zero} /\ SupportVector(i, f) \notin {Junk, Zero}
  BY ValuesDiffer DEF PredictPoint, SupportVector
<1> HIDE DEF sv, point
<1>5. CASE i < num_support_vectors
  <2> DEFINE pairs == {<<SupportVector(i, f), PredictPoint(p, f)>> : f \in UpTo(num_features)}
  <2>1. \A f \in UpTo(num_features) : part(f) = {<<SupportVector(i, f), PredictPoint(p, f)>>}
    BY <1>2, <1>3, <1>4, <1>5, SummandOf
  <2>2. sum = pairs
    <3> HIDE DEF part
    <3>1. QED
      BY <1>1, <2>1
  <2>3. Junk \notin pairs
    BY ValuesDiffer
  <2> DEFINE value == <<call.kernel_type, pairs>>
  <2>4. Value(call.kernel_type, sum) = value
    <3> HIDE DEF pairs, sum
    <3>1. QED
      BY <2>2, <2>3 DEF Value
  <2>5. Cell(mem[dev].alpha_d, i) = Alpha(i)
    BY <1>5, AlphaCell
  <2>6. value # Junk /\ Alpha(i) # Junk /\ Alpha(i) # Zero
    BY ValuesDiffer DEF Alpha
  <2>7. Term(i, p) = <<Alpha(i), value>>
    BY DEF Term
  <2> HIDE DEF value, sum
  <2>8. Weighted(Alpha(i), value) = {<<Alpha(i), value>>}
    BY <2>6 DEF Weighted
  <2>9. QED
    BY <1>5, <2>4, <2>5, <2>7, <2>8 DEF PredictTerm, sum
<1>6. CASE ~(i < num_support_vectors)
  <2>1. \A f \in UpTo(num_features) : Junk \notin part(f)
    <3>1. ASSUME NEW f \in UpTo(num_features) PROVE Junk \notin part(f)
      <4>1. sv(f) = Zero /\ point(f) \notin {Junk, Zero} /\ Zero # Junk
        BY <1>2, <1>3, <1>4, <1>6, ValuesDiffer
      <4>2. <<Zero, point(f)>> # Junk
        BY ValuesDiffer
      <4>3. QED
        BY <4>1, <4>2 DEF Summand, Product, Difference
    <3>2. QED
      BY <3>1
  <2>2. Junk \notin sum
    <3> HIDE DEF part, sum
    <3>1. QED
      BY <1>1, <2>1
  <2> DEFINE value == <<call.kernel_type, sum>>
  <2>3. Value(call.kernel_type, sum) = value
    <3> HIDE DEF sum
    <3>1. QED
      BY <2>2 DEF Value
  <2>4. value # Junk /\ Zero # Junk
    BY ValuesDiffer
  <2>5. ~(call.pole /\ value = <<"polynomial", {}>>)
    <3>1. ASSUME call.pole, value = <<"polynomial", {}>> PROVE FALSE
      <4>1. call.kernel_type = "polynomial"
        <5>1. value[1] = call.kernel_type /\ <<"polynomial", {}>>[1] = "polynomial"
          OBVIOUS
        <5>2. QED
          BY <3>1, <5>1
      <4>2. num_support_vectors \in Nat \ {0} /\ THREAD_BLOCK_SIZE \in Nat
        BY CallSizes DEF ReadyToPredict
      <4>3. num_support_vectors <= THREAD_BLOCK_SIZE \/ num_support_vectors % THREAD_BLOCK_SIZE = 0
        BY <3>1, <4>1, <4>2 DEF Spoiled
      <4>4. i \in UpTo(num_support_vectors)
        BY <4>2, <4>3, ExecutionRange
      <4>5. QED
        BY <1>6, <4>2, <4>4 DEF UpTo
    <3>2. QED
      BY <3>1
  <2>6. Cell(mem[dev].alpha_d, i) = Zero
    BY <1>6, AlphaCell
  <2> HIDE DEF value, sum
  <2>7. Weighted(Zero, value) = {}
    BY <2>4, <2>5 DEF Weighted
  <2>8. QED
    BY <1>6, <2>3, <2>6, <2>7 DEF PredictTerm, sum
<1>7. QED
  BY <1>5, <1>6

\* Every support vector is added once, whatever the order of the threads.
LEMMA PredictWritten ==
    ASSUME NEW dev \in Devices, ReadyToPredict(dev), ~Spoiled, NEW p \in UpTo(num_predict_points)
    PROVE  device_kernel_predict(dev)[p] = SetToBag(ExpectedTerms(p))
<1> DEFINE R == execution_range(num_support_vectors)
           old == mem[dev].out_d[p]
           term == [i \in R |-> PredictTerm(dev, i, p)]
           Equation(f) == f = [s \in SUBSET R |->
                                  IF s = {} THEN old
                                  ELSE f[s \ {PickOf(s)}] (+) SetToBag(PredictTerm(dev, PickOf(s), p))]
           fold == CHOOSE f : Equation(f)
<1>1. /\ num_support_vectors \in Nat \ {0, 1} /\ num_predict_points \in Nat \ {0}
      /\ boundary_size \in Nat
  BY CallSizes DEF ReadyToPredict
<1>2. old = EmptyBag
  BY DEF ReadyToPredict, OutThere
<1>3. /\ p \in DOMAIN mem[dev].out_d
      /\ p \in execution_range(num_predict_points) /\ p < num_predict_points
  <2>1. DOMAIN mem[dev].out_d = UpTo(num_predict_points + boundary_size)
    BY DEF ReadyToPredict, Size
  <2>2. QED
    BY <1>1, <2>1, ExecutionRange DEF UpTo
<1>4. device_kernel_predict(dev)[p] =
        FoldSet(LAMBDA i, bag : bag (+) SetToBag(PredictTerm(dev, i, p)), old, R)
  BY <1>3, Zenon DEF device_kernel_predict, PredictTerm, PredictSum
<1>5. FoldSet(LAMBDA i, bag : bag (+) SetToBag(PredictTerm(dev, i, p)), old, R) = fold[R]
  BY Zenon DEF FoldSet, MapThenFoldSet, PickOf
<1>6. \A i \in R : term[i] = IF i < num_support_vectors THEN {Term(i, p)} ELSE {}
  BY PredictTermIs
<1>7. \A a, b \in R : a # b => term[a] \cap term[b] = {}
  <2>1. ASSUME NEW a \in R, NEW b \in R, a # b PROVE Term(a, p) # Term(b, p)
    <3>1. Term(a, p)[1] = Alpha(a) /\ Term(b, p)[1] = Alpha(b)
      BY DEF Term
    <3>2. Alpha(a)[2] = a /\ Alpha(b)[2] = b
      BY DEF Alpha
    <3>3. QED
      BY <2>1, <3>1, <3>2
  <2> HIDE DEF term, R
  <2>2. QED
    BY <1>6, <2>1
<1>8. \A s \in SUBSET R : s # {} => PickOf(s) \in R
  BY DEF PickOf
<1>9. \A f : Equation(f) <=> IsFold(f, R, EmptyBag, term)
  <2>1. \A s \in SUBSET R : s # {} => term[PickOf(s)] = PredictTerm(dev, PickOf(s), p)
    BY <1>8
  <2> HIDE DEF R, term, old
  <2>2. ASSUME NEW f
        PROVE  [s \in SUBSET R |-> IF s = {} THEN old
                                   ELSE f[s \ {PickOf(s)}] (+) SetToBag(PredictTerm(dev, PickOf(s), p))]
             = [s \in SUBSET R |-> IF s = {} THEN EmptyBag
                                   ELSE f[s \ {PickOf(s)}] (+) SetToBag(term[PickOf(s)])]
    BY <1>2, <2>1
  <2>3. QED
    BY <2>2, Zenon DEF IsFold
<1>10. IsFold(fold, R, EmptyBag, term)
  <2>1. \E f : IsFold(f, R, EmptyBag, term)
    BY <1>7, FoldThere
  <2> HIDE DEF Equation, R, term
  <2>2. Equation(fold)
    BY <1>9, <2>1
  <2>3. QED
    BY <1>9, <2>2
<1>11. IsFiniteSet(R) /\ UpTo(num_support_vectors) \subseteq R
  BY <1>1, ExecutionRange
<1> HIDE DEF fold, term, R
<1>12. fold[R] = SetToBag(AllOf(term, R))
  BY <1>7, <1>10, <1>11, FoldIs
<1>13. AllOf(term, R) = {Term(i, p) : i \in UpTo(num_support_vectors)}
  <2>1. \A i \in R : i \in Nat
    <3>1. \A i \in UpTo(num_support_vectors + THREAD_BLOCK_SIZE - 1) : i \in Nat
      BY DEF UpTo
    <3>2. QED
      BY <1>1, <3>1, ExecutionRange DEF R
  <2>2. \A i \in R : i < num_support_vectors <=> i \in UpTo(num_support_vectors)
    BY <1>1, <2>1 DEF UpTo
  <2>3. ASSUME NEW x \in AllOf(term, R) PROVE \E i \in UpTo(num_support_vectors) : x = Term(i, p)
    <3>1. PICK i \in R : x \in term[i]
      BY DEF AllOf
    <3>2. QED
      BY <1>6, <2>2, <3>1
  <2>4. ASSUME NEW i \in UpTo(num_support_vectors) PROVE Term(i, p) \in AllOf(term, R)
    <3>1. i \in R /\ Term(i, p) \in term[i]
      BY <1>6, <1>11, <2>2
    <3>2. QED
      BY <3>1 DEF AllOf
  <2>5. QED
    BY <2>3, <2>4
<1>14. ExpectedTerms(p) = {Term(i, p) : i \in UpTo(num_support_vectors)}
  BY DEF ExpectedTerms, Term, ReadyToPredict
<1>15. QED
  BY <1>4, <1>5, <1>12, <1>13, <1>14, Zenon
----------------------------------------------------------------------------
(* A device executes a command.                                            *)

LEMMA BufferOf ==
    ASSUME NEW dev
    PROVE  LET b(n) == Nth(dev, n).buffer
               linear == call.kernel_type = "linear"
           IN  /\ b(1) = "data_last_d" /\ b(2) = "data_last_d" /\ b(3) = "data_d"
               /\ call.operation = "q" => b(4) = "q_d" /\ b(5) = "q_d" /\ b(6) = "q_d"
               /\ call.operation # "q" => b(4) = "alpha_d" /\ b(5) = "alpha_d"
               /\ call.operation # "q" /\ linear => b(6) = "w_d" /\ b(7) = "w_d"
               /\ call.operation # "q" /\ ~linear =>
                    /\ b(6) = "out_d" /\ b(7) = "point_d" /\ b(8) = "point_d"
                    /\ b(9) = "out_d" /\ b(10) = "out_d"
BY NthIs, Fields

LEMMA ExecuteCase ==
    ASSUME IInv, ValuesInv, NEW dev \in Devices, Execute(dev), NEW n, n = Executed(dev) + 1
    PROVE  LET b == Nth(dev, n).buffer
               linear == call.kernel_type = "linear"
           IN  /\ n \in Nat \ {0} /\ Executed(dev) = n - 1 /\ Executed(dev)' = n
               /\ call' = call /\ call \in Calls /\ call.operation \in {"q", "predict"}
               /\ call.operation = "q" => n \in 1..6
               /\ call.operation = "predict" /\ ~linear => n \in 1..10
               /\ call.operation = "predict" /\ linear => n \in 1..7 /\ (call.has_w => n < 6)
               /\ n >= 4 => {"data_last_d", "data_d"} \subseteq DOMAIN mem[dev]
               /\ n >= 6 /\ call.operation = "predict" => "alpha_d" \in DOMAIN mem[dev]
               /\ n = 9 => "point_d" \in DOMAIN mem[dev]
               /\ DOMAIN mem'[dev] = DOMAIN mem[dev] /\ b \in DOMAIN mem[dev]
               /\ mem'[dev][b] = Written(dev, Nth(dev, n))
               /\ \A other \in DOMAIN mem[dev] \ {b} : mem'[dev][other] = mem[dev][other]
               /\ \A other \in DOMAIN mem[dev] : DOMAIN mem[dev][other] = UpTo(Size(other, dev))
               /\ DataThere(dev) /\ QThere(dev) /\ AlphaThere(dev) /\ WThere(dev) /\ OutThere(dev)
<1>1. call \in Calls /\ call.operation \in {"q", "predict"} /\ queue[dev] # <<>>
  BY DEF IInv, Stage, Execute
<1>2. Contents(dev)
  BY DEF ValuesInv
<1>3. /\ Executed(dev) \in Nat /\ Executed(dev)' = Executed(dev) + 1
      /\ UNCHANGED <<call, phase>>
  BY ExecuteFrame
<1>4. n \in Nat \ {0} /\ Executed(dev) = n - 1 /\ Executed(dev)' = n
  BY <1>3
<1>5. /\ call.operation = "q" => n \in 1..6
      /\ call.operation = "predict" /\ call.kernel_type # "linear" => n \in 1..10
      /\ call.operation = "predict" /\ call.kernel_type = "linear" => n \in 1..7 /\ (call.has_w => n < 6)
      /\ n >= 4 => {"data_last_d", "data_d"} \subseteq DOMAIN mem[dev]
      /\ n >= 6 /\ call.operation = "predict" => "alpha_d" \in DOMAIN mem[dev]
      /\ n = 9 => "point_d" \in DOMAIN mem[dev]
  BY <1>1, NextExecuted
<1>6. /\ DOMAIN mem'[dev] = DOMAIN mem[dev] /\ Nth(dev, n).buffer \in DOMAIN mem[dev]
      /\ mem'[dev][Nth(dev, n).buffer] = Written(dev, Nth(dev, n))
      /\ \A other \in DOMAIN mem[dev] \ {Nth(dev, n).buffer} : mem'[dev][other] = mem[dev][other]
      /\ \A other \in DOMAIN mem[dev] : DOMAIN mem[dev][other] = UpTo(Size(other, dev))
  BY ExecuteFrame
<1>7. QED
  BY <1>1, <1>2, <1>3, <1>4, <1>5, <1>6 DEF Contents

LEMMA ExecuteData ==
    ASSUME IInv, ValuesInv, NEW dev \in Devices, Execute(dev)
    PROVE  DataThere(dev)'
<1> DEFINE n == Executed(dev) + 1
           b == Nth(dev, n).buffer
<1>1. /\ n \in Nat \ {0} /\ Executed(dev) = n - 1 /\ Executed(dev)' = n
      /\ call' = call /\ call \in Calls /\ call.operation \in {"q", "predict"}
      /\ DOMAIN mem'[dev] = DOMAIN mem[dev] /\ mem'[dev][b] = Written(dev, Nth(dev, n))
      /\ \A other \in DOMAIN mem[dev] \ {b} : mem'[dev][other] = mem[dev][other]
      /\ \A other \in DOMAIN mem[dev] : DOMAIN mem[dev][other] = UpTo(Size(other, dev))
      /\ DataThere(dev)
  BY ExecuteCase
<1>2. n \in 1..10
  BY ExecuteCase
<1>3. /\ n >= 3 => b # "data_last_d"
      /\ n >= 4 => b # "data_d"
      /\ n = 2 => b = "data_last_d"
      /\ n = 3 => b = "data_d"
  <2>1. /\ call.operation = "q" => n \in 1..6
        /\ call.operation # "q" /\ call.kernel_type # "linear" => n \in 1..10
        /\ call.operation # "q" /\ call.kernel_type = "linear" => n \in 1..7
    BY ExecuteCase
  <2> HIDE DEF n
  <2>2. QED
    BY <2>1, BufferOf DEF b
<1> DEFINE range == num_features_in_range(dev)
           first == feature_ranges(dev - 1)
           last == num_support_vectors - 1
<1>4. ASSUME "data_last_d" \in DOMAIN mem[dev], n >= 2, NEW f \in UpTo(range)
      PROVE  mem'[dev].data_last_d[f] = SupportVector(last, first + f)
  <2>1. CASE n = 2
    <3>1. DOMAIN mem[dev].data_last_d = UpTo(Size("data_last_d", dev))
      BY <1>1, <1>4
    <3>2. Written(dev, Nth(dev, 2))[f] = SupportVector(last, first + f)
      BY <1>1, <3>1, LastRowWritten
    <3>3. QED
      BY <1>1, <1>3, <2>1, <3>2
  <2>2. CASE n >= 3
    <3>1. mem'[dev].data_last_d = mem[dev].data_last_d
      BY <1>1, <1>3, <1>4, <2>2
    <3>2. Executed(dev) >= 2
      BY <1>1, <2>2
    <3>3. QED
      BY <1>1, <1>4, <3>1, <3>2 DEF DataThere
  <2>3. QED
    BY <1>1, <1>4, <2>1, <2>2
<1>5. ASSUME "data_d" \in DOMAIN mem[dev], n >= 3, NEW f \in UpTo(range), NEW l \in UpTo(num_rows)
      PROVE  mem'[dev].data_d[f * num_rows + l] = IF l < last THEN SupportVector(l, first + f) ELSE Zero
  <2>1. CASE n = 3
    <3>1. DOMAIN mem[dev].data_d = UpTo(Size("data_d", dev))
      BY <1>1, <1>5
    <3>2. Written(dev, Nth(dev, 3))[f * num_rows + l] = IF l < last THEN SupportVector(l, first + f) ELSE Zero
      BY <1>1, <3>1, RowsWritten
    <3>3. mem'[dev].data_d = Written(dev, Nth(dev, 3))
      BY <1>1, <1>3, <2>1
    <3>4. QED
      BY <3>2, <3>3
  <2>2. CASE n >= 4
    <3>1. mem'[dev].data_d = mem[dev].data_d
      BY <1>1, <1>3, <1>5, <2>2
    <3>2. Executed(dev) >= 3
      BY <1>1, <2>2
    <3>3. mem[dev].data_d[f * num_rows + l] = IF l < last THEN SupportVector(l, first + f) ELSE Zero
      BY <1>1, <1>5, <3>2 DEF DataThere
    <3>4. QED
      BY <3>1, <3>3
  <2>3. QED
    BY <1>1, <1>5, <2>1, <2>2
<1>6. /\ num_support_vectors' = num_support_vectors /\ num_rows' = num_rows
      /\ num_features_in_range(dev)' = num_features_in_range(dev)
      /\ feature_ranges(dev - 1)' = feature_ranges(dev - 1)
  BY <1>1, Constants
<1> HIDE DEF n
<1>7. QED
  BY <1>1, <1>4, <1>5, <1>6 DEF DataThere

LEMMA ExecuteQ ==
    ASSUME IInv, ValuesInv, NEW dev \in Devices, Execute(dev)
    PROVE  QThere(dev)'
<1> DEFINE n == Executed(dev) + 1
<1>1. /\ n \in Nat \ {0} /\ Executed(dev) = n - 1 /\ Executed(dev)' = n
      /\ call' = call /\ call \in Calls /\ DOMAIN mem'[dev] = DOMAIN mem[dev]
      /\ call.operation = "q" => n \in 1..6
      /\ n >= 4 => {"data_last_d", "data_d"} \subseteq DOMAIN mem[dev]
      /\ mem'[dev][Nth(dev, n).buffer] = Written(dev, Nth(dev, n))
      /\ \A other \in DOMAIN mem[dev] : DOMAIN mem[dev][other] = UpTo(Size(other, dev))
      /\ DataThere(dev) /\ QThere(dev)
  BY ExecuteCase
<1>2. ASSUME call.operation = "q", "q_d" \in DOMAIN mem[dev], n >= 5, NEW l \in UpTo(num_support_vectors - 1)
      PROVE  mem'[dev].q_d[l] = <<call.kernel_type, Part(dev, l)>>
  <2>1. CASE n = 5
    <3>1. mem'[dev].q_d = device_kernel_q(dev)
      BY <1>1, <1>2, <2>1, NthIs, BufferOf, Writes
    <3>2. QED
      BY <1>1, <1>2, <2>1, <3>1, QWritten
  <2>2. CASE n = 6
    <3>1. mem'[dev].q_d = mem[dev].q_d
      BY <1>1, <1>2, <2>2, NthIs, BufferOf, Writes
    <3>2. QED
      BY <1>1, <1>2, <2>2, <3>1 DEF QThere
  <2>3. QED
    BY <1>1, <1>2, <2>1, <2>2
<1>3. num_support_vectors' = num_support_vectors /\ \A l : Part(dev, l)' = Part(dev, l)
  BY <1>1, Constants
<1> HIDE DEF n
<1>4. QED
  BY <1>1, <1>2, <1>3 DEF QThere

LEMMA ExecuteAlpha ==
    ASSUME IInv, ValuesInv, NEW dev \in Devices, Execute(dev)
    PROVE  AlphaThere(dev)'
<1> DEFINE n == Executed(dev) + 1
           b == Nth(dev, n).buffer
           size == num_support_vectors + THREAD_BLOCK_SIZE
<1>1. /\ n \in Nat \ {0} /\ Executed(dev) = n - 1 /\ Executed(dev)' = n
      /\ call' = call /\ call \in Calls /\ DOMAIN mem'[dev] = DOMAIN mem[dev]
      /\ mem'[dev][b] = Written(dev, Nth(dev, n))
      /\ \A other \in DOMAIN mem[dev] \ {b} : mem'[dev][other] = mem[dev][other]
      /\ \A other \in DOMAIN mem[dev] : DOMAIN mem[dev][other] = UpTo(Size(other, dev))
      /\ AlphaThere(dev)
  BY ExecuteCase
<1>2. /\ call.operation = "predict" /\ call.kernel_type # "linear" => n \in 1..10
      /\ call.operation = "predict" /\ call.kernel_type = "linear" => n \in 1..7
  BY ExecuteCase
<1>3. DOMAIN mem[dev].alpha_d = UpTo(size) \/ "alpha_d" \notin DOMAIN mem[dev]
  BY <1>1 DEF Size
<1>4. ASSUME call.operation = "predict", "alpha_d" \in DOMAIN mem[dev], n = 4, NEW l \in UpTo(size)
      PROVE  mem'[dev].alpha_d[l] = Zero
  <2>1. mem'[dev].alpha_d = Written(dev, MemsetZero("alpha_d", Zero))
    BY <1>1, <1>4, NthIs, BufferOf
  <2>2. l \in DOMAIN mem[dev]["alpha_d"]
    BY <1>3, <1>4
  <2>3. QED
    BY <2>1, <2>2, Writes
<1>5. ASSUME call.operation = "predict", "alpha_d" \in DOMAIN mem[dev], n >= 5, NEW l \in UpTo(size)
      PROVE  mem'[dev].alpha_d[l] = IF l < num_support_vectors THEN Alpha(l) ELSE Zero
  <2>1. CASE n = 5
    <3>1. mem'[dev].alpha_d = Written(dev, Nth(dev, 5))
      BY <1>1, <1>5, <2>1, BufferOf
    <3>2. mem[dev].alpha_d[l] = Zero
      BY <1>1, <1>5, <2>1 DEF AlphaThere
    <3>3. DOMAIN mem[dev].alpha_d = UpTo(Size("alpha_d", dev))
      BY <1>1, <1>5
    <3>4. QED
      BY <1>1, <1>5, <3>1, <3>2, <3>3, WeightsWritten
  <2>2. CASE n >= 6
    <3>1. b # "alpha_d"
      <4>1. n \in 6..10
        BY <1>1, <1>2, <1>5, <2>2
      <4> HIDE DEF n
      <4>2. QED
        BY <1>2, <1>5, <4>1, BufferOf
    <3>2. mem'[dev].alpha_d = mem[dev].alpha_d
      BY <1>1, <1>5, <3>1
    <3>3. Executed(dev) >= 5
      BY <1>1, <2>2
    <3>4. mem[dev].alpha_d[l] = IF l < num_support_vectors THEN Alpha(l) ELSE Zero
      BY <1>1, <1>5, <3>3 DEF AlphaThere
    <3>5. QED
      BY <3>2, <3>4
  <2>3. QED
    BY <1>1, <1>5, <2>1, <2>2
<1>6. num_support_vectors' = num_support_vectors
  BY <1>1, Constants
<1> HIDE DEF n
<1>7. QED
  BY <1>1, <1>4, <1>5, <1>6 DEF AlphaThere

LEMMA ExecuteW ==
    ASSUME IInv, ValuesInv, NEW dev \in Devices, Execute(dev)
    PROVE  WThere(dev)'
<1> DEFINE n == Executed(dev) + 1
           first == feature_ranges(dev - 1)
<1>1. /\ n \in Nat \ {0} /\ Executed(dev) = n - 1 /\ Executed(dev)' = n
      /\ call' = call /\ call \in Calls /\ DOMAIN mem'[dev] = DOMAIN mem[dev]
      /\ mem'[dev][Nth(dev, n).buffer] = Written(dev, Nth(dev, n))
      /\ \A other \in DOMAIN mem[dev] : DOMAIN mem[dev][other] = UpTo(Size(other, dev))
      /\ DataThere(dev) /\ AlphaThere(dev) /\ WThere(dev)
      /\ n >= 4 => {"data_last_d", "data_d"} \subseteq DOMAIN mem[dev]
      /\ n >= 6 /\ call.operation = "predict" => "alpha_d" \in DOMAIN mem[dev]
  BY ExecuteCase
<1>2. call.operation = "predict" /\ call.kernel_type = "linear" => n \in 1..7
  BY ExecuteCase
<1>3. ASSUME call.operation = "predict", call.kernel_type = "linear", "w_d" \in DOMAIN mem[dev], n >= 6,
             NEW f \in UpTo(num_features_in_range(dev))
      PROVE  mem'[dev].w_d[f] = NormalVector[first + f]
  <2>1. CASE n = 6
    <3>1. mem'[dev].w_d = device_kernel_w_linear(dev)
      BY <1>1, <1>3, <2>1, NthIs, BufferOf, Writes
    <3>2. {"data_last_d", "data_d", "alpha_d", "w_d"} \subseteq DOMAIN mem[dev] /\ Executed(dev) = 5
      BY <1>1, <1>3, <2>1
    <3>3. QED
      BY <1>1, <1>3, <3>1, <3>2, WWritten
  <2>2. CASE n = 7
    <3>1. mem'[dev].w_d = mem[dev].w_d
      BY <1>1, <1>3, <2>2, NthIs, BufferOf, Writes
    <3>2. Executed(dev) >= 6
      BY <1>1, <2>2
    <3>3. QED
      BY <1>1, <1>3, <3>1, <3>2 DEF WThere
  <2>3. QED
    BY <1>1, <1>2, <1>3, <2>1, <2>2
<1>4. /\ num_features_in_range(dev)' = num_features_in_range(dev) /\ NormalVector' = NormalVector
      /\ feature_ranges(dev - 1)' = feature_ranges(dev - 1)
  BY <1>1, Constants
<1> HIDE DEF n
<1>5. QED
  BY <1>1, <1>3, <1>4 DEF WThere

LEMMA ExecuteOut ==
    ASSUME IInv, ValuesInv, NEW dev \in Devices, Execute(dev)
    PROVE  OutThere(dev)'
<1> DEFINE n == Executed(dev) + 1
           b == Nth(dev, n).buffer
           rows == num_predict_points + boundary_size
           kernel == call.operation = "predict" /\ call.kernel_type # "linear"
<1>1. /\ n \in Nat \ {0} /\ Executed(dev) = n - 1 /\ Executed(dev)' = n
      /\ call' = call /\ call \in Calls /\ call.operation \in {"q", "predict"}
      /\ DOMAIN mem'[dev] = DOMAIN mem[dev]
      /\ mem'[dev][b] = Written(dev, Nth(dev, n))
      /\ \A other \in DOMAIN mem[dev] \ {b} : mem'[dev][other] = mem[dev][other]
      /\ \A other \in DOMAIN mem[dev] : DOMAIN mem[dev][other] = UpTo(Size(other, dev))
      /\ DataThere(dev) /\ AlphaThere(dev) /\ OutThere(dev)
  BY ExecuteCase
<1>2. /\ kernel => n \in 1..10
      /\ n >= 4 => {"data_last_d", "data_d"} \subseteq DOMAIN mem[dev]
      /\ n >= 6 /\ call.operation = "predict" => "alpha_d" \in DOMAIN mem[dev]
      /\ n = 9 => "point_d" \in DOMAIN mem[dev]
  BY ExecuteCase
<1>3. kernel =>
        /\ n \in {7, 8} => b = "point_d"
        /\ n \in {6, 9, 10} => b = "out_d"
  <2> HIDE DEF n
  <2>1. QED
    BY <1>1, BufferOf
<1>4. ASSUME kernel, "point_d" \in DOMAIN mem[dev], n >= 8,
             NEW f \in UpTo(num_features), NEW l \in UpTo(num_predict_points)
      PROVE  mem'[dev].point_d[l + rows * f] = PredictPoint(l, f)
  <2>1. CASE n = 8
    <3>1. mem'[dev].point_d = Written(dev, Nth(dev, 8))
      BY <1>1, <1>3, <1>4, <2>1
    <3>2. DOMAIN mem[dev].point_d = UpTo(Size("point_d", dev))
      BY <1>1, <1>4
    <3>3. Written(dev, Nth(dev, 8))[l + rows * f] = PredictPoint(l, f)
      BY <1>1, <1>4, <3>2, PointsWritten
    <3>4. QED
      BY <3>1, <3>3
  <2>2. CASE n >= 9
    <3>1. n \in {9, 10}
      BY <1>2, <1>4, <2>2
    <3>2. mem'[dev].point_d = mem[dev].point_d
      BY <1>1, <1>3, <1>4, <3>1
    <3>3. Executed(dev) >= 8
      BY <1>1, <2>2
    <3>4. mem[dev].point_d[l + rows * f] = PredictPoint(l, f)
      BY <1>1, <1>4, <3>3 DEF OutThere
    <3>5. QED
      BY <3>2, <3>4
  <2>3. QED
    BY <1>1, <1>4, <2>1, <2>2
<1>5. ASSUME "out_d" \in DOMAIN mem[dev], kernel
      PROVE  \A l \in UpTo(num_predict_points) : l \in DOMAIN mem[dev].out_d
  <2>1. num_predict_points \in Nat /\ boundary_size \in Nat
    BY <1>1, CallSizes
  <2>2. DOMAIN mem[dev].out_d = UpTo(num_predict_points + boundary_size)
    BY <1>1, <1>5 DEF Size
  <2>3. QED
    BY <2>1, <2>2 DEF UpTo
<1>6. ASSUME kernel, "out_d" \in DOMAIN mem[dev], n \in 6..8, NEW l \in UpTo(num_predict_points)
      PROVE  mem'[dev].out_d[l] = EmptyBag
  <2>1. CASE n = 6
    <3>1. mem'[dev].out_d = Written(dev, MemsetZero("out_d", EmptyBag))
      BY <1>1, <1>3, <1>6, <2>1, NthIs
    <3>2. l \in DOMAIN mem[dev]["out_d"]
      BY <1>5, <1>6
    <3>3. QED
      BY <3>1, <3>2, Writes
  <2>2. CASE n \in {7, 8}
    <3>1. mem'[dev].out_d = mem[dev].out_d
      BY <1>1, <1>3, <1>6, <2>2
    <3>2. Executed(dev) \in 6..8
      BY <1>1, <2>2
    <3>3. QED
      BY <1>1, <1>6, <3>1, <3>2 DEF OutThere
  <2>3. QED
    BY <1>6, <2>1, <2>2
<1>7. ASSUME kernel, "out_d" \in DOMAIN mem[dev], n >= 9, ~Spoiled, NEW l \in UpTo(num_predict_points)
      PROVE  mem'[dev].out_d[l] = SetToBag(ExpectedTerms(l))
  <2>1. CASE n = 9
    <3>1. mem'[dev].out_d = device_kernel_predict(dev)
      BY <1>1, <1>3, <1>7, <2>1, NthIs, Writes
    <3>2. ReadyToPredict(dev)
      <4>1. Executed(dev) = 8
        BY <1>1, <2>1
      <4>2. {"data_last_d", "data_d", "alpha_d", "point_d", "out_d"} \subseteq DOMAIN mem[dev]
        BY <1>2, <1>7, <2>1
      <4> HIDE DEF n, b
      <4>3. QED
        BY <1>1, <1>7, <4>1, <4>2 DEF ReadyToPredict
    <3>3. QED
      BY <1>7, <3>1, <3>2, PredictWritten
  <2>2. CASE n = 10
    <3>1. mem'[dev].out_d = mem[dev].out_d
      BY <1>1, <1>3, <1>7, <2>2, NthIs, Writes
    <3>2. Executed(dev) >= 9
      BY <1>1, <2>2
    <3>3. QED
      BY <1>1, <1>7, <3>1, <3>2 DEF OutThere
  <2>3. QED
    BY <1>2, <1>7, <2>1, <2>2
<1>8. /\ num_predict_points' = num_predict_points /\ num_features' = num_features
      /\ (Spoiled' <=> Spoiled) /\ \A l : ExpectedTerms(l)' = ExpectedTerms(l)
  BY <1>1, Constants
<1> HIDE DEF n, b
<1>9. QED
  BY <1>1, <1>4, <1>6, <1>7, <1>8 DEF OutThere

\* Only the last command of a part of the results copies to the host.
LEMMA CopiedTo ==
    ASSUME NEW dev, NEW n \in 1..10,
           call.operation = "q" => n \in 1..6,
           call.operation # "q" /\ call.kernel_type = "linear" => n \in 1..7
    PROVE  LET c == Nth(dev, n)
               copied(b) == c.op = "copy_to_host" /\ c.buffer = b
           IN  /\ copied("q_d") <=> call.operation = "q" /\ n = 6
               /\ copied("w_d") <=> call.operation # "q" /\ call.kernel_type = "linear" /\ n = 7
               /\ copied("out_d") <=> call.operation # "q" /\ call.kernel_type # "linear" /\ n = 10
BY NthIs, Fields

LEMMA ExecuteCopies ==
    ASSUME IInv, ValuesInv, NEW dev \in Devices, Execute(dev), NEW n, n = Executed(dev) + 1
    PROVE  LET first == feature_ranges(dev - 1)
               m == mem[dev]
           IN  /\ q' = IF call.operation = "q" /\ n = 6
                       THEN [i \in DOMAIN q |-> Reduced(q[i], m.q_d[i])] ELSE q
               /\ w' = IF call.operation # "q" /\ call.kernel_type = "linear" /\ n = 7
                       THEN [f \in DOMAIN w |-> IF f \in first..(feature_ranges(dev) - 1)
                                                THEN Cell(m.w_d, f - first) ELSE w[f]]
                       ELSE w
               /\ out' = IF call.operation # "q" /\ call.kernel_type # "linear" /\ n = 10
                         THEN [p \in DOMAIN out |-> m.out_d[p] (+) SetToBag({<<"-rho">>})] ELSE out
<1>1. queue[dev] # <<>>
  BY DEF Execute
<1>2. Head(queue[dev]) = Nth(dev, n)
  BY <1>1, NextExecuted
<1>3. /\ n \in 1..10
      /\ call.operation = "q" => n \in 1..6
      /\ call.operation # "q" /\ call.kernel_type = "linear" => n \in 1..7
  BY ExecuteCase
<1> DEFINE copied(b) == Nth(dev, n).op = "copy_to_host" /\ Nth(dev, n).buffer = b
<1>4. /\ copied("q_d") <=> call.operation = "q" /\ n = 6
      /\ copied("w_d") <=> call.operation # "q" /\ call.kernel_type = "linear" /\ n = 7
      /\ copied("out_d") <=> call.operation # "q" /\ call.kernel_type # "linear" /\ n = 10
  BY <1>3, CopiedTo
<1>5. q' = IF copied("q_d") THEN [i \in DOMAIN q |-> Reduced(q[i], mem[dev].q_d[i])] ELSE q
  BY <1>2 DEF Execute
<1>6. w' = IF copied("w_d")
           THEN [f \in DOMAIN w |-> IF f \in feature_ranges(dev - 1)..(feature_ranges(dev) - 1)
                                    THEN Cell(mem[dev].w_d, f - feature_ranges(dev - 1)) ELSE w[f]]
           ELSE w
  BY <1>2 DEF Execute
<1>7. out' = IF copied("out_d") THEN [p \in DOMAIN out |-> mem[dev].out_d[p] (+) SetToBag({<<"-rho">>})] ELSE out
  BY <1>2 DEF Execute
<1> HIDE DEF copied
<1>8. QED
  BY <1>4, <1>5, <1>6, <1>7

LEMMA ReducedIs ==
    ASSUME NEW kernel, NEW a, NEW b
    PROVE  Reduced(<<kernel, a>>, <<kernel, b>>) = <<kernel, a \cup b>>
<1>1. <<kernel, a>> # Junk /\ <<kernel, b>> # Junk /\ <<kernel, b>> # Zero
  BY ValuesDiffer
<1>2. <<kernel, a>>[1] = kernel /\ <<kernel, a>>[2] = a /\ <<kernel, b>>[2] = b
  OBVIOUS
<1>3. QED
  BY <1>1, <1>2 DEF Reduced

LEMMA ExecuteResultQ ==
    ASSUME IInv, ValuesInv, NEW dev \in Devices, Execute(dev), call.operation = "q",
           NEW l \in UpTo(num_support_vectors - 1)
    PROVE  q'[l] = <<call.kernel_type, UNION {Part(d, l) : d \in Delivered'}>>
<1> DEFINE n == Executed(dev) + 1
           all(s) == UNION {Part(d, l) : d \in s}
<1>1. /\ n \in 1..6 /\ Executed(dev) = n - 1 /\ Executed(dev)' = n /\ call' = call
      /\ QThere(dev) /\ Nth(dev, n).buffer \in DOMAIN mem[dev]
  BY ExecuteCase
<1>2. \A d \in Devices \ {dev} : Executed(d)' = Executed(d)
  BY ExecuteFrame
<1>3. Devices' = Devices
  BY <1>1, Constants
<1>4. Delivered' = {d \in Devices : Executed(d)' >= 6}
  BY <1>3 DEF Delivered
<1>5. q[l] = <<call.kernel_type, all(Delivered)>> /\ l \in DOMAIN q
  BY DEF ValuesInv, Results
<1>6. q' = IF n = 6 THEN [i \in DOMAIN q |-> Reduced(q[i], mem[dev].q_d[i])] ELSE q
  BY ExecuteCopies
<1>7. CASE n = 6
  <2>1. Delivered' = Delivered \cup {dev}
    BY <1>1, <1>2, <1>4, <1>7 DEF Delivered
  <2>2. "q_d" \in DOMAIN mem[dev]
    BY <1>1, <1>7, BufferOf
  <2>3. mem[dev].q_d[l] = <<call.kernel_type, Part(dev, l)>>
    BY <1>1, <1>7, <2>2 DEF QThere
  <2>4. q'[l] = Reduced(q[l], mem[dev].q_d[l])
    BY <1>5, <1>6, <1>7
  <2>5. q'[l] = <<call.kernel_type, all(Delivered) \cup Part(dev, l)>>
    BY <1>5, <2>3, <2>4, ReducedIs
  <2>6. all(Delivered) \cup Part(dev, l) = all(Delivered')
    <3>1. ASSUME NEW S PROVE all(S) \cup Part(dev, l) = all(S \cup {dev})
      OBVIOUS
    <3>2. QED
      BY <2>1, <3>1
  <2> HIDE DEF all
  <2>7. QED
    BY <2>5, <2>6 DEF all
<1>8. CASE n < 6
  <2>1. Delivered' = Delivered
    BY <1>1, <1>2, <1>4, <1>8 DEF Delivered
  <2>2. q' = q
    BY <1>6, <1>8
  <2>3. q'[l] = <<call.kernel_type, all(Delivered')>>
    BY <1>5, <2>1, <2>2
  <2>4. QED
    BY <2>3
<1>9. QED
  BY <1>1, <1>7, <1>8

LEMMA ExecuteResultW ==
    ASSUME IInv, ValuesInv, NEW dev \in Devices, Execute(dev),
           call.operation = "predict", call.kernel_type = "linear"
    PROVE  /\ call.has_w => w' = NormalVector
           /\ ~call.has_w => \A d \in Devices : Executed(d)' >= 7 =>
                \A f \in feature_ranges(d - 1)..(feature_ranges(d) - 1) : w'[f] = NormalVector[f]
<1> DEFINE n == Executed(dev) + 1
           range(d) == feature_ranges(d - 1)..(feature_ranges(d) - 1)
<1>1. /\ n \in 1..7 /\ Executed(dev) = n - 1 /\ Executed(dev)' = n /\ call \in Calls
      /\ call.has_w => n < 6
      /\ WThere(dev) /\ Nth(dev, n).buffer \in DOMAIN mem[dev]
      /\ \A other \in DOMAIN mem[dev] : DOMAIN mem[dev][other] = UpTo(Size(other, dev))
  BY ExecuteCase
<1>2. \A d \in Devices \ {dev} : Executed(d)' = Executed(d)
  BY ExecuteFrame
<1>3. w' = IF n = 7
           THEN [f \in DOMAIN w |-> IF f \in range(dev)
                                    THEN Cell(mem[dev].w_d, f - feature_ranges(dev - 1)) ELSE w[f]]
           ELSE w
  BY ExecuteCopies
<1>4. /\ DOMAIN w = UpTo(num_features)
      /\ call.has_w => w = NormalVector
      /\ ~call.has_w => \A d \in Devices : Executed(d) >= 7 => \A f \in range(d) : w[f] = NormalVector[f]
  BY DEF ValuesInv, Results
<1>5. CASE n < 7
  <2>1. w' = w
    BY <1>3, <1>5
  <2>2. QED
    BY <1>1, <1>2, <1>4, <1>5, <2>1
<1>6. CASE n = 7
  <2>1. ~call.has_w /\ "w_d" \in DOMAIN mem[dev]
    BY <1>1, <1>6, BufferOf
  <2>2. ASSUME NEW f \in range(dev) PROVE Cell(mem[dev].w_d, f - feature_ranges(dev - 1)) = NormalVector[f]
    <3> DEFINE first == feature_ranges(dev - 1)
    <3>1. /\ first \in Nat /\ feature_ranges(dev) = first + num_features_in_range(dev)
          /\ num_features_in_range(dev) \in Nat
      BY <1>1, RangeOf
    <3>2. f - first \in UpTo(num_features_in_range(dev)) /\ first + (f - first) = f
      BY <3>1 DEF UpTo
    <3>3. DOMAIN mem[dev].w_d = UpTo(num_features_in_range(dev))
      BY <1>1, <2>1 DEF Size
    <3>4. Executed(dev) >= 6
      BY <1>1, <1>6
    <3>5. \A g \in UpTo(num_features_in_range(dev)) : mem[dev].w_d[g] = NormalVector[first + g]
      BY <1>1, <2>1, <3>4 DEF WThere
    <3> HIDE DEF first
    <3>6. mem[dev].w_d[f - first] = NormalVector[f]
      BY <3>2, <3>5
    <3>7. QED
      BY <3>2, <3>3, <3>6 DEF Cell, first
  <2>3. ASSUME NEW d \in Devices, Executed(d)' >= 7, NEW f \in range(d)
        PROVE  w'[f] = NormalVector[f]
    <3>1. f \in DOMAIN w
      <4>1. /\ feature_ranges(d - 1) \in Nat /\ feature_ranges(d) \in Nat /\ feature_ranges(d) <= num_features
            /\ num_features \in Nat
        BY <1>1, RangeOf, CallSizes
      <4>2. QED
        BY <1>4, <4>1 DEF UpTo
    <3>2. CASE f \in range(dev)
      <4>1. w'[f] = Cell(mem[dev].w_d, f - feature_ranges(dev - 1))
        BY <1>3, <1>6, <3>1, <3>2
      <4>2. QED
        BY <2>2, <3>2, <4>1
    <3>3. CASE f \notin range(dev)
      <4>1. d # dev /\ Executed(d) >= 7
        BY <1>2, <2>3, <3>3
      <4>2. w'[f] = w[f]
        BY <1>3, <1>6, <3>1, <3>3
      <4>3. QED
        BY <1>4, <2>1, <4>1, <4>2
    <3>4. QED
      BY <3>2, <3>3
  <2>4. QED
    BY <2>1, <2>3
<1>7. QED
  BY <1>1, <1>5, <1>6

LEMMA ExecuteResultOut ==
    ASSUME IInv, ValuesInv, NEW dev \in Devices, Execute(dev),
           call.operation = "predict", call.kernel_type # "linear", ~Spoiled,
           NEW d \in Devices, Executed(d)' >= 10, NEW l \in UpTo(num_predict_points)
    PROVE  out'[l] = SetToBag(ExpectedTerms(l) \cup {<<"-rho">>})
<1> DEFINE n == Executed(dev) + 1
<1>1. /\ n \in 1..10 /\ Executed(dev) = n - 1 /\ Executed(dev)' = n /\ call \in Calls
      /\ OutThere(dev) /\ Nth(dev, n).buffer \in DOMAIN mem[dev]
  BY ExecuteCase
<1>2. d = dev
  BY <1>1, OneDeviceOnly
<1>3. n = 10
  BY <1>1, <1>2
<1>4. "out_d" \in DOMAIN mem[dev]
  BY <1>1, <1>3, BufferOf
<1>5. mem[dev].out_d[l] = SetToBag(ExpectedTerms(l))
  BY <1>1, <1>3, <1>4 DEF OutThere
<1>6. out' = [p \in DOMAIN out |-> mem[dev].out_d[p] (+) SetToBag({<<"-rho">>})]
  BY <1>3, ExecuteCopies
<1>7. l \in DOMAIN out
  BY DEF ValuesInv, Results
<1>8. out'[l] = SetToBag(ExpectedTerms(l)) (+) SetToBag({<<"-rho">>})
  BY <1>5, <1>6, <1>7
<1>9. ExpectedTerms(l) \cap {<<"-rho">>} = {}
  BY ValuesDiffer DEF ExpectedTerms
<1>10. QED
  BY <1>8, <1>9, OneMoreBag

LEMMA ExecuteResults ==
    ASSUME IInv, ValuesInv, NEW dev \in Devices, Execute(dev)
    PROVE  Results'
<1> DEFINE n == Executed(dev) + 1
<1>1. call' = call /\ phase' = phase
  BY DEF Execute
<1>2. DOMAIN q' = DOMAIN q /\ DOMAIN w' = DOMAIN w /\ DOMAIN out' = DOMAIN out
  BY ExecuteCopies
<1>3. /\ num_support_vectors' = num_support_vectors /\ num_predict_points' = num_predict_points
      /\ num_features' = num_features /\ NormalVector' = NormalVector /\ Devices' = Devices
      /\ (Spoiled' <=> Spoiled)
      /\ \A k : ExpectedTerms(k)' = ExpectedTerms(k)
      /\ \A d : feature_ranges(d)' = feature_ranges(d)
      /\ \A d, k : Part(d, k)' = Part(d, k)
  BY <1>1, Constants
<1>4. /\ DOMAIN q = UpTo(num_support_vectors - 1) /\ DOMAIN w = UpTo(num_features)
      /\ DOMAIN out = UpTo(num_predict_points)
  BY DEF ValuesInv, Results
<1>5. call.operation = "q" => \A l \in UpTo(num_support_vectors - 1) :
        q'[l] = <<call.kernel_type, UNION {Part(d, l) : d \in Delivered}'>>
  <2>1. \A l : UNION {Part(d, l) : d \in Delivered}' = UNION {Part(d, l) : d \in Delivered'}
    BY <1>3
  <2>2. QED
    BY <2>1, ExecuteResultQ
<1>6. call.operation = "predict" /\ call.kernel_type = "linear" =>
        /\ call.has_w => w' = NormalVector
        /\ ~call.has_w => \A d \in Devices : Executed(d)' >= 7 =>
             \A f \in feature_ranges(d - 1)..(feature_ranges(d) - 1) : w'[f] = NormalVector[f]
  BY ExecuteResultW
<1>7. phase # <<"release">>
  <2>1. queue[dev] # <<>> /\ Ordered(dev)
    BY DEF Execute, ValuesInv
  <2>2. Head(<<"release">>) = "release"
    OBVIOUS
  <2>3. QED
    BY <2>1, <2>2 DEF Ordered
<1>8. call.operation = "predict" /\ call.kernel_type # "linear" /\ ~Spoiled =>
        \A d \in Devices : Executed(d)' >= 10 => Decided'
  <2>1. ASSUME \A l \in UpTo(num_predict_points) : out'[l] = SetToBag(ExpectedTerms(l) \cup {<<"-rho">>})
        PROVE  Decided'
    BY <1>3, <2>1 DEF Decided
  <2>2. QED
    BY <2>1, ExecuteResultOut
<1> HIDE DEF n
<1>9. QED
  BY <1>1, <1>2, <1>3, <1>4, <1>5, <1>6, <1>7, <1>8 DEF Results

LEMMA ExecuteValues ==
    ASSUME IInv, ValuesInv, NEW dev \in Devices, Execute(dev)
    PROVE  ValuesInv'
<1>1. /\ call' = call /\ phase' = phase /\ Ordered(dev)'
      /\ \A d \in Devices \ {dev} : Ordered(d)' /\ Contents(d)'
  BY ExecuteFrame
<1>2. Contents(dev)'
  BY ExecuteData, ExecuteQ, ExecuteAlpha, ExecuteW, ExecuteOut DEF Contents
<1>3. Devices' = Devices
  BY <1>1, Constants
<1>4. Route'
  BY <1>1 DEF ValuesInv, Route
<1>5. QED
  BY <1>1, <1>2, <1>3, <1>4, ExecuteResults DEF ValuesInv
----------------------------------------------------------------------------
LEMMA NextValues == IInv /\ ValuesInv /\ [Next]_vars => ValuesInv'
<1> SUFFICES ASSUME IInv, ValuesInv, [Next]_vars PROVE ValuesInv'
  OBVIOUS
<1>1. ASSUME NEW dev \in Devices,
             \/ IssueAllocate(dev) \/ IssueFree(dev) \/ IssueSynchronize(dev) \/ IssueCommand(dev)
             \/ Execute(dev)
      PROVE  ValuesInv'
  BY <1>1, AllocateValues, FreeValues, SynchronizeValues, CommandValues, ExecuteValues
<1>2. CASE NextPhase
  BY <1>2, NextPhaseValues
<1>3. CASE PredictLinear
  BY <1>3, PredictLinearValues
<1>4. CASE UNCHANGED vars
  <2>1. UNCHANGED <<call, phase, program, queue, mem, q, w, out>>
    BY <1>4 DEF vars
  <2>2. \A dev \in Devices : Executed(dev)' = Executed(dev) /\ Ordered(dev)' /\ Contents(dev)'
    BY <2>1, OtherStays
  <2>3. Results'
    BY <2>1, <2>2, ResultsStay
  <2>4. Devices' = Devices /\ Route'
    BY <2>1, Constants DEF ValuesInv, Route
  <2>5. QED
    BY <2>2, <2>3, <2>4 DEF ValuesInv
<1>5. QED
  BY <1>1, <1>2, <1>3, <1>4 DEF Next, Terminated

\* In every reachable state a buffer holds what the commands executed so far
\* have left in it, for any sizes, blocks, devices and backends, and the
\* results on the host are the sums of what the devices have delivered.
THEOREM ValuesCorrect == Spec => []ValuesInv
<1>1. Init => ValuesInv
  BY InitValues
<1>2. QED
  BY <1>1, IInvCorrect, NextValues, PTL DEF Spec

\* In the end everything has been executed.
LEMMA AllExecuted ==
    ASSUME IInv, ValuesInv, Done, NEW dev \in Devices
    PROVE  Executed(dev) = Total
<1>1. Head(phase) = "release" /\ queue[dev] = <<>>
  <2>1. Head(<<"release">>) = "release"
    OBVIOUS
  <2>2. QED
    BY <2>1 DEF Done
<1>2. Executed(dev) \in Nat /\ Sent(dev) = Executed(dev) + Len(queue[dev])
  BY Counts
<1>3. Len(queue[dev]) = 0
  <2>1. Len(<<>>) = 0
    OBVIOUS
  <2>2. QED
    BY <1>1, <2>1, Zenon
<1>4. Sent(dev) = Total + 0
  BY <1>1 DEF Sent, SentBefore, SentIn
<1>5. Total \in Nat
  BY DEF Total
<1>6. QED
  BY <1>2, <1>3, <1>4, <1>5

LEMMA QAtEnd == ASSUME IInv, ValuesInv PROVE QIsExact
<1> SUFFICES ASSUME Done, call.operation = "q", NEW l \in UpTo(num_support_vectors - 1)
             PROVE  q[l] = <<call.kernel_type,
                             {<<SupportVector(l, f), SupportVector(num_support_vectors - 1, f)>> : f \in UpTo(num_features)}>>
  BY DEF QIsExact
<1> DEFINE pair(f) == <<SupportVector(l, f), SupportVector(num_support_vectors - 1, f)>>
<1>1. call \in Calls
  BY DEF IInv
<1>2. Delivered = Devices
  <2>1. Total = 6
    BY DEF Total
  <2>2. QED
    BY <2>1, AllExecuted DEF Delivered
<1>3. q[l] = <<call.kernel_type, UNION {Part(d, l) : d \in Devices}>>
  BY <1>2 DEF ValuesInv, Results
<1>4. \A d : Part(d, l) = {pair(f) : f \in feature_ranges(d - 1)..(feature_ranges(d) - 1)}
  BY DEF Part
<1> HIDE DEF pair
<1>5. UNION {Part(d, l) : d \in Devices} = {pair(f) : f \in UpTo(num_features)}
  <2>1. ASSUME NEW d \in Devices, NEW f \in feature_ranges(d - 1)..(feature_ranges(d) - 1)
        PROVE  f \in UpTo(num_features)
    <3>1. /\ feature_ranges(d - 1) \in Nat /\ feature_ranges(d) \in Nat /\ feature_ranges(d) <= num_features
          /\ num_features \in Nat
      BY <1>1, RangeOf, CallSizes
    <3>2. QED
      BY <3>1 DEF UpTo
  <2>2. \A f \in UpTo(num_features) : \E d \in Devices : f \in feature_ranges(d - 1)..(feature_ranges(d) - 1)
    BY <1>1, RangesCover
  <2>3. ASSUME NEW x \in UNION {Part(d, l) : d \in Devices} PROVE x \in {pair(f) : f \in UpTo(num_features)}
    BY <1>4, <2>1
  <2>4. ASSUME NEW f \in UpTo(num_features) PROVE pair(f) \in UNION {Part(d, l) : d \in Devices}
    <3>1. PICK d \in Devices : f \in feature_ranges(d - 1)..(feature_ranges(d) - 1)
      BY <2>2
    <3>2. pair(f) \in Part(d, l)
      BY <1>4, <3>1
    <3>3. QED
      BY <3>2
  <2>5. QED
    BY <2>3, <2>4
<1>6. QED
  BY <1>3, <1>5 DEF pair

LEMMA DecisionAtEnd == ASSUME IInv, ValuesInv PROVE DecisionIsExact
<1> SUFFICES ASSUME Done, call.operation = "predict", ~Spoiled PROVE Decided
  BY DEF DecisionIsExact, Decided
<1>1. phase = <<"release">> /\ call \in Calls /\ Results
  BY DEF Done, IInv, ValuesInv
<1>2. CASE call.kernel_type = "linear"
  BY <1>1, <1>2 DEF Results
<1>3. CASE call.kernel_type # "linear"
  <2>1. 1 \in Devices
    <3>1. select_num_used_devices = 1
      BY <1>1, <1>3, CallSizes
    <3>2. QED
      BY <3>1 DEF Devices
  <2>2. Executed(1) = 10
    <3>1. Total = 10
      BY <1>3 DEF Total
    <3>2. QED
      BY <2>1, <3>1, AllExecuted
  <2> HIDE DEF Decided
  <2>3. QED
    BY <1>1, <1>3, <2>1, <2>2 DEF Results
<1>4. QED
  BY <1>2, <1>3

\* The part of every device is in q, once and of the right features.
THEOREM QCorrect == Spec => []QIsExact
<1>1. IInv /\ ValuesInv => QIsExact
  BY QAtEnd
<1>2. QED
  BY <1>1, IInvCorrect, ValuesCorrect, PTL

\* No thread, padding, split or order of the devices changes a decision value.
THEOREM DecisionCorrect == Spec => []DecisionIsExact
<1>1. IInv /\ ValuesInv => DecisionIsExact
  BY DecisionAtEnd
<1>2. QED
  BY <1>1, IInvCorrect, ValuesCorrect, PTL
----------------------------------------------------------------------------
(* Memory.                                                                 *)

LEMMA InBuffer ==
    ASSUME NEW m \in Nat, NEW d \in Nat \ {0}, NEW rows \in SUBSET UpTo(d), NEW columns \in SUBSET UpTo(m)
    PROVE  {row + d * f : row \in rows, f \in columns} \subseteq UpTo(m * d)
<1>1. SUFFICES ASSUME NEW row \in rows, NEW f \in columns PROVE row + d * f \in UpTo(m * d)
  OBVIOUS
<1>2. row \in 0..(d - 1) /\ f \in 0..(m - 1)
  BY DEF UpTo
<1>3. f * d + row \in 0..(m * d - 1)
  BY <1>2, Inside
<1>4. row + d * f = f * d + row
  BY <1>2
<1>5. QED
  BY <1>3, <1>4 DEF UpTo

\* The threads of the kernels, and what they index, fit into the padding.
LEMMA KernelsFit ==
    ASSUME call \in Calls, NEW dev \in Devices, NEW c, Queued(c), NEW b \in Uses(c)
    PROVE  Indices(dev, c, b) \subseteq UpTo(Size(b, dev))
<1> DEFINE n == num_features_in_range(dev)
           threads == Threads("q", num_support_vectors - 1)
           sv_threads == execution_range(num_support_vectors)
           rows == UpTo(num_support_vectors - 1)
           points == UpTo(num_predict_points)
           InData(r, f) == {row + num_rows * x : row \in r, x \in f}
           InPoints == {p + (num_predict_points + boundary_size) * f : p \in points, f \in UpTo(num_features)}
<1>1. /\ num_support_vectors \in Nat \ {0, 1} /\ num_predict_points \in Nat \ {0}
      /\ num_features \in Nat \ {0} /\ boundary_size \in Nat \ {0}
      /\ THREAD_BLOCK_SIZE \in Nat \ {0} /\ boundary_size >= THREAD_BLOCK_SIZE
      /\ num_rows \in Nat \ {0} /\ num_rows = num_support_vectors - 1 + boundary_size
  BY CallSizes
<1>2. n \in Nat \ {0}
  BY RangesNotEmpty
<1>3. threads \subseteq UpTo(num_rows)
  <2>1. threads \in {execution_range(num_support_vectors - 1), UpTo(num_support_vectors - 1)}
    BY DEF Threads
  <2>2. /\ UpTo(num_support_vectors - 1) \subseteq execution_range(num_support_vectors - 1)
        /\ execution_range(num_support_vectors - 1) \subseteq UpTo((num_support_vectors - 1) + THREAD_BLOCK_SIZE - 1)
    <3>1. num_support_vectors - 1 \in Nat \ {0}
      BY <1>1
    <3>2. QED
      BY <3>1, ExecutionRange
  <2>3. UpTo((num_support_vectors - 1) + THREAD_BLOCK_SIZE - 1) \subseteq UpTo(num_rows)
    BY <1>1 DEF UpTo
  <2>4. QED
    BY <2>1, <2>2, <2>3
<1>4. /\ sv_threads \subseteq UpTo(num_rows)
      /\ sv_threads \subseteq UpTo(num_support_vectors + THREAD_BLOCK_SIZE)
  <2>1. sv_threads \subseteq UpTo(num_support_vectors + THREAD_BLOCK_SIZE - 1)
    BY <1>1, ExecutionRange
  <2>2. /\ UpTo(num_support_vectors + THREAD_BLOCK_SIZE - 1) \subseteq UpTo(num_rows)
        /\ UpTo(num_support_vectors + THREAD_BLOCK_SIZE - 1) \subseteq UpTo(num_support_vectors + THREAD_BLOCK_SIZE)
    BY <1>1 DEF UpTo
  <2>3. QED
    BY <2>1, <2>2
<1>5. rows \subseteq UpTo(num_rows) /\ UpTo(num_support_vectors) \subseteq UpTo(num_support_vectors + THREAD_BLOCK_SIZE)
  BY <1>1 DEF UpTo
<1>6. UpTo(n) \subseteq UpTo(n + boundary_size) /\ points \subseteq UpTo(num_predict_points + boundary_size)
  BY <1>1, <1>2 DEF UpTo
<1>7. \A r \in SUBSET UpTo(num_rows) : InData(r, UpTo(n)) \subseteq UpTo(n * num_rows)
  BY <1>1, <1>2, InBuffer
<1>8. InPoints \subseteq UpTo(num_features * (num_predict_points + boundary_size))
  <2>1. num_predict_points + boundary_size \in Nat \ {0}
    BY <1>1
  <2>2. QED
    BY <1>1, <1>6, <2>1, InBuffer
<1>9. /\ Size("data_last_d", dev) = n + boundary_size /\ Size("data_d", dev) = n * num_rows
      /\ Size("q_d", dev) = num_rows
      /\ Size("alpha_d", dev) = num_support_vectors + THREAD_BLOCK_SIZE /\ Size("w_d", dev) = n
      /\ Size("out_d", dev) = num_predict_points + boundary_size
      /\ Size("point_d", dev) = num_features * (num_predict_points + boundary_size)
  BY <1>1 DEF Size
<1>10. CASE c.op = "q"
  <2>1. b \in {"q_d", "data_d", "data_last_d"}
    BY <1>10, UsedBuffers DEF Queued
  <2>2. /\ Indices(dev, c, "q_d") = threads
        /\ Indices(dev, c, "data_d") = InData(threads, UpTo(n))
        /\ Indices(dev, c, "data_last_d") = UpTo(n)
    BY <1>10 DEF Indices
  <2> HIDE DEF n, threads, InData
  <2>3. QED
    BY <1>3, <1>6, <1>7, <1>9, <2>1, <2>2
<1>11. CASE c.op = "w"
  <2>1. b \in {"w_d", "data_d", "data_last_d", "alpha_d"}
    BY <1>11, UsedBuffers DEF Queued
  <2>2. /\ Indices(dev, c, "w_d") = UpTo(n) /\ Indices(dev, c, "data_last_d") = UpTo(n)
        /\ Indices(dev, c, "data_d") = InData(rows, UpTo(n))
        /\ Indices(dev, c, "alpha_d") = UpTo(num_support_vectors)
    BY <1>11 DEF Indices
  <2> HIDE DEF n, rows, InData
  <2>3. QED
    BY <1>5, <1>6, <1>7, <1>9, <2>1, <2>2
<1>12. CASE c.op = "predict"
  <2>1. b \in {"out_d", "data_d", "data_last_d", "alpha_d", "point_d"}
    BY <1>12, UsedBuffers DEF Queued
  <2>2. num_features = n
    BY <1>12, OneDeviceOnly DEF Queued
  <2> DEFINE others == sv_threads \ {num_support_vectors - 1}
  <2>3. /\ Indices(dev, c, "out_d") = points /\ Indices(dev, c, "alpha_d") = sv_threads
        /\ Indices(dev, c, "data_last_d") = UpTo(num_features)
        /\ Indices(dev, c, "data_d") = InData(others, UpTo(num_features))
        /\ Indices(dev, c, "point_d") = InPoints
    BY <1>12 DEF Indices
  <2>4. others \in SUBSET UpTo(num_rows)
    BY <1>4
  <2> HIDE DEF n, points, sv_threads, others, InData, InPoints
  <2>5. QED
    BY <1>4, <1>6, <1>7, <1>8, <1>9, <2>1, <2>2, <2>3, <2>4
<1>13. CASE c.op \notin {"q", "w", "predict"}
  BY <1>13 DEF Indices
<1>14. QED
  BY <1>10, <1>11, <1>12, <1>13

\* Commands find the memory they use, however late the device executes them
\* and although the SYCL backends free without waiting: padded threads write
\* inside of it, and when a call ends all of it is freed.
THEOREM MemoryCorrect == Spec => []MemoryInUseStays
<1>1. IInv => MemoryInUseStays
  <2> SUFFICES ASSUME IInv PROVE MemoryInUseStays
    OBVIOUS
  <2>1. call \in Calls
    BY DEF IInv
  <2>2. ASSUME NEW dev \in Devices, NEW k \in DOMAIN queue[dev], NEW b \in Uses(queue[dev][k])
        PROVE  b \in DOMAIN mem[dev] /\ Indices(dev, queue[dev][k], b) \subseteq DOMAIN mem[dev][b]
    <3> DEFINE c == queue[dev][k]
    <3>1. /\ Queued(c) /\ b \in DOMAIN mem[dev]
          /\ DOMAIN mem[dev][b] = UpTo(Size(b, dev))
      BY <2>2 DEF IInv, DeviceInv
    <3> HIDE DEF c
    <3>2. Indices(dev, c, b) \subseteq UpTo(Size(b, dev))
      BY <2>1, <2>2, <3>1, KernelsFit DEF c
    <3>3. QED
      BY <3>1, <3>2 DEF c
  <2>3. ASSUME Done, NEW dev \in Devices PROVE DOMAIN mem[dev] = {}
    <3> DEFINE commands == Whole("release", dev)
    <3>1. Head(phase) = "release" /\ program[dev] = <<>>
      BY <2>3 DEF Done
    <3>2. call.operation \in {"q", "predict"}
      BY DEF IInv, Stage
    <3>3. GoodProgram(commands, "release", dev)
      BY <3>2, WholeIsGood DEF Names
    <3>4. PICK k \in 0..Len(commands) : Issued(dev, k)
      BY <3>1 DEF IInv, DeviceInv
    <3>5. program[dev] = SubSeq(commands, k + 1, Len(commands)) /\ IsSeq(commands)
      BY <3>1, <3>3, <3>4 DEF Issued, GoodProgram
    <3>6. k = Len(commands)
      <4> HIDE DEF commands
      <4>1. QED
        BY <3>1, <3>4, <3>5, Suffix
    <3>7. QED
      BY <3>1, <3>3, <3>4, <3>6 DEF Issued, GoodProgram, Left
  <2>4. QED
    BY <2>2, <2>3 DEF MemoryInUseStays
<1>2. QED
  BY <1>1, IInvCorrect, PTL
=============================================================================
