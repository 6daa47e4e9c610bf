---------------------------- MODULE ModelWriter ----------------------------
(***************************************************************************)
(* The parallel part of write_libsvm_model_data: a team of OpenMP threads  *)
(* formats the support vectors class by class into thread-local buffers    *)
(* and appends the buffers to one file.  Two things order the output: the  *)
(* unnamed critical sections, and the counters that a thread spins on      *)
(* before it writes what is left of its buffer for the second and every    *)
(* later class.                                                            *)
(*                                                                         *)
(* Formatting is thread-local, so a row is formatted and, if that fills    *)
(* the buffer, written in one step.  A class is its position in            *)
(* label_order, counted from 1.                                            *)
(***************************************************************************)
EXTENDS Naturals, FiniteSets, SequencesExt

CONSTANTS
    Threads,            \* the team of the parallel region
    NumRows,            \* alpha.size()
    NumClasses,         \* label_order.size()
    RowSize,            \* formatted size of every row
    StringBufferSize    \* STRING_BUFFER_SIZE

ASSUME ThreadsAssumption == IsFiniteSet(Threads) /\ Threads # {}
ASSUME SizesAssumption ==
    /\ NumRows \in Nat \ {0}
    /\ NumClasses \in Nat \ {0}
    /\ RowSize \in [1..NumRows -> Nat]
    /\ StringBufferSize \in Nat

VARIABLES
    label,      \* class of every row (data.labels())
    share,      \* thread whose loop iterations include a row
    pc,         \* where a thread is: "rows", "wait", "critical", "done"
    cls,        \* class loop a thread is in; NumClasses + 1 behind the last
    todo,       \* rows a thread still has to format in its class loop
    buf,        \* out_string, as the rows in it
    counts,     \* threads that have completed a class
    out,        \* rows in the file behind the header
    spilled     \* history: a full buffer was written before its class's turn

input == <<label, share>>
local == <<pc, cls, todo, buf>>
vars == <<label, share, pc, cls, todo, buf, counts, out, spilled>>

Rows == 1..NumRows
Classes == 1..NumClasses

----------------------------------------------------------------------------
\* The iterations of the loop over class c that run in thread t.  The
\* schedule is the implementation's, so any share is possible.
Assigned(t, c) == {i \in Rows : share[i] = t /\ label[i] = c}

\* Each thread gets its iterations in increasing order.
IsNext(t, i) == i \in todo[t] /\ \A j \in todo[t] : i <= j

OutSize(s) == FoldLeft(LAMBDA n, i : n + RowSize[i], 0, s)

Overflows(s) == OutSize(s) > StringBufferSize

\* Every label of the header occurs in the data.
Init ==
    /\ label \in {f \in [Rows -> Classes] :
                    \A c \in Classes : \E i \in Rows : f[i] = c}
    /\ share \in [Rows -> Threads]
    /\ pc = [t \in Threads |-> "rows"]
    /\ cls = [t \in Threads |-> 1]
    /\ todo = [t \in Threads |-> Assigned(t, 1)]
    /\ buf = [t \in Threads |-> <<>>]
    /\ counts = [c \in Classes |-> 0]
    /\ out = <<>>
    /\ spilled = FALSE

\* Mutants of PreviousClassDone: the counter read too early by one thread, and
\* a comparison that no counter ever passes.
PreviousClassDone_ButOne(t) == counts[cls[t] - 1] + 1 >= Cardinality(Threads)
PreviousClassDone_Strict(t) == counts[cls[t] - 1] > Cardinality(Threads)

\* The busy wait is over: counts[l - 1] < omp_get_num_threads() is false.
PreviousClassDone(t) == counts[cls[t] - 1] >= Cardinality(Threads)

TakeRow(t, i) ==
    /\ pc[t] = "rows"
    /\ IsNext(t, i)
    /\ todo' = [todo EXCEPT ![t] = @ \ {i}]

\* format_libsvm_line leaves room in out_string.
FormatRow(t) ==
    /\ \E i \in Rows :
         /\ TakeRow(t, i)
         /\ ~Overflows(Append(buf[t], i))
         /\ buf' = [buf EXCEPT ![t] = Append(@, i)]
    /\ UNCHANGED <<input, pc, cls, counts, out, spilled>>

\* Mutant: the buffer is not cleared after it was written.
FormatRowAndFlush_NoClear(t) ==
    /\ \E i \in Rows :
         /\ TakeRow(t, i)
         /\ Overflows(Append(buf[t], i))
         /\ out' = out \o Append(buf[t], i)
         /\ buf' = [buf EXCEPT ![t] = Append(@, i)]
    /\ spilled' = (spilled \/ (cls[t] > 1 /\ ~PreviousClassDone(t)))
    /\ UNCHANGED <<input, pc, cls, counts>>

\* The buffer is full and goes to the file, whatever the other threads do.
FormatRowAndFlush(t) ==
    /\ \E i \in Rows :
         /\ TakeRow(t, i)
         /\ Overflows(Append(buf[t], i))
         /\ out' = out \o Append(buf[t], i)
    /\ buf' = [buf EXCEPT ![t] = <<>>]
    /\ spilled' = (spilled \/ (cls[t] > 1 /\ ~PreviousClassDone(t)))
    /\ UNCHANGED <<input, pc, cls, counts>>

\* Mutant: no class waits for the one before.
LeaveLoop_NoWait(t) ==
    /\ pc[t] = "rows"
    /\ todo[t] = {}
    /\ pc' = [pc EXCEPT ![t] = "critical"]
    /\ UNCHANGED <<input, cls, todo, buf, counts, out, spilled>>

\* The loop ends without a barrier (nowait); only the loop over the first
\* class is not followed by the busy wait.
LeaveLoop(t) ==
    /\ pc[t] = "rows"
    /\ todo[t] = {}
    /\ pc' = [pc EXCEPT ![t] = IF cls[t] = 1 THEN "critical" ELSE "wait"]
    /\ UNCHANGED <<input, cls, todo, buf, counts, out, spilled>>

Spin(t) ==
    /\ pc[t] = "wait"
    /\ ~PreviousClassDone(t)
    /\ UNCHANGED vars

StopWaiting(t) ==
    /\ pc[t] = "wait"
    /\ PreviousClassDone(t)
    /\ pc' = [pc EXCEPT ![t] = "critical"]
    /\ UNCHANGED <<input, cls, todo, buf, counts, out, spilled>>

\* Mutant: the class loop runs once too often (l <= label_order.size()).
CloseClass_OneTooMany(t) ==
    /\ pc[t] = "critical"
    /\ out' = out \o buf[t]
    /\ buf' = [buf EXCEPT ![t] = <<>>]
    /\ counts' = [c \in DOMAIN counts |-> counts[c] + (IF c = cls[t] THEN 1 ELSE 0)]
    /\ cls' = [cls EXCEPT ![t] = @ + 1]
    /\ todo' = [todo EXCEPT ![t] = Assigned(t, cls[t] + 1)]
    /\ pc' = [pc EXCEPT ![t] = IF cls[t] > NumClasses THEN "done" ELSE "rows"]
    /\ UNCHANGED <<input, spilled>>

\* The critical section behind the loop: the rest of the buffer is written,
\* the thread is counted and enters the loop over the next class.
CloseClass(t) ==
    /\ pc[t] = "critical"
    /\ out' = out \o buf[t]
    /\ buf' = [buf EXCEPT ![t] = <<>>]
    /\ counts' = [counts EXCEPT ![cls[t]] = @ + 1]
    /\ cls' = [cls EXCEPT ![t] = @ + 1]
    /\ todo' = [todo EXCEPT ![t] = Assigned(t, cls[t] + 1)]
    /\ pc' = [pc EXCEPT ![t] = IF cls[t] = NumClasses THEN "done" ELSE "rows"]
    /\ UNCHANGED <<input, spilled>>

Finished == \A t \in Threads : pc[t] = "done"

\* The barrier at the end of the parallel region: nothing is left to do.
Terminated == Finished /\ UNCHANGED vars

Step(t) ==
    \/ FormatRow(t)
    \/ FormatRowAndFlush(t)
    \/ LeaveLoop(t)
    \/ Spin(t)
    \/ StopWaiting(t)
    \/ CloseClass(t)

Next == (\E t \in Threads : Step(t)) \/ Terminated

\* The operating system runs every thread of the team, spinning or not.
Spec == Init /\ [][Next]_vars

FairSpec == Spec /\ \A t \in Threads : WF_vars(Step(t))

----------------------------------------------------------------------------
(***************************************************************************)
(* The reader: parse_libsvm_model_header labels the rows by their position *)
(* only, from the numbers nr_sv that write_libsvm_model_header counted.    *)
(***************************************************************************)
\* nr_sv summed over the classes up to c.
SvUpTo(c) == Cardinality({i \in Rows : label[i] <= c})

\* data_labels[p]: the header's labels fill the rows in blocks.
ReadLabel(p) == CHOOSE c \in Classes : SvUpTo(c - 1) < p /\ p <= SvUpTo(c)

----------------------------------------------------------------------------
(* Properties.                                                             *)

TypeOK ==
    /\ label \in [Rows -> Classes]
    /\ share \in [Rows -> Threads]
    /\ pc \in [Threads -> {"rows", "wait", "critical", "done"}]
    /\ cls \in [Threads -> 1..(NumClasses + 1)]
    /\ todo \in [Threads -> SUBSET Rows]
    /\ buf \in [Threads -> Seq(Rows)]
    /\ counts \in [Classes -> Nat]
    /\ out \in Seq(Rows)
    /\ spilled \in BOOLEAN

InSeq(i, s) == \E p \in DOMAIN s : s[p] = i

Distinct(s) == \A p, q \in DOMAIN s : s[p] = s[q] => p = q

InLoop(i) == i \in todo[share[i]]
InBuffer(i) == InSeq(i, buf[share[i]])
InFile(i) == InSeq(i, out)

\* A thread holds only rows of its own share and of the class it is at, so
\* its buffer never mixes two classes.
OwnRows ==
    \A t \in Threads :
        /\ todo[t] \subseteq Assigned(t, cls[t])
        /\ \A p \in DOMAIN buf[t] : buf[t][p] \in Assigned(t, cls[t])

\* No row is lost or written twice, however the threads interleave and
\* wherever the buffers fill up: before its thread reaches the class of a row
\* the row is nowhere; from then on it is in exactly one of the remaining
\* iterations, the thread's buffer and the file, and there only once.
EachRowOnce ==
    /\ OwnRows
    /\ Distinct(out)
    /\ \A t \in Threads : Distinct(buf[t])
    /\ \A i \in Rows :
         IF cls[share[i]] < label[i]
         THEN ~InLoop(i) /\ ~InBuffer(i) /\ ~InFile(i)
         ELSE /\ InLoop(i) \/ InBuffer(i) \/ InFile(i)
              /\ ~(InLoop(i) /\ InBuffer(i))
              /\ ~(InLoop(i) /\ InFile(i))
              /\ ~(InBuffer(i) /\ InFile(i))

\* The counters make the busy wait a barrier: when a thread is about to write
\* the rest of a class, every thread has written all it has of the classes
\* before.  (A counter that lost an update would also break it, by leaving
\* everyone waiting.)
BusyWaitIsBarrier ==
    \A t \in Threads :
        pc[t] = "critical" => \A u \in Threads : cls[u] >= cls[t]

Grouped == \A p, q \in DOMAIN out : p < q => label[out[p]] <= label[out[q]]

\* The rows are grouped by class, in the order of the header, unless a buffer
\* of a later class filled up before all threads had closed the class before.
GroupedUnlessSpilled == ~spilled => Grouped

\* The reader gives every row the label it had when it was written.
LabelsReadBack == Finished => \A p \in DOMAIN out : ReadLabel(p) = label[out[p]]

\* Every thread leaves the parallel region: no thread waits for a counter that
\* never reaches the size of the team.
Termination == <>Finished

\* Until a buffer is written before its class's turn, the writer takes the
\* steps the format allows, and no others: every write is a chunk of the first
\* class that is not complete.
Abstract == INSTANCE GroupedOutput
ImplementsGroupedUnlessSpilled ==
    Abstract!Init /\ [][Abstract!Next \/ spilled']_<<label, out>>
=============================================================================
