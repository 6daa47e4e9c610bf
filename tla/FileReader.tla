----------------------------- MODULE FileReader -----------------------------
(***************************************************************************)
(* file_reader on UNIX: an object that maps a file into memory, or reads   *)
(* it into a buffer of its own when that fails, and hands out views of its *)
(* lines.  Readers are moved, swapped, closed and opened again; what they  *)
(* own are descriptors, mappings and buffers of the process.               *)
(*                                                                         *)
(* Operations run one at a time.  Of a file only its size matters, which   *)
(* is at most a page, so that munmap of any positive number of bytes       *)
(* releases the whole mapping.  The lines of one call of read_lines are    *)
(* one view.                                                               *)
(***************************************************************************)
EXTENDS Integers, Sequences, FiniteSets

CONSTANTS
    Readers,
    Files, Size,        \* the existing files and their bytes
    MaxBlocks,          \* bound: blocks of memory that are in use at a time
    MaxReads            \* bound: calls of read_lines for one open file

Closed == "closed"      \* what is behind a descriptor that is not in use

ASSUME FilesAssumption == Size \in [Files -> Nat] /\ Closed \notin Files

Blocks == 1..MaxBlocks
nullptr == 0
MAP_FAILED == -1
Descriptors == 1..Cardinality(Readers)      \* behind 0, the default

VARIABLES
    reader,     \* the members of every reader
    memory,     \* what is in a block: [kind, file], or Free
    open_files  \* the file behind a descriptor, or Closed

reader_vars == <<reader, memory, open_files>>

Free == [kind |-> "free"]

\* The default member initializers, which the move constructor also leaves.
Empty == [file_descriptor |-> 0, must_unmap_file |-> FALSE, file_content |-> nullptr,
          num_bytes |-> 0, lines |-> <<>>, is_open |-> FALSE]

ReaderInit ==
    /\ reader = [r \in Readers |-> Empty]
    /\ memory = [b \in Blocks |-> Free]
    /\ open_files = [n \in Descriptors |-> Closed]

----------------------------------------------------------------------------
(* open                                                                    *)

\* The descriptor ::open returns: the lowest that is closed.
NewDescriptor(n) ==
    /\ n \in Descriptors /\ open_files[n] = Closed
    /\ \A m \in Descriptors : open_files[m] = Closed => n <= m

\* Memory for a mapping or a buffer; which free block it is does not matter.
NewBlock(b) ==
    /\ b \in Blocks /\ memory[b] = Free
    /\ \A a \in Blocks : memory[a] = Free => b <= a

\* ::open fails, and so does fstat.
OpenMissing(r) ==
    /\ ~reader[r].is_open
    /\ reader' = [reader EXCEPT ![r].file_descriptor = -1]
    /\ UNCHANGED <<memory, open_files>>

\* The file is mapped.
OpenMapped(r, f) ==
    /\ ~reader[r].is_open
    /\ Size[f] > 0
    /\ \E n \in Descriptors, b \in Blocks :
         /\ NewDescriptor(n)
         /\ NewBlock(b)
         /\ open_files' = [open_files EXCEPT ![n] = f]
         /\ memory' = [memory EXCEPT ![b] = [kind |-> "mapping", file |-> f]]
         /\ reader' = [reader EXCEPT ![r] =
              [@ EXCEPT !.file_descriptor = n, !.must_unmap_file = TRUE,
                        !.file_content = b, !.num_bytes = Size[f], !.is_open = TRUE]]

\* An empty file cannot be mapped: the descriptor is closed again, and
\* open_file allocates nothing.
OpenEmpty(r, f) ==
    /\ ~reader[r].is_open
    /\ Size[f] = 0
    /\ \E n \in Descriptors :
         /\ NewDescriptor(n)
         /\ reader' = [reader EXCEPT ![r] =
              [@ EXCEPT !.file_descriptor = n, !.num_bytes = 0, !.is_open = TRUE]]
    /\ UNCHANGED <<memory, open_files>>

\* mmap fails and the descriptor is closed; open_file allocates a buffer and
\* reads the file into it, or throws in the middle.
OpenUnmapped(r, f, succeeds) ==
    /\ ~reader[r].is_open
    /\ Size[f] > 0
    /\ \E n \in Descriptors, b \in Blocks :
         /\ NewDescriptor(n)
         /\ NewBlock(b)
         /\ memory' = [memory EXCEPT ![b] = [kind |-> "buffer", file |-> f]]
         /\ reader' = [reader EXCEPT ![r] =
              [@ EXCEPT !.file_descriptor = n, !.file_content = b,
                        !.num_bytes = Size[f], !.is_open = succeeds]]
    /\ UNCHANGED open_files

\* Mutant: the size is asked of the stream that could not be opened.
OpenVanished_AskSize(r, f) ==
    /\ ~reader[r].is_open
    /\ Size[f] > 0
    /\ reader' = [reader EXCEPT ![r].file_content = MAP_FAILED, ![r].num_bytes = -1]
    /\ UNCHANGED <<memory, open_files>>

\* mmap fails and then the file cannot be opened again.
OpenVanished(r, f) ==
    /\ ~reader[r].is_open
    /\ Size[f] > 0
    /\ \E n \in Descriptors :
         /\ NewDescriptor(n)
         /\ reader' = [reader EXCEPT ![r] =
              [@ EXCEPT !.file_descriptor = n, !.file_content = MAP_FAILED]]
    /\ UNCHANGED <<memory, open_files>>

Open(r) ==
    \/ OpenMissing(r)
    \/ \E f \in Files :
         \/ OpenMapped(r, f)
         \/ OpenEmpty(r, f)
         \/ \E succeeds \in BOOLEAN : OpenUnmapped(r, f, succeeds)
         \/ OpenVanished(r, f)

----------------------------------------------------------------------------
(* close, moves, swap, read_lines.  What is moved from becomes Empty.      *)

\* Mutant: the flag is not asked, as if every open file were mapped.
Releases_Always(m) == m.is_open

\* Whether close has a mapping and a descriptor to release.
Releases(m) == m.is_open /\ m.must_unmap_file

\* munmap and ::close, for an object with the members m; munmap refuses a
\* length of 0.  The pointer is reset before delete[] sees it, so no buffer is
\* ever freed.
Release(m) ==
    /\ memory' = [b \in Blocks |->
         IF Releases(m) /\ m.num_bytes > 0 /\ b = m.file_content THEN Free ELSE memory[b]]
    /\ open_files' = [n \in Descriptors |->
         IF Releases(m) /\ n = m.file_descriptor THEN Closed ELSE open_files[n]]

Close(r) ==
    /\ reader[r].is_open
    /\ Release(reader[r])
    /\ reader' = [reader EXCEPT ![r] = Empty]

\* r is a new object, in the place of one that has nothing open.
MoveConstruct(r, other) ==
    /\ r # other
    /\ ~reader[r].is_open
    /\ reader' = [reader EXCEPT ![r] = reader[other], ![other] = Empty]
    /\ UNCHANGED <<memory, open_files>>

\* Mutant: the number of bytes is forgotten.
Swap_NotBytes(r, other) ==
    /\ r # other
    /\ reader' = [reader EXCEPT
         ![r] = [reader[other] EXCEPT !.num_bytes = reader[r].num_bytes],
         ![other] = [reader[r] EXCEPT !.num_bytes = reader[other].num_bytes]]
    /\ UNCHANGED <<memory, open_files>>

Swap(r, other) ==
    /\ r # other
    /\ reader' = [reader EXCEPT ![r] = reader[other], ![other] = reader[r]]
    /\ UNCHANGED <<memory, open_files>>

\* other is moved into a temporary object, which is swapped with r and then
\* destroyed, with what r had.
MoveAssign(r, other) ==
    /\ r # other
    /\ reader' = [reader EXCEPT ![r] = reader[other], ![other] = Empty]
    /\ Release(reader[r])

\* Every call appends to the lines it finds.
ReadLines(r) ==
    /\ reader[r].is_open
    /\ Len(reader[r].lines) < MaxReads
    /\ LET view == [data |-> reader[r].file_content, size |-> reader[r].num_bytes]
       IN  reader' = [reader EXCEPT ![r].lines =
                         IF view.size = 0 THEN @ ELSE Append(@, view)]
    /\ UNCHANGED <<memory, open_files>>

ReaderNext ==
    \E r \in Readers :
        \/ Open(r)
        \/ Close(r)
        \/ ReadLines(r)
        \/ \E other \in Readers :
             MoveConstruct(r, other) \/ MoveAssign(r, other) \/ Swap(r, other)

ReaderSpec == ReaderInit /\ [][ReaderNext]_reader_vars

----------------------------------------------------------------------------
(* Properties.                                                             *)

ReadersTyped ==
    /\ reader \in [Readers ->
         [file_descriptor : Descriptors \cup {0, -1}, must_unmap_file : BOOLEAN,
          file_content : Blocks \cup {nullptr, MAP_FAILED}, num_bytes : Nat,
          lines : Seq([data : Blocks \cup {nullptr, MAP_FAILED}, size : Nat]),
          is_open : BOOLEAN]]
    /\ memory \in [Blocks -> {Free} \cup [kind : {"mapping", "buffer"}, file : Files]]
    /\ open_files \in [Descriptors -> Files \cup {Closed}]

\* Readers that will unmap their content and close their descriptor.
Owners == {r \in Readers : reader[r].must_unmap_file}

\* What an owner releases is its own: a mapping and a descriptor of one file.
OwnsWhatItReleases ==
    \A r \in Owners :
        /\ reader[r].is_open
        /\ \E f \in Files :
             /\ memory[reader[r].file_content] = [kind |-> "mapping", file |-> f]
             /\ open_files[reader[r].file_descriptor] = f
             /\ reader[r].num_bytes = Size[f]

OwnsAlone ==
    \A r, s \in Owners : r # s =>
        /\ reader[r].file_content # reader[s].file_content
        /\ reader[r].file_descriptor # reader[s].file_descriptor

NothingForgotten ==
    /\ \A n \in Descriptors : open_files[n] # Closed =>
         \E r \in Owners : reader[r].file_descriptor = n
    /\ \A b \in Blocks : memory[b] \in [kind : {"mapping"}, file : Files] =>
         \E r \in Owners : reader[r].file_content = b

\* After any sequence of moves, swaps and failed opens, every mapping and every
\* open descriptor will be released by exactly one reader, and by one that
\* knows its length, although readers keep the numbers of descriptors that are
\* closed and may be in use again by another.
SoleOwner == OwnsWhatItReleases /\ OwnsAlone /\ NothingForgotten

\* The lines of a reader are views of its own content: of all of the file and
\* nothing behind it, and of memory that is still there.  None outlives a
\* close, and moves and swaps take content, length and lines along.
LinesViewTheFile ==
    \A r \in Readers, i \in 1..MaxReads : i <= Len(reader[r].lines) =>
        LET view == reader[r].lines[i]
        IN  /\ reader[r].is_open
            /\ view.data = reader[r].file_content
            /\ view.data \in Blocks /\ memory[view.data] # Free
            /\ view.size = Size[memory[view.data].file]
=============================================================================
