---------------------------- MODULE FilesProofs -----------------------------
(***************************************************************************)
(* The program and its files.                                              *)
(*                                                                         *)
(* file_reader: who owns what, for any readers, files, blocks and bounds.  *)
(*                                                                         *)
(* Data sets: for any points and files, a file is read as its format says, *)
(* a scaled data set fills its interval, and saved factors scale again as  *)
(* they did.                                                               *)
(*                                                                         *)
(* The writer of model files: for every team of threads, every number of   *)
(* rows and classes, and every buffer size, the counters make the busy     *)
(* wait a barrier, no row is lost or written twice, and until a full       *)
(* buffer of a later class is written before its turn, the writer          *)
(* implements GroupedOutput: the rows of the model file are grouped by     *)
(* class.                                                                  *)
(***************************************************************************)
EXTENDS FileReader, DataSet, ModelWriter, FiniteSetTheorems, WellFoundedInduction,
        TLAPS

----------------------------------------------------------------------------
(* file_reader.                                                            *)

\* The members m of a reader among the blocks and descriptors of the process:
\* what it will release is a mapped file; what else it has open is a buffer
\* that is never freed; its lines are views of all of either.
Sound(m, mem, files) ==
    /\ m.must_unmap_file =>
         /\ m.is_open
         /\ m.file_content \in Blocks /\ m.file_descriptor \in Descriptors
         /\ \E f \in Files :
              /\ Size[f] > 0 /\ m.num_bytes = Size[f]
              /\ mem[m.file_content] = [kind |-> "mapping", file |-> f]
              /\ files[m.file_descriptor] = f
    /\ m.is_open /\ ~m.must_unmap_file /\ m.num_bytes # 0 =>
         /\ m.file_content \in Blocks
         /\ \E f \in Files :
              /\ m.num_bytes = Size[f]
              /\ mem[m.file_content] = [kind |-> "buffer", file |-> f]
    /\ \A i \in 1..Len(m.lines) :
         /\ m.is_open /\ m.num_bytes # 0
         /\ m.lines[i] = [data |-> m.file_content, size |-> m.num_bytes]

AllSound == \A r \in Readers : Sound(reader[r], memory, open_files)

ReaderInv == ReadersTyped /\ AllSound /\ OwnsAlone /\ NothingForgotten

Members == [file_descriptor : Descriptors \cup {0, -1}, must_unmap_file : BOOLEAN,
            file_content : Blocks \cup {nullptr, MAP_FAILED}, num_bytes : Nat,
            lines : Seq([data : Blocks \cup {nullptr, MAP_FAILED}, size : Nat]),
            is_open : BOOLEAN]

\* A reader without anything open is sound whatever the memory holds.
LEMMA EmptySound ==
    ASSUME NEW mem, NEW files
    PROVE  Empty \in Members /\ Sound(Empty, mem, files)
<1>1. Empty.lines = <<>> /\ Len(Empty.lines) = 0
  BY DEF Empty
<1>2. Empty \in Members
  BY DEF Empty, Members, nullptr
<1> QED
  BY <1>1, <1>2, SMT DEF Empty, Sound

\* The invariant holds before anything is opened.
LEMMA InitReader == ReaderInit => ReaderInv
<1> SUFFICES ASSUME ReaderInit PROVE ReaderInv
  OBVIOUS
<1>1. ReadersTyped
  BY EmptySound DEF ReaderInit, ReadersTyped, Members
<1>2. AllSound
  BY EmptySound DEF ReaderInit, AllSound
<1>3. Owners = {}
  BY DEF ReaderInit, Owners, Empty
<1>4. OwnsAlone
  BY <1>3 DEF OwnsAlone
<1>5. NothingForgotten
  BY DEF ReaderInit, NothingForgotten, Free
<1> QED
  BY <1>1, <1>2, <1>4, <1>5 DEF ReaderInv

\* The invariant says what the run checks.
LEMMA ReaderInvImplies == ReaderInv => SoleOwner /\ LinesViewTheFile
<1> SUFFICES ASSUME ReaderInv PROVE SoleOwner /\ LinesViewTheFile
  OBVIOUS
<1>1. OwnsWhatItReleases
  BY DEF ReaderInv, AllSound, Sound, OwnsWhatItReleases, Owners
<1>2. LinesViewTheFile
  <2> SUFFICES ASSUME NEW r \in Readers, NEW i \in 1..MaxReads, i <= Len(reader[r].lines)
               PROVE  /\ reader[r].is_open
                      /\ reader[r].lines[i].data = reader[r].file_content
                      /\ reader[r].lines[i].data \in Blocks
                      /\ memory[reader[r].lines[i].data] # Free
                      /\ reader[r].lines[i].size = Size[memory[reader[r].lines[i].data].file]
    BY DEF LinesViewTheFile
  <2>0. Sound(reader[r], memory, open_files)
    BY DEF ReaderInv, AllSound
  <2>1. reader[r].lines \in Seq([data : Blocks \cup {nullptr, MAP_FAILED}, size : Nat])
    BY DEF ReaderInv, ReadersTyped
  <2>2. i \in 1..Len(reader[r].lines)
    BY <2>1
  <2>3. /\ reader[r].is_open /\ reader[r].num_bytes # 0
        /\ reader[r].lines[i] = [data |-> reader[r].file_content, size |-> reader[r].num_bytes]
    BY <2>0, <2>2 DEF Sound
  <2>4. /\ reader[r].file_content \in Blocks
        /\ \E kind \in {"mapping", "buffer"}, f \in Files :
             /\ reader[r].num_bytes = Size[f]
             /\ memory[reader[r].file_content] = [kind |-> kind, file |-> f]
    BY <2>0, <2>3 DEF Sound
  <2> QED
    BY <2>3, <2>4 DEF Free
<1> QED
  BY <1>1, <1>2 DEF ReaderInv, SoleOwner

----------------------------------------------------------------------------
(* What is released is what nobody else has.                               *)

\* A reader stays sound as long as its content and its file stay what they are.
LEMMA StaysSound ==
    ASSUME NEW m, NEW mem, NEW files, NEW mem2, NEW files2,
           Sound(m, mem, files),
           m.file_content \in Blocks /\ m.is_open => mem2[m.file_content] = mem[m.file_content],
           m.must_unmap_file => files2[m.file_descriptor] = files[m.file_descriptor]
    PROVE  Sound(m, mem2, files2)
BY DEF Sound

\* One without bytes refers to nothing.
LEMMA UnusedSound ==
    ASSUME NEW m, NEW mem, NEW files, NEW mem2, NEW files2,
           Sound(m, mem, files), m.num_bytes = 0
    PROVE  Sound(m, mem2, files2)
<1>1. ASSUME m.must_unmap_file PROVE FALSE
  <2>1. PICK f \in Files : Size[f] > 0 /\ m.num_bytes = Size[f]
    BY <1>1 DEF Sound
  <2> QED
    BY <2>1
<1>2. \A i \in 1..Len(m.lines) : FALSE
  BY DEF Sound
<1> QED
  BY <1>1, <1>2 DEF Sound

\* close and the destructor leave all other readers sound, and what is still open
\* or mapped belongs to one of them.
LEMMA ReleasedAlone ==
    ASSUME ReaderInv, NEW r \in Readers, Release(reader[r])
    PROVE  /\ memory' \in [Blocks -> {Free} \cup [kind : {"mapping", "buffer"}, file : Files]]
           /\ open_files' \in [Descriptors -> Files \cup {Closed}]
           /\ \A s \in Readers \ {r} : Sound(reader[s], memory', open_files')
           /\ \A n \in Descriptors : open_files'[n] # Closed =>
                \E s \in Owners \ {r} : reader[s].file_descriptor = n
           /\ \A b \in Blocks : memory'[b] \in [kind : {"mapping"}, file : Files] =>
                \E s \in Owners \ {r} : reader[s].file_content = b
<1>1. ReadersTyped /\ OwnsAlone /\ NothingForgotten /\ \A s \in Readers : Sound(reader[s], memory, open_files)
  BY DEF ReaderInv, AllSound
<1>2. Releases(reader[r]) <=> r \in Owners
  BY <1>1 DEF Releases, Owners, Sound
<1>3. r \in Owners => reader[r].num_bytes > 0
  BY <1>1 DEF Owners, Sound
<1>4. \A b \in Blocks : memory'[b] =
        IF r \in Owners /\ b = reader[r].file_content THEN Free ELSE memory[b]
  BY <1>2, <1>3 DEF Release
<1>5. \A n \in Descriptors : open_files'[n] =
        IF r \in Owners /\ n = reader[r].file_descriptor THEN Closed ELSE open_files[n]
  BY <1>2 DEF Release
<1>6. /\ memory' \in [Blocks -> {Free} \cup [kind : {"mapping", "buffer"}, file : Files]]
      /\ open_files' \in [Descriptors -> Files \cup {Closed}]
  BY <1>1 DEF Release, ReadersTyped
<1>7. ASSUME NEW s \in Readers \ {r} PROVE Sound(reader[s], memory', open_files')
  <2>1. Sound(reader[s], memory, open_files) /\ Sound(reader[r], memory, open_files)
    BY <1>1
  <2>2. reader[s].must_unmap_file => open_files'[reader[s].file_descriptor] = open_files[reader[s].file_descriptor]
    BY <1>1, <1>5, <2>1 DEF Owners, OwnsAlone, Sound
  <2>3. CASE reader[s].num_bytes = 0
    BY <2>1, <2>3, UnusedSound
  <2>4. CASE reader[s].num_bytes # 0
    <3>1. ASSUME reader[s].file_content \in Blocks, reader[s].is_open, r \in Owners
          PROVE  reader[s].file_content # reader[r].file_content
      <4>1. CASE reader[s].must_unmap_file
        BY <1>1, <3>1, <4>1 DEF Owners, OwnsAlone
      <4>2. CASE ~reader[s].must_unmap_file
        <5>1. PICK f \in Files : memory[reader[s].file_content] = [kind |-> "buffer", file |-> f]
          BY <2>1, <2>4, <3>1, <4>2 DEF Sound
        <5>2. PICK g \in Files : memory[reader[r].file_content] = [kind |-> "mapping", file |-> g]
          BY <2>1, <3>1 DEF Sound, Owners
        <5> QED
          BY <5>1, <5>2
      <4> QED
        BY <4>1, <4>2
    <3>2. reader[s].file_content \in Blocks /\ reader[s].is_open =>
            memory'[reader[s].file_content] = memory[reader[s].file_content]
      BY <1>4, <3>1
    <3> QED
      BY <2>1, <2>2, <3>2, StaysSound
  <2> QED
    BY <2>3, <2>4
<1>8. ASSUME NEW n \in Descriptors, open_files'[n] # Closed
      PROVE  \E s \in Owners \ {r} : reader[s].file_descriptor = n
  BY <1>1, <1>5, <1>8 DEF NothingForgotten
<1>9. ASSUME NEW b \in Blocks, memory'[b] \in [kind : {"mapping"}, file : Files]
      PROVE  \E s \in Owners \ {r} : reader[s].file_content = b
  <2>1. memory'[b] = memory[b] /\ ~(r \in Owners /\ b = reader[r].file_content)
    BY <1>4, <1>9 DEF Free
  <2> QED
    BY <1>1, <1>9, <2>1 DEF NothingForgotten
<1> QED
  BY <1>6, <1>7, <1>8, <1>9

----------------------------------------------------------------------------
(* Opening.  What is new was free before, and the reader owned nothing.    *)

\* A reader that is not open owns nothing and has no lines.
LEMMA NotOpen ==
    ASSUME ReaderInv, NEW r \in Readers, ~reader[r].is_open
    PROVE  ~reader[r].must_unmap_file /\ reader[r].lines = <<>> /\ reader[r] \in Members
<1>1. Sound(reader[r], memory, open_files) /\ reader[r] \in Members
  BY DEF ReaderInv, AllSound, ReadersTyped, Members
<1>2. \A i \in 1..Len(reader[r].lines) : FALSE
  BY <1>1 DEF Sound
<1>3. reader[r].lines = <<>>
  BY <1>1, <1>2 DEF Members
<1> QED
  BY <1>1, <1>3 DEF Sound

\* Reader r gets members that own nothing, from nothing that was its own.
LEMMA ChangesNoOwner ==
    ASSUME ReaderInv, NEW r \in Readers, NEW m \in Members, NEW mem2,
           mem2 \in [Blocks -> {Free} \cup [kind : {"mapping", "buffer"}, file : Files]],
           \A b \in Blocks : memory[b] # Free => mem2[b] = memory[b],
           \A b \in Blocks : mem2[b] \in [kind : {"mapping"}, file : Files] => mem2[b] = memory[b],
           ~reader[r].must_unmap_file, ~m.must_unmap_file, Sound(m, mem2, open_files),
           reader' = [reader EXCEPT ![r] = m], memory' = mem2, open_files' = open_files
    PROVE  ReaderInv'
<1>1. ReadersTyped /\ OwnsAlone /\ NothingForgotten /\ \A s \in Readers : Sound(reader[s], memory, open_files)
  BY DEF ReaderInv, AllSound
<1>2. /\ reader'[r] = m
      /\ \A s \in Readers \ {r} : reader'[s] = reader[s]
      /\ reader \in [Readers -> Members]
  BY <1>1 DEF ReadersTyped, Members
<1>3. ReadersTyped'
  BY <1>1, <1>2 DEF ReadersTyped, Members
<1>4. Owners' = Owners /\ \A s \in Owners : reader'[s] = reader[s]
  BY <1>2 DEF Owners
<1>5. ASSUME NEW s \in Readers PROVE Sound(reader'[s], memory', open_files')
  <2>1. CASE s = r
    BY <1>2, <2>1
  <2>2. CASE s # r
    <3>1. Sound(reader[s], memory, open_files)
      BY <1>1
    <3>2. CASE reader[s].num_bytes = 0
      BY <1>2, <2>2, <3>1, <3>2, UnusedSound
    <3>3. CASE reader[s].num_bytes # 0
      <4>1. ASSUME reader[s].is_open PROVE memory[reader[s].file_content] # Free
        <5>1. PICK kind \in {"mapping", "buffer"}, f \in Files :
                memory[reader[s].file_content] = [kind |-> kind, file |-> f]
          BY <3>1, <3>3, <4>1 DEF Sound
        <5> QED
          BY <5>1 DEF Free
      <4> QED
        BY <1>2, <2>2, <3>1, <4>1, StaysSound
    <3> QED
      BY <3>2, <3>3
  <2> QED
    BY <2>1, <2>2
<1>6. OwnsAlone'
  BY <1>1, <1>4 DEF OwnsAlone
<1>7. NothingForgotten'
  BY <1>1, <1>4 DEF NothingForgotten
<1> QED
  BY <1>3, <1>5, <1>6, <1>7 DEF ReaderInv, AllSound

\* A file that is not there.
LEMMA OpenMissingReader == ASSUME ReaderInv, NEW r \in Readers, OpenMissing(r) PROVE ReaderInv'
<1> DEFINE m == [reader[r] EXCEPT !.file_descriptor = -1]
<1>1. /\ ~reader[r].is_open
      /\ ~reader[r].must_unmap_file /\ reader[r].lines = <<>> /\ reader[r] \in Members
  BY NotOpen DEF OpenMissing
<1>2. m \in Members /\ ~m.must_unmap_file /\ ~m.is_open /\ m.lines = <<>>
  BY <1>1 DEF Members
<1>3. Sound(m, memory, open_files)
  BY <1>2 DEF Sound
<1>4. memory \in [Blocks -> {Free} \cup [kind : {"mapping", "buffer"}, file : Files]]
  BY DEF ReaderInv, ReadersTyped
<1>5. reader' = [reader EXCEPT ![r] = m] /\ memory' = memory /\ open_files' = open_files
  BY DEF OpenMissing
<1> HIDE DEF m
<1> QED
  BY <1>1, <1>2, <1>3, <1>4, <1>5, ChangesNoOwner

\* A file without content.
LEMMA OpenEmptyReader == ASSUME ReaderInv, NEW r \in Readers, NEW f \in Files, OpenEmpty(r, f) PROVE ReaderInv'
<1>1. PICK n \in Descriptors :
        reader' = [reader EXCEPT ![r] =
          [@ EXCEPT !.file_descriptor = n, !.num_bytes = 0, !.is_open = TRUE]]
  BY DEF OpenEmpty
<1> DEFINE m == [reader[r] EXCEPT !.file_descriptor = n, !.num_bytes = 0, !.is_open = TRUE]
<1>2. /\ ~reader[r].is_open
      /\ ~reader[r].must_unmap_file /\ reader[r].lines = <<>> /\ reader[r] \in Members
  BY NotOpen DEF OpenEmpty
<1>3. m \in Members /\ ~m.must_unmap_file /\ m.num_bytes = 0 /\ m.lines = <<>>
  BY <1>2 DEF Members
<1>4. Sound(m, memory, open_files)
  BY <1>3 DEF Sound
<1>5. memory \in [Blocks -> {Free} \cup [kind : {"mapping", "buffer"}, file : Files]]
  BY DEF ReaderInv, ReadersTyped
<1>6. reader' = [reader EXCEPT ![r] = m] /\ memory' = memory /\ open_files' = open_files
  BY <1>1 DEF OpenEmpty
<1> HIDE DEF m
<1> QED
  BY <1>2, <1>3, <1>4, <1>5, <1>6, ChangesNoOwner

\* A file that is gone when it is opened again.
LEMMA OpenVanishedReader ==
    ASSUME ReaderInv, NEW r \in Readers, NEW f \in Files, OpenVanished(r, f) PROVE ReaderInv'
<1>1. PICK n \in Descriptors :
        reader' = [reader EXCEPT ![r] =
          [@ EXCEPT !.file_descriptor = n, !.file_content = MAP_FAILED]]
  BY DEF OpenVanished
<1> DEFINE m == [reader[r] EXCEPT !.file_descriptor = n, !.file_content = MAP_FAILED]
<1>2. /\ ~reader[r].is_open
      /\ ~reader[r].must_unmap_file /\ reader[r].lines = <<>> /\ reader[r] \in Members
  BY NotOpen DEF OpenVanished
<1>3. m \in Members /\ ~m.must_unmap_file /\ ~m.is_open /\ m.lines = <<>>
  BY <1>2 DEF Members
<1>4. Sound(m, memory, open_files)
  BY <1>3 DEF Sound
<1>5. memory \in [Blocks -> {Free} \cup [kind : {"mapping", "buffer"}, file : Files]]
  BY DEF ReaderInv, ReadersTyped
<1>6. reader' = [reader EXCEPT ![r] = m] /\ memory' = memory /\ open_files' = open_files
  BY <1>1 DEF OpenVanished
<1> HIDE DEF m
<1> QED
  BY <1>2, <1>3, <1>4, <1>5, <1>6, ChangesNoOwner

\* A file that is read into a buffer.
LEMMA OpenUnmappedReader ==
    ASSUME ReaderInv, NEW r \in Readers, NEW f \in Files, NEW succeeds \in BOOLEAN,
           OpenUnmapped(r, f, succeeds)
    PROVE  ReaderInv'
<1>1. PICK n \in Descriptors, b \in Blocks :
        /\ memory[b] = Free
        /\ memory' = [memory EXCEPT ![b] = [kind |-> "buffer", file |-> f]]
        /\ reader' = [reader EXCEPT ![r] =
             [@ EXCEPT !.file_descriptor = n, !.file_content = b,
                       !.num_bytes = Size[f], !.is_open = succeeds]]
  BY DEF OpenUnmapped, NewBlock
<1> DEFINE m == [reader[r] EXCEPT !.file_descriptor = n, !.file_content = b,
                                  !.num_bytes = Size[f], !.is_open = succeeds]
           mem2 == [memory EXCEPT ![b] = [kind |-> "buffer", file |-> f]]
<1>2. /\ ~reader[r].is_open
      /\ ~reader[r].must_unmap_file /\ reader[r].lines = <<>> /\ reader[r] \in Members
  BY NotOpen DEF OpenUnmapped
<1>3. /\ m \in Members /\ ~m.must_unmap_file /\ m.num_bytes = Size[f]
      /\ m.file_content = b /\ m.lines = <<>>
  BY <1>2, FilesAssumption DEF Members
<1>4. /\ memory \in [Blocks -> {Free} \cup [kind : {"mapping", "buffer"}, file : Files]]
      /\ mem2 \in [Blocks -> {Free} \cup [kind : {"mapping", "buffer"}, file : Files]]
      /\ mem2[b] = [kind |-> "buffer", file |-> f]
      /\ \A a \in Blocks \ {b} : mem2[a] = memory[a]
  BY DEF ReaderInv, ReadersTyped
<1>5. Sound(m, mem2, open_files)
  BY <1>3, <1>4 DEF Sound
<1>6. /\ \A a \in Blocks : memory[a] # Free => mem2[a] = memory[a]
      /\ \A a \in Blocks : mem2[a] \in [kind : {"mapping"}, file : Files] => mem2[a] = memory[a]
  BY <1>1, <1>4
<1>7. reader' = [reader EXCEPT ![r] = m] /\ memory' = mem2 /\ open_files' = open_files
  BY <1>1 DEF OpenUnmapped
<1> HIDE DEF m, mem2
<1> QED
  BY <1>2, <1>3, <1>4, <1>5, <1>6, <1>7, ChangesNoOwner

\* The one way to become an owner: block and descriptor were nobody's.
LEMMA OpenMappedReader ==
    ASSUME ReaderInv, NEW r \in Readers, NEW f \in Files, OpenMapped(r, f) PROVE ReaderInv'
<1>0. /\ ReadersTyped /\ OwnsAlone /\ NothingForgotten
      /\ \A s \in Readers : Sound(reader[s], memory, open_files)
  BY DEF ReaderInv, AllSound
<1>1. PICK n \in Descriptors, b \in Blocks :
        /\ open_files[n] = Closed /\ memory[b] = Free
        /\ open_files' = [open_files EXCEPT ![n] = f]
        /\ memory' = [memory EXCEPT ![b] = [kind |-> "mapping", file |-> f]]
        /\ reader' = [reader EXCEPT ![r] =
             [@ EXCEPT !.file_descriptor = n, !.must_unmap_file = TRUE,
                       !.file_content = b, !.num_bytes = Size[f], !.is_open = TRUE]]
  BY DEF OpenMapped, NewBlock, NewDescriptor
<1> DEFINE m == [reader[r] EXCEPT !.file_descriptor = n, !.must_unmap_file = TRUE,
                                  !.file_content = b, !.num_bytes = Size[f], !.is_open = TRUE]
<1>2. /\ ~reader[r].is_open /\ Size[f] > 0
      /\ ~reader[r].must_unmap_file /\ reader[r].lines = <<>> /\ reader[r] \in Members
  BY NotOpen DEF OpenMapped
<1>3. /\ m \in Members /\ m.must_unmap_file /\ m.is_open /\ m.num_bytes = Size[f]
      /\ m.file_content = b /\ m.file_descriptor = n /\ m.lines = <<>>
  BY <1>2, FilesAssumption DEF Members
<1>4. /\ memory'[b] = [kind |-> "mapping", file |-> f] /\ open_files'[n] = f
      /\ \A a \in Blocks \ {b} : memory'[a] = memory[a]
      /\ \A k \in Descriptors \ {n} : open_files'[k] = open_files[k]
  BY <1>0, <1>1 DEF ReadersTyped
<1>5. /\ reader'[r] = m /\ \A s \in Readers \ {r} : reader'[s] = reader[s]
      /\ reader' \in [Readers -> Members]
  BY <1>0, <1>1, <1>3 DEF ReadersTyped, Members
<1> HIDE DEF m
<1>6. ReadersTyped'
  BY <1>0, <1>1, <1>5 DEF ReadersTyped, Members
<1>7. Owners' = Owners \cup {r} /\ r \notin Owners
  BY <1>2, <1>3, <1>5 DEF Owners
<1>8. \A s \in Owners : reader[s].file_content # b /\ reader[s].file_descriptor # n
  <2> SUFFICES ASSUME NEW s \in Owners
               PROVE  reader[s].file_content # b /\ reader[s].file_descriptor # n
    OBVIOUS
  <2>1. PICK g \in Files : /\ memory[reader[s].file_content] = [kind |-> "mapping", file |-> g]
                           /\ open_files[reader[s].file_descriptor] = g
    BY <1>0 DEF Owners, Sound
  <2> QED
    BY <1>1, <2>1, FilesAssumption DEF Free
<1>9. ASSUME NEW s \in Readers PROVE Sound(reader'[s], memory', open_files')
  <2>1. CASE s = r
    BY <1>2, <1>3, <1>4, <1>5, <2>1 DEF Sound
  <2>2. CASE s # r
    <3>1. Sound(reader[s], memory, open_files) /\ reader'[s] = reader[s]
      BY <1>0, <1>5, <2>2
    <3>2. CASE reader[s].num_bytes = 0
      BY <3>1, <3>2, UnusedSound
    <3>3. CASE reader[s].num_bytes # 0
      <4>1. ASSUME reader[s].is_open PROVE reader[s].file_content # b
        <5>1. PICK kind \in {"mapping", "buffer"}, g \in Files :
                memory[reader[s].file_content] = [kind |-> kind, file |-> g]
          BY <3>1, <3>3, <4>1 DEF Sound
        <5> QED
          BY <1>1, <5>1 DEF Free
      <4>2. reader[s].must_unmap_file =>
              open_files'[reader[s].file_descriptor] = open_files[reader[s].file_descriptor]
        BY <1>4, <1>8, <3>1 DEF Owners, Sound
      <4> QED
        BY <1>4, <3>1, <4>1, <4>2, StaysSound
    <3> QED
      BY <3>2, <3>3
  <2> QED
    BY <2>1, <2>2
<1>10. OwnsAlone'
  BY <1>0, <1>3, <1>5, <1>7, <1>8 DEF OwnsAlone, Owners
<1>11. NothingForgotten'
  BY <1>0, <1>3, <1>4, <1>5, <1>7 DEF NothingForgotten, Owners
<1> QED
  BY <1>6, <1>9, <1>10, <1>11 DEF ReaderInv, AllSound

----------------------------------------------------------------------------
(* Closing, moving and reading.                                            *)

\* close.
LEMMA CloseReader == ASSUME ReaderInv, NEW r \in Readers, Close(r) PROVE ReaderInv'
<1>1. ReadersTyped /\ OwnsAlone
  BY DEF ReaderInv
<1>2. /\ memory' \in [Blocks -> {Free} \cup [kind : {"mapping", "buffer"}, file : Files]]
      /\ open_files' \in [Descriptors -> Files \cup {Closed}]
      /\ \A s \in Readers \ {r} : Sound(reader[s], memory', open_files')
      /\ \A n \in Descriptors : open_files'[n] # Closed =>
           \E s \in Owners \ {r} : reader[s].file_descriptor = n
      /\ \A b \in Blocks : memory'[b] \in [kind : {"mapping"}, file : Files] =>
           \E s \in Owners \ {r} : reader[s].file_content = b
  BY ReleasedAlone DEF Close
<1>3. /\ reader'[r] = Empty /\ \A s \in Readers \ {r} : reader'[s] = reader[s]
      /\ reader' \in [Readers -> Members]
  BY <1>1, EmptySound DEF Close, ReadersTyped, Members
<1>4. Owners' = Owners \ {r}
  BY <1>3 DEF Owners, Empty
<1>5. ReadersTyped'
  BY <1>2, <1>3 DEF ReadersTyped, Members
<1>6. AllSound'
  BY <1>2, <1>3, EmptySound DEF AllSound
<1>7. OwnsAlone'
  BY <1>1, <1>3, <1>4 DEF OwnsAlone, Owners
<1>8. NothingForgotten'
  BY <1>2, <1>3, <1>4 DEF NothingForgotten, Owners
<1> QED
  BY <1>5, <1>6, <1>7, <1>8 DEF ReaderInv

\* Move assignment: the target releases what it had.
LEMMA MoveAssignReader ==
    ASSUME ReaderInv, NEW r \in Readers, NEW other \in Readers, MoveAssign(r, other) PROVE ReaderInv'
<1>1. ReadersTyped /\ OwnsAlone
  BY DEF ReaderInv
<1>2. /\ memory' \in [Blocks -> {Free} \cup [kind : {"mapping", "buffer"}, file : Files]]
      /\ open_files' \in [Descriptors -> Files \cup {Closed}]
      /\ \A s \in Readers \ {r} : Sound(reader[s], memory', open_files')
      /\ \A n \in Descriptors : open_files'[n] # Closed =>
           \E s \in Owners \ {r} : reader[s].file_descriptor = n
      /\ \A b \in Blocks : memory'[b] \in [kind : {"mapping"}, file : Files] =>
           \E s \in Owners \ {r} : reader[s].file_content = b
  BY ReleasedAlone DEF MoveAssign
<1>3. /\ r # other /\ reader'[r] = reader[other] /\ reader'[other] = Empty
      /\ \A s \in Readers \ {r, other} : reader'[s] = reader[s]
      /\ reader' \in [Readers -> Members]
  BY <1>1, EmptySound DEF MoveAssign, ReadersTyped, Members
<1>4. /\ \A s \in Owners' : s # other /\ (s = r => other \in Owners) /\ (s # r => s \in Owners)
      /\ \A s \in Owners \ {r, other} : s \in Owners'
      /\ other \in Owners => r \in Owners'
  BY <1>3 DEF Owners, Empty
<1>5. ReadersTyped'
  BY <1>2, <1>3 DEF ReadersTyped, Members
<1>6. AllSound'
  BY <1>2, <1>3, EmptySound DEF AllSound
<1>7. OwnsAlone'
  BY <1>1, <1>3, <1>4 DEF OwnsAlone, Owners
<1>8. NothingForgotten'
  BY <1>2, <1>3, <1>4 DEF NothingForgotten, Owners
<1> QED
  BY <1>5, <1>6, <1>7, <1>8 DEF ReaderInv

\* Move construction.
LEMMA MoveConstructReader ==
    ASSUME ReaderInv, NEW r \in Readers, NEW other \in Readers, MoveConstruct(r, other) PROVE ReaderInv'
<1>1. ReadersTyped /\ OwnsAlone /\ NothingForgotten /\ AllSound
  BY DEF ReaderInv
<1>2. /\ r # other /\ reader'[r] = reader[other] /\ reader'[other] = Empty
      /\ \A s \in Readers \ {r, other} : reader'[s] = reader[s]
      /\ reader' \in [Readers -> Members]
      /\ memory' = memory /\ open_files' = open_files
  BY <1>1, EmptySound DEF MoveConstruct, ReadersTyped, Members
<1>3. ~reader[r].must_unmap_file
  BY NotOpen DEF MoveConstruct
<1>4. /\ \A s \in Owners' : s # other /\ (s = r => other \in Owners) /\ (s # r => s \in Owners)
      /\ \A s \in Owners \ {other} : s \in Owners' /\ s # r
      /\ other \in Owners => r \in Owners'
  BY <1>2, <1>3 DEF Owners, Empty
<1>5. ReadersTyped'
  BY <1>1, <1>2 DEF ReadersTyped, Members
<1>6. AllSound'
  BY <1>1, <1>2, EmptySound DEF AllSound
<1>7. OwnsAlone'
  BY <1>1, <1>2, <1>4 DEF OwnsAlone, Owners
<1>8. NothingForgotten'
  BY <1>1, <1>2, <1>4 DEF NothingForgotten, Owners
<1> QED
  BY <1>5, <1>6, <1>7, <1>8 DEF ReaderInv

\* swap.
LEMMA SwapReader ==
    ASSUME ReaderInv, NEW r \in Readers, NEW other \in Readers, Swap(r, other) PROVE ReaderInv'
<1>1. ReadersTyped /\ OwnsAlone /\ NothingForgotten /\ AllSound
  BY DEF ReaderInv
<1>2. /\ r # other /\ reader'[r] = reader[other] /\ reader'[other] = reader[r]
      /\ \A s \in Readers \ {r, other} : reader'[s] = reader[s]
      /\ reader' \in [Readers -> Members]
      /\ memory' = memory /\ open_files' = open_files
  BY <1>1 DEF Swap, ReadersTyped, Members
<1>3. /\ \A s \in Readers \ {r, other} : s \in Owners' <=> s \in Owners
      /\ r \in Owners' <=> other \in Owners
      /\ other \in Owners' <=> r \in Owners
  BY <1>2 DEF Owners
<1>4. ReadersTyped'
  BY <1>1, <1>2 DEF ReadersTyped, Members
<1>5. AllSound'
  BY <1>1, <1>2 DEF AllSound
<1>6. OwnsAlone'
  BY <1>1, <1>2, <1>3 DEF OwnsAlone, Owners
<1>7. NothingForgotten'
  BY <1>1, <1>2, <1>3 DEF NothingForgotten, Owners
<1> QED
  BY <1>4, <1>5, <1>6, <1>7 DEF ReaderInv

\* read_lines: the new view is of the content there is.
LEMMA ReadLinesReader == ASSUME ReaderInv, NEW r \in Readers, ReadLines(r) PROVE ReaderInv'
<1>1. ReadersTyped /\ OwnsAlone /\ NothingForgotten /\ AllSound
  BY DEF ReaderInv
<1> DEFINE view == [data |-> reader[r].file_content, size |-> reader[r].num_bytes]
           now == IF view.size = 0 THEN reader[r].lines ELSE Append(reader[r].lines, view)
           m == [reader[r] EXCEPT !.lines = now]
<1>2. reader[r] \in Members /\ reader[r].is_open /\ Sound(reader[r], memory, open_files)
  BY <1>1 DEF ReadLines, AllSound, ReadersTyped, Members
<1>3. reader' = [reader EXCEPT ![r] = m] /\ memory' = memory /\ open_files' = open_files
  BY DEF ReadLines
<1>4. now \in Seq([data : Blocks \cup {nullptr, MAP_FAILED}, size : Nat])
  <2> DEFINE Views == [data : Blocks \cup {nullptr, MAP_FAILED}, size : Nat]
  <2>1. reader[r].lines \in Seq(Views) /\ view \in Views
    BY <1>2 DEF Members
  <2> HIDE DEF Views, view
  <2>2. now \in Seq(Views)
    BY <2>1
  <2> QED
    BY <2>2 DEF Views
<1>5. /\ m \in Members /\ m.lines = now
      /\ m.must_unmap_file = reader[r].must_unmap_file /\ m.is_open = reader[r].is_open
      /\ m.file_content = reader[r].file_content /\ m.num_bytes = reader[r].num_bytes
      /\ m.file_descriptor = reader[r].file_descriptor
  BY <1>2, <1>4 DEF Members
<1>6. ASSUME NEW i \in 1..Len(now)
      PROVE  /\ reader[r].num_bytes # 0
             /\ now[i] = [data |-> reader[r].file_content, size |-> reader[r].num_bytes]
  <2>1. reader[r].lines \in Seq([data : Blocks \cup {nullptr, MAP_FAILED}, size : Nat])
    BY <1>2 DEF Members
  <2>2. CASE view.size = 0
    BY <1>2, <1>6, <2>2 DEF Sound
  <2>3. CASE view.size # 0
    <3>1. /\ Len(now) = Len(reader[r].lines) + 1
          /\ now[Len(now)] = view
          /\ \A k \in 1..Len(reader[r].lines) : now[k] = reader[r].lines[k]
      BY <2>1, <2>3 DEF Members
    <3>2. i = Len(now) \/ i \in 1..Len(reader[r].lines)
      BY <1>6, <2>1, <3>1
    <3> QED
      BY <1>2, <2>3, <3>1, <3>2 DEF Sound
  <2> QED
    BY <2>2, <2>3
<1> HIDE DEF m, now
<1>7. Sound(m, memory, open_files)
  BY <1>2, <1>5, <1>6 DEF Sound
<1>8. /\ reader'[r] = m /\ \A s \in Readers \ {r} : reader'[s] = reader[s]
      /\ reader' \in [Readers -> Members]
  BY <1>1, <1>3, <1>5 DEF ReadersTyped, Members
<1>9. /\ Owners' = Owners
      /\ \A s \in Owners : /\ reader'[s].file_content = reader[s].file_content
                           /\ reader'[s].file_descriptor = reader[s].file_descriptor
  BY <1>5, <1>8 DEF Owners
<1>10. ReadersTyped'
  BY <1>1, <1>3, <1>8 DEF ReadersTyped, Members
<1>11. AllSound'
  BY <1>1, <1>3, <1>7, <1>8 DEF AllSound
<1>12. OwnsAlone'
  BY <1>1, <1>9 DEF OwnsAlone
<1>13. NothingForgotten'
  BY <1>1, <1>3, <1>9 DEF NothingForgotten
<1> QED
  BY <1>10, <1>11, <1>12, <1>13 DEF ReaderInv

\* Every operation preserves the invariant.
LEMMA NextReader == ReaderInv /\ [ReaderNext]_reader_vars => ReaderInv'
<1> SUFFICES ASSUME ReaderInv, [ReaderNext]_reader_vars PROVE ReaderInv'
  OBVIOUS
<1>1. ASSUME NEW r \in Readers, Open(r) PROVE ReaderInv'
  BY <1>1, OpenMissingReader, OpenMappedReader, OpenEmptyReader, OpenUnmappedReader, OpenVanishedReader
     DEF Open
<1>2. ASSUME NEW r \in Readers, Close(r) PROVE ReaderInv'
  BY <1>2, CloseReader
<1>3. ASSUME NEW r \in Readers, ReadLines(r) PROVE ReaderInv'
  BY <1>3, ReadLinesReader
<1>4. ASSUME NEW r \in Readers, NEW other \in Readers,
             MoveConstruct(r, other) \/ MoveAssign(r, other) \/ Swap(r, other)
      PROVE  ReaderInv'
  BY <1>4, MoveConstructReader, MoveAssignReader, SwapReader
<1>5. CASE UNCHANGED reader_vars
  BY <1>5 DEF reader_vars, ReaderInv, ReadersTyped, AllSound, OwnsAlone, NothingForgotten, Owners
<1> QED
  BY <1>1, <1>2, <1>3, <1>4, <1>5 DEF ReaderNext

----------------------------------------------------------------------------
\* The invariant of all behaviours.
LEMMA ReaderInvariant == ReaderSpec => []ReaderInv
BY InitReader, NextReader, PTL DEF ReaderSpec

\* The members of readers, the memory and the descriptors keep their types
\* through every operation and every way an open can fail.
THEOREM ReaderTypeCorrect == ReaderSpec => []ReadersTyped
<1>1. ReaderInv => ReadersTyped
  BY DEF ReaderInv
<1> QED
  BY ReaderInvariant, <1>1, PTL

\* After any sequence of moves, assignments, swaps, closes and failed opens,
\* every mapping and every open descriptor will be released by exactly one
\* reader, and by one that knows what it is.
THEOREM SoleOwnerCorrect == ReaderSpec => []SoleOwner
BY ReaderInvariant, ReaderInvImplies, PTL

\* The lines of a reader are always views of all of its own content, which is
\* still in memory.
THEOREM LinesCorrect == ReaderSpec => []LinesViewTheFile
BY ReaderInvariant, ReaderInvImplies, PTL

----------------------------------------------------------------------------
(* Numbers in order.                                                       *)

\* Induction, with a set of numbers for the property.
LEMMA Induction ==
    ASSUME NEW S, 0 \in S, \A n \in Nat : n \in S => n + 1 \in S
    PROVE  Nat \subseteq S
<1> DEFINE Bad == Nat \ S
<1>1. ASSUME Bad # {} PROVE FALSE
  <2>1. Bad \subseteq Nat
    OBVIOUS
  <2> HIDE DEF Bad
  <2>2. PICK n \in Bad : \A k \in Bad : ~(<<k, n>> \in OpToRel(<, Nat))
    BY <1>1, <2>1, NatLessThanWellFounded, WFMin
  <2>3. n \in Nat /\ n # 0
    BY <2>1 DEF Bad
  <2>4. n - 1 \in Nat /\ n - 1 < n /\ (n - 1) + 1 = n
    BY <2>3
  <2>5. n - 1 \in Bad
    BY <2>4 DEF Bad
  <2>6. \A k, l \in Nat : k < l => <<k, l>> \in OpToRel(<, Nat)
    BY Zenon DEF OpToRel
  <2> QED
    BY <2>2, <2>3, <2>4, <2>5, <2>6, Zenon
<1> QED
  BY <1>1

Below(S, k) == {j \in S : j <= k}

\* The rank of a number in a finite set; there is one number of every rank.
LEMMA Ranks ==
    ASSUME NEW S, IsFiniteSet(S), S \subseteq Int
    PROVE  /\ Cardinality(S) \in Nat
           /\ \A k \in S : Cardinality(Below(S, k)) \in 1..Cardinality(S)
           /\ \A k, l \in S : k < l => Cardinality(Below(S, k)) < Cardinality(Below(S, l))
           /\ \A n \in 1..Cardinality(S) : \E k \in S : Cardinality(Below(S, k)) = n
<1>1. Cardinality(S) \in Nat
  BY FS_CardinalityType
<1>2. ASSUME NEW k \in S
      PROVE  IsFiniteSet(Below(S, k)) /\ Cardinality(Below(S, k)) \in 1..Cardinality(S)
  <2>1. Below(S, k) \in SUBSET S /\ k \in Below(S, k)
    BY DEF Below
  <2>2. IsFiniteSet(Below(S, k)) /\ Cardinality(Below(S, k)) <= Cardinality(S)
    BY <2>1, FS_Subset
  <2>3. Cardinality(Below(S, k)) \in Nat /\ Cardinality(Below(S, k)) # 0
    BY <2>1, <2>2, FS_CardinalityType, FS_EmptySet
  <2> QED
    BY <1>1, <2>2, <2>3
<1>3. ASSUME NEW k \in S, NEW l \in S, k < l
      PROVE  Cardinality(Below(S, k)) < Cardinality(Below(S, l))
  <2> k \in Int /\ l \in Int
    OBVIOUS
  <2>0. /\ \A j \in S : j <= k => j <= l
        /\ l <= l /\ ~(l <= k)
    <3>1. ASSUME NEW j \in S, j <= k PROVE j <= l
      <4>1. j \in Int
        OBVIOUS
      <4> QED
        BY <1>3, <3>1, <4>1
    <3> QED
      BY <1>3, <3>1
  <2>1. Below(S, k) \in SUBSET Below(S, l) /\ l \in Below(S, l) /\ l \notin Below(S, k)
    BY <2>0, Zenon DEF Below
  <2>2. /\ Cardinality(Below(S, k)) <= Cardinality(Below(S, l))
        /\ Cardinality(Below(S, k)) # Cardinality(Below(S, l))
    BY <1>2, <2>1, FS_Subset
  <2> QED
    BY <1>2, <2>2
<1>4. \A n \in 1..Cardinality(S) : \E k \in S : Cardinality(Below(S, k)) = n
  <2> DEFINE rank == [k \in S |-> Cardinality(Below(S, k))]
             T == 1..Cardinality(S)
  <2>1. IsFiniteSet(T) /\ Cardinality(T) = Cardinality(S)
    BY <1>1, FS_Interval
  <2>2. rank \in [S -> T]
    BY <1>2
  <2>3. \A k, l \in S : rank[k] = rank[l] => k = l
    <3> SUFFICES ASSUME NEW k \in S, NEW l \in S, k # l PROVE rank[k] # rank[l]
      OBVIOUS
    <3>1. k < l \/ l < k
      OBVIOUS
    <3> QED
      BY <1>2, <1>3, <3>1
  <2>4. rank \in Injection(S, T)
    BY <2>2, <2>3 DEF Injection, IsInjective
  <2>5. rank \in Surjection(S, T)
    BY <2>1, <2>4, FS_Injection
  <2>6. \A n \in T : \E k \in S : rank[k] = n
    BY <2>5, Zenon DEF Surjection
  <2> QED
    BY <2>6
<1> QED
  BY <1>1, <1>2, <1>3, <1>4

\* Sorted is an increasing sequence of all numbers of the set.
LEMMA SortedIs ==
    ASSUME NEW S, IsFiniteSet(S), S \subseteq Int
    PROVE  /\ Cardinality(S) \in Nat
           /\ DOMAIN Sorted(S) = 1..Cardinality(S)
           /\ Sorted(S) \in Seq(S) /\ Len(Sorted(S)) = Cardinality(S)
           /\ \A n \in 1..Cardinality(S) : Sorted(S)[n] \in S
           /\ \A n, m \in 1..Cardinality(S) : n < m => Sorted(S)[n] < Sorted(S)[m]
           /\ \A k \in S : \E n \in 1..Cardinality(S) : Sorted(S)[n] = k
<1> DEFINE N == Cardinality(S)
           Nth(n) == CHOOSE k \in S : Cardinality(Below(S, k)) = n
<1>1. /\ N \in Nat
      /\ \A k \in S : Cardinality(Below(S, k)) \in 1..N
      /\ \A k, l \in S : k < l => Cardinality(Below(S, k)) < Cardinality(Below(S, l))
      /\ \A n \in 1..N : \E k \in S : Cardinality(Below(S, k)) = n
  BY Ranks
<1>2. Sorted(S) = [n \in 1..N |-> Nth(n)]
  BY DEF Sorted, Below
<1>3. ASSUME NEW n \in 1..N
      PROVE  Sorted(S)[n] \in S /\ Cardinality(Below(S, Sorted(S)[n])) = n
  <2>1. Nth(n) \in S /\ Cardinality(Below(S, Nth(n))) = n
    BY <1>1
  <2> QED
    BY <1>2, <2>1
<1> HIDE DEF Nth
<1>4. ASSUME NEW n \in 1..N, NEW m \in 1..N, n < m
      PROVE  Sorted(S)[n] < Sorted(S)[m]
  <2> DEFINE k == Sorted(S)[n]
             l == Sorted(S)[m]
  <2>1. /\ k \in S /\ Cardinality(Below(S, k)) = n
        /\ l \in S /\ Cardinality(Below(S, l)) = m
    BY <1>3
  <2> HIDE DEF k, l
  <2>2. k # l /\ ~(l < k)
    BY <1>1, <1>4, <2>1
  <2>3. k < l
    BY <2>1, <2>2
  <2> QED
    BY <2>3 DEF k, l
<1>5. ASSUME NEW k \in S PROVE \E n \in 1..N : Sorted(S)[n] = k
  <2> DEFINE n == Cardinality(Below(S, k))
             l == Sorted(S)[n]
  <2>1. n \in 1..N
    BY <1>1
  <2>2. l \in S /\ Cardinality(Below(S, l)) = Cardinality(Below(S, k))
    BY <1>3, <2>1
  <2>3. l = k
    <3> HIDE DEF l
    <3>1. ~(l < k) /\ ~(k < l)
      BY <1>1, <2>2
    <3> QED
      BY <2>2, <3>1
  <2> QED
    BY <2>1, <2>3
<1>6. Sorted(S) \in [1..N -> S]
  BY <1>2, <1>3
<1>7. Sorted(S) \in Seq(S) /\ Len(Sorted(S)) = N
  BY <1>1, <1>6
<1> QED
  BY <1>1, <1>2, <1>3, <1>4, <1>5, <1>7

\* A finite set of numbers has a least and a greatest one.
LEMMA Extremes ==
    ASSUME NEW S, IsFiniteSet(S), S \subseteq Int, S # {}
    PROVE  /\ Min(S) \in S /\ \A k \in S : Min(S) <= k
           /\ Max(S) \in S /\ \A k \in S : k <= Max(S)
<1> DEFINE N == Cardinality(S)
           s == Sorted(S)
<1>1. /\ N \in Nat
      /\ \A n \in 1..N : s[n] \in S
      /\ \A n, m \in 1..N : n < m => s[n] < s[m]
      /\ \A k \in S : \E n \in 1..N : s[n] = k
  BY SortedIs
<1>2. N >= 1
  BY <1>1, FS_EmptySet
<1> HIDE DEF N, s
<1>3. s[1] \in S /\ \A k \in S : s[1] <= k
  <2>1. ASSUME NEW k \in S PROVE s[1] <= k
    <3>1. PICK n \in 1..N : s[n] = k
      BY <1>1
    <3>2. n = 1 \/ (1 < n /\ 1 \in 1..N)
      BY <1>1
    <3>3. s[1] = k \/ s[1] < k
      BY <1>1, <3>1, <3>2
    <3>4. 1 \in 1..N
      BY <1>1, <1>2
    <3>5. s[1] \in S
      BY <1>1, <3>4
    <3>6. k \in Int /\ s[1] \in Int
      BY <3>5
    <3> QED
      BY <3>3, <3>6
  <2> QED
    BY <1>1, <1>2, <2>1
<1>4. s[N] \in S /\ \A k \in S : k <= s[N]
  <2>1. ASSUME NEW k \in S PROVE k <= s[N]
    <3>1. PICK n \in 1..N : s[n] = k
      BY <1>1
    <3>2. n = N \/ (n < N /\ N \in 1..N)
      BY <1>1
    <3>3. s[N] = k \/ k < s[N]
      BY <1>1, <3>1, <3>2
    <3>4. N \in 1..N
      BY <1>1, <1>2
    <3>5. s[N] \in S
      BY <1>1, <3>4
    <3>6. k \in Int /\ s[N] \in Int
      BY <3>5
    <3> QED
      BY <3>3, <3>6
  <2> QED
    BY <1>1, <1>2, <2>1
<1>5. ASSUME NEW k \in S PROVE s[N] >= k
  <2>1. k \in Int /\ s[N] \in Int /\ k <= s[N]
    BY <1>4
  <2> QED
    BY <2>1
<1>6. Max(S) \in S /\ \A k \in S : k <= Max(S)
  <2>1. Max(S) \in S /\ \A k \in S : Max(S) >= k
    BY <1>4, <1>5, Zenon DEF Max
  <2>2. ASSUME NEW k \in S PROVE k <= Max(S)
    <3>1. k \in Int /\ Max(S) \in Int /\ Max(S) >= k
      BY <2>1
    <3> HIDE DEF Max
    <3> QED
      BY <3>1
  <2> QED
    BY <2>1, <2>2
<1>7. Min(S) \in S /\ \A k \in S : Min(S) <= k
  BY <1>3, Zenon DEF Min
<1> QED
  BY <1>6, <1>7

\* The least and the greatest number are known by what they are.
LEMMA ExtremesAre ==
    ASSUME NEW S, S \subseteq Int, NEW k \in S
    PROVE  /\ (\A l \in S : k <= l) => Min(S) = k
           /\ (\A l \in S : l <= k) => Max(S) = k
<1>1. ASSUME \A l \in S : k <= l PROVE Min(S) = k
  <2>1. Min(S) \in S /\ \A l \in S : Min(S) <= l
    BY <1>1, Zenon DEF Min
  <2>2. Min(S) \in Int /\ k \in Int /\ Min(S) <= k /\ k <= Min(S)
    BY <1>1, <2>1
  <2> QED
    BY <2>2
<1>2. ASSUME \A l \in S : l <= k PROVE Max(S) = k
  <2>1. ASSUME NEW l \in S PROVE k >= l
    <3>1. k \in Int /\ l \in Int /\ l <= k
      BY <1>2
    <3> QED
      BY <3>1
  <2>2. Max(S) \in S /\ \A l \in S : Max(S) >= l
    BY <2>1, Zenon DEF Max
  <2>3. Max(S) \in Int /\ k \in Int /\ Max(S) >= k /\ Max(S) <= k
    BY <1>2, <2>2
  <2> QED
    BY <2>3
<1> QED
  BY <1>1, <1>2

LEMMA ImageFinite ==
    ASSUME NEW s, IsFiniteSet(DOMAIN s)
    PROVE  /\ IsFiniteSet({s[k] : k \in DOMAIN s})
           /\ Cardinality({s[k] : k \in DOMAIN s}) <= Cardinality(DOMAIN s)
           /\ (\A k, l \in DOMAIN s : s[k] = s[l] => k = l) =>
                  Cardinality({s[k] : k \in DOMAIN s}) = Cardinality(DOMAIN s)
<1> DEFINE T == {s[k] : k \in DOMAIN s}
           f == [k \in DOMAIN s |-> s[k]]
<1>1. f \in [DOMAIN s -> T]
  OBVIOUS
<1>2. \A t \in T : \E k \in DOMAIN s : f[k] = t
  OBVIOUS
<1>3. f \in Surjection(DOMAIN s, T)
  BY <1>1, <1>2 DEF Surjection
<1>4. /\ IsFiniteSet(T)
      /\ Cardinality(T) <= Cardinality(DOMAIN s)
      /\ Cardinality(T) = Cardinality(DOMAIN s) <=> f \in Injection(DOMAIN s, T)
  BY <1>3, FS_Surjection
<1>5. ASSUME \A k, l \in DOMAIN s : s[k] = s[l] => k = l
      PROVE  f \in Injection(DOMAIN s, T)
  BY <1>1, <1>5 DEF Injection, IsInjective
<1> QED
  BY <1>4, <1>5

\* A sequence increases if every number is less than the next one.
LEMMA IncreasesByOne ==
    ASSUME NEW n \in Nat, NEW s, \A k \in 1..n : s[k] \in Int,
           \A k \in 2..n : s[k - 1] < s[k]
    PROVE  \A a, b \in 1..n : a < b => s[a] < s[b]
<1> SUFFICES ASSUME NEW a \in 1..n, NEW b \in 1..n, a < b PROVE s[a] < s[b]
  OBVIOUS
<1> DEFINE S == {d \in Nat : a + d + 1 <= n => s[a] < s[a + d + 1]}
<1>1. 0 \in S
  <2>1. a + 0 + 1 = a + 1
    OBVIOUS
  <2>2. ASSUME a + 1 <= n PROVE s[a] < s[a + 1]
    <3>1. a + 1 \in 2..n /\ (a + 1) - 1 = a
      BY <2>2
    <3> QED
      BY <3>1
  <2> QED
    BY <2>1, <2>2
<1>2. ASSUME NEW d \in Nat, d \in S PROVE d + 1 \in S
  <2>1. a + (d + 1) + 1 = a + d + 2
    OBVIOUS
  <2>2. ASSUME a + d + 2 <= n PROVE s[a] < s[a + d + 2]
    <3>1. a + d + 2 \in 2..n /\ (a + d + 2) - 1 = a + d + 1 /\ a + d + 1 \in 1..n
      BY <2>2
    <3>2. s[a] < s[a + d + 1] /\ s[a + d + 1] < s[a + d + 2]
      BY <1>2, <3>1
    <3> QED
      BY <3>1, <3>2
  <2> QED
    BY <2>1, <2>2
<1> HIDE DEF S
<1>3. Nat \subseteq S
  BY <1>1, <1>2, Induction
<1>4. b - a - 1 \in Nat /\ a + (b - a - 1) + 1 = b
  OBVIOUS
<1>5. b - a - 1 \in S
  BY <1>3, <1>4
<1> QED
  BY <1>4, <1>5 DEF S

----------------------------------------------------------------------------
(* Scaling.                                                                *)

FactorRecords == [feature : Nat, lower : Int, upper : Int]

GoodPoints(points) == points \in Seq(Seq(Int)) /\ Rectangular(points)

Apart(factors) ==
    \A a, b \in DOMAIN factors : a # b => factors[a].feature # factors[b].feature

LEMMA PointsAre ==
    ASSUME NEW points, GoodPoints(points)
    PROVE  /\ NumFeatures(points) \in Nat \ {0} /\ DOMAIN points[1] = 1..NumFeatures(points)
           /\ Len(points) \in Nat \ {0} /\ DOMAIN points = 1..Len(points) /\ 1 \in DOMAIN points
           /\ \A i \in DOMAIN points :
                /\ points[i] \in Seq(Int) /\ Len(points[i]) = NumFeatures(points)
                /\ DOMAIN points[i] = 1..NumFeatures(points)
                /\ \A f \in 1..NumFeatures(points) : points[i][f] \in Int
<1>1. points \in Seq(Seq(Int)) /\ points # <<>> /\ NumFeatures(points) > 0
      /\ \A i \in DOMAIN points : Len(points[i]) = NumFeatures(points)
  BY DEF GoodPoints, Rectangular
<1>2. Len(points) \in Nat \ {0} /\ DOMAIN points = 1..Len(points) /\ 1 \in DOMAIN points
  BY <1>1
<1>3. \A i \in DOMAIN points : points[i] \in Seq(Int)
  BY <1>1
<1>4. NumFeatures(points) \in Nat \ {0}
  BY <1>1, <1>2, <1>3 DEF NumFeatures
<1>5. ASSUME NEW i \in DOMAIN points
      PROVE  /\ DOMAIN points[i] = 1..NumFeatures(points)
             /\ \A f \in 1..NumFeatures(points) : points[i][f] \in Int
  <2>1. DOMAIN points[i] = 1..Len(points[i])
    BY <1>3
  <2> QED
    BY <1>1, <1>3, <2>1
<1> QED
  BY <1>1, <1>2, <1>3, <1>4, <1>5

LEMMA ColumnIs ==
    ASSUME NEW points, GoodPoints(points), NEW f \in 1..NumFeatures(points)
    PROVE  /\ IsFiniteSet(Column(points, f)) /\ Column(points, f) \subseteq Int
           /\ Column(points, f) # {}
           /\ Min(Column(points, f)) \in Column(points, f)
           /\ Max(Column(points, f)) \in Column(points, f)
           /\ Min(Column(points, f)) \in Int /\ Max(Column(points, f)) \in Int
           /\ \A x \in Column(points, f) :
                x \in Int /\ Min(Column(points, f)) <= x /\ x <= Max(Column(points, f))
<1> DEFINE s == [i \in DOMAIN points |-> points[i][f]]
           C == Column(points, f)
<1>1. C = {s[i] : i \in DOMAIN s}
  BY DEF Column
<1>2. IsFiniteSet(DOMAIN s)
  <2>1. DOMAIN s = 1..Len(points) /\ Len(points) \in Int /\ 1 \in Int
    BY PointsAre
  <2>2. IsFiniteSet(1..Len(points))
    BY <2>1, FS_Interval
  <2> QED
    BY <2>1, <2>2
<1>3. IsFiniteSet(C)
  <2> HIDE DEF s, C
  <2> QED
    BY <1>1, <1>2, ImageFinite
<1>4. C \subseteq Int /\ C # {}
  BY PointsAre DEF Column
<1> HIDE DEF C
<1>5. /\ Min(C) \in C /\ \A k \in C : Min(C) <= k
      /\ Max(C) \in C /\ \A k \in C : k <= Max(C)
  BY <1>3, <1>4, Extremes
<1>6. Min(C) \in Int /\ Max(C) \in Int /\ \A k \in C : k \in Int
  BY <1>4, <1>5
<1> QED
  BY <1>3, <1>4, <1>5, <1>6 DEF C

\* The factors of a data set: one for each feature that is not zero everywhere.
LEMMA FactorsAre ==
    ASSUME NEW points, GoodPoints(points)
    PROVE  /\ Factors(points) \in Seq(FactorRecords)
           /\ Len(Factors(points)) <= NumFeatures(points)
           /\ Apart(Factors(points))
           /\ \A a \in DOMAIN Factors(points) :
                LET f == Factors(points)[a].feature
                IN  /\ f \in 1..NumFeatures(points)
                    /\ Factors(points)[a] =
                          Factor(f, Min(Column(points, f)), Max(Column(points, f)))
           /\ \A f \in 1..NumFeatures(points) :
                (\E a \in DOMAIN Factors(points) : Factors(points)[a].feature = f)
                <=> ~(Min(Column(points, f)) = 0 /\ Max(Column(points, f)) = 0)
<1> DEFINE n == NumFeatures(points)
           F == Factors(points)
           Of(f) == Factor(f, Min(Column(points, f)), Max(Column(points, f)))
           all == [f \in DOMAIN points[1] |-> Of(f)]
           S == {f \in DOMAIN points[1] :
                    ~(Min(Column(points, f)) = 0 /\ Max(Column(points, f)) = 0)}
           s == Sorted(S)
           N == Cardinality(S)
<1>1. n \in Nat \ {0} /\ DOMAIN points[1] = 1..n
  BY PointsAre
<1>2. F = [k \in 1..N |-> all[s[k]]]
  BY DEF Factors, Picked
<1>3. \A f \in 1..n : Of(f) \in FactorRecords /\ Of(f).feature = f
  BY ColumnIs, <1>1 DEF Factor, FactorRecords
<1>4. IsFiniteSet(1..n) /\ Cardinality(1..n) = n
  BY <1>1, FS_Interval
<1>5. S \in SUBSET (1..n)
  BY <1>1
<1>6. IsFiniteSet(S) /\ N <= n
  BY <1>4, <1>5, FS_Subset
<1>7. S \subseteq Int
  BY <1>5
<1>8. S = {f \in 1..n : ~(Min(Column(points, f)) = 0 /\ Max(Column(points, f)) = 0)}
  BY <1>1
<1> HIDE DEF S
<1>9. /\ N \in Nat
      /\ \A k \in 1..N : s[k] \in S
      /\ \A k, l \in 1..N : k < l => s[k] < s[l]
      /\ \A f \in S : \E k \in 1..N : s[k] = f
  BY <1>6, <1>7, SortedIs
<1> HIDE DEF s, N, F
<1>10. \A k \in 1..N : s[k] \in 1..n /\ F[k] = Of(s[k])
  BY <1>1, <1>2, <1>5, <1>9
<1>11. F \in Seq(FactorRecords) /\ Len(F) = N /\ DOMAIN F = 1..N
  <2>1. F \in [1..N -> FactorRecords]
    <3> HIDE DEF Of
    <3> QED
      BY <1>2, <1>3, <1>10, <1>1
  <2> QED
    BY <1>9, <2>1
<1>12. \A k \in 1..N : F[k].feature = s[k]
  BY <1>3, <1>10
<1>13. Apart(F)
  <2> SUFFICES ASSUME NEW a \in 1..N, NEW b \in 1..N, a # b PROVE s[a] # s[b]
    BY <1>11, <1>12 DEF Apart
  <2>1. s[a] \in Int /\ s[b] \in Int /\ (a < b \/ b < a)
    BY <1>9, <1>10
  <2>2. s[a] < s[b] \/ s[b] < s[a]
    BY <1>9, <2>1
  <2> QED
    BY <2>1, <2>2
<1>14. \A f \in 1..n : (\E a \in 1..N : F[a].feature = f) <=> f \in S
  BY <1>9, <1>12
<1> HIDE DEF Of
<1>15. \A a \in DOMAIN F : F[a].feature \in 1..n /\ F[a] = Of(F[a].feature)
  BY <1>10, <1>11, <1>12
<1>16. F \in Seq(FactorRecords) /\ Len(F) <= n
  BY <1>6, <1>11
<1>17. \A f \in 1..n : (\E a \in DOMAIN F : F[a].feature = f)
          <=> ~(Min(Column(points, f)) = 0 /\ Max(Column(points, f)) = 0)
  BY <1>8, <1>11, <1>14
<1> QED
  BY <1>13, <1>15, <1>16, <1>17 DEF Of, F

\* Sorted factors are the same ones.
LEMMA ByFeatureIs ==
    ASSUME NEW factors \in Seq(FactorRecords), Apart(factors)
    PROVE  /\ ByFeature(factors) \in Seq(FactorRecords)
           /\ Len(ByFeature(factors)) = Len(factors)
           /\ Apart(ByFeature(factors))
           /\ \A a \in DOMAIN factors : \E b \in DOMAIN ByFeature(factors) :
                ByFeature(factors)[b] = factors[a]
           /\ \A b \in DOMAIN ByFeature(factors) : \E a \in DOMAIN factors :
                ByFeature(factors)[b] = factors[a]
<1> DEFINE feature == [a \in DOMAIN factors |-> factors[a].feature]
           S == {feature[a] : a \in DOMAIN feature}
           s == Sorted(S)
           N == Cardinality(S)
           F == ByFeature(factors)
           Found(f) == CHOOSE factor \in ToSet(factors) : factor.feature = f
<1>1. DOMAIN factors = 1..Len(factors) /\ Len(factors) \in Nat
      /\ \A a \in DOMAIN factors : factors[a] \in FactorRecords /\ factors[a].feature \in Nat
  <2>1. DOMAIN factors = 1..Len(factors) /\ Len(factors) \in Nat
        /\ \A a \in DOMAIN factors : factors[a] \in FactorRecords
    OBVIOUS
  <2>2. \A factor \in FactorRecords : factor.feature \in Nat
    BY DEF FactorRecords
  <2> QED
    BY <2>1, <2>2
<1>2. IsFiniteSet(DOMAIN feature) /\ Cardinality(DOMAIN feature) = Len(factors)
  BY <1>1, FS_Interval
<1>3. \A a, b \in DOMAIN feature : feature[a] = feature[b] => a = b
  BY DEF Apart
<1>4. IsFiniteSet(S) /\ N = Len(factors)
  <2> HIDE DEF feature
  <2> QED
    BY <1>2, <1>3, ImageFinite
<1>5. S \subseteq Int
  BY <1>1
<1>6. S = {factors[a].feature : a \in DOMAIN factors}
  OBVIOUS
<1> HIDE DEF S
<1>7. /\ DOMAIN s = 1..N /\ N \in Nat
      /\ \A k \in 1..N : s[k] \in S
      /\ \A k, l \in 1..N : k < l => s[k] < s[l]
      /\ \A f \in S : \E k \in 1..N : s[k] = f
  BY <1>4, <1>5, SortedIs
<1>8. F = [k \in 1..N |-> Found(s[k])]
  BY <1>6, <1>7 DEF ByFeature
<1>9. ASSUME NEW a \in DOMAIN factors PROVE Found(factors[a].feature) = factors[a]
  <2> DEFINE factor == Found(factors[a].feature)
  <2>1. factors[a] \in ToSet(factors)
    BY DEF ToSet
  <2>2. factor \in ToSet(factors) /\ factor.feature = factors[a].feature
    BY <2>1
  <2> HIDE DEF factor
  <2>3. PICK b \in DOMAIN factors : factor = factors[b]
    BY <2>2 DEF ToSet
  <2>4. a = b
    BY <2>2, <2>3 DEF Apart
  <2> QED
    BY <2>3, <2>4 DEF factor
<1> HIDE DEF Found, s, N, F
<1>10. ASSUME NEW k \in 1..N
       PROVE  \E a \in DOMAIN factors : F[k] = factors[a] /\ F[k].feature = s[k]
  <2>1. PICK a \in DOMAIN factors : s[k] = factors[a].feature
    BY <1>6, <1>7
  <2> QED
    BY <1>8, <1>9, <2>1
<1>11. F \in [1..N -> FactorRecords]
  BY <1>1, <1>8, <1>10
<1>12. F \in Seq(FactorRecords) /\ Len(F) = N /\ DOMAIN F = 1..N
  BY <1>7, <1>11
<1>13. Apart(F)
  <2> SUFFICES ASSUME NEW a \in 1..N, NEW b \in 1..N, a # b PROVE s[a] # s[b]
    BY <1>10, <1>12 DEF Apart
  <2>0. s[a] \in S /\ s[b] \in S
    BY <1>7
  <2>1. s[a] \in Int /\ s[b] \in Int /\ (a < b \/ b < a)
    <3>1. s[a] \in Int /\ s[b] \in Int
      BY <1>5, <2>0
    <3>2. a < b \/ b < a
      BY <1>7
    <3> QED
      BY <3>1, <3>2
  <2>2. s[a] < s[b] \/ s[b] < s[a]
    BY <1>7, <2>1
  <2> QED
    BY <2>1, <2>2
<1>14. ASSUME NEW a \in DOMAIN factors PROVE \E b \in DOMAIN F : F[b] = factors[a]
  <2>1. PICK k \in 1..N : s[k] = factors[a].feature
    BY <1>6, <1>7
  <2> QED
    BY <1>8, <1>9, <1>12, <2>1
<1> QED
  BY <1>4, <1>10, <1>12, <1>13, <1>14 DEF F

\* What becomes of a value.
LEMMA ApplyIs ==
    ASSUME NEW points, NEW interval, NEW factors, Apart(factors),
           NEW i \in DOMAIN points, NEW f \in DOMAIN points[i]
    PROVE  /\ (\A a \in DOMAIN factors : factors[a].feature # f) =>
                Apply(points, interval, factors)[i][f] = points[i][f]
           /\ \A a \in DOMAIN factors : factors[a].feature = f =>
                Apply(points, interval, factors)[i][f] =
                    ScaledValue(points[i][f], interval, factors[a])
<1> DEFINE Own == {a \in DOMAIN factors : factors[a].feature = f}
           c == CHOOSE a \in Own : TRUE
<1>1. Apply(points, interval, factors)[i][f] =
          IF Own = {} THEN points[i][f] ELSE ScaledValue(points[i][f], interval, factors[c])
  BY DEF Apply
<1>2. ASSUME NEW a \in DOMAIN factors, factors[a].feature = f
      PROVE  Own # {} /\ factors[c] = factors[a]
  <2>1. a \in Own
    BY <1>2
  <2>2. c \in Own
    BY <2>1
  <2> HIDE DEF c
  <2>3. c = a
    BY <1>2, <2>2 DEF Apart
  <2> QED
    BY <2>1, <2>3
<1> HIDE DEF c
<1> QED
  BY <1>1, <1>2

\* The order of the factors does not matter.
LEMMA ApplySame ==
    ASSUME NEW points, NEW interval, NEW factors, NEW others, Apart(factors), Apart(others),
           \A a \in DOMAIN factors : \E b \in DOMAIN others : others[b] = factors[a],
           \A b \in DOMAIN others : \E a \in DOMAIN factors : others[b] = factors[a]
    PROVE  Apply(points, interval, factors) = Apply(points, interval, others)
<1>1. ASSUME NEW i \in DOMAIN points, NEW f \in DOMAIN points[i]
      PROVE  Apply(points, interval, factors)[i][f] = Apply(points, interval, others)[i][f]
  <2>1. CASE \A a \in DOMAIN factors : factors[a].feature # f
    <3>1. \A b \in DOMAIN others : others[b].feature # f
      BY <2>1
    <3> QED
      BY <2>1, <3>1, ApplyIs
  <2>2. CASE \E a \in DOMAIN factors : factors[a].feature = f
    <3>1. PICK a \in DOMAIN factors : factors[a].feature = f
      BY <2>2
    <3>2. PICK b \in DOMAIN others : others[b] = factors[a]
      OBVIOUS
    <3>3. Apply(points, interval, factors)[i][f] =
              ScaledValue(points[i][f], interval, factors[a])
      BY <3>1, ApplyIs
    <3>4. Apply(points, interval, others)[i][f] =
              ScaledValue(points[i][f], interval, others[b])
      BY <3>1, <3>2, ApplyIs
    <3> QED
      BY <3>2, <3>3, <3>4
  <2> QED
    BY <2>1, <2>2
<1>2. /\ DOMAIN Apply(points, interval, factors) = DOMAIN points
      /\ DOMAIN Apply(points, interval, others) = DOMAIN points
      /\ \A i \in DOMAIN points :
           /\ DOMAIN Apply(points, interval, factors)[i] = DOMAIN points[i]
           /\ DOMAIN Apply(points, interval, others)[i] = DOMAIN points[i]
           /\ Apply(points, interval, factors)[i] =
                 [f \in DOMAIN points[i] |-> Apply(points, interval, factors)[i][f]]
           /\ Apply(points, interval, others)[i] =
                 [f \in DOMAIN points[i] |-> Apply(points, interval, others)[i][f]]
      /\ Apply(points, interval, factors) =
            [i \in DOMAIN points |-> Apply(points, interval, factors)[i]]
      /\ Apply(points, interval, others) =
            [i \in DOMAIN points |-> Apply(points, interval, others)[i]]
  BY DEF Apply
<1>3. ASSUME NEW i \in DOMAIN points
      PROVE  Apply(points, interval, factors)[i] = Apply(points, interval, others)[i]
  BY <1>1, <1>2, Zenon
<1> QED
  BY <1>2, <1>3, Zenon

LEMMA ScaledTyped ==
    ASSUME NEW x \in Int, NEW interval \in Int \X Int, NEW factor \in FactorRecords
    PROVE  ScaledValue(x, interval, factor) \in Int
<1> DEFINE width == factor.upper - factor.lower
           product == (interval[2] - interval[1]) * (x - factor.lower)
           quotient == IF width > 0 THEN product \div width ELSE (-product) \div (-width)
<1>1. NotFinite \in Int
  BY DEF NotFinite
<1>2. factor.lower \in Int /\ factor.upper \in Int /\ interval[1] \in Int /\ interval[2] \in Int
  BY DEF FactorRecords
<1>3. width \in Int /\ product \in Int /\ (factor.lower # factor.upper => width # 0)
  <2>1. interval[2] - interval[1] \in Int /\ x - factor.lower \in Int
    BY <1>2
  <2>2. product \in Int
    BY <2>1
  <2>3. width \in Int /\ (factor.lower # factor.upper => width # 0)
    BY <1>2
  <2> QED
    BY <2>2, <2>3
<1>4. ScaledValue(x, interval, factor) = NotFinite
      \/ (width # 0 /\ ScaledValue(x, interval, factor) = interval[1] + quotient)
  BY <1>3 DEF ScaledValue
<1>5. width # 0 => quotient \in Int
  <2> HIDE DEF width, product
  <2> QED
    BY <1>3
<1> HIDE DEF width, quotient
<1> QED
  BY <1>1, <1>2, <1>4, <1>5

LEMMA ApplyTyped ==
    ASSUME NEW points, GoodPoints(points), NEW interval \in Int \X Int,
           NEW factors \in Seq(FactorRecords), Apart(factors)
    PROVE  /\ GoodPoints(Apply(points, interval, factors))
           /\ NumFeatures(Apply(points, interval, factors)) = NumFeatures(points)
           /\ Len(Apply(points, interval, factors)) = Len(points)
<1> DEFINE P == Apply(points, interval, factors)
           n == NumFeatures(points)
<1>1. /\ n \in Nat \ {0} /\ Len(points) \in Nat \ {0} /\ DOMAIN points = 1..Len(points)
      /\ 1 \in DOMAIN points
      /\ \A i \in DOMAIN points :
           DOMAIN points[i] = 1..n /\ \A f \in 1..n : points[i][f] \in Int
  BY PointsAre
<1>2. /\ DOMAIN P = DOMAIN points /\ P = [i \in DOMAIN points |-> P[i]]
      /\ \A i \in DOMAIN points : P[i] = [f \in DOMAIN points[i] |-> P[i][f]]
  BY DEF Apply
<1>3. ASSUME NEW i \in DOMAIN points, NEW f \in 1..n PROVE P[i][f] \in Int
  <2>0. f \in DOMAIN points[i] /\ points[i][f] \in Int
    BY <1>1
  <2>1. CASE \A a \in DOMAIN factors : factors[a].feature # f
    BY <2>0, <2>1, ApplyIs
  <2>2. CASE \E a \in DOMAIN factors : factors[a].feature = f
    <3>1. PICK a \in DOMAIN factors : factors[a].feature = f
      BY <2>2
    <3>2. P[i][f] = ScaledValue(points[i][f], interval, factors[a])
      BY <2>0, <3>1, ApplyIs
    <3>3. factors[a] \in FactorRecords
      OBVIOUS
    <3> HIDE DEF P
    <3> QED
      BY <2>0, <3>2, <3>3, ScaledTyped
  <2> QED
    BY <2>1, <2>2
<1> HIDE DEF P, n
<1>4. \A i \in DOMAIN points : P[i] \in [1..n -> Int]
  BY <1>1, <1>2, <1>3
<1>5. \A i \in DOMAIN points : P[i] \in Seq(Int) /\ Len(P[i]) = n
  BY <1>1, <1>4
<1>6. P \in [1..Len(points) -> Seq(Int)]
  BY <1>1, <1>2, <1>5
<1>7. P \in Seq(Seq(Int)) /\ Len(P) = Len(points) /\ P # <<>>
  <2>1. P \in Seq(Seq(Int)) /\ Len(P) = Len(points)
    BY <1>1, <1>6
  <2>2. P # <<>>
    BY <1>1, <2>1
  <2> QED
    BY <2>1, <2>2
<1>8. NumFeatures(P) = n
  BY <1>1, <1>5 DEF NumFeatures
<1> QED
  BY <1>1, <1>2, <1>5, <1>7, <1>8 DEF GoodPoints, Rectangular, P, n

GoodScaling(scaling) ==
    \/ scaling = NoScaling
    \/ /\ scaling \in Scaling /\ scaling.interval[1] < scaling.interval[2]
       /\ \A a \in DOMAIN scaling.factors : scaling.factors[a].feature # 0

LEMMA IntervalIsSome == ASSUME NEW scaling, scaling.interval \in Int \X Int PROVE scaling # NoScaling
<1>1. PICK a \in Int, b \in Int : scaling.interval = <<a, b>>
  OBVIOUS
<1>2. Len(<<a, b>>) = 2
  OBVIOUS
<1>3. <<a, b>> # <<>>
  BY <1>2
<1>4. NoScaling.interval = <<>>
  BY DEF NoScaling
<1> QED
  BY <1>1, <1>3, <1>4

\* The factors that scale a data set.
LEMMA UsedIs ==
    ASSUME NEW points, GoodPoints(points), NEW scaling, GoodScaling(scaling),
           scaling # NoScaling, Scales(points, scaling)
    PROVE  LET used == UsedScaling(points, scaling)
           IN  /\ used \in Scaling /\ used # NoScaling /\ used.interval = scaling.interval
               /\ used = [interval |-> scaling.interval, factors |-> used.factors]
               /\ Apart(used.factors) /\ Len(used.factors) <= NumFeatures(points)
               /\ \A a \in DOMAIN used.factors : used.factors[a].feature \in 1..NumFeatures(points)
               /\ scaling.factors = <<>> => used.factors = Factors(points)
               /\ scaling.factors # <<>> => used.factors # <<>>
<1> DEFINE used == UsedScaling(points, scaling)
           n == NumFeatures(points)
<1>1. scaling \in Scaling /\ \A a \in DOMAIN scaling.factors : scaling.factors[a].feature # 0
  BY DEF GoodScaling
<1>2. /\ scaling = [interval |-> scaling.interval, factors |-> scaling.factors]
      /\ scaling.interval \in Int \X Int /\ scaling.factors \in Seq(FactorRecords)
  BY <1>1 DEF Scaling, FactorRecords
<1>3. n \in Nat
  BY PointsAre
<1>4. CASE scaling.factors = <<>>
  <2>1. used = [scaling EXCEPT !.factors = Factors(points)]
    BY <1>4 DEF UsedScaling
  <2>2. used = [interval |-> scaling.interval, factors |-> Factors(points)]
    BY <1>2, <2>1
  <2>3. used.factors = Factors(points) /\ used.interval = scaling.interval
    BY <2>2
  <2>4. used \in Scaling
    BY <1>2, <2>2, FactorsAre DEF Scaling, FactorRecords
  <2>5. \A a \in DOMAIN Factors(points) : Factors(points)[a].feature \in 1..n
    BY FactorsAre
  <2> HIDE DEF used
  <2>6. used # NoScaling
    BY <1>2, <2>3, IntervalIsSome
  <2> QED
    BY <1>4, <2>2, <2>3, <2>4, <2>5, <2>6, FactorsAre DEF used
<1>5. CASE scaling.factors # <<>>
  <2>1. FactorsFit(scaling.factors, n)
    BY <1>5 DEF Scales
  <2>2. Apart(scaling.factors) /\ Len(scaling.factors) <= n
    BY <2>1 DEF FactorsFit, Apart
  <2>3. used = [scaling EXCEPT !.factors = ByFeature(scaling.factors)]
    BY <1>5 DEF UsedScaling
  <2>4. used = [interval |-> scaling.interval, factors |-> ByFeature(scaling.factors)]
    BY <1>2, <2>3
  <2> DEFINE F == ByFeature(scaling.factors)
  <2>5. used.factors = F /\ used.interval = scaling.interval
    BY <2>4
  <2>6. /\ F \in Seq(FactorRecords) /\ Len(F) = Len(scaling.factors) /\ Apart(F)
        /\ \A b \in DOMAIN F : \E a \in DOMAIN scaling.factors : F[b] = scaling.factors[a]
    BY <1>2, <2>2, ByFeatureIs
  <2> HIDE DEF F
  <2>7. used \in Scaling
    BY <1>2, <2>4, <2>6 DEF Scaling, FactorRecords, F
  <2>8. ASSUME NEW b \in DOMAIN F PROVE F[b].feature \in 1..n
    <3>1. PICK a \in DOMAIN scaling.factors : F[b] = scaling.factors[a]
      BY <2>6
    <3>2. scaling.factors[a] \in FactorRecords
      BY <1>2
    <3>3. scaling.factors[a].feature \in Nat
      BY <3>2 DEF FactorRecords
    <3>4. scaling.factors[a].feature # 0 /\ scaling.factors[a].feature <= n
      BY <1>1, <2>1 DEF FactorsFit
    <3> QED
      BY <1>3, <3>1, <3>3, <3>4
  <2>9. F # <<>>
    <3>1. Len(scaling.factors) # 0
      BY <1>2, <1>5
    <3> QED
      BY <2>6, <3>1
  <2> HIDE DEF used
  <2>10. used # NoScaling
    BY <1>2, <2>5, IntervalIsSome
  <2> QED
    BY <1>5, <2>2, <2>4, <2>5, <2>6, <2>7, <2>8, <2>9, <2>10 DEF used, F
<1> QED
  BY <1>4, <1>5

GoodLabels(labels) == labels \in Seq(Label)

\* A data set as the constructors make it.
GoodSet(s) ==
    /\ GoodPoints(s.raw) /\ GoodLabels(s.labels) /\ GoodScaling(s.given)
    /\ Accepts(s.raw, s.labels, s.given)
    /\ s.given # NoScaling => Finite(s.raw)
    /\ s = Constructed(s.raw, s.labels, s.given)
    /\ Small(s.points)

LEMMA SetIs ==
    ASSUME NEW s, GoodSet(s)
    PROVE  /\ s.given = NoScaling => s.scaling = NoScaling /\ s.points = s.raw
           /\ s.given # NoScaling =>
                /\ s.scaling = UsedScaling(s.raw, s.given)
                /\ s.points = Apply(s.raw, s.scaling.interval, s.scaling.factors)
           /\ s.y = Mapped(s.labels)
           /\ Scales(s.raw, s.given)
           /\ s.is = "set" /\ s # None
<1> DEFINE used == UsedScaling(s.raw, s.given)
           c == [is |-> "set", labels |-> s.labels, y |-> Mapped(s.labels), given |-> s.given,
                 raw |-> s.raw,
                 scaling |-> IF s.given = NoScaling THEN NoScaling ELSE used,
                 points |-> IF s.given = NoScaling THEN s.raw
                            ELSE Apply(s.raw, used.interval, used.factors)]
<1>1. s = c
  BY DEF GoodSet, Constructed
<1>2. /\ c.is = "set" /\ c.y = Mapped(s.labels)
      /\ c.scaling = IF s.given = NoScaling THEN NoScaling ELSE used
      /\ c.points = IF s.given = NoScaling THEN s.raw
                    ELSE Apply(s.raw, used.interval, used.factors)
  OBVIOUS
<1> HIDE DEF c
<1>3. s.is = "set" /\ s # None
  BY <1>1, <1>2 DEF None
<1> QED
  BY <1>1, <1>2, <1>3 DEF GoodSet, Accepts

LEMMA SetPointsGood ==
    ASSUME NEW s, GoodSet(s)
    PROVE  /\ GoodPoints(s.points) /\ Len(s.points) = Len(s.raw)
           /\ NumFeatures(s.points) = NumFeatures(s.raw)
           /\ s.scaling # NoScaling => s.scaling \in Scaling
<1>1. GoodPoints(s.raw) /\ GoodScaling(s.given)
  BY DEF GoodSet
<1>2. CASE s.given = NoScaling
  BY <1>1, <1>2, SetIs
<1>3. CASE s.given # NoScaling
  <2>1. /\ s.scaling \in Scaling /\ Apart(s.scaling.factors)
    BY <1>1, <1>3, SetIs, UsedIs
  <2>2. s.scaling.interval \in Int \X Int /\ s.scaling.factors \in Seq(FactorRecords)
    BY <2>1 DEF Scaling, FactorRecords
  <2> QED
    BY <1>1, <1>3, <2>1, <2>2, SetIs, ApplyTyped
<1> QED
  BY <1>2, <1>3

\* A real_type holds the numbers of few enough features.
LEMMA ReadAgain ==
    ASSUME NEW scaling \in Scaling,
           \A a \in DOMAIN scaling.factors : scaling.factors[a].feature <= MaxExact
    PROVE  ReadFactors(scaling) = scaling
<1>1. /\ scaling = [interval |-> scaling.interval, factors |-> scaling.factors]
      /\ scaling.factors \in Seq(FactorRecords)
  BY DEF Scaling, FactorRecords
<1>2. ASSUME NEW a \in DOMAIN scaling.factors
      PROVE  Factor(AsReal(scaling.factors[a].feature), scaling.factors[a].lower,
                    scaling.factors[a].upper) = scaling.factors[a]
  <2>1. scaling.factors[a] \in FactorRecords
    BY <1>1
  <2>2. AsReal(scaling.factors[a].feature) = scaling.factors[a].feature
    BY DEF AsReal
  <2>3. scaling.factors[a] = [feature |-> scaling.factors[a].feature,
                              lower |-> scaling.factors[a].lower,
                              upper |-> scaling.factors[a].upper]
    BY <2>1 DEF FactorRecords
  <2> QED
    BY <2>2, <2>3 DEF Factor
<1> DEFINE F == [a \in DOMAIN scaling.factors |->
                   Factor(AsReal(scaling.factors[a].feature), scaling.factors[a].lower,
                          scaling.factors[a].upper)]
<1>3. F = scaling.factors
  <2>1. F = [a \in DOMAIN scaling.factors |-> scaling.factors[a]]
    BY <1>2, Zenon
  <2>2. scaling.factors = [a \in DOMAIN scaling.factors |-> scaling.factors[a]]
    BY <1>1
  <2> QED
    BY <2>1, <2>2
<1>4. ReadFactors(scaling) = [scaling EXCEPT !.factors = F]
  BY DEF ReadFactors
<1> HIDE DEF F
<1> QED
  BY <1>1, <1>3, <1>4

LEMMA ScalesAgain ==
    ASSUME NEW s, GoodSet(s), s.scaling # NoScaling, NumFeatures(s.raw) <= MaxExact
    PROVE  LET again == ReadFactors(s.scaling)
           IN  /\ FactorsReadable(s.scaling)
               /\ Scales(s.raw, again)
               /\ Constructed(s.raw, s.labels, again).points = s.points
<1> DEFINE F == s.scaling.factors
           n == NumFeatures(s.raw)
<1>1. /\ GoodPoints(s.raw) /\ GoodScaling(s.given) /\ s.given # NoScaling
      /\ s.scaling = UsedScaling(s.raw, s.given)
      /\ s.points = Apply(s.raw, s.scaling.interval, F)
      /\ Scales(s.raw, s.given)
  BY SetIs DEF GoodSet
<1>2. /\ s.scaling \in Scaling /\ s.scaling.interval = s.given.interval
      /\ Apart(F) /\ Len(F) <= n
      /\ \A a \in DOMAIN F : F[a].feature \in 1..n
      /\ s.given.factors = <<>> => F = Factors(s.raw)
      /\ s.given.factors # <<>> => F # <<>>
  BY <1>1, UsedIs
<1>3. n \in Nat \ {0} /\ n <= MaxExact /\ MaxExact \in Nat
  BY <1>1, PointsAre, BoundsAssumption
<1>4. F \in Seq(FactorRecords)
      /\ s.scaling = [interval |-> s.scaling.interval, factors |-> F]
  BY <1>2 DEF Scaling, FactorRecords
<1> HIDE DEF F, n
<1>5. \A a \in DOMAIN F : F[a].feature <= MaxExact /\ F[a].feature \in Nat \ {0}
                          /\ F[a].feature <= n
  BY <1>2, <1>3
<1>6. ReadFactors(s.scaling) = s.scaling
  BY <1>2, <1>5, ReadAgain DEF F
<1>7. FactorsReadable(s.scaling)
  <2>1. s.given.interval[1] < s.given.interval[2]
    BY <1>1 DEF GoodScaling
  <2>2. \A a \in DOMAIN F : AsReal(F[a].feature) # 0
    BY <1>5 DEF AsReal
  <2> QED
    BY <1>2, <2>1, <2>2 DEF FactorsReadable, F
<1>8. Scales(s.raw, s.scaling)
  BY <1>2, <1>5 DEF Scales, FactorsFit, Apart, F, n
<1>9. UsedScaling(s.raw, s.scaling) =
         [interval |-> s.scaling.interval, factors |-> IF F = <<>> THEN F ELSE ByFeature(F)]
  <2>1. CASE F = <<>>
    <3>1. Factors(s.raw) = <<>>
      BY <1>2, <2>1
    <3>2. UsedScaling(s.raw, s.scaling) = [s.scaling EXCEPT !.factors = Factors(s.raw)]
      BY <2>1 DEF UsedScaling, F
    <3> QED
      BY <1>4, <2>1, <3>1, <3>2
  <2>2. CASE F # <<>>
    <3>1. UsedScaling(s.raw, s.scaling) = [s.scaling EXCEPT !.factors = ByFeature(F)]
      BY <2>2 DEF UsedScaling, F
    <3> QED
      BY <1>4, <2>2, <3>1
  <2> QED
    BY <2>1, <2>2
<1>10. Apply(s.raw, s.scaling.interval, IF F = <<>> THEN F ELSE ByFeature(F)) = s.points
  <2>1. CASE F = <<>>
    BY <1>1, <2>1 DEF F
  <2>2. CASE F # <<>>
    <3>1. /\ Apart(ByFeature(F))
          /\ \A a \in DOMAIN F : \E b \in DOMAIN ByFeature(F) : ByFeature(F)[b] = F[a]
          /\ \A b \in DOMAIN ByFeature(F) : \E a \in DOMAIN F : ByFeature(F)[b] = F[a]
      BY <1>2, <1>4, ByFeatureIs
    <3>2. Apply(s.raw, s.scaling.interval, F) = Apply(s.raw, s.scaling.interval, ByFeature(F))
      BY <1>2, <3>1, ApplySame
    <3> QED
      BY <1>1, <2>2, <3>2 DEF F
  <2> QED
    BY <2>1, <2>2
<1>11. Constructed(s.raw, s.labels, s.scaling).points =
          Apply(s.raw, s.scaling.interval, IF F = <<>> THEN F ELSE ByFeature(F))
  <2> DEFINE used == UsedScaling(s.raw, s.scaling)
  <2>1. used.interval = s.scaling.interval /\ used.factors = IF F = <<>> THEN F ELSE ByFeature(F)
    BY <1>9
  <2>2. Constructed(s.raw, s.labels, s.scaling).points = Apply(s.raw, used.interval, used.factors)
    BY DEF Constructed
  <2> QED
    BY <2>1, <2>2
<1> QED
  BY <1>6, <1>7, <1>8, <1>10, <1>11

LEMMA Shares ==
    ASSUME NEW k \in Nat, NEW width \in Nat \ {0}, NEW d \in 0..width
    PROVE  /\ (k * d) \div width \in 0..k
           /\ d = 0 => (k * d) \div width = 0
           /\ d = width => (k * d) \div width = k
<1> DEFINE p == k * d
           all == k * width
           q == p \div width
           r == p % width
<1>1. p \in Nat /\ all \in Nat /\ p <= all /\ all = width * k
  <2>1. k * (width - d) \in Nat
    OBVIOUS
  <2>2. k * (width - d) = all - p
    OBVIOUS
  <2>3. p \in Nat /\ all \in Nat
    OBVIOUS
  <2>4. all = width * k
    OBVIOUS
  <2> HIDE DEF p, all
  <2> QED
    BY <2>1, <2>2, <2>3, <2>4
<1>2. d = 0 => p = 0
  OBVIOUS
<1>3. d = width => p = all
  OBVIOUS
<1> HIDE DEF p, all
<1>4. q \in Nat /\ r \in 0..(width - 1) /\ p = width * q + r
  BY <1>1
<1> HIDE DEF q, r
<1>5. q <= k
  <2> SUFFICES ASSUME q >= k + 1 PROVE FALSE
    BY <1>4
  <2>1. width * q >= width * (k + 1)
    <3>1. q - (k + 1) \in Nat
      BY <1>4
    <3>2. width * (q - (k + 1)) \in Nat
      BY <3>1
    <3>3. width * (q - (k + 1)) = width * q - width * (k + 1)
      BY <1>4
    <3>4. width * q \in Nat /\ width * (k + 1) \in Nat
      BY <1>4
    <3> QED
      BY <3>2, <3>3, <3>4
  <2>2. width * (k + 1) = all + width
    BY <1>1
  <2>3. width * q \in Nat
    BY <1>4
  <2> QED
    BY <1>1, <1>4, <2>1, <2>2, <2>3
<1>6. p = 0 => q = 0
  <2> SUFFICES ASSUME p = 0, q >= 1 PROVE FALSE
    BY <1>4
  <2>1. width * q >= 1
    <3>1. q \in Nat \ {0}
      BY <1>4
    <3>2. width * q \in Nat \ {0}
      BY <3>1
    <3> QED
      BY <3>2
  <2>2. width * q \in Nat
    BY <1>4
  <2> QED
    BY <1>4, <2>1, <2>2
<1>7. p = all => q = k
  <2> SUFFICES ASSUME p = all, q + 1 <= k PROVE FALSE
    BY <1>4, <1>5
  <2>1. width * (k - (q + 1)) \in Nat
    <3>1. k - (q + 1) \in Nat
      BY <1>4
    <3> QED
      BY <3>1
  <2>2. width * (k - (q + 1)) = width * k - width * q - width
    BY <1>4
  <2>3. width * q \in Nat /\ width * k \in Nat
    BY <1>4
  <2> QED
    BY <1>1, <1>4, <2>1, <2>2, <2>3
<1> QED
  BY <1>2, <1>3, <1>4, <1>5, <1>6, <1>7 DEF q, p

\* A feature with two values or more goes to the whole interval.
LEMMA ScaledValues ==
    ASSUME NEW interval \in Int \X Int, interval[1] < interval[2],
           NEW factor \in FactorRecords, factor.lower < factor.upper,
           NotFinite \notin {factor.lower, factor.upper},
           NEW x \in factor.lower..factor.upper
    PROVE  /\ ScaledValue(x, interval, factor) \in interval[1]..interval[2]
           /\ x = factor.lower => ScaledValue(x, interval, factor) = interval[1]
           /\ x = factor.upper => ScaledValue(x, interval, factor) = interval[2]
<1> DEFINE width == factor.upper - factor.lower
           d == x - factor.lower
           k == interval[2] - interval[1]
           q == (k * d) \div width
<1>1. /\ interval[1] \in Int /\ interval[2] \in Int
      /\ factor.lower \in Int /\ factor.upper \in Int
  BY DEF FactorRecords
<1>2. /\ width \in Nat \ {0} /\ width > 0 /\ d \in 0..width /\ k \in Nat
      /\ (x = factor.lower => d = 0) /\ (x = factor.upper => d = width)
  BY <1>1
<1>3. ScaledValue(x, interval, factor) = interval[1] + q
  <2>1. ~(factor.lower = factor.upper \/ NotFinite \in {factor.lower, factor.upper})
    BY <1>1
  <2> QED
    BY <1>2, <2>1, Zenon DEF ScaledValue
<1>4. q \in 0..k /\ (d = 0 => q = 0) /\ (d = width => q = k)
  <2> HIDE DEF width, d, k
  <2> QED
    BY <1>2, Shares
<1> HIDE DEF q
<1> QED
  BY <1>1, <1>2, <1>3, <1>4

LEMMA ScaledRange ==
    ASSUME NEW s, GoodSet(s), s.scaling # NoScaling, s.given.factors = <<>>,
           NEW f \in 1..NumFeatures(s.points)
    PROVE  LET before == Column(s.raw, f)
               after == Column(s.points, f)
           IN  IF before = {0} THEN after = {0}
               ELSE IF Cardinality(before) = 1 THEN after = {NotFinite}
               ELSE /\ Min(after) = s.scaling.interval[1]
                    /\ Max(after) = s.scaling.interval[2]
<1> DEFINE F == Factors(s.raw)
           interval == s.scaling.interval
           before == Column(s.raw, f)
           after == Column(s.points, f)
           lower == Min(before)
           upper == Max(before)
           factor == Factor(f, lower, upper)
<1>1. /\ GoodPoints(s.raw) /\ GoodScaling(s.given) /\ s.given # NoScaling
      /\ s.scaling = UsedScaling(s.raw, s.given)
      /\ s.points = Apply(s.raw, interval, s.scaling.factors)
      /\ Scales(s.raw, s.given) /\ Finite(s.raw)
  BY SetIs DEF GoodSet
<1>2. /\ interval = s.given.interval /\ s.scaling.factors = F /\ interval \in Int \X Int
      /\ interval[1] < interval[2]
  <2> DEFINE used == UsedScaling(s.raw, s.given)
  <2>1. used.interval = s.given.interval /\ used.factors = Factors(s.raw)
    BY <1>1, UsedIs
  <2>2. s.given \in Scaling /\ s.given.interval[1] < s.given.interval[2]
    BY <1>1 DEF GoodScaling
  <2>3. s.given.interval \in Int \X Int
    BY <2>2 DEF Scaling
  <2> HIDE DEF used
  <2>4. interval = s.given.interval /\ s.scaling.factors = F
    <3>1. s.scaling = used
      BY <1>1 DEF used
    <3> QED
      BY <2>1, <3>1
  <2> HIDE DEF interval, F
  <2> QED
    BY <2>2, <2>3, <2>4
<1>3. f \in 1..NumFeatures(s.raw)
  BY SetPointsGood
<1>4. /\ lower \in before /\ upper \in before /\ lower \in Int /\ upper \in Int
      /\ \A x \in before : x \in Int /\ lower <= x /\ x <= upper
      /\ IsFiniteSet(before) /\ before # {}
  BY <1>1, <1>3, ColumnIs
<1>5. /\ DOMAIN s.points = DOMAIN s.raw
      /\ \A i \in DOMAIN s.raw : DOMAIN s.raw[i] = 1..NumFeatures(s.raw)
  BY <1>1, PointsAre DEF Apply
<1>6. NotFinite \notin before
  BY <1>1, <1>3, <1>5 DEF Finite, ToSet, Column
<1>7. Apart(F)
  BY <1>1, FactorsAre
<1>8. ASSUME \A a \in DOMAIN F : F[a].feature # f
      PROVE  after = before
  <2>1. ASSUME NEW i \in DOMAIN s.raw PROVE s.points[i][f] = s.raw[i][f]
    <3>1. f \in DOMAIN s.raw[i]
      BY <1>3, <1>5
    <3>2. s.points = Apply(s.raw, interval, F)
      BY <1>1, <1>2
    <3> HIDE DEF F, interval
    <3> QED
      BY <1>7, <1>8, <3>1, <3>2, ApplyIs
  <2> QED
    BY <1>5, <2>1 DEF Column
<1>9. ASSUME NEW a \in DOMAIN F, F[a].feature = f
      PROVE  after = {ScaledValue(x, interval, factor) : x \in before}
  <2>1. F[a] = factor
    BY <1>1, <1>9, FactorsAre
  <2>2. ASSUME NEW i \in DOMAIN s.raw
        PROVE  s.points[i][f] = ScaledValue(s.raw[i][f], interval, factor)
    <3>1. f \in DOMAIN s.raw[i]
      BY <1>3, <1>5
    <3>2. s.points = Apply(s.raw, interval, F)
      BY <1>1, <1>2
    <3> HIDE DEF F, interval, factor
    <3> QED
      BY <1>7, <1>9, <2>1, <3>1, <3>2, ApplyIs
  <2> HIDE DEF factor
  <2>3. after = {s.points[i][f] : i \in DOMAIN s.raw}
    BY <1>5 DEF Column
  <2>4. before = {s.raw[i][f] : i \in DOMAIN s.raw}
    BY DEF Column
  <2> HIDE DEF after, before
  <2> QED
    BY <2>2, <2>3, <2>4
<1>10. (\E a \in DOMAIN F : F[a].feature = f) <=> ~(lower = 0 /\ upper = 0)
  BY <1>1, <1>3, FactorsAre
<1> HIDE DEF F, before, after, lower, upper
<1>11. CASE before = {0}
  <2>1. lower = 0 /\ upper = 0
    BY <1>4, <1>11
  <2>2. after = before
    BY <1>8, <1>10, <2>1
  <2> QED
    BY <1>11, <2>2 DEF before, after
<1>12. CASE before # {0}
  <2>1. ~(lower = 0 /\ upper = 0)
    <3> SUFFICES ASSUME lower = 0, upper = 0 PROVE FALSE
      OBVIOUS
    <3>1. \A x \in before : x = 0
      BY <1>4
    <3> QED
      BY <1>4, <1>12, <3>1
  <2>2. after = {ScaledValue(x, interval, factor) : x \in before}
    BY <1>9, <1>10, <2>1
  <2>3. CASE lower = upper
    <3>1. \A x \in before : x = lower
      BY <1>4, <2>3
    <3>2. before = {lower}
      BY <1>4, <3>1
    <3>3. Cardinality(before) = 1
      BY <3>2, FS_Singleton
    <3>4. factor.lower = lower /\ factor.upper = upper
      BY DEF Factor
    <3> HIDE DEF factor
    <3>5. \A x : ScaledValue(x, interval, factor) = NotFinite
      BY <2>3, <3>4 DEF ScaledValue
    <3>6. after = {NotFinite}
      BY <2>2, <3>2, <3>5
    <3> QED
      BY <1>12, <3>3, <3>6 DEF before, after
  <2>4. CASE lower # upper
    <3>1. lower < upper
      BY <1>4, <2>4
    <3>2. Cardinality(before) # 1
      BY <1>4, <2>4, FS_Singleton
    <3>3. /\ factor \in FactorRecords
          /\ factor.lower = lower /\ factor.upper = upper
      BY <1>4 DEF Factor, FactorRecords
    <3> HIDE DEF factor
    <3>4. ASSUME NEW x \in before
          PROVE  /\ ScaledValue(x, interval, factor) \in interval[1]..interval[2]
                 /\ x = lower => ScaledValue(x, interval, factor) = interval[1]
                 /\ x = upper => ScaledValue(x, interval, factor) = interval[2]
      <4>1. x \in factor.lower..factor.upper
        BY <1>4, <3>3
      <4>2. NotFinite \notin {factor.lower, factor.upper} /\ factor.lower < factor.upper
        BY <1>4, <1>6, <3>1, <3>3
      <4>3. interval \in Int \X Int /\ interval[1] < interval[2]
        BY <1>2
      <4> HIDE DEF interval
      <4> QED
        BY <3>3, <4>1, <4>2, <4>3, ScaledValues
    <3>5. /\ after \subseteq Int /\ interval[1] \in after /\ interval[2] \in after
          /\ \A v \in after : interval[1] <= v /\ v <= interval[2]
      <4>1. interval[1] \in Int /\ interval[2] \in Int
        BY <1>2
      <4>2. interval[1] \in after /\ interval[2] \in after
        BY <1>4, <2>2, <3>4
      <4>3. \A v \in after : v \in interval[1]..interval[2]
        BY <2>2, <3>4
      <4> HIDE DEF interval
      <4> QED
        BY <4>1, <4>2, <4>3
    <3> HIDE DEF interval
    <3>6. Min(after) = interval[1] /\ Max(after) = interval[2]
      BY <3>5, ExtremesAre
    <3> QED
      BY <1>12, <3>2, <3>6 DEF before, after, interval
  <2> QED
    BY <2>3, <2>4
<1> QED
  BY <1>11, <1>12

----------------------------------------------------------------------------
(* Reading LIBSVM files.                                                   *)

LEMMA PickedIs ==
    ASSUME NEW T, NEW s \in Seq(T), NEW S \in SUBSET DOMAIN s
    PROVE  /\ Picked(s, S) \in Seq(T) /\ Len(Picked(s, S)) = Cardinality(S)
           /\ Cardinality(S) \in Nat
           /\ DOMAIN Picked(s, S) = 1..Cardinality(S)
           /\ \A n \in 1..Cardinality(S) :
                Sorted(S)[n] \in S /\ Picked(s, S)[n] = s[Sorted(S)[n]]
           /\ \A k \in S : \E n \in 1..Cardinality(S) : Sorted(S)[n] = k
<1>1. DOMAIN s = 1..Len(s) /\ Len(s) \in Nat /\ \A k \in DOMAIN s : s[k] \in T
  OBVIOUS
<1>2. IsFiniteSet(DOMAIN s)
  BY <1>1, FS_Interval
<1>3. IsFiniteSet(S) /\ S \subseteq Int
  BY <1>1, <1>2, FS_Subset
<1>4. /\ Cardinality(S) \in Nat
      /\ \A n \in 1..Cardinality(S) : Sorted(S)[n] \in S
      /\ \A k \in S : \E n \in 1..Cardinality(S) : Sorted(S)[n] = k
  BY <1>3, SortedIs
<1>5. Picked(s, S) = [n \in 1..Cardinality(S) |-> s[Sorted(S)[n]]]
  BY DEF Picked
<1>6. Picked(s, S) \in [1..Cardinality(S) -> T]
  BY <1>1, <1>4, <1>5
<1>7. Picked(s, S) \in Seq(T) /\ Len(Picked(s, S)) = Cardinality(S)
  BY <1>4, <1>6
<1> QED
  BY <1>4, <1>5, <1>7

EntryRecords == [index : Nat \cup {Unreadable}, value : Int]
LineRecords == [label : Int, entries : EntryLists]

KeptLines(f) == {i \in DOMAIN f.lines : f.lines[i].label # NoLabel \/ f.lines[i].entries # <<>>}

LEMMA LinesAre ==
    ASSUME NEW f \in LibsvmFiles
    PROVE  /\ f.lines \in Seq(LineRecords) /\ f.format = "libsvm"
           /\ LibsvmLines(f) \in Seq(LineRecords)
           /\ Len(LibsvmLines(f)) = Cardinality(KeptLines(f))
           /\ \A n \in DOMAIN LibsvmLines(f) : \E i \in KeptLines(f) : LibsvmLines(f)[n] = f.lines[i]
           /\ \A i \in KeptLines(f) : \E n \in DOMAIN LibsvmLines(f) : LibsvmLines(f)[n] = f.lines[i]
<1>1. f.lines \in Seq(LineRecords) /\ f.format = "libsvm"
  BY DEF LibsvmFiles, LineRecords
<1>2. LibsvmLines(f) = Picked(f.lines, KeptLines(f))
  BY DEF LibsvmLines, KeptLines
<1>3. KeptLines(f) \in SUBSET DOMAIN f.lines
  BY DEF KeptLines
<1> QED
  BY <1>1, <1>2, <1>3, PickedIs

\* A line as its format asks for.
LineGood(line) ==
    /\ line.label # Unreadable
    /\ \A k \in DOMAIN line.entries :
         line.entries[k].value # Unreadable /\ line.entries[k].index > 0
    /\ \A a, b \in DOMAIN line.entries : a < b => line.entries[a].index < line.entries[b].index

LEMMA LineIs ==
    ASSUME NEW line \in LineRecords
    PROVE  /\ line.label \in Int /\ line.entries \in Seq(EntryRecords)
           /\ Len(line.entries) \in Nat /\ DOMAIN line.entries = 1..Len(line.entries)
           /\ \A k \in DOMAIN line.entries :
                /\ line.entries[k].index \in Nat \cup {Unreadable}
                /\ line.entries[k].index \in Int
                /\ line.entries[k].value \in Int
<1>1. line.label \in Int /\ line.entries \in Seq(EntryRecords)
  BY DEF LineRecords, EntryLists, EntryRecords
<1>2. /\ Len(line.entries) \in Nat /\ DOMAIN line.entries = 1..Len(line.entries)
      /\ \A k \in DOMAIN line.entries : line.entries[k] \in EntryRecords
  BY <1>1
<1>3. \A e \in EntryRecords : e.index \in Nat \cup {Unreadable} /\ e.value \in Int
  BY DEF EntryRecords
<1>4. Unreadable \in Int
  BY DEF Unreadable
<1> QED
  BY <1>1, <1>2, <1>3, <1>4

LEMMA LineFails ==
    ASSUME NEW line \in LineRecords
    PROVE  LibsvmLineFails(line) <=> ~LineGood(line)
<1> DEFINE n == Len(line.entries)
           s == [k \in 1..n |-> line.entries[k].index]
<1>1. /\ n \in Nat /\ DOMAIN line.entries = 1..n
      /\ \A k \in 1..n : s[k] \in Nat \cup {Unreadable} /\ s[k] = line.entries[k].index
  BY LineIs
<1>2. Unreadable \in Int /\ Unreadable < 0
  BY DEF Unreadable
<1> HIDE DEF n, s
<1>3. ASSUME ~LibsvmLineFails(line) PROVE LineGood(line)
  <2>1. /\ line.label # Unreadable
        /\ \A k \in 1..n : ~EntryFails(line, k)
    BY <1>1, <1>3 DEF LibsvmLineFails
  <2>2. ASSUME NEW k \in 1..n
        PROVE  /\ s[k] # Unreadable /\ s[k] # 0 /\ line.entries[k].value # Unreadable
               /\ ~(k > 1 /\ line.entries[k - 1].index >= s[k])
    BY <1>1, <2>1 DEF EntryFails, Readable
  <2>3. \A k \in 1..n : s[k] \in Nat /\ s[k] > 0 /\ s[k] \in Int
    BY <1>1, <2>2
  <2>4. ASSUME NEW k \in 2..n PROVE s[k - 1] < s[k]
    <3>1. k \in 1..n /\ k - 1 \in 1..n /\ k > 1
      BY <1>1
    <3>2. ~(s[k - 1] >= s[k])
      BY <1>1, <2>2, <3>1
    <3> QED
      BY <2>3, <3>1, <3>2
  <2>5. \A a, b \in 1..n : a < b => s[a] < s[b]
    BY <1>1, <2>3, <2>4, IncreasesByOne
  <2> QED
    BY <1>1, <2>1, <2>2, <2>3, <2>5 DEF LineGood
<1>4. ASSUME LineGood(line), LibsvmLineFails(line) PROVE FALSE
  <2>1. PICK k \in 1..n : EntryFails(line, k)
    BY <1>1, <1>4 DEF LineGood, LibsvmLineFails
  <2>2. s[k] > 0 /\ line.entries[k].value # Unreadable
    BY <1>1, <1>4 DEF LineGood
  <2>3. s[k] # Unreadable /\ s[k] # 0
    BY <1>1, <1>2, <2>2
  <2>4. k > 1 /\ line.entries[k - 1].index >= s[k]
    BY <1>1, <2>1, <2>2, <2>3 DEF EntryFails, Readable
  <2>5. k - 1 \in 1..n /\ k - 1 < k
    BY <1>1, <2>4
  <2>6. s[k - 1] < s[k] /\ s[k - 1] >= s[k]
    BY <1>1, <1>4, <2>4, <2>5 DEF LineGood
  <2>7. s[k - 1] \in Int /\ s[k] \in Int
    BY <1>1, <1>2, <2>5
  <2> QED
    BY <2>6, <2>7
<1> QED
  BY <1>3, <1>4

\* The last index of a good line is its greatest.
LEMMA LastIndexIs ==
    ASSUME NEW line \in LineRecords, LineGood(line)
    PROVE  /\ LastIndex(line) \in Nat
           /\ \A k \in DOMAIN line.entries : line.entries[k].index <= LastIndex(line)
           /\ LastIndex(line) = 0 \/ \E k \in DOMAIN line.entries :
                                        line.entries[k].index = LastIndex(line)
<1> DEFINE n == Len(line.entries)
<1>1. /\ n \in Nat /\ DOMAIN line.entries = 1..n /\ line.entries \in Seq(EntryRecords)
      /\ \A k \in 1..n : line.entries[k].index \in Int
  BY LineIs
<1>2. CASE line.entries = <<>>
  BY <1>2 DEF LastIndex
<1>3. CASE line.entries # <<>>
  <2>1. n # 0
    BY <1>1, <1>3
  <2>2. Last(line.entries) = line.entries[n]
    BY DEF Last
  <2> HIDE DEF n
  <2>3. n \in 1..n
    BY <1>1, <2>1
  <2>4. LastIndex(line) = line.entries[n].index
    BY <1>3, <2>2 DEF LastIndex
  <2>5. line.entries[n].index > 0 /\ line.entries[n].index \in Int
    BY <1>1, <2>3 DEF LineGood
  <2>6. ASSUME NEW k \in 1..n PROVE line.entries[k].index <= line.entries[n].index
    <3>1. k = n \/ k < n
      BY <1>1
    <3>2. k < n => line.entries[k].index < line.entries[n].index
      BY <1>1, <2>3 DEF LineGood
    <3>3. line.entries[k].index \in Int /\ line.entries[n].index \in Int
      BY <1>1, <2>3
    <3> QED
      BY <3>1, <3>2, <3>3
  <2>7. LastIndex(line) \in Nat
    BY <2>4, <2>5
  <2> QED
    BY <1>1, <2>3, <2>4, <2>6, <2>7
<1> QED
  BY <1>2, <1>3

AllIndices(lines) == UNION {ToSet(Indices(lines[i])) : i \in DOMAIN lines}

LEMMA AllIndicesAre ==
    ASSUME NEW lines
    PROVE  \A x : x \in AllIndices(lines) <=>
                \E i \in DOMAIN lines : \E k \in DOMAIN lines[i].entries :
                    x = lines[i].entries[k].index
<1>1. ASSUME NEW i \in DOMAIN lines, NEW x
      PROVE  x \in ToSet(Indices(lines[i])) <=>
                \E k \in DOMAIN lines[i].entries : x = lines[i].entries[k].index
  <2> DEFINE s == Indices(lines[i])
  <2>1. DOMAIN s = DOMAIN lines[i].entries
    BY DEF Indices
  <2>2. \A k \in DOMAIN lines[i].entries : s[k] = lines[i].entries[k].index
    BY DEF Indices
  <2> HIDE DEF s
  <2>3. x \in ToSet(s) <=> \E k \in DOMAIN s : x = s[k]
    BY DEF ToSet
  <2> QED
    BY <2>1, <2>2, <2>3 DEF s
<1>2. \A x : x \in AllIndices(lines) <=> \E i \in DOMAIN lines : x \in ToSet(Indices(lines[i]))
  BY DEF AllIndices
<1> QED
  BY <1>1, <1>2

\* The number of features is the greatest index of the file.
LEMMA FeaturesAre ==
    ASSUME NEW lines \in Seq(LineRecords), \A i \in DOMAIN lines : LineGood(lines[i])
    PROVE  /\ LibsvmFeatures(lines) \in Nat
           /\ \A x \in AllIndices(lines) : x \in Nat /\ 0 < x /\ x <= LibsvmFeatures(lines)
           /\ LibsvmFeatures(lines) = 0 <=> AllIndices(lines) = {}
           /\ AllIndices(lines) # {} => LibsvmFeatures(lines) = Max(AllIndices(lines))
<1> DEFINE last == [i \in DOMAIN lines |-> LastIndex(lines[i])]
           L == {last[i] : i \in DOMAIN last}
           Z == {0} \cup L
           M == LibsvmFeatures(lines)
           All == AllIndices(lines)
<1>1. DOMAIN lines = 1..Len(lines) /\ Len(lines) \in Nat
      /\ \A i \in DOMAIN lines : lines[i] \in LineRecords
  OBVIOUS
<1>2. \A i \in DOMAIN lines : last[i] \in Nat
  BY <1>1, LastIndexIs
<1>3. IsFiniteSet(DOMAIN last)
  BY <1>1, FS_Interval
<1>4. IsFiniteSet(L)
  <2> HIDE DEF last
  <2> QED
    BY <1>3, ImageFinite
<1>5. IsFiniteSet(Z)
  <2> HIDE DEF L
  <2>1. Z = L \cup {0}
    OBVIOUS
  <2> QED
    BY <1>4, <2>1, FS_AddElement
<1>6. Z \subseteq Nat
  BY <1>2
<1>7. M = Max(Z)
  <2>1. L = {LastIndex(lines[i]) : i \in DOMAIN lines}
    OBVIOUS
  <2> HIDE DEF L
  <2> QED
    BY <2>1 DEF LibsvmFeatures
<1>8. \A i \in DOMAIN lines : last[i] \in Z
  OBVIOUS
<1>9. \A z \in Z : z = 0 \/ \E i \in DOMAIN lines : z = last[i]
  OBVIOUS
<1>10. 0 \in Z
  OBVIOUS
<1> HIDE DEF Z, M
<1>11. Z \subseteq Int
  BY <1>6
<1>12. M \in Z /\ \A z \in Z : z <= M
  BY <1>5, <1>7, <1>10, <1>11, Extremes
<1>13. M \in Nat
  BY <1>6, <1>12
<1> HIDE DEF All
<1>14. ASSUME NEW x \in All PROVE x \in Nat /\ 0 < x /\ x <= M
  <2>1. PICK i \in DOMAIN lines : \E k \in DOMAIN lines[i].entries :
            x = lines[i].entries[k].index
    BY AllIndicesAre DEF All
  <2>2. PICK k \in DOMAIN lines[i].entries : x = lines[i].entries[k].index
    BY <2>1
  <2>3. x \in Int /\ x > 0
    BY <1>1, <2>2, LineIs DEF LineGood
  <2>4. x <= last[i] /\ last[i] \in Nat /\ last[i] <= M
    BY <1>1, <1>2, <1>8, <1>12, <2>2, LastIndexIs
  <2> HIDE DEF last
  <2> QED
    BY <1>13, <2>3, <2>4
<1>15. M # 0 => M \in All
  <2> SUFFICES ASSUME M # 0 PROVE M \in All
    OBVIOUS
  <2>1. PICK i \in DOMAIN lines : M = last[i]
    BY <1>9, <1>12
  <2>2. \E k \in DOMAIN lines[i].entries : lines[i].entries[k].index = M
    BY <1>1, <2>1, LastIndexIs
  <2> QED
    BY <2>2, AllIndicesAre DEF All
<1>16. All # {} => M # 0
  BY <1>13, <1>14
<1>17. All # {} => M = Max(All)
  <2> SUFFICES ASSUME All # {} PROVE M = Max(All)
    OBVIOUS
  <2>1. All \subseteq Int /\ M \in All /\ \A x \in All : x <= M
    BY <1>14, <1>15, <1>16
  <2> QED
    BY <2>1, ExtremesAre
<1> QED
  BY <1>13, <1>14, <1>15, <1>16, <1>17 DEF M, All

----------------------------------------------------------------------------
(* What is read from a file, and written to one.                           *)

\* The values of a point come from the entries of its line.
LEMMA SparseTyped ==
    ASSUME NEW entries, IsFiniteSet(DOMAIN entries), DOMAIN entries \subseteq Int,
           \A k \in DOMAIN entries : entries[k].value \in Int, NEW n \in Nat
    PROVE  SparsePoint(entries, n) \in Seq(Int) /\ Len(SparsePoint(entries, n)) = n
<1> DEFINE At(f) == {k \in DOMAIN entries : entries[k].index = f}
           Value(f) == IF At(f) = {} THEN 0 ELSE entries[Max(At(f))].value
<1>1. SparsePoint(entries, n) = [f \in 1..n |-> Value(f)]
  BY DEF SparsePoint
<1>2. ASSUME NEW f \in 1..n PROVE Value(f) \in Int
  <2>1. At(f) \in SUBSET DOMAIN entries
    OBVIOUS
  <2>2. IsFiniteSet(At(f)) /\ At(f) \subseteq Int
    BY <2>1, FS_Subset
  <2>3. At(f) # {} => Max(At(f)) \in At(f)
    BY <2>2, Extremes
  <2>4. At(f) # {} => Max(At(f)) \in DOMAIN entries
    BY <2>1, <2>3
  <2> HIDE DEF At
  <2> QED
    BY <2>4
<1> HIDE DEF Value
<1>3. [f \in 1..n |-> Value(f)] \in [1..n -> Int]
  BY <1>2
<1> QED
  BY <1>1, <1>3

LEMMA GoodPointsAre ==
    ASSUME NEW points, NEW m \in Nat \ {0}, NEW n \in Nat \ {0}, DOMAIN points = 1..m,
           points = [i \in 1..m |-> points[i]],
           \A i \in 1..m : points[i] \in Seq(Int) /\ Len(points[i]) = n
    PROVE  GoodPoints(points) /\ NumFeatures(points) = n /\ Len(points) = m
<1>1. points \in [1..m -> Seq(Int)]
  OBVIOUS
<1>2. points \in Seq(Seq(Int)) /\ Len(points) = m
  BY <1>1
<1>3. points # <<>>
  BY <1>2
<1>4. 1 \in 1..m
  OBVIOUS
<1>5. NumFeatures(points) = n
  BY <1>4 DEF NumFeatures
<1>6. \A i \in DOMAIN points : Len(points[i]) = NumFeatures(points)
  BY <1>5
<1>7. NumFeatures(points) > 0
  BY <1>5
<1>8. Rectangular(points)
  BY <1>3, <1>6, <1>7 DEF Rectangular
<1> QED
  BY <1>2, <1>5, <1>8 DEF GoodPoints

LEMMA ParsedIs ==
    ASSUME NEW points, NEW labels
    PROVE  /\ Parsed(points, labels).points = points /\ Parsed(points, labels).labels = labels
           /\ Parsed(points, labels) # Error
BY DEF Parsed, Error

\* The condition under which a LIBSVM file is refused.
LibsvmRefused(lines) ==
    \/ LibsvmFeatures(lines) = 0
    \/ \E i \in DOMAIN lines :
         \/ LastIndex(lines[i]) = Unreadable \/ LibsvmLineFails(lines[i])
         \/ SomeUnlabelled(lines) /\ lines[i].label # NoLabel

LEMMA ParseLibsvmIs ==
    ASSUME NEW f
    PROVE  LET lines == LibsvmLines(f)
           IN  /\ LibsvmRefused(lines) => ParseLibsvm(f) = Error
               /\ ~LibsvmRefused(lines) =>
                    ParseLibsvm(f) =
                        Parsed([i \in DOMAIN lines |->
                                  SparsePoint(lines[i].entries, LibsvmFeatures(lines))],
                               IF SomeUnlabelled(lines) THEN NoLabels
                               ELSE [i \in DOMAIN lines |-> lines[i].label])
BY Zenon DEF ParseLibsvm, LibsvmRefused

LEMMA LibsvmTyped ==
    ASSUME NEW f \in LibsvmFiles, ParseLibsvm(f) # Error
    PROVE  GoodPoints(ParseLibsvm(f).points) /\ GoodLabels(ParseLibsvm(f).labels)
<1> DEFINE lines == LibsvmLines(f)
           n == LibsvmFeatures(lines)
           points == [i \in DOMAIN lines |-> SparsePoint(lines[i].entries, n)]
           given == [i \in DOMAIN lines |-> lines[i].label]
           labels == IF SomeUnlabelled(lines) THEN NoLabels ELSE given
<1>1. ~LibsvmRefused(lines) /\ ParseLibsvm(f) = Parsed(points, labels)
  BY ParseLibsvmIs
<1>2. lines \in Seq(LineRecords)
  BY LinesAre
<1> HIDE DEF lines
<1>3. /\ n # 0
      /\ \A i \in DOMAIN lines : ~LibsvmLineFails(lines[i])
  BY <1>1 DEF LibsvmRefused
<1>4. /\ DOMAIN lines = 1..Len(lines) /\ Len(lines) \in Nat
      /\ \A i \in DOMAIN lines : lines[i] \in LineRecords
  BY <1>2
<1>5. \A i \in DOMAIN lines : LineGood(lines[i])
  BY <1>3, <1>4, LineFails
<1>6. n \in Nat /\ AllIndices(lines) # {}
  BY <1>2, <1>3, <1>5, FeaturesAre
<1>7. Len(lines) # 0
  <2>1. \E i \in DOMAIN lines : TRUE
    BY <1>6, AllIndicesAre
  <2> QED
    BY <1>4, <2>1
<1>8. \A i \in DOMAIN lines :
         SparsePoint(lines[i].entries, n) \in Seq(Int)
         /\ Len(SparsePoint(lines[i].entries, n)) = n
  <2> TAKE i \in DOMAIN lines
  <2> DEFINE entries == lines[i].entries
  <2>1. /\ Len(entries) \in Nat /\ DOMAIN entries = 1..Len(entries)
        /\ \A k \in DOMAIN entries : entries[k].value \in Int
    BY <1>4, LineIs
  <2> HIDE DEF entries, n
  <2>2. IsFiniteSet(DOMAIN entries) /\ DOMAIN entries \subseteq Int
    BY <2>1, FS_Interval
  <2>3. SparsePoint(entries, n) \in Seq(Int) /\ Len(SparsePoint(entries, n)) = n
    BY <1>6, <2>1, <2>2, SparseTyped
  <2> QED
    BY <2>3 DEF entries
<1>9. GoodPoints(points)
  <2> HIDE DEF n
  <2>1. /\ DOMAIN points = 1..Len(lines)
        /\ \A i \in DOMAIN lines : points[i] = SparsePoint(lines[i].entries, n)
    BY <1>4
  <2>2. points = [i \in 1..Len(lines) |-> points[i]]
    BY <1>4
  <2> HIDE DEF points
  <2>3. \A i \in 1..Len(lines) : points[i] \in Seq(Int) /\ Len(points[i]) = n
    BY <1>4, <1>8, <2>1
  <2>4. Len(lines) \in Nat \ {0} /\ n \in Nat \ {0}
    BY <1>3, <1>4, <1>6, <1>7
  <2> QED
    BY <2>1, <2>2, <2>3, <2>4, GoodPointsAre
<1>10. GoodLabels(labels)
  <2>1. CASE SomeUnlabelled(lines)
    BY <2>1 DEF GoodLabels, NoLabels
  <2>2. CASE ~SomeUnlabelled(lines)
    <3>1. \A i \in DOMAIN lines : lines[i].label \in Label
      BY <1>4, <1>5, <2>2, LineIs DEF SomeUnlabelled, LineGood, Label
    <3>2. given \in [1..Len(lines) -> Label]
      BY <1>4, <3>1
    <3> HIDE DEF given
    <3>3. given \in Seq(Label)
      BY <1>4, <3>2
    <3> QED
      BY <2>2, <3>3 DEF GoodLabels
  <2> QED
    BY <2>1, <2>2
<1> HIDE DEF points, labels
<1> QED
  BY <1>1, <1>9, <1>10, ParsedIs

HeaderRecords == [is : {"relation", "numeric", "class", "unknown"}, labels : Seq(Int \ {NoLabel})]
ArffLines ==
    [is : {"dense"}, tokens : Seq(Int)] \cup [is : {"sparse"}, entries : EntryLists]
    \cup [is : {"broken"}]

\* The entries of an ARFF line, and the feature a number goes to.
EntriesOf(line) ==
    IF line.is = "dense" THEN [k \in DOMAIN line.tokens |-> Entry(k - 1, line.tokens[k])]
    ELSE line.entries

TargetOf(header, line, index) ==
    IF HasLabel(header) /\ index = LabelIndex(header) THEN 0
    ELSE IF line.is = "dense" THEN DenseTarget(header, index)
    ELSE SparseTarget(header, index)

LEMMA ArffPointIs ==
    ASSUME NEW header, NEW line
    PROVE  ArffPoint(header, line) =
             SparsePoint([k \in DOMAIN EntriesOf(line) |->
                            Entry(TargetOf(header, line, EntriesOf(line)[k].index),
                                  EntriesOf(line)[k].value)],
                         Cardinality(Numerics(header)))
BY Zenon DEF ArffPoint, EntriesOf, TargetOf

LEMMA ArffFileIs ==
    ASSUME NEW f \in ArffFiles
    PROVE  /\ f.format = "arff"
           /\ f.header \in Seq(HeaderRecords) /\ f.lines \in Seq(ArffLines)
           /\ Len(f.header) \in Nat /\ DOMAIN f.header = 1..Len(f.header)
           /\ \A k \in DOMAIN f.header : f.header[k] \in HeaderRecords
           /\ Len(f.lines) \in Nat /\ DOMAIN f.lines = 1..Len(f.lines)
           /\ \A i \in DOMAIN f.lines : f.lines[i] \in ArffLines
<1>1. f.format = "arff" /\ f.header \in Seq(HeaderRecords) /\ f.lines \in Seq(ArffLines)
  BY DEF ArffFiles, HeaderRecords, ArffLines
<1> QED
  BY <1>1

LEMMA HeaderIs ==
    ASSUME NEW header \in Seq(HeaderRecords)
    PROVE  /\ IsFiniteSet(Numerics(header)) /\ Cardinality(Numerics(header)) \in Nat
           /\ Numerics(header) # {} => Cardinality(Numerics(header)) # 0
           /\ Numerics(header) \subseteq 1..Len(header)
           /\ IsFiniteSet(ClassesOf(header)) /\ Cardinality(ClassesOf(header)) \in Nat
           /\ ClassesOf(header) \subseteq 1..Len(header)
           /\ LabelIndex(header) \in Nat
<1>1. DOMAIN header = 1..Len(header) /\ Len(header) \in Nat
  OBVIOUS
<1>2. IsFiniteSet(DOMAIN header)
  BY <1>1, FS_Interval
<1> DEFINE Before == {k \in Numerics(header) : \A c \in ClassesOf(header) : k < c}
<1>3. /\ Numerics(header) \in SUBSET DOMAIN header
      /\ ClassesOf(header) \in SUBSET DOMAIN header
      /\ Before \in SUBSET DOMAIN header
  BY DEF Numerics, ClassesOf
<1>4. LabelIndex(header) = Cardinality(Before)
  BY DEF LabelIndex
<1> HIDE DEF Before
<1>5. IsFiniteSet(Numerics(header)) /\ IsFiniteSet(ClassesOf(header)) /\ IsFiniteSet(Before)
  BY <1>2, <1>3, FS_Subset
<1> QED
  BY <1>1, <1>3, <1>4, <1>5, FS_CardinalityType, FS_EmptySet

LEMMA EntriesAre ==
    ASSUME NEW line \in ArffLines, line.is # "broken"
    PROVE  /\ EntriesOf(line) \in Seq([index : Nat \cup {Unreadable}, value : Int])
           /\ Len(EntriesOf(line)) \in Nat /\ DOMAIN EntriesOf(line) = 1..Len(EntriesOf(line))
           /\ \A k \in DOMAIN EntriesOf(line) :
                /\ EntriesOf(line)[k].index \in Nat \cup {Unreadable}
                /\ EntriesOf(line)[k].index \in Int
                /\ EntriesOf(line)[k].value \in Int
           /\ line.is = "dense" =>
                /\ line.tokens \in Seq(Int) /\ Len(EntriesOf(line)) = Len(line.tokens)
                /\ \A k \in DOMAIN EntriesOf(line) :
                     EntriesOf(line)[k].index = k - 1 /\ EntriesOf(line)[k].value = line.tokens[k]
           /\ line.is # "dense" => line.is = "sparse" /\ EntriesOf(line) = line.entries
<1> DEFINE E == EntriesOf(line)
           R == [index : Nat \cup {Unreadable}, value : Int]
<1>0. \A e \in R : e.index \in Nat \cup {Unreadable} /\ e.index \in Int /\ e.value \in Int
  BY DEF Unreadable
<1>1. CASE line.is = "dense"
  <2>1. line.tokens \in Seq(Int)
    BY <1>1 DEF ArffLines
  <2>2. E = [k \in DOMAIN line.tokens |-> Entry(k - 1, line.tokens[k])]
    BY <1>1 DEF EntriesOf
  <2>3. DOMAIN line.tokens = 1..Len(line.tokens) /\ Len(line.tokens) \in Nat
    BY <2>1
  <2>4. \A k \in DOMAIN line.tokens :
           /\ k - 1 \in Nat /\ line.tokens[k] \in Int
           /\ Entry(k - 1, line.tokens[k]) \in R
           /\ Entry(k - 1, line.tokens[k]).index = k - 1
           /\ Entry(k - 1, line.tokens[k]).value = line.tokens[k]
    BY <2>1, <2>3 DEF Entry
  <2> HIDE DEF R, E
  <2>5. E \in [1..Len(line.tokens) -> R]
    BY <2>2, <2>3, <2>4
  <2>6. E \in Seq(R) /\ Len(E) = Len(line.tokens)
    BY <2>3, <2>5
  <2>7. \A k \in DOMAIN E : E[k] \in R /\ E[k].index = k - 1 /\ E[k].value = line.tokens[k]
    BY <2>2, <2>3, <2>4
  <2> QED
    BY <1>0, <1>1, <2>1, <2>3, <2>5, <2>6, <2>7 DEF E, R
<1>2. CASE line.is # "dense"
  <2>1. line.is = "sparse" /\ line.entries \in Seq(R)
    BY <1>2 DEF ArffLines, EntryLists
  <2>2. E = line.entries
    BY <1>2 DEF EntriesOf
  <2> HIDE DEF R, E
  <2>3. E \in Seq(R) /\ Len(E) \in Nat /\ DOMAIN E = 1..Len(E) /\ \A k \in DOMAIN E : E[k] \in R
    BY <2>1, <2>2
  <2> QED
    BY <1>0, <1>2, <2>1, <2>2, <2>3 DEF E, R
<1> QED
  BY <1>1, <1>2

\* A label that the header has is one.
LEMMA HeaderLabelsAre ==
    ASSUME NEW f \in ArffFiles, ~HeaderFails(f)
    PROVE  HeaderLabels(f.header) \subseteq Label
<1> SUFFICES ASSUME NEW l \in HeaderLabels(f.header) PROVE l \in Label
  OBVIOUS
<1>1. PICK c \in ClassesOf(f.header) : l \in ToSet(f.header[c].labels)
  BY DEF HeaderLabels
<1>2. c \in DOMAIN f.header /\ f.header[c].is = "class"
  BY <1>1 DEF ClassesOf
<1>3. f.header[c].labels \in Seq(Int \ {NoLabel})
  BY <1>2, ArffFileIs DEF HeaderRecords
<1>4. Unreadable \notin ToSet(f.header[c].labels)
  BY <1>2 DEF HeaderFails
<1>5. PICK k \in DOMAIN f.header[c].labels : l = f.header[c].labels[k]
  BY <1>1 DEF ToSet
<1>6. f.header[c].labels[k] \in Int \ {NoLabel}
  BY <1>3
<1> QED
  BY <1>1, <1>4, <1>5, <1>6 DEF Label

LEMMA ParseArffIs ==
    ASSUME NEW f, ParseArff(f) # Error
    PROVE  /\ ~HeaderFails(f)
           /\ \A i \in DOMAIN f.lines : ~ArffLineFails(f.header, f.lines[i])
           /\ ParseArff(f) =
                Parsed([i \in DOMAIN f.lines |-> ArffPoint(f.header, f.lines[i])],
                       IF HasLabel(f.header)
                       THEN [i \in DOMAIN f.lines |-> ArffLabel(f.header, f.lines[i])]
                       ELSE NoLabels)
BY Zenon DEF ParseArff

LEMMA ArffTyped ==
    ASSUME NEW f \in ArffFiles, ParseArff(f) # Error
    PROVE  GoodPoints(ParseArff(f).points) /\ GoodLabels(ParseArff(f).labels)
<1> DEFINE header == f.header
           lines == f.lines
           n == Cardinality(Numerics(header))
           points == [i \in DOMAIN lines |-> ArffPoint(header, lines[i])]
           given == [i \in DOMAIN lines |-> ArffLabel(header, lines[i])]
           labels == IF HasLabel(header) THEN given ELSE NoLabels
<1>1. /\ ~HeaderFails(f) /\ \A i \in DOMAIN lines : ~ArffLineFails(header, lines[i])
      /\ ParseArff(f) = Parsed(points, labels)
  BY ParseArffIs
<1>2. n \in Nat \ {0}
  BY <1>1, ArffFileIs, HeaderIs DEF HeaderFails
<1>3. Len(lines) \in Nat /\ DOMAIN lines = 1..Len(lines)
      /\ \A i \in DOMAIN lines : lines[i] \in ArffLines
  BY ArffFileIs
<1>4. Len(lines) # 0
  <2>1. lines # <<>>
    BY <1>1 DEF HeaderFails
  <2>2. lines \in Seq(ArffLines)
    BY ArffFileIs
  <2> QED
    BY <2>1, <2>2
<1>5. HeaderLabels(header) \subseteq Label
  BY <1>1, HeaderLabelsAre
<1> HIDE DEF header, lines, n
<1>6. ASSUME NEW i \in DOMAIN lines
      PROVE  ArffPoint(header, lines[i]) \in Seq(Int) /\ Len(ArffPoint(header, lines[i])) = n
  <2> DEFINE line == lines[i]
             E == EntriesOf(line)
             T == [k \in DOMAIN E |-> Entry(TargetOf(header, line, E[k].index), E[k].value)]
  <2>1. line.is # "broken"
    BY <1>1 DEF ArffLineFails
  <2>2. Len(E) \in Nat /\ DOMAIN E = 1..Len(E) /\ \A k \in DOMAIN E : E[k].value \in Int
    BY <1>3, <2>1, EntriesAre
  <2>3. ArffPoint(header, line) = SparsePoint(T, n)
    BY ArffPointIs DEF n
  <2> HIDE DEF E
  <2>4. DOMAIN T = 1..Len(E) /\ \A k \in DOMAIN T : T[k].value \in Int
    BY <2>2 DEF Entry
  <2> HIDE DEF T, line
  <2>5. IsFiniteSet(DOMAIN T) /\ DOMAIN T \subseteq Int
    BY <2>2, <2>4, FS_Interval
  <2>6. SparsePoint(T, n) \in Seq(Int) /\ Len(SparsePoint(T, n)) = n
    BY <1>2, <2>4, <2>5, SparseTyped
  <2> QED
    BY <2>3, <2>6 DEF line
<1>7. GoodPoints(points)
  <2>1. /\ DOMAIN points = 1..Len(lines)
        /\ \A i \in DOMAIN lines : points[i] = ArffPoint(header, lines[i])
    BY <1>3
  <2>2. points = [i \in 1..Len(lines) |-> points[i]]
    BY <1>3
  <2> HIDE DEF points
  <2>3. \A i \in 1..Len(lines) : points[i] \in Seq(Int) /\ Len(points[i]) = n
    BY <1>3, <1>6, <2>1
  <2>4. Len(lines) \in Nat \ {0}
    BY <1>3, <1>4
  <2> QED
    BY <1>2, <2>1, <2>2, <2>3, <2>4, GoodPointsAre
<1>8. GoodLabels(labels)
  <2>1. CASE ~HasLabel(header)
    BY <2>1 DEF GoodLabels, NoLabels
  <2>2. CASE HasLabel(header)
    <3>1. \A i \in DOMAIN lines : ArffLabel(header, lines[i]) \in Label
      BY <1>1, <1>5, <2>2 DEF ArffLineFails, ArffLabelFails
    <3>2. given \in [1..Len(lines) -> Label]
      BY <1>3, <3>1
    <3> HIDE DEF given
    <3>3. given \in Seq(Label)
      BY <1>3, <3>2
    <3> QED
      BY <2>2, <3>3 DEF GoodLabels
  <2> QED
    BY <2>1, <2>2
<1> HIDE DEF points, labels
<1> QED
  BY <1>1, <1>7, <1>8, ParsedIs

LEMMA ParseTyped ==
    ASSUME NEW f \in LibsvmFiles \cup ArffFiles, NEW format \in Formats, Parse(f, format) # Error
    PROVE  GoodPoints(Parse(f, format).points) /\ GoodLabels(Parse(f, format).labels)
<1>1. f.format = format
  BY DEF Parse
<1>2. CASE format = "libsvm"
  <2>1. f \in LibsvmFiles
    BY <1>1, <1>2 DEF ArffFiles
  <2>2. Parse(f, format) = ParseLibsvm(f)
    BY <1>1, <1>2 DEF Parse
  <2> QED
    BY <2>1, <2>2, LibsvmTyped
<1>3. CASE format = "arff"
  <2>1. f \in ArffFiles
    BY <1>1, <1>3 DEF LibsvmFiles
  <2>2. Parse(f, format) = ParseArff(f)
    BY <1>1, <1>3 DEF Parse
  <2> QED
    BY <2>1, <2>2, ArffTyped
<1> QED
  BY <1>2, <1>3 DEF Formats

\* A line as it is written: the values that are not zero, in order.
LEMMA LibsvmLineIs ==
    ASSUME NEW own \in Int, NEW point \in Seq(Int)
    PROVE  LET line == LibsvmLine(own, point)
           IN  /\ line \in LineRecords /\ line.label = own
               /\ \A k \in DOMAIN line.entries :
                    /\ line.entries[k].index \in DOMAIN point
                    /\ line.entries[k].value = point[line.entries[k].index]
                    /\ line.entries[k].value # 0
               /\ \A f \in DOMAIN point : point[f] # 0 =>
                    \E k \in DOMAIN line.entries : line.entries[k].index = f
               /\ \A a, b \in DOMAIN line.entries :
                    a < b => line.entries[a].index < line.entries[b].index
<1> DEFINE S == {f \in DOMAIN point : point[f] # 0}
           N == Cardinality(S)
           s == Sorted(S)
           E == [k \in DOMAIN s |-> Entry(s[k], point[s[k]])]
           line == LibsvmLine(own, point)
<1>1. line = [label |-> own, entries |-> E]
  BY DEF LibsvmLine
<1>2. DOMAIN point = 1..Len(point) /\ Len(point) \in Nat /\ \A f \in DOMAIN point : point[f] \in Int
  OBVIOUS
<1>3. IsFiniteSet(S) /\ S \subseteq Int
  <2>1. S \in SUBSET (1..Len(point))
    BY <1>2
  <2> HIDE DEF S
  <2>2. IsFiniteSet(1..Len(point))
    BY <1>2, FS_Interval
  <2>3. 1..Len(point) \subseteq Int
    OBVIOUS
  <2> QED
    BY <2>1, <2>2, <2>3, FS_Subset
<1>4. \A f \in S : f \in DOMAIN point /\ point[f] # 0 /\ point[f] \in Int /\ f \in Nat
  BY <1>2
<1>5. \A f \in DOMAIN point : point[f] # 0 => f \in S
  OBVIOUS
<1> HIDE DEF S
<1>6. /\ N \in Nat /\ DOMAIN s = 1..N
      /\ \A n \in 1..N : s[n] \in S
      /\ \A n, m \in 1..N : n < m => s[n] < s[m]
      /\ \A k \in S : \E n \in 1..N : s[n] = k
  BY <1>3, SortedIs
<1> HIDE DEF s, N
<1>7. \A k \in 1..N : E[k].index = s[k] /\ E[k].value = point[s[k]] /\ E[k] \in EntryRecords
  BY <1>4, <1>6 DEF Entry, EntryRecords
<1>8. DOMAIN E = 1..N
  BY <1>6
<1>9. E \in EntryLists
  <2>1. E = [k \in 1..N |-> E[k]]
    BY <1>6
  <2> HIDE DEF E
  <2>2. E \in [1..N -> EntryRecords]
    BY <1>7, <2>1
  <2> QED
    <3>1. E \in Seq(EntryRecords)
      BY <1>6, <2>2
    <3>2. EntryLists = Seq(EntryRecords)
      BY DEF EntryLists, EntryRecords
    <3> QED
      BY <3>1, <3>2
<1> HIDE DEF E
<1>10. line.label = own /\ line.entries = E /\ line \in LineRecords
  BY <1>1, <1>9 DEF LineRecords
<1> HIDE DEF line
<1>11. /\ \A k \in DOMAIN E : /\ E[k].index \in DOMAIN point
                              /\ E[k].value = point[E[k].index] /\ E[k].value # 0
       /\ \A f \in DOMAIN point : point[f] # 0 => \E k \in DOMAIN E : E[k].index = f
       /\ \A a, b \in DOMAIN E : a < b => E[a].index < E[b].index
  <2>1. ASSUME NEW k \in DOMAIN E
        PROVE  E[k].index \in DOMAIN point /\ E[k].value = point[E[k].index] /\ E[k].value # 0
    <3>1. E[k].index = s[k] /\ E[k].value = point[s[k]] /\ s[k] \in S
      BY <1>6, <1>7, <1>8
    <3> QED
      BY <1>4, <3>1
  <2>2. ASSUME NEW f \in DOMAIN point, point[f] # 0 PROVE \E k \in DOMAIN E : E[k].index = f
    <3>1. PICK k \in 1..N : s[k] = f
      BY <1>5, <1>6, <2>2
    <3> QED
      BY <1>7, <1>8, <3>1
  <2>3. ASSUME NEW a \in DOMAIN E, NEW b \in DOMAIN E, a < b PROVE E[a].index < E[b].index
    <3>1. s[a] < s[b] /\ E[a].index = s[a] /\ E[b].index = s[b]
      BY <1>6, <1>7, <1>8, <2>3
    <3> QED
      BY <3>1
  <2> QED
    BY <2>1, <2>2, <2>3
<1> QED
  BY <1>10, <1>11 DEF line

LEMMA LabelsAre ==
    ASSUME NEW labels, GoodLabels(labels), NEW n \in Nat,
           labels # NoLabels => Len(labels) = n, NEW i \in 1..n
    PROVE  /\ LabelOf(labels, i) \in Int \ {Unreadable}
           /\ labels # NoLabels => LabelOf(labels, i) = labels[i] /\ labels[i] \in Label
           /\ labels # NoLabels => LabelOf(labels, i) # NoLabel
           /\ labels = NoLabels => LabelOf(labels, i) = NoLabel
<1>1. labels # NoLabels => labels[i] \in Label
  BY DEF GoodLabels
<1> QED
  BY <1>1 DEF LabelOf, Label, NoLabel, Unreadable

LEMMA WriteLibsvmTyped ==
    ASSUME NEW points, GoodPoints(points), NEW labels, GoodLabels(labels),
           labels # NoLabels => Len(labels) = Len(points), NEW order \in Orders(Len(points))
    PROVE  /\ WriteLibsvm(points, labels, order) \in LibsvmFiles
           /\ Len(WriteLibsvm(points, labels, order).lines) = Len(points)
           /\ DOMAIN WriteLibsvm(points, labels, order).lines = 1..Len(points)
           /\ \A a \in 1..Len(points) :
                /\ order[a] \in 1..Len(points) /\ points[order[a]] \in Seq(Int)
                /\ LabelOf(labels, order[a]) \in Int
                /\ WriteLibsvm(points, labels, order).lines[a] =
                        LibsvmLine(LabelOf(labels, order[a]), points[order[a]])
<1> DEFINE n == Len(points)
           L == [a \in DOMAIN order |-> LibsvmLine(LabelOf(labels, order[a]), points[order[a]])]
<1>1. n \in Nat /\ DOMAIN points = 1..n /\ \A i \in DOMAIN points : points[i] \in Seq(Int)
  BY PointsAre
<1>2. order \in [1..n -> 1..n]
  BY DEF Orders
<1>3. WriteLibsvm(points, labels, order) = [format |-> "libsvm", lines |-> L]
  BY DEF WriteLibsvm
<1> HIDE DEF n
<1>4. ASSUME NEW a \in 1..n
      PROVE  /\ order[a] \in 1..n /\ points[order[a]] \in Seq(Int)
             /\ LabelOf(labels, order[a]) \in Int /\ L[a] \in LineRecords
             /\ L[a] = LibsvmLine(LabelOf(labels, order[a]), points[order[a]])
  <2>1. order[a] \in 1..n /\ points[order[a]] \in Seq(Int)
    BY <1>1, <1>2
  <2>2. LabelOf(labels, order[a]) \in Int
    BY <1>1, <2>1, LabelsAre DEF n
  <2>3. L[a] = LibsvmLine(LabelOf(labels, order[a]), points[order[a]])
    BY <1>2
  <2> HIDE DEF L
  <2> QED
    BY <2>1, <2>2, <2>3, LibsvmLineIs
<1>5. DOMAIN L = 1..n /\ L = [a \in 1..n |-> L[a]]
  BY <1>2
<1> HIDE DEF L
<1>6. L \in Seq(LineRecords) /\ Len(L) = n
  <2>1. L \in [1..n -> LineRecords]
    BY <1>4, <1>5
  <2> QED
    BY <1>1, <2>1
<1>7. WriteLibsvm(points, labels, order) \in LibsvmFiles
  BY <1>3, <1>6 DEF LibsvmFiles, LineRecords
<1> QED
  BY <1>3, <1>4, <1>5, <1>6, <1>7 DEF n

\* A class or a label behind a sequence, if there is one.
Extended(labels, s, last) == IF labels = NoLabels THEN s ELSE Append(s, last)

Extends(e, labels, T, s, last) ==
    /\ e \in Seq(T)
    /\ labels = NoLabels => Len(e) = Len(s)
    /\ labels # NoLabels => Len(e) = Len(s) + 1
    /\ \A k \in 1..Len(s) : e[k] = s[k]
    /\ labels # NoLabels => e[Len(s) + 1] = last

LEMMA ExtendedIs ==
    ASSUME NEW labels, NEW T, NEW s \in Seq(T), NEW last, labels # NoLabels => last \in T
    PROVE  Extends(Extended(labels, s, last), labels, T, s, last)
BY DEF Extended, Extends

LEMMA JoinIs ==
    ASSUME NEW T, NEW s \in Seq(T), NEW t \in Seq(T)
    PROVE  /\ s \o t \in Seq(T) /\ Len(s \o t) = Len(s) + Len(t)
           /\ \A k \in 1..Len(s) : (s \o t)[k] = s[k]
           /\ \A k \in 1..Len(t) : (s \o t)[Len(s) + k] = t[k]
OBVIOUS

LEMMA FrontIs ==
    ASSUME NEW numeric \in Seq(HeaderRecords),
           \A k \in 1..Len(numeric) : numeric[k] = Numeric
    PROVE  LET front == <<Relation>> \o numeric
           IN  /\ front \in Seq(HeaderRecords) /\ Len(front) = 1 + Len(numeric)
               /\ front[1] = Relation /\ \A k \in 1..Len(numeric) : front[1 + k] = Numeric
<1> DEFINE one == <<Relation>>
           front == one \o numeric
<1>1. one \in Seq(HeaderRecords)
  BY DEF Relation, HeaderRecords
<1>2. Len(one) = 1 /\ one[1] = Relation
  OBVIOUS
<1> HIDE DEF one
<1>3. /\ front \in Seq(HeaderRecords) /\ Len(front) = Len(one) + Len(numeric)
      /\ \A k \in 1..Len(one) : front[k] = one[k]
      /\ \A k \in 1..Len(numeric) : front[Len(one) + k] = numeric[k]
  BY <1>1, JoinIs
<1> HIDE DEF front
<1>4. front[1] = Relation
  BY <1>2, <1>3
<1>5. \A k \in 1..Len(numeric) : front[1 + k] = Numeric
  BY <1>2, <1>3
<1>6. Len(front) = 1 + Len(numeric)
  BY <1>2, <1>3
<1> QED
  BY <1>3, <1>4, <1>5, <1>6 DEF front, one

\* The class comes behind the points' attributes, in the header and the lines.
ArffWritten(f, points, labels, order) ==
    LET n == NumFeatures(points)
        extra == IF labels = NoLabels THEN 0 ELSE 1
    IN  /\ f \in ArffFiles /\ f.format = "arff"
        /\ Len(f.header) = (1 + n) + extra /\ f.header[1] = Relation
        /\ \A k \in 1..n : f.header[1 + k] = Numeric
        /\ labels # NoLabels => f.header[(1 + n) + 1] = Class(Sorted(ToSet(labels)))
        /\ DOMAIN f.lines = 1..Len(points) /\ Len(f.lines) = Len(points)
        /\ \A a \in 1..Len(points) :
             /\ order[a] \in 1..Len(points) /\ f.lines[a].is = "dense"
             /\ f.lines[a].tokens \in Seq(Int) /\ Len(f.lines[a].tokens) = n + extra
             /\ \A k \in 1..n : f.lines[a].tokens[k] = points[order[a]][k]
             /\ labels # NoLabels => f.lines[a].tokens[n + 1] = labels[order[a]]

LEMMA WriteArffTyped ==
    ASSUME NEW points, GoodPoints(points), NEW labels, GoodLabels(labels),
           labels # NoLabels => Len(labels) = Len(points), NEW order \in Orders(Len(points))
    PROVE  ArffWritten(WriteArff(points, labels, order), points, labels, order)
<1> DEFINE m == Len(points)
           n == NumFeatures(points)
           extra == IF labels = NoLabels THEN 0 ELSE 1
           numeric == [k \in DOMAIN points[1] |-> Numeric]
           front == <<Relation>> \o numeric
           class == Class(Sorted(ToSet(labels)))
           header == Extended(labels, front, class)
           tokens(a) == Extended(labels, points[order[a]], LabelOf(labels, order[a]))
           L == [a \in DOMAIN order |-> Dense(tokens(a))]
           f == WriteArff(points, labels, order)
<1>1. /\ m \in Nat /\ n \in Nat /\ DOMAIN points = 1..m /\ DOMAIN points[1] = 1..n
      /\ \A i \in 1..m : /\ points[i] \in Seq(Int) /\ Len(points[i]) = n
  BY PointsAre
<1>2. order \in [1..m -> 1..m]
  BY DEF Orders
<1>3. f = [format |-> "arff", header |-> header, lines |-> L]
  BY DEF WriteArff, Extended
<1>4. /\ labels # NoLabels => DOMAIN labels = 1..m
      /\ \A i \in DOMAIN labels : labels[i] \in Int /\ labels[i] # NoLabel
  <2>1. labels \in Seq(Label)
    BY DEF GoodLabels
  <2>2. \A i \in DOMAIN labels : labels[i] \in Label
    BY <2>1
  <2> QED
    BY <2>1, <2>2 DEF Label
<1>5. Numeric \in HeaderRecords
  BY DEF Numeric, HeaderRecords
<1>6. numeric \in Seq(HeaderRecords) /\ Len(numeric) = n /\ \A k \in 1..n : numeric[k] = Numeric
  <2>1. numeric \in [1..n -> HeaderRecords]
    BY <1>1, <1>5
  <2>2. \A k \in 1..n : numeric[k] = Numeric
    BY <1>1
  <2> HIDE DEF numeric
  <2> QED
    BY <1>1, <2>1, <2>2
<1>7. labels # NoLabels => class \in HeaderRecords
  <2> SUFFICES ASSUME labels # NoLabels PROVE class \in HeaderRecords
    OBVIOUS
  <2>1. ToSet(labels) = {labels[i] : i \in DOMAIN labels}
    BY DEF ToSet
  <2>2. IsFiniteSet(DOMAIN labels)
    BY <1>1, <1>4, FS_Interval
  <2>3. IsFiniteSet(ToSet(labels))
    BY <2>1, <2>2, ImageFinite
  <2>4. ToSet(labels) \subseteq Int /\ ToSet(labels) \subseteq Int \ {NoLabel}
    BY <1>4, <2>1
  <2>5. Sorted(ToSet(labels)) \in Seq(ToSet(labels))
    BY <2>3, <2>4, SortedIs
  <2>6. Sorted(ToSet(labels)) \in Seq(Int \ {NoLabel})
    BY <2>4, <2>5
  <2> QED
    BY <2>6 DEF Class, HeaderRecords
<1> HIDE DEF numeric, class
<1>8. /\ front \in Seq(HeaderRecords) /\ Len(front) = 1 + n
      /\ front[1] = Relation /\ \A k \in 1..n : front[1 + k] = Numeric
  BY <1>6, FrontIs
<1> HIDE DEF front
<1>9. /\ header \in Seq(HeaderRecords) /\ Len(header) = (1 + n) + extra
      /\ header[1] = Relation /\ \A k \in 1..n : header[1 + k] = Numeric
      /\ labels # NoLabels => header[(1 + n) + 1] = class
  <2>1. /\ header \in Seq(HeaderRecords)
        /\ labels = NoLabels => Len(header) = Len(front)
        /\ labels # NoLabels => Len(header) = Len(front) + 1
        /\ \A k \in 1..Len(front) : header[k] = front[k]
        /\ labels # NoLabels => header[Len(front) + 1] = class
    <3>1. front \in Seq(HeaderRecords)
      BY <1>8
    <3>2. Extends(Extended(labels, front, class), labels, HeaderRecords, front, class)
      BY <1>7, <3>1, ExtendedIs
    <3> QED
      BY <3>2 DEF Extends
  <2> HIDE DEF header
  <2>2. labels = NoLabels => Len(header) = (1 + n) + 0
    BY <1>1, <1>8, <2>1
  <2>3. 1 \in 1..Len(front) /\ \A k \in 1..n : 1 + k \in 1..Len(front)
    BY <1>1, <1>8
  <2> QED
    BY <1>8, <2>1, <2>2, <2>3
<1>10. ASSUME NEW a \in 1..m
       PROVE  /\ order[a] \in 1..m /\ tokens(a) \in Seq(Int) /\ Len(tokens(a)) = n + extra
              /\ \A k \in 1..n : tokens(a)[k] = points[order[a]][k]
              /\ labels # NoLabels => tokens(a)[n + 1] = labels[order[a]]
  <2> DEFINE i == order[a]
             point == points[i]
             its == LabelOf(labels, i)
             t == tokens(a)
  <2>1. i \in 1..m
    BY <1>2
  <2>2. point \in Seq(Int) /\ Len(point) = n
    BY <1>1, <2>1
  <2>3. labels # NoLabels => its = labels[i] /\ its \in Int
    BY <1>4, <2>1 DEF LabelOf
  <2>4. t = Extended(labels, point, its)
    OBVIOUS
  <2> HIDE DEF i, point, its, t
  <2>5. /\ t \in Seq(Int)
        /\ labels = NoLabels => Len(t) = Len(point)
        /\ labels # NoLabels => Len(t) = Len(point) + 1
        /\ \A k \in 1..Len(point) : t[k] = point[k]
        /\ labels # NoLabels => t[Len(point) + 1] = its
    <3>1. point \in Seq(Int) /\ (labels # NoLabels => its \in Int)
      BY <2>2, <2>3
    <3>2. Extends(Extended(labels, point, its), labels, Int, point, its)
      BY <3>1, ExtendedIs
    <3> QED
      BY <2>4, <3>2 DEF Extends
  <2>6. Len(t) = n + extra
    <3>1. labels = NoLabels => Len(t) = n + 0
      BY <1>1, <2>2, <2>5
    <3> QED
      BY <2>2, <2>5, <3>1
  <2> HIDE DEF extra
  <2> QED
    BY <2>1, <2>2, <2>3, <2>5, <2>6 DEF t, point, i
<1> HIDE DEF tokens, header, extra
<1>11. \A a \in 1..m : /\ L[a] = Dense(tokens(a)) /\ L[a].is = "dense" /\ L[a].tokens = tokens(a)
                       /\ L[a] \in ArffLines
  <2> TAKE a \in 1..m
  <2>1. L[a] = Dense(tokens(a))
    BY <1>2
  <2> HIDE DEF L
  <2> QED
    BY <1>10, <2>1 DEF Dense, ArffLines
<1>12. DOMAIN L = 1..m /\ L = [a \in 1..m |-> L[a]]
  BY <1>2
<1> HIDE DEF L
<1>13. L \in Seq(ArffLines) /\ Len(L) = m
  <2>1. L \in [1..m -> ArffLines]
    BY <1>11, <1>12
  <2> QED
    BY <1>1, <2>1
<1>14. f.format = "arff" /\ f.header = header /\ f.lines = L
  BY <1>3
<1>15. f \in ArffFiles
  BY <1>3, <1>9, <1>13 DEF ArffFiles, HeaderRecords, ArffLines
<1> HIDE DEF f
<1>16. /\ f \in ArffFiles /\ f.format = "arff"
       /\ Len(f.header) = (1 + n) + extra /\ f.header[1] = Relation
       /\ \A k \in 1..n : f.header[1 + k] = Numeric
       /\ labels # NoLabels => f.header[(1 + n) + 1] = class
       /\ DOMAIN f.lines = 1..m /\ Len(f.lines) = m
  BY <1>9, <1>12, <1>13, <1>14, <1>15
<1>17. \A a \in 1..m :
         /\ order[a] \in 1..m /\ f.lines[a].is = "dense"
         /\ f.lines[a].tokens \in Seq(Int) /\ Len(f.lines[a].tokens) = n + extra
         /\ \A k \in 1..n : f.lines[a].tokens[k] = points[order[a]][k]
         /\ labels # NoLabels => f.lines[a].tokens[n + 1] = labels[order[a]]
  BY <1>10, <1>11, <1>14
<1> QED
  BY <1>16, <1>17 DEF f, n, m, extra, class, ArffWritten

LEMMA WriteTyped ==
    ASSUME NEW s, GoodSet(s), NEW format \in Formats, NEW order \in Orders(Len(s.points))
    PROVE  Write(format, s.points, s.labels, order) \in LibsvmFiles \cup ArffFiles
<1>1. GoodPoints(s.points) /\ GoodLabels(s.labels) /\ Len(s.points) = Len(s.raw)
  BY SetPointsGood DEF GoodSet
<1>2. s.labels # NoLabels => Len(s.labels) = Len(s.points)
  BY <1>1 DEF GoodSet, Accepts
<1>3. WriteLibsvm(s.points, s.labels, order) \in LibsvmFiles
  BY <1>1, <1>2, WriteLibsvmTyped
<1>4. WriteArff(s.points, s.labels, order) \in ArffFiles
  BY <1>1, <1>2, WriteArffTyped DEF ArffWritten
<1> QED
  BY <1>3, <1>4 DEF Write

----------------------------------------------------------------------------
(* The invariant: data sets are as the constructors make them, and what    *)
(* was saved from one is still what it was.                                *)

DataInv ==
    /\ set # None => GoodSet(set)
    /\ data_file # None => data_file \in LibsvmFiles \cup ArffFiles
    /\ factor_file # None => factor_file \in Scaling
    /\ origin # None =>
         /\ GoodSet(origin)
         /\ \E format \in Formats : \E order \in Orders(Len(origin.points)) :
              data_file = Write(format, origin.points, origin.labels, order)
    /\ scaled # None =>
         GoodSet(scaled) /\ scaled.scaling # NoScaling /\ factor_file = scaled.scaling

LEMMA NumbersTyped == ASSUME NEW n \in Nat PROVE AsReal(n) \in Nat
<1>1. n % 4 = 1 => n # 0
  OBVIOUS
<1> QED
  BY <1>1 DEF AsReal

LEMMA FactorsTyped ==
    ASSUME NEW f \in Scaling, FactorsReadable(f)
    PROVE  GoodScaling(ReadFactors(f))
<1> DEFINE F == [a \in DOMAIN f.factors |->
                    Factor(AsReal(f.factors[a].feature), f.factors[a].lower, f.factors[a].upper)]
<1>1. /\ f.interval \in Int \X Int /\ f.factors \in Seq(FactorRecords)
      /\ f = [interval |-> f.interval, factors |-> f.factors]
  BY DEF Scaling, FactorRecords
<1>2. ReadFactors(f) = [f EXCEPT !.factors = F]
  BY DEF ReadFactors
<1>3. ReadFactors(f) = [interval |-> f.interval, factors |-> F]
  BY <1>1, <1>2
<1>4. /\ DOMAIN f.factors = 1..Len(f.factors) /\ Len(f.factors) \in Nat
      /\ \A a \in DOMAIN f.factors : f.factors[a] \in FactorRecords
  BY <1>1
<1>5. \A a \in DOMAIN f.factors : F[a] \in FactorRecords /\ F[a].feature # 0
  <2> TAKE a \in DOMAIN f.factors
  <2>1. F[a] = Factor(AsReal(f.factors[a].feature), f.factors[a].lower, f.factors[a].upper)
    OBVIOUS
  <2>2. f.factors[a].feature \in Nat /\ f.factors[a].lower \in Int /\ f.factors[a].upper \in Int
    BY <1>4 DEF FactorRecords
  <2>3. AsReal(f.factors[a].feature) \in Nat /\ AsReal(f.factors[a].feature) # 0
    BY <2>2, NumbersTyped DEF FactorsReadable
  <2> HIDE DEF F
  <2> QED
    BY <2>1, <2>2, <2>3 DEF Factor, FactorRecords
<1>6. DOMAIN F = DOMAIN f.factors /\ F = [a \in 1..Len(f.factors) |-> F[a]]
  BY <1>4
<1> HIDE DEF F
<1>7. F \in Seq(FactorRecords)
  <2>1. F \in [1..Len(f.factors) -> FactorRecords]
    BY <1>4, <1>5, <1>6
  <2> QED
    BY <1>4, <2>1
<1>8. [interval |-> f.interval, factors |-> F] \in Scaling
  BY <1>1, <1>7 DEF Scaling, FactorRecords
<1>9. f.interval[1] < f.interval[2]
  BY DEF FactorsReadable
<1> DEFINE g == [interval |-> f.interval, factors |-> F]
<1>10. g.interval = f.interval /\ g.factors = F /\ g \in Scaling /\ ReadFactors(f) = g
  BY <1>3, <1>8
<1> HIDE DEF g
<1>11. \A a \in DOMAIN g.factors : g.factors[a].feature # 0
  BY <1>5, <1>6, <1>10
<1>12. GoodScaling(g)
  BY <1>9, <1>10, <1>11 DEF GoodScaling
<1> QED
  BY <1>10, <1>12

LEMMA ScalingsGood ==
    ASSUME DataInv, NEW scaling \in Scalings
    PROVE  GoodScaling(scaling)
<1>1. CASE scaling = NoScaling
  BY <1>1 DEF GoodScaling
<1>2. CASE \E interval \in Intervals :
             interval[1] < interval[2] /\ scaling = [interval |-> interval, factors |-> <<>>]
  <2>1. PICK interval \in Intervals :
             interval[1] < interval[2] /\ scaling = [interval |-> interval, factors |-> <<>>]
    BY <1>2
  <2>2. interval \in Int \X Int
    BY DataAssumption
  <2>3. <<>> \in Seq(FactorRecords)
    OBVIOUS
  <2>4. scaling \in Scaling
    BY <2>1, <2>2, <2>3 DEF Scaling, FactorRecords
  <2>5. scaling.interval = interval /\ scaling.factors = <<>>
    BY <2>1
  <2> QED
    BY <2>1, <2>4, <2>5 DEF GoodScaling
<1>3. CASE factor_file # None /\ FactorsReadable(factor_file) /\ scaling = ReadFactors(factor_file)
  <2>1. factor_file \in Scaling
    BY <1>3 DEF DataInv
  <2> QED
    BY <1>3, <2>1, FactorsTyped
<1>4. \/ scaling = NoScaling
      \/ \E interval \in Intervals :
             interval[1] < interval[2] /\ scaling = [interval |-> interval, factors |-> <<>>]
      \/ factor_file # None /\ FactorsReadable(factor_file) /\ scaling = ReadFactors(factor_file)
  BY DEF Scalings
<1> QED
  BY <1>1, <1>2, <1>3, <1>4

LEMMA ConstructGood ==
    ASSUME NEW points, GoodPoints(points), NEW labels, GoodLabels(labels),
           NEW scaling, GoodScaling(scaling), Accepts(points, labels, scaling),
           Construct(points, labels, scaling)
    PROVE  GoodSet(set')
<1> DEFINE c == Constructed(points, labels, scaling)
<1>1. c.raw = points /\ c.labels = labels /\ c.given = scaling
  BY DEF Constructed
<1>2. set' = c /\ Small(c.points) /\ (scaling # NoScaling => Finite(points))
  BY DEF Construct
<1>3. GoodSet(c)
  <2>1. c = Constructed(c.raw, c.labels, c.given)
    BY <1>1
  <2> HIDE DEF c
  <2> QED
    BY <1>1, <1>2, <2>1 DEF GoodSet
<1> QED
  BY <1>2, <1>3

LEMMA DataInvInit == DataInit => DataInv
BY DEF DataInit, DataInv

LEMMA DataInvNext == DataInv /\ [DataNext]_data_vars => DataInv'
<1> SUFFICES ASSUME DataInv, [DataNext]_data_vars PROVE DataInv'
  OBVIOUS
<1>1. ASSUME NEW scaling \in Scalings, NEW d \in Given, FromProgram(d, scaling)
      PROVE  DataInv'
  <2>1. GoodScaling(scaling)
    BY ScalingsGood
  <2>2. d.points \in Seq(Seq(Int)) /\ d.labels \in Seq(Label)
    BY DataAssumption
  <2>3. GoodPoints(d.points) /\ GoodLabels(d.labels)
    BY <1>1, <2>2 DEF FromProgram, GoodPoints, GoodLabels
  <2>4. GoodSet(set')
    BY <1>1, <2>1, <2>3, ConstructGood DEF FromProgram
  <2>5. UNCHANGED <<data_file, factor_file, origin, scaled>>
    BY <1>1 DEF FromProgram
  <2> QED
    BY <2>4, <2>5 DEF DataInv
<1>2. ASSUME NEW scaling \in Scalings, NEW format \in Formats, FromFile(format, scaling)
      PROVE  DataInv'
  <2> DEFINE p == Parse(data_file, format)
  <2>1. GoodScaling(scaling)
    BY ScalingsGood
  <2>2. data_file \in LibsvmFiles \cup ArffFiles
    BY <1>2 DEF FromFile, DataInv
  <2>3. /\ p # Error /\ Accepts(p.points, p.labels, scaling)
        /\ Construct(p.points, p.labels, scaling)
    BY <1>2 DEF FromFile
  <2>4. GoodPoints(p.points) /\ GoodLabels(p.labels)
    BY <2>2, <2>3, ParseTyped
  <2> HIDE DEF p
  <2>5. GoodSet(set')
    BY <2>1, <2>3, <2>4, ConstructGood
  <2>6. UNCHANGED <<data_file, factor_file, origin, scaled>>
    BY <1>2 DEF FromFile
  <2> QED
    BY <2>5, <2>6 DEF DataInv
<1>3. ASSUME NEW format \in Formats, RefuseFile(format) PROVE DataInv'
  BY <1>3 DEF RefuseFile, DataInv
<1>4. ASSUME NEW format \in Formats, Save(format) PROVE DataInv'
  <2>1. PICK order \in Orders(Len(set.points)) :
            data_file' = Write(format, set.points, set.labels, order)
    BY <1>4 DEF Save
  <2>2. GoodSet(set)
    BY <1>4 DEF Save, DataInv
  <2>3. data_file' \in LibsvmFiles \cup ArffFiles
    BY <2>1, <2>2, WriteTyped
  <2>4. origin' = set /\ UNCHANGED <<set, factor_file, scaled>>
    BY <1>4 DEF Save
  <2>5. \E order_ \in Orders(Len(origin'.points)) :
            data_file' = Write(format, origin'.points, origin'.labels, order_)
    BY <2>1, <2>4
  <2> QED
    BY <2>2, <2>3, <2>4, <2>5 DEF DataInv
<1>5. ASSUME NEW f \in HandWritten, PlaceFile(f) PROVE DataInv'
  <2>1. f \in LibsvmFiles \cup ArffFiles
    BY DataAssumption
  <2>2. data_file' = f /\ origin' = None /\ UNCHANGED <<set, factor_file, scaled>>
    BY <1>5 DEF PlaceFile
  <2> QED
    BY <2>1, <2>2 DEF DataInv
<1>6. CASE SaveFactors
  <2>1. /\ set # None /\ set.scaling # NoScaling /\ GoodSet(set)
        /\ factor_file' = set.scaling /\ scaled' = set
        /\ UNCHANGED <<set, data_file, origin>>
    BY <1>6 DEF SaveFactors, DataInv
  <2>2. set.scaling \in Scaling
    BY <2>1, SetPointsGood
  <2> QED
    BY <2>1, <2>2 DEF DataInv
<1>7. ASSUME NEW f \in HandFactors, PlaceFactors(f) PROVE DataInv'
  <2>1. f \in Scaling
    BY DataAssumption
  <2>2. factor_file' = f /\ scaled' = None /\ UNCHANGED <<set, data_file, origin>>
    BY <1>7 DEF PlaceFactors
  <2> QED
    BY <2>1, <2>2 DEF DataInv
<1>8. CASE UNCHANGED data_vars
  BY <1>8 DEF data_vars, DataInv
<1> QED
  BY <1>1, <1>2, <1>3, <1>4, <1>5, <1>6, <1>7, <1>8 DEF DataNext, Operation

LEMMA DataInvariant == DataSpec => []DataInv
<1>1. DataInit => DataInv
  BY DataInvInit
<1>2. DataInv /\ [DataNext]_data_vars => DataInv'
  BY DataInvNext
<1> QED
  BY <1>1, <1>2, PTL DEF DataSpec

\* Factors that were saved scale the same points to the same values again,
\* for all points, intervals and factors (data_set::scale, scaling::save and
\* the constructor that reads them).
THEOREM SameAgain == DataSpec => []SameScalingAgain
<1>1. DataInv => SameScalingAgain
  <2> SUFFICES ASSUME DataInv, scaled # None, NumFeatures(scaled.raw) <= MaxExact
               PROVE  LET again == ReadFactors(factor_file)
                      IN  /\ FactorsReadable(factor_file)
                          /\ Scales(scaled.raw, again)
                          /\ Constructed(scaled.raw, scaled.labels, again).points = scaled.points
    BY DEF SameScalingAgain
  <2>1. GoodSet(scaled) /\ scaled.scaling # NoScaling /\ factor_file = scaled.scaling
    BY DEF DataInv
  <2> QED
    BY <2>1, ScalesAgain
<1> QED
  BY <1>1, DataInvariant, PTL

\* With factors of its own every data set is scaled to the whole interval,
\* feature by feature, unless a feature has one value only (data_set::scale).
THEOREM WholeInterval == DataSpec => []ScaledIntoRange
<1>1. DataInv => ScaledIntoRange
  <2> SUFFICES ASSUME DataInv, set # None, set.scaling # NoScaling, set.given.factors = <<>>,
                      NEW f \in 1..NumFeatures(set.points)
               PROVE  LET before == Column(set.raw, f)
                          after == Column(set.points, f)
                      IN  IF before = {0} THEN after = {0}
                          ELSE IF Cardinality(before) = 1 THEN after = {NotFinite}
                          ELSE /\ Min(after) = set.scaling.interval[1]
                               /\ Max(after) = set.scaling.interval[2]
    BY DEF ScaledIntoRange
  <2>1. GoodSet(set)
    BY DEF DataInv
  <2> QED
    BY <2>1, ScaledRange
<1> QED
  BY <1>1, DataInvariant, PTL

----------------------------------------------------------------------------
(* A LIBSVM file is read as its format says.                               *)

\* The point that entries describe by their indices.
Plain(entries, n) ==
    [f \in 1..n |->
        IF \E k \in DOMAIN entries : entries[k].index = f
        THEN entries[CHOOSE k \in DOMAIN entries : entries[k].index = f].value
        ELSE 0]

LibsvmGood(lines) ==
    /\ AllIndices(lines) # {} /\ \A x \in AllIndices(lines) : x > 0
    /\ \A i \in DOMAIN lines :
         /\ lines[i].label # Unreadable
         /\ (lines[i].label = NoLabel) = (lines[1].label = NoLabel)
         /\ Increasing(Indices(lines[i]))
         /\ \A k \in DOMAIN lines[i].entries : lines[i].entries[k].value # Unreadable

LEMMA LibsvmSaysIs ==
    ASSUME NEW f
    PROVE  LET lines == LibsvmLines(f)
           IN  /\ ~LibsvmGood(lines) => LibsvmSays(f) = Error
               /\ LibsvmGood(lines) =>
                    LibsvmSays(f) =
                        Parsed([i \in DOMAIN lines |-> Plain(lines[i].entries, Max(AllIndices(lines)))],
                               IF lines[1].label = NoLabel THEN NoLabels
                               ELSE [i \in DOMAIN lines |-> lines[i].label])
BY Zenon DEF LibsvmSays, LibsvmGood, AllIndices, Described, Plain

\* No index comes twice in a good line, and the point is the one it describes.
LEMMA PlainIs ==
    ASSUME NEW entries, DOMAIN entries \subseteq Int, NEW n \in Nat,
           \A a, b \in DOMAIN entries :
              entries[a].index = entries[b].index /\ entries[a].index \in 1..n => a = b
    PROVE  SparsePoint(entries, n) = Plain(entries, n)
<1> DEFINE At(f) == {k \in DOMAIN entries : entries[k].index = f}
           Own(f) == CHOOSE k \in DOMAIN entries : entries[k].index = f
           Value(f) == IF At(f) = {} THEN 0 ELSE entries[Max(At(f))].value
           Other(f) == IF \E k \in DOMAIN entries : entries[k].index = f
                       THEN entries[Own(f)].value ELSE 0
<1>1. SparsePoint(entries, n) = [f \in 1..n |-> Value(f)]
  BY DEF SparsePoint
<1>2. Plain(entries, n) = [f \in 1..n |-> Other(f)]
  BY DEF Plain
<1>3. ASSUME NEW f \in 1..n PROVE Value(f) = Other(f)
  <2>1. CASE At(f) = {}
    <3>1. ~\E k \in DOMAIN entries : entries[k].index = f
      BY <2>1
    <3> QED
      BY <2>1, <3>1
  <2>2. CASE At(f) # {}
    <3>1. \E k \in DOMAIN entries : entries[k].index = f
      BY <2>2
    <3>2. Own(f) \in DOMAIN entries /\ entries[Own(f)].index = f
      BY <3>1
    <3> DEFINE k == Own(f)
    <3>3. k \in At(f) /\ k \in Int
      BY <3>2
    <3>4. \A l \in At(f) : l = k
      BY <3>2
    <3>5. At(f) \subseteq Int /\ \A l \in At(f) : l <= k
      BY <3>3, <3>4
    <3> HIDE DEF k, At
    <3>6. Max(At(f)) = k
      BY <3>3, <3>5, ExtremesAre
    <3> QED
      BY <2>2, <3>1, <3>6 DEF k
  <2> QED
    BY <2>1, <2>2
<1> QED
  BY <1>1, <1>2, <1>3

LEMMA LibsvmRead ==
    ASSUME NEW f \in LibsvmFiles
    PROVE  /\ ParseLibsvm(f) = LibsvmSays(f)
           /\ LibsvmSays(f) # Error => ~Outside(f, "libsvm")
<1> DEFINE lines == LibsvmLines(f)
           n == LibsvmFeatures(lines)
           All == AllIndices(lines)
<1>1. lines \in Seq(LineRecords)
  BY LinesAre
<1>2. /\ DOMAIN lines = 1..Len(lines) /\ Len(lines) \in Nat
      /\ \A i \in DOMAIN lines : lines[i] \in LineRecords
  <2> HIDE DEF lines
  <2> QED
    BY <1>1
<1>3. ASSUME LibsvmGood(lines) PROVE \A i \in DOMAIN lines : LineGood(lines[i])
  <2> SUFFICES ASSUME NEW i \in DOMAIN lines PROVE LineGood(lines[i])
    OBVIOUS
  <2> DEFINE line == lines[i]
             s == Indices(line)
  <2>1. line.label # Unreadable /\ Increasing(s)
        /\ \A k \in DOMAIN line.entries : line.entries[k].value # Unreadable
    BY <1>3 DEF LibsvmGood
  <2>2. DOMAIN s = DOMAIN line.entries /\ \A k \in DOMAIN line.entries : s[k] = line.entries[k].index
    BY DEF Indices
  <2>3. \A a, b \in DOMAIN line.entries : a < b => line.entries[a].index < line.entries[b].index
    <3> HIDE DEF line, s
    <3> QED
      BY <2>1, <2>2 DEF Increasing
  <2>4. \A k \in DOMAIN line.entries : line.entries[k].index \in All
    BY AllIndicesAre
  <2>5. \A k \in DOMAIN line.entries : line.entries[k].index > 0
    BY <1>3, <2>4 DEF LibsvmGood
  <2> HIDE DEF line
  <2>6. LineGood(line)
    BY <2>1, <2>3, <2>5 DEF LineGood
  <2> QED
    BY <2>6 DEF line
<1> HIDE DEF lines
<1>4. ASSUME LibsvmGood(lines) PROVE ~LibsvmRefused(lines)
  <2>1. n # 0
    BY <1>1, <1>3, <1>4, FeaturesAre DEF LibsvmGood
  <2>2. \A i \in DOMAIN lines : LastIndex(lines[i]) # Unreadable /\ ~LibsvmLineFails(lines[i])
    <3> TAKE i \in DOMAIN lines
    <3>1. LineGood(lines[i]) /\ lines[i] \in LineRecords
      BY <1>2, <1>3, <1>4
    <3>2. LastIndex(lines[i]) \in Nat /\ ~LibsvmLineFails(lines[i])
      BY <3>1, LastIndexIs, LineFails
    <3> QED
      BY <3>2 DEF Unreadable
  <2>3. SomeUnlabelled(lines) => \A i \in DOMAIN lines : lines[i].label = NoLabel
    BY <1>4 DEF SomeUnlabelled, LibsvmGood
  <2> QED
    BY <2>1, <2>2, <2>3 DEF LibsvmRefused
<1>5. ASSUME ~LibsvmRefused(lines) PROVE LibsvmGood(lines)
  <2>1. n # 0 /\ \A i \in DOMAIN lines : ~LibsvmLineFails(lines[i])
    BY <1>5 DEF LibsvmRefused
  <2>2. \A i \in DOMAIN lines : LineGood(lines[i])
    BY <1>2, <2>1, LineFails
  <2>3. All # {} /\ \A x \in All : x > 0
    BY <1>1, <2>1, <2>2, FeaturesAre
  <2>4. 1 \in DOMAIN lines
    <3>1. \E i \in DOMAIN lines : TRUE
      BY <2>3, AllIndicesAre
    <3> QED
      BY <1>2, <3>1
  <2>5. SomeUnlabelled(lines) => \A i \in DOMAIN lines : lines[i].label = NoLabel
    BY <1>5 DEF LibsvmRefused
  <2>6. \A i \in DOMAIN lines : (lines[i].label = NoLabel) = (lines[1].label = NoLabel)
    BY <2>4, <2>5 DEF SomeUnlabelled
  <2>7. \A i \in DOMAIN lines : Increasing(Indices(lines[i]))
    BY <2>2 DEF LineGood, Increasing, Indices
  <2>8. \A i \in DOMAIN lines :
           /\ lines[i].label # Unreadable
           /\ \A k \in DOMAIN lines[i].entries : lines[i].entries[k].value # Unreadable
    BY <2>2 DEF LineGood
  <2> QED
    BY <2>3, <2>6, <2>7, <2>8 DEF LibsvmGood
<1>6. CASE ~LibsvmGood(lines)
  <2>1. ParseLibsvm(f) = Error
    BY <1>5, <1>6, ParseLibsvmIs DEF lines
  <2>2. LibsvmSays(f) = Error
    BY <1>6, LibsvmSaysIs DEF lines
  <2> QED
    BY <2>1, <2>2
<1>7. CASE LibsvmGood(lines)
  <2>1. \A i \in DOMAIN lines : LineGood(lines[i])
    BY <1>3, <1>7
  <2>2. n \in Nat /\ n = Max(All) /\ \A x \in All : x \in Nat /\ x <= n
    BY <1>1, <1>7, <2>1, FeaturesAre DEF LibsvmGood
  <2>3. 1 \in DOMAIN lines
    <3>1. \E i \in DOMAIN lines : TRUE
      BY <1>7, AllIndicesAre DEF LibsvmGood
    <3> QED
      BY <1>2, <3>1
  <2>4. SomeUnlabelled(lines) <=> lines[1].label = NoLabel
    BY <1>7, <2>3 DEF SomeUnlabelled, LibsvmGood
  <2> HIDE DEF n
  <2>5. ASSUME NEW i \in DOMAIN lines
        PROVE  SparsePoint(lines[i].entries, n) = Plain(lines[i].entries, n)
    <3> DEFINE entries == lines[i].entries
    <3>1. /\ DOMAIN entries = 1..Len(entries) /\ Len(entries) \in Nat
          /\ \A k \in DOMAIN entries : entries[k].index \in Int
      BY <1>2, LineIs
    <3>2. \A a, b \in DOMAIN entries : a < b => entries[a].index < entries[b].index
      BY <2>1 DEF LineGood
    <3> HIDE DEF entries
    <3>3. \A a, b \in DOMAIN entries :
             entries[a].index = entries[b].index /\ entries[a].index \in 1..n => a = b
      <4> SUFFICES ASSUME NEW a \in DOMAIN entries, NEW b \in DOMAIN entries,
                          entries[a].index = entries[b].index
                   PROVE  a = b
        OBVIOUS
      <4>1. a \in Int /\ b \in Int /\ entries[a].index \in Int
        BY <3>1
      <4>2. ~(a < b) /\ ~(b < a)
        BY <3>2, <4>1
      <4> QED
        BY <4>1, <4>2
    <3>4. DOMAIN entries \subseteq Int
      BY <3>1
    <3>5. SparsePoint(entries, n) = Plain(entries, n)
      BY <2>2, <3>3, <3>4, PlainIs
    <3> QED
      BY <3>5 DEF entries
  <2>6. ParseLibsvm(f) =
            Parsed([i \in DOMAIN lines |-> SparsePoint(lines[i].entries, n)],
                   IF SomeUnlabelled(lines) THEN NoLabels ELSE [i \in DOMAIN lines |-> lines[i].label])
    BY <1>4, <1>7, ParseLibsvmIs DEF lines, n
  <2>7. LibsvmSays(f) =
            Parsed([i \in DOMAIN lines |-> Plain(lines[i].entries, n)],
                   IF lines[1].label = NoLabel THEN NoLabels ELSE [i \in DOMAIN lines |-> lines[i].label])
    BY <1>7, <2>2, LibsvmSaysIs DEF lines
  <2>8. [i \in DOMAIN lines |-> SparsePoint(lines[i].entries, n)] =
        [i \in DOMAIN lines |-> Plain(lines[i].entries, n)]
    BY <2>5
  <2>9. ParseLibsvm(f) = LibsvmSays(f)
    BY <2>4, <2>6, <2>7, <2>8
  <2>10. ~Outside(f, "libsvm")
    <3>1. SUFFICES ASSUME NEW i \in DOMAIN f.lines, LibsvmOutside(f.lines[i], n) PROVE FALSE
      BY DEF Outside, n, lines
    <3>2. PICK k \in DOMAIN f.lines[i].entries : f.lines[i].entries[k].index > n
      BY <3>1 DEF LibsvmOutside
    <3>3. i \in KeptLines(f)
      BY <3>2 DEF KeptLines
    <3>4. PICK j \in DOMAIN lines : lines[j] = f.lines[i]
      BY <3>3, LinesAre DEF lines
    <3>5. f.lines[i].entries[k].index \in All
      BY <3>2, <3>4, AllIndicesAre
    <3> QED
      BY <2>2, <3>2, <3>5
  <2> QED
    BY <2>9, <2>10
<1> QED
  BY <1>6, <1>7

----------------------------------------------------------------------------
(* An ARFF file is read as its format says.  The attributes are counted    *)
(* behind the relation, if there is one.                                   *)

Named(f) == f.header # <<>> /\ f.header[1].is = "relation"
Shift(f) == IF Named(f) THEN 1 ELSE 0
Attributes(f) == IF Named(f) THEN Tail(f.header) ELSE f.header
Numbers(f) == 0..(Len(Attributes(f)) - 1)
ClassNumbers(f) == {a \in Numbers(f) : Attributes(f)[a + 1].is = "class"}
FeatureOf(f, a) ==
    IF a \in ClassNumbers(f) THEN 0
    ELSE Cardinality({b \in Numbers(f) \ ClassNumbers(f) : b <= a})
SaidEntries(line) ==
    IF line.is = "sparse" THEN line.entries
    ELSE [k \in DOMAIN line.tokens |-> Entry(k - 1, line.tokens[k])]
SaidLabels(f, line) == {e \in ToSet(SaidEntries(line)) : e.index \in ClassNumbers(f)}

ArffHeaderGood(f) ==
    /\ \A a \in Numbers(f) : Attributes(f)[a + 1].is \in {"numeric", "class"}
    /\ Cardinality(ClassNumbers(f)) <= 1 /\ Numbers(f) # ClassNumbers(f)
    /\ f.lines # <<>>
    /\ \A c \in ClassNumbers(f) :
         /\ Unreadable \notin ToSet(Attributes(f)[c + 1].labels)
         /\ Len(Attributes(f)[c + 1].labels) > 1 /\ IsInjective(Attributes(f)[c + 1].labels)

ArffLineGood(f, line) ==
    /\ line.is # "broken"
    /\ line.is = "dense" => Len(line.tokens) = Len(Attributes(f))
    /\ \A e \in ToSet(SaidEntries(line)) : Readable(e) /\ e.index \in Numbers(f)
    /\ \A c \in ClassNumbers(f) :
         /\ SaidLabels(f, line) # {}
         /\ \A e \in SaidLabels(f, line) : e.value \in ToSet(Attributes(f)[c + 1].labels)

SaidPoint(f, line) ==
    [g \in 1..Cardinality(Numbers(f) \ ClassNumbers(f)) |->
        IF \E k \in DOMAIN SaidEntries(line) : FeatureOf(f, SaidEntries(line)[k].index) = g
        THEN SaidEntries(line)[CHOOSE k \in DOMAIN SaidEntries(line) :
                                  FeatureOf(f, SaidEntries(line)[k].index) = g].value
        ELSE 0]

LEMMA ArffSaysIs ==
    ASSUME NEW f
    PROVE  /\ ~(ArffHeaderGood(f) /\ \A i \in DOMAIN f.lines : ArffLineGood(f, f.lines[i])) =>
                ArffSays(f) = Error
           /\ ArffHeaderGood(f) /\ (\A i \in DOMAIN f.lines : ArffLineGood(f, f.lines[i])) =>
                ArffSays(f) =
                    Parsed([i \in DOMAIN f.lines |-> SaidPoint(f, f.lines[i])],
                           IF ClassNumbers(f) = {} THEN NoLabels
                           ELSE [i \in DOMAIN f.lines |->
                                    (CHOOSE e \in SaidLabels(f, f.lines[i]) : TRUE).value])
BY ZenonT(60) DEF ArffSays, ArffHeaderGood, ArffLineGood, Named, Attributes, Numbers, ClassNumbers,
    FeatureOf, SaidEntries, SaidLabels, SaidPoint, Described

Place(f, a) == (a + 1) + Shift(f)

LEMMA TailIs ==
    ASSUME NEW T, NEW s \in Seq(T), s # <<>>
    PROVE  /\ Tail(s) \in Seq(T) /\ Len(s) = Len(Tail(s)) + 1
           /\ \A k \in 1..Len(Tail(s)) : Tail(s)[k] = s[k + 1]
OBVIOUS

LEMMA AttributesAre ==
    ASSUME NEW f \in ArffFiles
    PROVE  /\ Shift(f) \in {0, 1} /\ Len(Attributes(f)) \in Nat
           /\ Len(f.header) = Len(Attributes(f)) + Shift(f)
           /\ \A a \in Numbers(f) :
                /\ a \in Nat /\ Place(f, a) \in DOMAIN f.header /\ Place(f, a) > Shift(f)
                /\ Attributes(f)[a + 1] = f.header[Place(f, a)]
           /\ \A k \in DOMAIN f.header : k > Shift(f) => \E a \in Numbers(f) : k = Place(f, a)
           /\ Shift(f) = 1 <=> (1 \in DOMAIN f.header /\ f.header[1].is = "relation")
<1> DEFINE H == f.header
<1>1. H \in Seq(HeaderRecords)
  BY ArffFileIs
<1>2. Len(H) \in Nat /\ DOMAIN H = 1..Len(H)
  BY <1>1
<1>3. CASE Named(f)
  <2>1. H # <<>> /\ H[1].is = "relation"
    BY <1>3 DEF Named
  <2>2. Attributes(f) = Tail(H) /\ Shift(f) = 1
    BY <1>3 DEF Attributes, Shift
  <2> DEFINE A == Tail(H)
  <2>3. A \in Seq(HeaderRecords) /\ Len(H) = Len(A) + 1
        /\ \A k \in 1..Len(A) : A[k] = H[k + 1]
    BY <1>1, <2>1, TailIs
  <2> HIDE DEF A, H
  <2>4. Len(A) \in Nat
    BY <2>3
  <2>5. Attributes(f) = A /\ Numbers(f) = 0..(Len(A) - 1) /\ Shift(f) = 1
    BY <2>2 DEF Numbers, A
  <2>6. ASSUME NEW a \in Numbers(f)
        PROVE  /\ a \in Nat /\ Place(f, a) \in DOMAIN H /\ Place(f, a) > Shift(f)
               /\ A[a + 1] = H[Place(f, a)]
    <3>1. a \in Nat /\ a + 1 \in 1..Len(A) /\ Place(f, a) = (a + 1) + 1
      BY <2>4, <2>5 DEF Place
    <3>2. A[a + 1] = H[(a + 1) + 1]
      BY <2>3, <3>1
    <3>3. (a + 1) + 1 \in 1..Len(H) /\ (a + 1) + 1 > 1
      BY <2>3, <2>4, <3>1
    <3> QED
      BY <1>2, <2>5, <3>1, <3>2, <3>3
  <2>7. ASSUME NEW k \in DOMAIN H, k > Shift(f) PROVE \E a \in Numbers(f) : k = Place(f, a)
    <3>1. k \in Int /\ k - 2 \in Numbers(f)
      BY <1>2, <2>3, <2>4, <2>5, <2>7
    <3>2. Place(f, k - 2) = k
      BY <2>5, <3>1 DEF Place
    <3> QED
      BY <3>1, <3>2
  <2>8. 1 \in DOMAIN H
    BY <1>2, <2>3, <2>4
  <2>9. Len(H) = Len(A) + Shift(f)
    BY <2>3, <2>5
  <2> QED
    BY <2>1, <2>4, <2>5, <2>6, <2>7, <2>8, <2>9 DEF H
<1>4. CASE ~Named(f)
  <2>1. Attributes(f) = H /\ Shift(f) = 0 /\ Numbers(f) = 0..(Len(H) - 1)
    BY <1>4 DEF Attributes, Shift, Numbers
  <2>2. ~(1 \in DOMAIN H /\ H[1].is = "relation")
    BY <1>1, <1>4 DEF Named
  <2> HIDE DEF H
  <2>3. ASSUME NEW a \in Numbers(f)
        PROVE  /\ a \in Nat /\ Place(f, a) \in DOMAIN H /\ Place(f, a) > Shift(f)
               /\ Place(f, a) = a + 1
    BY <1>2, <2>1 DEF Place
  <2>4. ASSUME NEW k \in DOMAIN H PROVE \E a \in Numbers(f) : k = Place(f, a)
    <3>1. k \in Int /\ k - 1 \in Numbers(f)
      BY <1>2, <2>1
    <3>2. Place(f, k - 1) = k
      BY <2>1, <3>1 DEF Place
    <3> QED
      BY <3>1, <3>2
  <2>5. Len(H) = Len(H) + Shift(f)
    BY <1>2, <2>1
  <2> QED
    BY <1>2, <2>1, <2>2, <2>3, <2>4, <2>5 DEF H
<1> QED
  BY <1>3, <1>4

\* A sequence has as many values as places exactly if none comes twice.
LEMMA InjectiveIs ==
    ASSUME NEW s, IsFiniteSet(DOMAIN s)
    PROVE  Cardinality(ToSet(s)) = Cardinality(DOMAIN s) <=> IsInjective(s)
<1> DEFINE S == DOMAIN s
           T == {s[k] : k \in S}
           f == [k \in S |-> s[k]]
<1>1. ToSet(s) = T
  BY DEF ToSet
<1>2. f \in Surjection(S, T)
  <2>1. f \in [S -> T] /\ \A t \in T : \E k \in S : f[k] = t
    OBVIOUS
  <2> HIDE DEF f, T, S
  <2> QED
    BY <2>1 DEF Surjection
<1>3. f \in Injection(S, T) <=> IsInjective(s)
  <2>1. f \in [S -> T]
    OBVIOUS
  <2>2. IsInjective(f) <=> IsInjective(s)
    BY DEF IsInjective
  <2> QED
    BY <2>1, <2>2 DEF Injection
<1> HIDE DEF f, T
<1>4. Cardinality(T) = Cardinality(S) <=> f \in Injection(S, T)
  BY <1>2, FS_Surjection
<1> QED
  BY <1>1, <1>3, <1>4

\* Places are apart, and in the order of the numbers.
LEMMA PlacesAre ==
    ASSUME NEW f \in ArffFiles, NEW S \in SUBSET Numbers(f)
    PROVE  /\ IsFiniteSet(S) /\ Cardinality(S) \in Nat
           /\ IsFiniteSet({Place(f, a) : a \in S})
           /\ Cardinality({Place(f, a) : a \in S}) = Cardinality(S)
<1> DEFINE place == [a \in S |-> Place(f, a)]
<1>1. Numbers(f) \subseteq Int /\ Shift(f) \in Int /\ IsFiniteSet(Numbers(f))
  <2>1. Len(Attributes(f)) \in Nat /\ Shift(f) \in {0, 1}
    BY AttributesAre
  <2>2. IsFiniteSet(0..(Len(Attributes(f)) - 1))
    BY <2>1, FS_Interval
  <2> QED
    BY <2>1, <2>2 DEF Numbers
<1>2. IsFiniteSet(S) /\ Cardinality(S) \in Nat
  BY <1>1, FS_Subset, FS_CardinalityType
<1>3. \A a, b \in S : place[a] = place[b] => a = b
  <2> SUFFICES ASSUME NEW a \in S, NEW b \in S, place[a] = place[b] PROVE a = b
    OBVIOUS
  <2>1. a \in Int /\ b \in Int
    BY <1>1
  <2> QED
    BY <1>1, <2>1 DEF Place
<1>4. DOMAIN place = S /\ {place[a] : a \in DOMAIN place} = {Place(f, a) : a \in S}
  OBVIOUS
<1> HIDE DEF place
<1>5. /\ IsFiniteSet({place[a] : a \in DOMAIN place})
      /\ Cardinality({place[a] : a \in DOMAIN place}) = Cardinality(DOMAIN place)
  BY <1>2, <1>3, <1>4, ImageFinite
<1> QED
  BY <1>2, <1>4, <1>5

KindsGood(f) == \A a \in Numbers(f) : Attributes(f)[a + 1].is \in {"numeric", "class"}

\* Where the classes and the numbers are in the header.
LEMMA KindsAre ==
    ASSUME NEW f \in ArffFiles
    PROVE  /\ ClassesOf(f.header) = {Place(f, c) : c \in ClassNumbers(f)}
           /\ KindsGood(f) =>
                Numerics(f.header) = {Place(f, a) : a \in Numbers(f) \ ClassNumbers(f)}
           /\ KindsGood(f) <=>
                ~\E k \in DOMAIN f.header :
                    f.header[k].is = "unknown" \/ (f.header[k].is = "relation" /\ k # 1)
<1> DEFINE H == f.header
           A == Attributes(f)
           s == Shift(f)
<1>1. /\ s \in {0, 1}
      /\ \A a \in Numbers(f) :
           /\ a \in Nat /\ Place(f, a) \in DOMAIN H /\ Place(f, a) > s
           /\ A[a + 1] = H[Place(f, a)]
      /\ \A k \in DOMAIN H : k > s => \E a \in Numbers(f) : k = Place(f, a)
      /\ s = 1 <=> (1 \in DOMAIN H /\ H[1].is = "relation")
  BY AttributesAre
<1>2. /\ DOMAIN H = 1..Len(H) /\ Len(H) \in Nat
      /\ \A k \in DOMAIN H : H[k].is \in {"relation", "numeric", "class", "unknown"}
  BY ArffFileIs DEF HeaderRecords
<1>3. \A c : c \in ClassNumbers(f) <=> c \in Numbers(f) /\ A[c + 1].is = "class"
  BY DEF ClassNumbers
<1> HIDE DEF H, A, s
<1>4. \A k \in DOMAIN H : H[k].is # "relation" => k > s
  BY <1>1, <1>2
<1>5. ASSUME NEW k \in ClassesOf(H) PROVE \E c \in ClassNumbers(f) : k = Place(f, c)
  <2>1. k \in DOMAIN H /\ H[k].is = "class"
    BY DEF ClassesOf
  <2>2. PICK a \in Numbers(f) : k = Place(f, a)
    BY <1>1, <1>4, <2>1
  <2> QED
    BY <1>1, <1>3, <2>1, <2>2
<1>6. ASSUME NEW c \in ClassNumbers(f) PROVE Place(f, c) \in ClassesOf(H)
  BY <1>1, <1>3 DEF ClassesOf
<1>7. ASSUME KindsGood(f) PROVE Numerics(H) = {Place(f, a) : a \in Numbers(f) \ ClassNumbers(f)}
  <2>1. ASSUME NEW k \in Numerics(H) PROVE \E a \in Numbers(f) \ ClassNumbers(f) : k = Place(f, a)
    <3>1. k \in DOMAIN H /\ H[k].is = "numeric"
      BY DEF Numerics
    <3>2. PICK a \in Numbers(f) : k = Place(f, a)
      BY <1>1, <1>4, <3>1
    <3>3. a \notin ClassNumbers(f)
      BY <1>1, <1>3, <3>1, <3>2
    <3> QED
      BY <3>2, <3>3
  <2>2. ASSUME NEW a \in Numbers(f) \ ClassNumbers(f) PROVE Place(f, a) \in Numerics(H)
    <3>1. A[a + 1].is = "numeric"
      BY <1>3, <1>7 DEF KindsGood, A
    <3> QED
      BY <1>1, <3>1 DEF Numerics
  <2> QED
    BY <2>1, <2>2
<1>8. ASSUME KindsGood(f), NEW k \in DOMAIN H,
             H[k].is = "unknown" \/ (H[k].is = "relation" /\ k # 1)
      PROVE  FALSE
  <2>1. k > s
    BY <1>1, <1>2, <1>4, <1>8
  <2>2. PICK a \in Numbers(f) : k = Place(f, a)
    BY <1>1, <2>1
  <2>3. H[k].is \in {"numeric", "class"}
    BY <1>1, <1>8, <2>2 DEF KindsGood, A
  <2> QED
    BY <1>8, <2>3
<1>9. ASSUME ~KindsGood(f)
      PROVE  \E k \in DOMAIN H : H[k].is = "unknown" \/ (H[k].is = "relation" /\ k # 1)
  <2>1. PICK a \in Numbers(f) : A[a + 1].is \notin {"numeric", "class"}
    BY <1>9 DEF KindsGood, A
  <2> DEFINE k == Place(f, a)
  <2>2. k \in DOMAIN H /\ k > s /\ H[k].is \in {"relation", "unknown"}
    BY <1>1, <1>2, <2>1
  <2>3. H[k].is = "relation" => k # 1
    <3> HIDE DEF k
    <3> QED
      BY <1>1, <2>2
  <2> QED
    BY <2>2, <2>3
<1>10. ClassesOf(H) = {Place(f, c) : c \in ClassNumbers(f)}
  BY <1>5, <1>6
<1> QED
  BY <1>7, <1>8, <1>9, <1>10 DEF H

\* What a class says in the header.
ClassGood(labels) ==
    /\ Unreadable \notin ToSet(labels) /\ Len(labels) > 1 /\ IsInjective(labels)

LEMMA ClassIs ==
    ASSUME NEW labels \in Seq(Int)
    PROVE  ClassGood(labels) <=>
             ~(\/ Len(labels) < 2
               \/ Cardinality(ToSet(labels)) # Len(labels)
               \/ Unreadable \in ToSet(labels))
<1>1. DOMAIN labels = 1..Len(labels) /\ Len(labels) \in Nat
  OBVIOUS
<1>2. IsFiniteSet(DOMAIN labels) /\ Cardinality(DOMAIN labels) = Len(labels)
  BY <1>1, FS_Interval
<1>3. Cardinality(ToSet(labels)) = Len(labels) <=> IsInjective(labels)
  BY <1>2, InjectiveIs
<1>4. Len(labels) > 1 <=> ~(Len(labels) < 2)
  BY <1>1
<1> QED
  BY <1>3, <1>4 DEF ClassGood

LEMMA HeaderSame ==
    ASSUME NEW f \in ArffFiles
    PROVE  HeaderFails(f) <=> ~ArffHeaderGood(f)
<1> DEFINE H == f.header
<1>1. /\ ClassesOf(H) = {Place(f, c) : c \in ClassNumbers(f)}
      /\ KindsGood(f) => Numerics(H) = {Place(f, a) : a \in Numbers(f) \ ClassNumbers(f)}
      /\ KindsGood(f) <=>
           ~\E k \in DOMAIN H : H[k].is = "unknown" \/ (H[k].is = "relation" /\ k # 1)
  BY KindsAre
<1>2. ClassNumbers(f) \in SUBSET Numbers(f)
  BY DEF ClassNumbers
<1>3. Cardinality(ClassesOf(H)) = Cardinality(ClassNumbers(f))
      /\ Cardinality(ClassNumbers(f)) \in Nat
  BY <1>1, <1>2, PlacesAre
<1>4. \A c \in Numbers(f) : Attributes(f)[c + 1] = H[Place(f, c)] /\ Place(f, c) \in DOMAIN H
  BY AttributesAre
<1>5. \A k \in DOMAIN H : H[k].labels \in Seq(Int)
  <2> TAKE k \in DOMAIN H
  <2>1. H[k].labels \in Seq(Int \ {NoLabel})
    BY ArffFileIs DEF HeaderRecords
  <2> QED
    BY <2>1
<1> HIDE DEF H
<1>6. HeaderFails(f) <=>
        \/ ~KindsGood(f)
        \/ \E k \in ClassesOf(H) : ~ClassGood(H[k].labels)
        \/ Cardinality(ClassesOf(H)) > 1
        \/ Numerics(H) = {}
        \/ f.lines = <<>>
  <2>1. \A k \in DOMAIN H : ~ClassGood(H[k].labels) <=>
            \/ Len(H[k].labels) < 2
            \/ Cardinality(ToSet(H[k].labels)) # Len(H[k].labels)
            \/ Unreadable \in ToSet(H[k].labels)
    BY <1>5, ClassIs
  <2>2. \A k : k \in ClassesOf(H) <=> k \in DOMAIN H /\ H[k].is = "class"
    BY DEF ClassesOf
  <2> QED
    BY <1>1, <2>1, <2>2, Zenon DEF HeaderFails, H
<1>7. (\E k \in ClassesOf(H) : ~ClassGood(H[k].labels)) <=>
      (\E c \in ClassNumbers(f) : ~ClassGood(Attributes(f)[c + 1].labels))
  BY <1>1, <1>2, <1>4
<1>8. KindsGood(f) => (Numerics(H) = {} <=> Numbers(f) = ClassNumbers(f))
  BY <1>1, <1>2
<1>9. Cardinality(ClassesOf(H)) > 1 <=> ~(Cardinality(ClassNumbers(f)) <= 1)
  BY <1>3
<1>10. ArffHeaderGood(f) <=>
         /\ KindsGood(f)
         /\ Cardinality(ClassNumbers(f)) <= 1 /\ Numbers(f) # ClassNumbers(f) /\ f.lines # <<>>
         /\ \A c \in ClassNumbers(f) : ClassGood(Attributes(f)[c + 1].labels)
  BY DEF ArffHeaderGood, KindsGood, ClassGood
<1> QED
  BY <1>6, <1>7, <1>8, <1>9, <1>10

\* The numbers of the attributes, the class and the features.
LEMMA NumbersAre ==
    ASSUME NEW f \in ArffFiles, ArffHeaderGood(f)
    PROVE  LET A == Len(Attributes(f))
               C == ClassNumbers(f)
               n == Cardinality(Numerics(f.header))
           IN  /\ A \in Nat /\ n \in Nat /\ Numbers(f) = 0..(A - 1)
               /\ n = Cardinality(Numbers(f) \ C)
               /\ NumAttributes(f.header) = A
               /\ HasLabel(f.header) <=> C # {}
               /\ C # {} => \E c \in Numbers(f) :
                    /\ C = {c} /\ LabelIndex(f.header) = c /\ n = A - 1
                    /\ HeaderLabels(f.header) = ToSet(Attributes(f)[c + 1].labels)
               /\ C = {} => n = A
<1> DEFINE A == Len(Attributes(f))
           N == Numbers(f)
           C == ClassNumbers(f)
           H == f.header
           n == Cardinality(Numerics(H))
<1>1. /\ ClassesOf(H) = {Place(f, c) : c \in C}
      /\ Numerics(H) = {Place(f, a) : a \in N \ C}
  <2>1. KindsGood(f)
    BY DEF ArffHeaderGood, KindsGood
  <2> QED
    BY <2>1, KindsAre
<1>2. C \in SUBSET N
  BY DEF ClassNumbers
<1>3. A \in Nat /\ Shift(f) \in {0, 1} /\ Shift(f) \in Int /\ N = 0..(A - 1)
  BY AttributesAre DEF Numbers
<1>4. \A c \in N : Attributes(f)[c + 1] = H[Place(f, c)]
  BY AttributesAre
<1>5. IsFiniteSet(N) /\ Cardinality(N) = A
  <2> HIDE DEF A, N
  <2>1. A - 1 \in Int
    BY <1>3
  <2>2. /\ IsFiniteSet(0..(A - 1))
        /\ Cardinality(0..(A - 1)) = IF 0 > A - 1 THEN 0 ELSE (A - 1) - 0 + 1
    BY <2>1, FS_Interval
  <2> QED
    BY <1>3, <2>2
<1>6. Cardinality(C) <= 1
  BY DEF ArffHeaderGood
<1> HIDE DEF H, C, N, A
<1>7. IsFiniteSet(C) /\ Cardinality(C) \in Nat
  BY <1>2, PlacesAre DEF N
<1>8. n = Cardinality(N \ C) /\ n \in Nat
  <2>1. N \ C \in SUBSET Numbers(f)
    BY DEF N
  <2> QED
    BY <1>1, <2>1, PlacesAre
<1>9. HasLabel(H) <=> C # {}
  BY <1>1 DEF HasLabel
<1> HIDE DEF n
<1>10. CASE C = {}
  <2>1. n = A
    <3>1. N \ C = N
      BY <1>10
    <3> QED
      BY <1>5, <1>8, <3>1
  <2>2. NumAttributes(H) = n
    BY <1>8, <1>9, <1>10 DEF NumAttributes, n
  <2> QED
    BY <1>3, <1>8, <1>9, <1>10, <2>1, <2>2 DEF A, C, H, n, N
<1>11. CASE C # {}
  <2>1. Cardinality(C) = 1
    BY <1>6, <1>7, <1>11, FS_EmptySet
  <2>2. PICK c : C = {c}
    BY <1>7, <2>1, FS_Singleton
  <2>3. c \in N /\ c \in Nat
    BY <1>2, <1>3, <2>2
  <2>4. n = A - 1
    BY <1>5, <1>8, <2>2, <2>3, FS_RemoveElement
  <2>5. NumAttributes(H) = A
    <3>1. NumAttributes(H) = n + 1
      BY <1>9, <1>11 DEF NumAttributes, n
    <3> QED
      BY <1>3, <2>4, <3>1
  <2>6. ClassesOf(H) = {Place(f, c)}
    BY <1>1, <2>2
  <2>7. HeaderLabels(H) = ToSet(Attributes(f)[c + 1].labels)
    BY <1>4, <2>3, <2>6 DEF HeaderLabels
  <2>8. LabelIndex(H) = c
    <3> DEFINE Before == {k \in Numerics(H) : \A d \in ClassesOf(H) : k < d}
               Less == 0..(c - 1)
    <3>1. \A a \in Less : a \in N \ C
      BY <1>3, <2>2, <2>3
    <3>2. Before = {Place(f, a) : a \in Less}
      <4>1. \A k : k \in Before <=> k \in Numerics(H) /\ k < Place(f, c)
        BY <2>6
      <4>2. ASSUME NEW a \in N \ C PROVE Place(f, a) < Place(f, c) <=> a \in Less
        <5>1. a \in Int /\ a >= 0
          BY <1>3
        <5> QED
          BY <1>3, <2>3, <5>1 DEF Place
      <4> HIDE DEF Before, Less
      <4>3. ASSUME NEW k \in Before PROVE \E a \in Less : k = Place(f, a)
        <5>1. PICK a \in N \ C : k = Place(f, a)
          BY <1>1, <4>1
        <5> QED
          BY <4>1, <4>2, <5>1
      <4>4. ASSUME NEW a \in Less PROVE Place(f, a) \in Before
        BY <1>1, <3>1, <4>1, <4>2
      <4> QED
        BY <4>3, <4>4
    <3>3. Cardinality(Less) = c
      BY <2>3, FS_Interval
    <3> HIDE DEF Before, Less
    <3>4. Less \in SUBSET Numbers(f)
      BY <3>1 DEF N
    <3>5. Cardinality(Before) = c
      BY <3>2, <3>3, <3>4, PlacesAre
    <3> QED
      BY <3>5 DEF LabelIndex, Before
  <2>9. A \in Nat /\ n \in Nat /\ N = 0..(A - 1) /\ n = Cardinality(N \ C)
    BY <1>3, <1>8
  <2> QED
    BY <1>9, <1>11, <2>2, <2>3, <2>4, <2>5, <2>7, <2>8, <2>9 DEF A, C, H, n, N
<1> QED
  BY <1>10, <1>11

\* The features are counted without the class.
LEMMA FeatureIs ==
    ASSUME NEW f \in ArffFiles, ArffHeaderGood(f), NEW a \in Numbers(f)
    PROVE  /\ ClassNumbers(f) = {} => FeatureOf(f, a) = a + 1
           /\ \A c : ClassNumbers(f) = {c} =>
                /\ a = c => FeatureOf(f, a) = 0
                /\ a < c => FeatureOf(f, a) = a + 1
                /\ a > c => FeatureOf(f, a) = a
<1> DEFINE C == ClassNumbers(f)
           N == Numbers(f)
           A == Len(Attributes(f))
           Upto == {b \in N \ C : b <= a}
<1>1. A \in Nat /\ N = 0..(A - 1) /\ a \in Nat /\ a < A
  <2>1. A \in Nat /\ N = 0..(A - 1)
    BY AttributesAre DEF Numbers
  <2> HIDE DEF A
  <2> QED
    BY <2>1
<1>2. C \subseteq N
  BY DEF ClassNumbers
<1>3. a \in C => FeatureOf(f, a) = 0
  BY DEF FeatureOf
<1>4. a \notin C => FeatureOf(f, a) = Cardinality(Upto)
  BY DEF FeatureOf
<1>5. IsFiniteSet(0..a) /\ Cardinality(0..a) = a + 1
  BY <1>1, FS_Interval
<1> HIDE DEF N, A
<1>6. ASSUME \A c \in C : c > a, a \notin C PROVE FeatureOf(f, a) = a + 1
  <2>1. Upto = 0..a
    <3>1. ASSUME NEW b \in Upto PROVE b \in 0..a
      BY <1>1
    <3>2. ASSUME NEW b \in 0..a PROVE b \in Upto
      <4>1. b \in N /\ b <= a
        BY <1>1
      <4>2. b \notin C
        <5>1. b \in Int
          BY <1>1, <4>1
        <5> QED
          BY <1>1, <1>6, <4>1, <5>1
      <4> QED
        BY <4>1, <4>2
    <3> QED
      BY <3>1, <3>2
  <2> HIDE DEF Upto
  <2> QED
    BY <1>4, <1>5, <1>6, <2>1
<1>7. ASSUME NEW c, C = {c}, a > c PROVE FeatureOf(f, a) = a
  <2>1. c \in N /\ c \in Nat
    BY <1>1, <1>2, <1>7
  <2>2. Upto = (0..a) \ {c}
    <3>1. \A b \in Int : b \in N /\ b <= a <=> b \in 0..a
      BY <1>1
    <3>2. \A b \in N : b \in Int
      BY <1>1
    <3>3. \A b \in 0..a : b \in Int
      OBVIOUS
    <3> QED
      BY <1>7, <3>1, <3>2, <3>3
  <2> HIDE DEF Upto
  <2>3. c \in 0..a
    BY <1>1, <1>7, <2>1
  <2>4. Cardinality((0..a) \ {c}) = (a + 1) - 1
    BY <1>5, <2>3, FS_RemoveElement
  <2>5. a \notin C
    BY <1>1, <1>7, <2>1
  <2> QED
    BY <1>1, <1>4, <2>2, <2>4, <2>5
<1> HIDE DEF Upto
<1>8. C = {} => FeatureOf(f, a) = a + 1
  BY <1>6
<1>9. ASSUME NEW c, C = {c}
      PROVE  /\ a = c => FeatureOf(f, a) = 0
             /\ a < c => FeatureOf(f, a) = a + 1
             /\ a > c => FeatureOf(f, a) = a
  <2>1. c \in Nat
    BY <1>1, <1>2, <1>9
  <2>2. a < c => a \notin C /\ \A d \in C : d > a
    BY <1>1, <1>9, <2>1
  <2> QED
    BY <1>3, <1>6, <1>7, <1>9, <2>2
<1> HIDE DEF C
<1> QED
  BY <1>8, <1>9 DEF C

\* The entries of a line are as they should be, whatever its label is.
EntriesGood(f, line) ==
    /\ line.is # "broken"
    /\ line.is = "dense" => Len(line.tokens) = Len(Attributes(f))
    /\ \A k \in DOMAIN EntriesOf(line) :
         Readable(EntriesOf(line)[k]) /\ EntriesOf(line)[k].index \in Numbers(f)

FeaturesDiffer(line) ==
    \A a, b \in DOMAIN EntriesOf(line) :
        EntriesOf(line)[a].index = EntriesOf(line)[b].index => a = b

LEMMA EntriesSame ==
    ASSUME NEW f \in ArffFiles, ArffHeaderGood(f), NEW line \in ArffLines
    PROVE  EntriesGood(f, line) <=>
             ~(\/ line.is = "broken"
               \/ /\ line.is = "dense"
                  /\ \/ Len(line.tokens) # NumAttributes(f.header)
                     \/ Unreadable \in ToSet(line.tokens)
               \/ /\ line.is = "sparse"
                  /\ \E k \in DOMAIN line.entries :
                       \/ ~Readable(line.entries[k])
                       \/ line.entries[k].index >= NumAttributes(f.header))
<1> DEFINE A == Len(Attributes(f))
           E == EntriesOf(line)
<1>1. A \in Nat /\ NumAttributes(f.header) = A /\ Numbers(f) = 0..(A - 1)
  BY NumbersAre
<1>2. Unreadable \in Int /\ Unreadable < 0
  BY DEF Unreadable
<1> HIDE DEF A
<1>3. CASE line.is = "broken"
  BY <1>3 DEF EntriesGood
<1>4. CASE line.is = "dense"
  <2>1. /\ line.tokens \in Seq(Int) /\ DOMAIN E = 1..Len(E) /\ Len(E) = Len(line.tokens)
        /\ \A k \in DOMAIN E : E[k].index = k - 1 /\ E[k].value = line.tokens[k]
    BY <1>4, EntriesAre
  <2>2. Unreadable \in ToSet(line.tokens) <=> \E k \in DOMAIN line.tokens : line.tokens[k] = Unreadable
    BY DEF ToSet
  <2>3. DOMAIN line.tokens = 1..Len(line.tokens) /\ Len(line.tokens) \in Nat
    BY <2>1
  <2> HIDE DEF E
  <2>4. ASSUME Len(line.tokens) = A, NEW k \in DOMAIN E
        PROVE  /\ E[k].index \in Numbers(f)
               /\ Readable(E[k]) <=> line.tokens[k] # Unreadable
    <3>1. k \in Int /\ 1 <= k /\ k <= A
      BY <1>1, <2>1, <2>3, <2>4
    <3>2. k - 1 \in 0..(A - 1) /\ k - 1 # Unreadable
      BY <1>1, <1>2, <3>1
    <3> QED
      BY <1>1, <2>1, <3>2 DEF Readable
  <2>5. DOMAIN E = DOMAIN line.tokens
    BY <2>1, <2>3
  <2>6. EntriesGood(f, line) <=>
            Len(line.tokens) = A /\ \A k \in DOMAIN E : Readable(E[k]) /\ E[k].index \in Numbers(f)
    BY <1>4 DEF EntriesGood, E, A
  <2> QED
    BY <1>1, <1>4, <2>2, <2>4, <2>5, <2>6
<1>5. CASE line.is = "sparse"
  <2>1. /\ E = line.entries
        /\ \A k \in DOMAIN E : E[k].index \in Nat \cup {Unreadable}
    BY <1>5, EntriesAre
  <2> HIDE DEF E
  <2>2. ASSUME NEW k \in DOMAIN E
        PROVE  Readable(E[k]) => (E[k].index \in Numbers(f) <=> ~(E[k].index >= A))
    <3> SUFFICES ASSUME Readable(E[k]) PROVE E[k].index \in Numbers(f) <=> ~(E[k].index >= A)
      OBVIOUS
    <3>1. E[k].index \in Nat
      BY <2>1 DEF Readable
    <3> QED
      BY <1>1, <3>1
  <2>3. EntriesGood(f, line) <=> \A k \in DOMAIN E : Readable(E[k]) /\ E[k].index \in Numbers(f)
    BY <1>5 DEF EntriesGood, E
  <2> QED
    BY <1>1, <1>5, <2>1, <2>2, <2>3
<1> QED
  BY <1>3, <1>4, <1>5 DEF ArffLines

\* The label of a line is the value of its entry for the class.
LEMMA LabelIs ==
    ASSUME NEW f \in ArffFiles, ArffHeaderGood(f), NEW line \in ArffLines,
           EntriesGood(f, line), FeaturesDiffer(line), NEW c, ClassNumbers(f) = {c}
    PROVE  /\ \A k \in DOMAIN EntriesOf(line) : EntriesOf(line)[k].index = c =>
                /\ ArffLabel(f.header, line) = EntriesOf(line)[k].value
                /\ SaidLabels(f, line) = {EntriesOf(line)[k]}
           /\ (\A k \in DOMAIN EntriesOf(line) : EntriesOf(line)[k].index # c) =>
                ArffLabel(f.header, line) = NoLabel /\ SaidLabels(f, line) = {}
<1> DEFINE E == EntriesOf(line)
           A == Len(Attributes(f))
<1>1. LabelIndex(f.header) = c /\ c \in Numbers(f) /\ A \in Nat /\ Numbers(f) = 0..(A - 1)
  <2>1. ClassNumbers(f) # {}
    OBVIOUS
  <2>2. PICK d \in Numbers(f) : ClassNumbers(f) = {d} /\ LabelIndex(f.header) = d
    BY <2>1, NumbersAre
  <2>3. c = d
    BY <2>2
  <2>4. A \in Nat /\ Numbers(f) = 0..(A - 1)
    BY NumbersAre
  <2> QED
    BY <2>2, <2>3, <2>4
<1>2. line.is # "broken" /\ (line.is = "dense" => Len(line.tokens) = A)
  BY DEF EntriesGood
<1>3. /\ DOMAIN E = 1..Len(E) /\ Len(E) \in Nat
      /\ line.is = "dense" =>
           /\ line.tokens \in Seq(Int) /\ Len(E) = Len(line.tokens)
           /\ \A k \in DOMAIN E : E[k].index = k - 1 /\ E[k].value = line.tokens[k]
      /\ line.is # "dense" => line.is = "sparse" /\ E = line.entries
  BY <1>2, EntriesAre
<1>4. SaidEntries(line) = E
  BY <1>3 DEF SaidEntries, EntriesOf
<1>5. SaidLabels(f, line) = {e \in ToSet(E) : e.index = c}
  BY <1>4 DEF SaidLabels
<1>6. \A e : e \in ToSet(E) <=> \E k \in DOMAIN E : e = E[k]
  BY DEF ToSet
<1>7. \A a, b \in DOMAIN E : E[a].index = E[b].index => a = b
  BY DEF FeaturesDiffer
<1> HIDE DEF E, A
<1>8. ASSUME NEW k \in DOMAIN E, E[k].index = c
      PROVE  ArffLabel(f.header, line) = E[k].value /\ SaidLabels(f, line) = {E[k]}
  <2>1. SaidLabels(f, line) = {E[k]}
    BY <1>5, <1>6, <1>7, <1>8
  <2>2. CASE line.is = "dense"
    <3>1. k \in Int /\ k - 1 = c
      BY <1>3, <1>8, <2>2
    <3>2. k = c + 1
      BY <1>1, <3>1
    <3> QED
      BY <1>1, <1>3, <2>1, <2>2, <3>2 DEF ArffLabel
  <2>3. CASE line.is # "dense"
    <3> DEFINE At == {j \in DOMAIN E : E[j].index = c}
    <3>1. At = {k}
      BY <1>7, <1>8
    <3>2. k \in Int
      BY <1>3
    <3>3. Max(At) = k
      <4>1. At \subseteq Int /\ k \in At /\ \A l \in At : l <= k
        BY <3>1, <3>2
      <4> HIDE DEF At
      <4> QED
        BY <4>1, ExtremesAre
    <3>4. ArffLabel(f.header, line) = IF At = {} THEN NoLabel ELSE E[Max(At)].value
      BY <1>1, <1>3, <2>3 DEF ArffLabel
    <3> HIDE DEF At
    <3> QED
      BY <2>1, <3>1, <3>3, <3>4
  <2> QED
    BY <2>2, <2>3
<1>9. ASSUME \A k \in DOMAIN E : E[k].index # c
      PROVE  ArffLabel(f.header, line) = NoLabel /\ SaidLabels(f, line) = {}
  <2>1. SaidLabels(f, line) = {}
    BY <1>5, <1>6, <1>9
  <2>2. line.is # "dense"
    <3> SUFFICES ASSUME line.is = "dense" PROVE FALSE
      OBVIOUS
    <3>1. c \in Nat /\ c + 1 \in 1..A /\ (c + 1) - 1 = c
      BY <1>1
    <3>2. c + 1 \in DOMAIN E
      BY <1>2, <1>3, <3>1
    <3>3. E[c + 1].index = (c + 1) - 1
      BY <1>3, <3>2
    <3> QED
      BY <1>9, <3>1, <3>2, <3>3
  <2>3. {j \in DOMAIN E : E[j].index = c} = {}
    BY <1>9
  <2> QED
    BY <1>1, <1>3, <2>1, <2>2, <2>3 DEF ArffLabel
<1> QED
  BY <1>8, <1>9 DEF E

LEMMA LinesSame ==
    ASSUME NEW f \in ArffFiles, ArffHeaderGood(f), NEW line \in ArffLines, FeaturesDiffer(line)
    PROVE  /\ ArffLineFails(f.header, line) <=> ~ArffLineGood(f, line)
           /\ ArffLineGood(f, line) => EntriesGood(f, line)
           /\ ArffLineGood(f, line) /\ ClassNumbers(f) # {} =>
                ArffLabel(f.header, line) = (CHOOSE e \in SaidLabels(f, line) : TRUE).value
<1> DEFINE E == EntriesOf(line)
           C == ClassNumbers(f)
<1>1. ArffLineFails(f.header, line) <=>
        ~EntriesGood(f, line) \/ ArffLabelFails(f.header, line)
  BY EntriesSame, Zenon DEF ArffLineFails
<1>2. ArffLineGood(f, line) <=>
        /\ EntriesGood(f, line)
        /\ \A c \in C :
             /\ SaidLabels(f, line) # {}
             /\ \A e \in SaidLabels(f, line) : e.value \in ToSet(Attributes(f)[c + 1].labels)
  <2>1. line.is # "broken" => SaidEntries(line) = E
    BY EntriesAre DEF SaidEntries, EntriesOf
  <2>2. \A e : e \in ToSet(E) <=> \E k \in DOMAIN E : e = E[k]
    BY DEF ToSet
  <2>3. line.is # "broken" =>
          ((\A e \in ToSet(SaidEntries(line)) : Readable(e) /\ e.index \in Numbers(f)) <=>
           (\A k \in DOMAIN E : Readable(E[k]) /\ E[k].index \in Numbers(f)))
    <3> HIDE DEF E
    <3> QED
      BY <2>1, <2>2
  <2> QED
    BY <2>3 DEF ArffLineGood, EntriesGood
<1>3. HasLabel(f.header) <=> C # {}
  BY NumbersAre
<1>4. CASE C = {}
  BY <1>1, <1>2, <1>3, <1>4 DEF ArffLabelFails
<1>5. CASE C # {} /\ EntriesGood(f, line)
  <2>1. PICK c \in Numbers(f) : C = {c} /\ HeaderLabels(f.header) = ToSet(Attributes(f)[c + 1].labels)
    BY <1>5, NumbersAre
  <2>2. NoLabel \notin HeaderLabels(f.header)
    BY HeaderSame, HeaderLabelsAre DEF Label
  <2> DEFINE labels == ToSet(Attributes(f)[c + 1].labels)
  <2>3. ArffLabelFails(f.header, line) <=> ArffLabel(f.header, line) \notin labels
    BY <1>3, <1>5, <2>1 DEF ArffLabelFails
  <2>4. ArffLineGood(f, line) <=>
          SaidLabels(f, line) # {} /\ \A e \in SaidLabels(f, line) : e.value \in labels
    BY <1>2, <1>5, <2>1
  <2>5. NoLabel \notin labels
    BY <2>1, <2>2
  <2>6. ArffLineFails(f.header, line) <=> ArffLabel(f.header, line) \notin labels
    BY <1>1, <1>5, <2>3
  <2> HIDE DEF labels, E
  <2>7. CASE \E k \in DOMAIN E : E[k].index = c
    <3>1. PICK k \in DOMAIN E : E[k].index = c
      BY <2>7
    <3>2. ArffLabel(f.header, line) = E[k].value /\ SaidLabels(f, line) = {E[k]}
      BY <1>5, <2>1, <3>1, LabelIs DEF E, C
    <3>3. (CHOOSE e \in SaidLabels(f, line) : TRUE) = E[k]
      BY <3>2
    <3> QED
      BY <1>5, <2>4, <2>6, <3>2, <3>3
  <2>8. CASE \A k \in DOMAIN E : E[k].index # c
    <3>1. ArffLabel(f.header, line) = NoLabel /\ SaidLabels(f, line) = {}
      BY <1>5, <2>1, <2>8, LabelIs DEF E, C
    <3> QED
      BY <2>4, <2>5, <2>6, <3>1
  <2> QED
    BY <2>7, <2>8
<1>6. CASE ~EntriesGood(f, line)
  BY <1>1, <1>2, <1>6
<1> QED
  BY <1>4, <1>5, <1>6

\* Where a value goes is where its feature is.
LEMMA TargetIs ==
    ASSUME NEW f \in ArffFiles, ArffHeaderGood(f), NEW line \in ArffLines,
           EntriesGood(f, line), ~ArffOutside(f, line), NEW a \in Numbers(f)
    PROVE  TargetOf(f.header, line, a) = FeatureOf(f, a)
<1> DEFINE A == Len(Attributes(f))
           C == ClassNumbers(f)
           n == Cardinality(Numerics(f.header))
<1>1. /\ A \in Nat /\ Numbers(f) = 0..(A - 1) /\ NumAttributes(f.header) = A
      /\ HasLabel(f.header) <=> C # {}
      /\ C # {} => \E c \in Numbers(f) :
           C = {c} /\ LabelIndex(f.header) = c /\ n = A - 1
  BY NumbersAre
<1> HIDE DEF A, C, n
<1>2. a \in Nat /\ a <= A - 1
  BY <1>1
<1>3. CASE C = {}
  <2>1. FeatureOf(f, a) = a + 1
    BY <1>3, FeatureIs DEF C
  <2> QED
    BY <1>1, <1>3, <2>1 DEF TargetOf, DenseTarget, SparseTarget
<1>4. CASE C # {}
  <2>1. PICK c \in Numbers(f) : C = {c} /\ LabelIndex(f.header) = c /\ n = A - 1
    BY <1>1, <1>4
  <2>2. /\ a = c => FeatureOf(f, a) = 0
        /\ a < c => FeatureOf(f, a) = a + 1
        /\ a > c => FeatureOf(f, a) = a
    BY <2>1, FeatureIs DEF C
  <2>3. c \in Nat
    BY <1>1, <2>1
  <2>4. line.is = "dense" => c >= n
    <3> SUFFICES ASSUME line.is = "dense", c < n PROVE FALSE
      BY <1>1, <2>1, <2>3
    <3>1. ~HeaderFails(f)
      BY HeaderSame
    <3>2. Len(line.tokens) = NumAttributes(f.header) /\ Unreadable \notin ToSet(line.tokens)
      BY EntriesSame
    <3> QED
      BY <1>1, <1>4, <2>1, <3>1, <3>2 DEF ArffOutside, n
  <2>5. TargetOf(f.header, line, a) =
          IF a = c THEN 0 ELSE IF line.is = "dense" THEN a + 1 ELSE IF a > c THEN a ELSE a + 1
    BY <1>1, <1>4, <2>1 DEF TargetOf, DenseTarget, SparseTarget
  <2>6. line.is = "dense" => ~(a > c)
    BY <1>1, <1>2, <2>1, <2>3, <2>4
  <2> QED
    BY <1>2, <2>2, <2>3, <2>5, <2>6
<1> QED
  BY <1>3, <1>4

LEMMA FeaturesApart ==
    ASSUME NEW f \in ArffFiles, ArffHeaderGood(f), NEW a \in Numbers(f), NEW b \in Numbers(f),
           FeatureOf(f, a) = FeatureOf(f, b), FeatureOf(f, a) # 0
    PROVE  a = b
<1> DEFINE C == ClassNumbers(f)
<1>1. a \in Nat /\ b \in Nat
  BY AttributesAre
<1>2. CASE C = {}
  BY <1>1, <1>2, FeatureIs
<1>3. CASE C # {}
  <2>1. PICK c \in Numbers(f) : C = {c}
    BY <1>3, NumbersAre
  <2>2. c \in Nat
    BY AttributesAre
  <2>3. /\ a = c => FeatureOf(f, a) = 0
        /\ a < c => FeatureOf(f, a) = a + 1
        /\ a > c => FeatureOf(f, a) = a
    BY <2>1, FeatureIs
  <2>4. /\ b = c => FeatureOf(f, b) = 0
        /\ b < c => FeatureOf(f, b) = b + 1
        /\ b > c => FeatureOf(f, b) = b
    BY <2>1, FeatureIs
  <2> QED
    BY <1>1, <2>2, <2>3, <2>4
<1> QED
  BY <1>2, <1>3

LEMMA PointSame ==
    ASSUME NEW f \in ArffFiles, ArffHeaderGood(f), NEW line \in ArffLines,
           EntriesGood(f, line), FeaturesDiffer(line), ~ArffOutside(f, line)
    PROVE  ArffPoint(f.header, line) = SaidPoint(f, line)
<1> DEFINE E == EntriesOf(line)
           n == Cardinality(Numerics(f.header))
           T == [k \in DOMAIN E |-> Entry(TargetOf(f.header, line, E[k].index), E[k].value)]
<1>1. line.is # "broken" /\ \A k \in DOMAIN E : E[k].index \in Numbers(f)
  BY DEF EntriesGood
<1>2. /\ DOMAIN E = 1..Len(E) /\ Len(E) \in Nat
      /\ line.is # "dense" => line.is = "sparse" /\ E = line.entries
  BY <1>1, EntriesAre
<1>3. SaidEntries(line) = E
  BY <1>2 DEF SaidEntries, EntriesOf
<1>4. n \in Nat /\ n = Cardinality(Numbers(f) \ ClassNumbers(f))
  BY NumbersAre
<1>5. ArffPoint(f.header, line) = SparsePoint(T, n)
  BY ArffPointIs
<1>6. \A a, b \in DOMAIN E : E[a].index = E[b].index => a = b
  BY DEF FeaturesDiffer
<1> HIDE DEF E, n
<1>7. DOMAIN T = DOMAIN E /\ \A k \in DOMAIN E :
         T[k].index = FeatureOf(f, E[k].index) /\ T[k].value = E[k].value
  BY <1>1, TargetIs DEF Entry
<1>8. ASSUME NEW a \in DOMAIN E, NEW b \in DOMAIN E, NEW g \in 1..n,
             FeatureOf(f, E[a].index) = g, FeatureOf(f, E[b].index) = g
      PROVE  a = b
  <2>1. g # 0
    BY <1>4
  <2>2. E[a].index = E[b].index
    BY <1>1, <1>8, <2>1, FeaturesApart
  <2> QED
    BY <1>6, <2>2
<1> HIDE DEF T
<1>9. SparsePoint(T, n) = Plain(T, n)
  <2>1. DOMAIN T \subseteq Int
    BY <1>2, <1>7
  <2>2. \A a, b \in DOMAIN T : T[a].index = T[b].index /\ T[a].index \in 1..n => a = b
    BY <1>7, <1>8
  <2> QED
    BY <1>4, <2>1, <2>2, PlainIs
<1> DEFINE Left(g) == IF \E k \in DOMAIN T : T[k].index = g
                      THEN T[CHOOSE k \in DOMAIN T : T[k].index = g].value ELSE 0
           Right(g) == IF \E k \in DOMAIN E : FeatureOf(f, E[k].index) = g
                       THEN E[CHOOSE k \in DOMAIN E : FeatureOf(f, E[k].index) = g].value ELSE 0
<1>10. ASSUME NEW g \in 1..n PROVE Left(g) = Right(g)
  <2>1. CASE \E k \in DOMAIN E : FeatureOf(f, E[k].index) = g
    <3> DEFINE k == CHOOSE l \in DOMAIN E : FeatureOf(f, E[l].index) = g
               j == CHOOSE l \in DOMAIN T : T[l].index = g
    <3>1. k \in DOMAIN E /\ FeatureOf(f, E[k].index) = g
      BY <2>1
    <3>2. \E l \in DOMAIN T : T[l].index = g
      BY <1>7, <2>1
    <3>3. j \in DOMAIN T /\ T[j].index = g
      BY <3>2
    <3>4. Left(g) = T[j].value /\ Right(g) = E[k].value
      BY <2>1, <3>2
    <3> HIDE DEF k, j
    <3>5. j = k
      BY <1>7, <1>8, <3>1, <3>3
    <3> HIDE DEF Left, Right
    <3> QED
      BY <1>7, <3>1, <3>4, <3>5
  <2>2. CASE ~\E k \in DOMAIN E : FeatureOf(f, E[k].index) = g
    <3>1. ~\E l \in DOMAIN T : T[l].index = g
      BY <1>7, <2>2
    <3> QED
      BY <2>2, <3>1
  <2> QED
    BY <2>1, <2>2
<1>11. Plain(T, n) = [g \in 1..n |-> Left(g)]
  BY DEF Plain
<1>12. SaidPoint(f, line) = [g \in 1..n |-> Right(g)]
  BY <1>3, <1>4 DEF SaidPoint
<1> HIDE DEF Left, Right
<1> QED
  BY <1>5, <1>9, <1>10, <1>11, <1>12

LEMMA ArffRead ==
    ASSUME NEW f \in ArffFiles, ~DenseClassNotLast(f), ~NamedTwice(f)
    PROVE  ParseArff(f) = ArffSays(f)
<1> DEFINE L == f.lines
<1>1. \A i \in DOMAIN L : L[i] \in ArffLines
  BY ArffFileIs
<1>2. ASSUME NEW i \in DOMAIN L, L[i].is # "broken" PROVE FeaturesDiffer(L[i])
  <2> DEFINE line == L[i]
             E == EntriesOf(line)
  <2>1. SUFFICES ASSUME NEW a \in DOMAIN E, NEW b \in DOMAIN E, E[a].index = E[b].index
                 PROVE  a = b
    BY DEF FeaturesDiffer
  <2>2. /\ DOMAIN E = 1..Len(E)
        /\ line.is = "dense" => \A k \in DOMAIN E : E[k].index = k - 1
        /\ line.is # "dense" => line.is = "sparse" /\ E = line.entries
    BY <1>1, <1>2, EntriesAre
  <2>3. CASE line.is = "dense"
    <3> HIDE DEF E, line
    <3>1. a \in Int /\ b \in Int /\ a - 1 = b - 1
      BY <2>1, <2>2, <2>3
    <3> QED
      BY <3>1
  <2>4. CASE line.is = "sparse"
    <3>1. \A p, q \in DOMAIN line.entries : p # q => line.entries[p].index # line.entries[q].index
      BY <2>4, ArffFileIs DEF NamedTwice
    <3> QED
      BY <2>1, <2>2, <2>4, <3>1
  <2> QED
    BY <2>2, <2>3, <2>4
<1>3. \A i \in DOMAIN L : ~ArffOutside(f, L[i])
  BY ArffFileIs DEF DenseClassNotLast
<1> HIDE DEF L
<1>4. CASE ~ArffHeaderGood(f)
  <2>1. HeaderFails(f)
    BY <1>4, HeaderSame
  <2> QED
    BY <1>4, <2>1, ArffSaysIs, ParseArffIs
<1>5. CASE ArffHeaderGood(f)
  <2>1. ~HeaderFails(f)
    BY <1>5, HeaderSame
  <2>2. ASSUME NEW i \in DOMAIN L
        PROVE  ArffLineFails(f.header, L[i]) <=> ~ArffLineGood(f, L[i])
    <3>1. CASE L[i].is = "broken"
      BY <3>1 DEF ArffLineFails, ArffLineGood
    <3>2. CASE L[i].is # "broken"
      BY <1>1, <1>2, <1>5, <3>2, LinesSame
    <3> QED
      BY <3>1, <3>2
  <2>3. CASE \E i \in DOMAIN L : ~ArffLineGood(f, L[i])
    <3>1. ArffSays(f) = Error
      BY <2>3, ArffSaysIs DEF L
    <3>2. ParseArff(f) = Error
      BY <2>2, <2>3, ParseArffIs DEF L
    <3> QED
      BY <3>1, <3>2
  <2>4. CASE \A i \in DOMAIN L : ArffLineGood(f, L[i])
    <3>1. ParseArff(f) =
            Parsed([i \in DOMAIN L |-> ArffPoint(f.header, L[i])],
                   IF HasLabel(f.header)
                   THEN [i \in DOMAIN L |-> ArffLabel(f.header, L[i])] ELSE NoLabels)
      BY <2>1, <2>2, <2>4, Zenon DEF ParseArff, L
    <3>2. ArffSays(f) =
            Parsed([i \in DOMAIN L |-> SaidPoint(f, L[i])],
                   IF ClassNumbers(f) = {} THEN NoLabels
                   ELSE [i \in DOMAIN L |-> (CHOOSE e \in SaidLabels(f, L[i]) : TRUE).value])
      BY <1>5, <2>4, ArffSaysIs DEF L
    <3>3. HasLabel(f.header) <=> ClassNumbers(f) # {}
      BY <1>5, NumbersAre
    <3>4. ASSUME NEW i \in DOMAIN L
          PROVE  /\ ArffPoint(f.header, L[i]) = SaidPoint(f, L[i])
                 /\ ClassNumbers(f) # {} =>
                      ArffLabel(f.header, L[i]) = (CHOOSE e \in SaidLabels(f, L[i]) : TRUE).value
      <4>1. L[i].is # "broken"
        BY <2>4 DEF ArffLineGood
      <4>2. FeaturesDiffer(L[i]) /\ L[i] \in ArffLines /\ ~ArffOutside(f, L[i])
        BY <1>1, <1>2, <1>3, <4>1
      <4>3. /\ EntriesGood(f, L[i])
            /\ ClassNumbers(f) # {} =>
                 ArffLabel(f.header, L[i]) = (CHOOSE e \in SaidLabels(f, L[i]) : TRUE).value
        BY <1>5, <2>4, <4>2, LinesSame
      <4>4. ArffPoint(f.header, L[i]) = SaidPoint(f, L[i])
        BY <1>5, <4>2, <4>3, PointSame
      <4> QED
        BY <4>3, <4>4
    <3>5. [i \in DOMAIN L |-> ArffPoint(f.header, L[i])] = [i \in DOMAIN L |-> SaidPoint(f, L[i])]
      BY <3>4
    <3>6. ClassNumbers(f) # {} =>
            [i \in DOMAIN L |-> ArffLabel(f.header, L[i])] =
            [i \in DOMAIN L |-> (CHOOSE e \in SaidLabels(f, L[i]) : TRUE).value]
      BY <3>4
    <3> QED
      BY <3>1, <3>2, <3>3, <3>5, <3>6
  <2> QED
    BY <2>3, <2>4
<1> QED
  BY <1>4, <1>5

\* Whoever wrote it, a file is accepted with just the points and labels that it
\* describes or refused, and nothing is stored outside of a point
\* (parse_libsvm_data, parse_arff_header and parse_arff_data).
THEOREM ReadAsSaid == DataSpec => []ReadsWhatFileSays
<1>1. DataInv => ReadsWhatFileSays
  <2> SUFFICES ASSUME DataInv, NEW format \in Formats, data_file # None,
                      ~DenseClassNotLast(data_file), ~NamedTwice(data_file)
               PROVE  /\ Parse(data_file, format) = Says(data_file, format)
                      /\ Says(data_file, format) # Error => ~Outside(data_file, format)
    BY DEF ReadsWhatFileSays
  <2> DEFINE f == data_file
  <2>1. f \in LibsvmFiles \cup ArffFiles
    BY DEF DataInv
  <2>2. CASE f.format # format
    BY <2>2 DEF Parse, Says
  <2>3. CASE f.format = format /\ format = "libsvm"
    <3>1. f \in LibsvmFiles
      BY <2>1, <2>3 DEF ArffFiles
    <3>2. Parse(f, format) = ParseLibsvm(f) /\ Says(f, format) = LibsvmSays(f)
      BY <2>3 DEF Parse, Says
    <3> QED
      BY <2>3, <3>1, <3>2, LibsvmRead
  <2>4. CASE f.format = format /\ format = "arff"
    <3>1. f \in ArffFiles
      BY <2>1, <2>4 DEF LibsvmFiles
    <3>2. Parse(f, format) = ParseArff(f) /\ Says(f, format) = ArffSays(f)
      BY <2>4 DEF Parse, Says
    <3>3. ~Outside(f, format)
      BY <2>4 DEF Outside, DenseClassNotLast
    <3> QED
      BY <3>1, <3>2, <3>3, ArffRead
  <2> QED
    BY <2>2, <2>3, <2>4 DEF Formats
<1> QED
  BY <1>1, DataInvariant, PTL

----------------------------------------------------------------------------
(* A data set survives its file.                                           *)

BagOf(r) == [x \in {r[i] : i \in DOMAIN r} |-> Cardinality({i \in DOMAIN r : r[i] = x})]

\* Rows in another order are the same rows.
LEMMA BagSame ==
    ASSUME NEW r, NEW t, IsFiniteSet(DOMAIN r), NEW p \in [DOMAIN r -> DOMAIN t],
           \A i, j \in DOMAIN r : p[i] = p[j] => i = j,
           \A k \in DOMAIN t : \E i \in DOMAIN r : p[i] = k,
           \A i \in DOMAIN r : r[i] = t[p[i]]
    PROVE  BagOf(r) = BagOf(t)
<1>1. {r[i] : i \in DOMAIN r} = {t[i] : i \in DOMAIN t}
  OBVIOUS
<1>2. ASSUME NEW x
      PROVE  Cardinality({i \in DOMAIN r : r[i] = x}) = Cardinality({i \in DOMAIN t : t[i] = x})
  <2> DEFINE R == {i \in DOMAIN r : r[i] = x}
             T == {i \in DOMAIN t : t[i] = x}
             g == [i \in R |-> p[i]]
  <2>1. IsFiniteSet(R)
    <3>1. R \in SUBSET DOMAIN r
      OBVIOUS
    <3> HIDE DEF R
    <3> QED
      BY <3>1, FS_Subset
  <2>2. g \in [R -> T]
    OBVIOUS
  <2>3. \A i, j \in R : g[i] = g[j] => i = j
    OBVIOUS
  <2>4. \A k \in T : \E i \in R : g[i] = k
    OBVIOUS
  <2> HIDE DEF R, T, g
  <2>5. g \in Bijection(R, T)
    BY <2>2, <2>3, <2>4 DEF Bijection, Injection, Surjection, IsInjective
  <2>6. ExistsBijection(R, T)
    BY <2>5 DEF ExistsBijection
  <2>7. Cardinality(T) = Cardinality(R)
    BY <2>1, <2>6, FS_Bijection
  <2> QED
    BY <2>7 DEF R, T
<1> QED
  BY <1>1, <1>2 DEF BagOf

RowSeq(points, labels, y) ==
    [i \in DOMAIN points |->
        IF labels = NoLabels THEN <<points[i]>> ELSE <<points[i], labels[i], y[i]>>]

LEMMA RowsAre ==
    ASSUME NEW points, NEW labels, NEW y
    PROVE  RowsOf(points, labels, y) = BagOf(RowSeq(points, labels, y))
<1> DEFINE Row(i) == IF labels = NoLabels THEN <<points[i]>> ELSE <<points[i], labels[i], y[i]>>
           r == RowSeq(points, labels, y)
<1>1. DOMAIN r = DOMAIN points /\ \A i \in DOMAIN points : r[i] = Row(i)
  BY DEF RowSeq
<1>2. RowsOf(points, labels, y) =
        [row \in {Row(i) : i \in DOMAIN points} |-> Cardinality({i \in DOMAIN points : Row(i) = row})]
  BY DEF RowsOf
<1> HIDE DEF Row, r
<1>3. {Row(i) : i \in DOMAIN points} = {r[i] : i \in DOMAIN r}
  BY <1>1
<1>4. \A row : {i \in DOMAIN points : Row(i) = row} = {i \in DOMAIN r : r[i] = row}
  BY <1>1
<1> QED
  BY <1>2, <1>3, <1>4 DEF BagOf, r

\* All numbers up to m are in order already.
LEMMA SortedAll ==
    ASSUME NEW m \in Nat, NEW k \in 1..m
    PROVE  Sorted(1..m)[k] = k /\ Cardinality(1..m) = m
<1>1. IsFiniteSet(1..m) /\ Cardinality(1..m) = m
  BY FS_Interval
<1>2. ASSUME NEW l \in 1..m PROVE Cardinality({j \in 1..m : j <= l}) = l
  <2>1. {j \in 1..m : j <= l} = 1..l
    OBVIOUS
  <2>2. Cardinality(1..l) = l
    BY FS_Interval
  <2> QED
    BY <2>1, <2>2
<1>3. Sorted(1..m)[k] = CHOOSE l \in 1..m : Cardinality({j \in 1..m : j <= l}) = k
  BY <1>1 DEF Sorted
<1>4. \E l \in 1..m : Cardinality({j \in 1..m : j <= l}) = k
  BY <1>2
<1> QED
  BY <1>1, <1>2, <1>3, <1>4

\* The rows of a data set that are kept, n features of each.
RowsKept(P, labels, K, n) ==
    RowsOf([k \in DOMAIN Sorted(K) |-> SubSeq(P[Sorted(K)[k]], 1, n)],
           IF labels = NoLabels THEN NoLabels ELSE [k \in DOMAIN Sorted(K) |-> labels[Sorted(K)[k]]],
           Mapped(labels))

\* Rows that are read in the order src.
RowsRead(P, labels, src, n) ==
    LET others == IF labels = NoLabels THEN NoLabels ELSE [b \in DOMAIN src |-> labels[src[b]]]
    IN  RowsOf([b \in DOMAIN src |-> SubSeq(P[src[b]], 1, n)], others, Mapped(others))

LEMMA NoLabelsIs ==
    ASSUME NEW s, DOMAIN s # {} PROVE s # NoLabels
<1>1. DOMAIN NoLabels = {}
  BY DEF NoLabels
<1> QED
  BY <1>1

\* M rows that are those of K in some order, each once.
EachOnce(src, M, K) ==
    /\ src \in [1..M -> K]
    /\ \A a, b \in 1..M : src[a] = src[b] => a = b
    /\ \A i \in K : \E b \in 1..M : src[b] = i

\* Rows of m that are kept: all of them, if they are labelled.
KeepsLabels(K, labels, m) ==
    /\ K \in SUBSET (1..m)
    /\ labels # NoLabels => DOMAIN labels = 1..m /\ K = 1..m

LEMMA RowsBack ==
    ASSUME NEW P, NEW m \in Nat \ {0}, NEW labels, NEW K, KeepsLabels(K, labels, m), NEW n,
           NEW M \in Nat \ {0}, NEW src, EachOnce(src, M, K)
    PROVE  RowsRead(P, labels, src, n) = RowsKept(P, labels, K, n)
<1> USE DEF EachOnce, KeepsLabels
<1> DEFINE N == Cardinality(K)
           kept == Sorted(K)
           others == IF labels = NoLabels THEN NoLabels ELSE [b \in 1..M |-> labels[src[b]]]
           same == IF labels = NoLabels THEN NoLabels ELSE [k \in 1..N |-> labels[kept[k]]]
           back == [b \in 1..M |-> SubSeq(P[src[b]], 1, n)]
           there == [k \in 1..N |-> SubSeq(P[kept[k]], 1, n)]
           p == [b \in 1..M |-> CHOOSE k \in 1..N : kept[k] = src[b]]
<1>1. IsFiniteSet(K) /\ K \subseteq Int
  <2>1. IsFiniteSet(1..m) /\ 1..m \subseteq Int
    BY FS_Interval
  <2>2. IsFiniteSet(K)
    BY <2>1, FS_Subset
  <2> QED
    BY <2>1, <2>2
<1>2. /\ N \in Nat /\ DOMAIN kept = 1..N
      /\ \A k \in 1..N : kept[k] \in K
      /\ \A k, l \in 1..N : k < l => kept[k] < kept[l]
      /\ \A i \in K : \E k \in 1..N : kept[k] = i
  BY <1>1, SortedIs
<1>3. labels # NoLabels => N = m /\ \A k \in 1..N : kept[k] = k
  <2> SUFFICES ASSUME labels # NoLabels PROVE N = m /\ \A k \in 1..N : kept[k] = k
    OBVIOUS
  <2>1. K = 1..m
    OBVIOUS
  <2>2. m \in Nat /\ 1 \in 1..m
    OBVIOUS
  <2>3. \A k \in 1..m : Sorted(1..m)[k] = k /\ Cardinality(1..m) = m
    BY <2>2, SortedAll
  <2> QED
    BY <2>1, <2>2, <2>3
<1>4. RowsRead(P, labels, src, n) = RowsOf(back, others, Mapped(others))
  <2>1. DOMAIN src = 1..M
    OBVIOUS
  <2> QED
    BY <2>1 DEF RowsRead
<1>5. RowsKept(P, labels, K, n) = RowsOf(there, same, Mapped(labels))
  BY <1>2 DEF RowsKept
<1>6. labels # NoLabels => others # NoLabels /\ same # NoLabels
  <2> SUFFICES ASSUME labels # NoLabels PROVE others # NoLabels /\ same # NoLabels
    OBVIOUS
  <2>1. others = [b \in 1..M |-> labels[src[b]]] /\ same = [k \in 1..N |-> labels[kept[k]]]
    OBVIOUS
  <2>2. 1 \in 1..M /\ 1 \in 1..N
    BY <1>3
  <2>3. DOMAIN others # {} /\ DOMAIN same # {}
    BY <2>1, <2>2
  <2> HIDE DEF others, same
  <2> QED
    BY <2>3, NoLabelsIs
<1> HIDE DEF N, kept
<1>7. ASSUME NEW b \in 1..M PROVE p[b] \in 1..N /\ kept[p[b]] = src[b]
  <2>1. src[b] \in K
    OBVIOUS
  <2>2. \E k \in 1..N : kept[k] = src[b]
    BY <1>2, <2>1
  <2> QED
    BY <2>2
<1>8. p \in [1..M -> 1..N]
  BY <1>7
<1> HIDE DEF p
<1>9. \A a, b \in 1..M : p[a] = p[b] => a = b
  BY <1>7
<1>10. \A k \in 1..N : \E b \in 1..M : p[b] = k
  <2> SUFFICES ASSUME NEW k \in 1..N PROVE \E b \in 1..M : p[b] = k
    OBVIOUS
  <2>1. PICK b \in 1..M : src[b] = kept[k]
    BY <1>2
  <2>2. kept[p[b]] = kept[k] /\ p[b] \in 1..N
    BY <1>7, <2>1
  <2>3. p[b] \in Int /\ k \in Int /\ kept[k] \in Int
    <3>1. p[b] \in Int /\ k \in Int
      BY <1>2, <2>2
    <3>2. kept[k] \in K
      BY <1>2
    <3> QED
      BY <1>1, <3>1, <3>2
  <2>4. ~(p[b] < k) /\ ~(k < p[b])
    <3>1. p[b] < k => kept[p[b]] < kept[k]
      BY <1>2, <2>2
    <3>2. k < p[b] => kept[k] < kept[p[b]]
      BY <1>2, <2>2
    <3> QED
      BY <2>2, <2>3, <3>1, <3>2
  <2> QED
    BY <2>3, <2>4
<1>11. labels # NoLabels => \A b \in 1..M : Mapped(others)[b] = Mapped(labels)[p[b]]
  <2> SUFFICES ASSUME labels # NoLabels
               PROVE  \A b \in 1..M : Mapped(others)[b] = Mapped(labels)[p[b]]
    OBVIOUS
  <2>1. \A b \in 1..M : p[b] = src[b]
    BY <1>3, <1>7
  <2>2. DOMAIN others = 1..M /\ \A b \in 1..M : others[b] = labels[p[b]]
    BY <2>1
  <2> HIDE DEF others
  <2>3. DOMAIN labels = 1..N
    BY <1>3
  <2>4. p \in [DOMAIN others -> DOMAIN labels]
    BY <1>8, <2>2, <2>3
  <2>5. ToSet(others) = ToSet(labels)
    <3>1. ASSUME NEW b \in 1..M PROVE \E k \in 1..N : others[b] = labels[k]
      <4>1. p[b] \in 1..N
        BY <1>8
      <4> QED
        BY <2>2, <4>1
    <3>2. ASSUME NEW k \in 1..N PROVE \E b \in 1..M : others[b] = labels[k]
      <4>1. PICK b \in 1..M : p[b] = k
        BY <1>10
      <4> QED
        BY <2>2, <4>1
    <3>3. /\ ToSet(others) = {others[b] : b \in 1..M}
          /\ ToSet(labels) = {labels[k] : k \in 1..N}
      BY <2>2, <2>3 DEF ToSet
    <3>4. ASSUME NEW x \in ToSet(others) PROVE x \in ToSet(labels)
      <4>1. PICK b \in 1..M : x = others[b]
        BY <3>3
      <4>2. PICK k \in 1..N : others[b] = labels[k]
        BY <3>1
      <4> QED
        BY <3>3, <4>1, <4>2
    <3>5. ASSUME NEW x \in ToSet(labels) PROVE x \in ToSet(others)
      <4>1. PICK k \in 1..N : x = labels[k]
        BY <3>3
      <4>2. PICK b \in 1..M : others[b] = labels[k]
        BY <3>2
      <4> QED
        BY <3>3, <4>1, <4>2
    <3> QED
      BY <3>4, <3>5, Zenon
  <2> QED
    BY <2>2, <2>3, <2>4, <2>5 DEF Mapped
<1> DEFINE r == RowSeq(back, others, Mapped(others))
           t == RowSeq(there, same, Mapped(labels))
<1>12. DOMAIN r = 1..M /\ DOMAIN t = 1..N
  BY DEF RowSeq
<1>13. ASSUME NEW b \in 1..M PROVE r[b] = t[p[b]]
  <2>1. back[b] = there[p[b]]
    BY <1>7
  <2>2. CASE labels = NoLabels
    <3>1. others = NoLabels /\ same = NoLabels
      BY <2>2
    <3> HIDE DEF back, there, others, same
    <3>2. DOMAIN back = 1..M /\ DOMAIN there = 1..N
      BY DEF back, there
    <3>3. r[b] = <<back[b]>> /\ t[p[b]] = <<there[p[b]]>>
      BY <1>7, <3>1, <3>2 DEF RowSeq
    <3> HIDE DEF r, t
    <3> QED
      BY <2>1, <3>3
  <2>3. CASE labels # NoLabels
    <3>1. others[b] = same[p[b]]
      BY <1>7, <2>3
    <3>2. Mapped(others)[b] = Mapped(labels)[p[b]] /\ others # NoLabels /\ same # NoLabels
      BY <1>6, <1>11, <2>3
    <3> HIDE DEF back, there, others, same
    <3>3. DOMAIN back = 1..M /\ DOMAIN there = 1..N
      BY DEF back, there
    <3>4. /\ r[b] = <<back[b], others[b], Mapped(others)[b]>>
          /\ t[p[b]] = <<there[p[b]], same[p[b]], Mapped(labels)[p[b]]>>
      BY <1>7, <3>2, <3>3 DEF RowSeq
    <3> HIDE DEF r, t
    <3> QED
      BY <2>1, <3>1, <3>2, <3>4
  <2> QED
    BY <2>2, <2>3
<1> HIDE DEF r, t
<1>14. IsFiniteSet(1..M)
  BY FS_Interval
<1>15. BagOf(r) = BagOf(t)
  <2>1. p \in [DOMAIN r -> DOMAIN t] /\ IsFiniteSet(DOMAIN r)
    BY <1>8, <1>12, <1>14
  <2>2. \A i, j \in DOMAIN r : p[i] = p[j] => i = j
    BY <1>9, <1>12
  <2>3. \A k \in DOMAIN t : \E i \in DOMAIN r : p[i] = k
    BY <1>10, <1>12
  <2>4. \A i \in DOMAIN r : r[i] = t[p[i]]
    BY <1>12, <1>13
  <2> QED
    BY <2>1, <2>2, <2>3, <2>4, BagSame
<1> QED
  BY <1>4, <1>5, <1>15, RowsAre DEF r, t

\* Each row is written once.
LEMMA OrderIs ==
    ASSUME NEW m \in Nat, NEW order \in Orders(m)
    PROVE  /\ order \in [1..m -> 1..m]
           /\ \A a, b \in 1..m : order[a] = order[b] => a = b
           /\ \A i \in 1..m : \E a \in 1..m : order[a] = i
<1>1. order \in Injection(1..m, 1..m)
  BY DEF Orders, Injection
<1>2. IsFiniteSet(1..m)
  BY FS_Interval
<1>3. order \in Surjection(1..m, 1..m)
  BY <1>1, <1>2, FS_Injection
<1> QED
  BY <1>1, <1>3 DEF Injection, Surjection, IsInjective

\* A line of a LIBSVM file is good, and the point up to any feature.
LEMMA LineBack ==
    ASSUME NEW own \in Int, own # Unreadable, NEW point \in Seq(Int),
           \A k \in DOMAIN point : point[k] # Unreadable,
           NEW n \in Nat, n <= Len(point)
    PROVE  LET line == LibsvmLine(own, point)
           IN  /\ line \in LineRecords /\ line.label = own /\ LineGood(line)
               /\ SparsePoint(line.entries, n) = SubSeq(point, 1, n)
               /\ line.entries = <<>> <=> \A k \in DOMAIN point : point[k] = 0
<1> DEFINE line == LibsvmLine(own, point)
           E == line.entries
<1>1. /\ line \in LineRecords /\ line.label = own
      /\ \A k \in DOMAIN E : E[k].index \in DOMAIN point /\ E[k].value = point[E[k].index]
                             /\ E[k].value # 0
      /\ \A f \in DOMAIN point : point[f] # 0 => \E k \in DOMAIN E : E[k].index = f
      /\ \A a, b \in DOMAIN E : a < b => E[a].index < E[b].index
  BY LibsvmLineIs
<1>2. DOMAIN E = 1..Len(E) /\ Len(E) \in Nat /\ E \in Seq(EntryRecords)
  BY <1>1, LineIs
<1>3. DOMAIN point = 1..Len(point) /\ Len(point) \in Nat
  OBVIOUS
<1> HIDE DEF line
<1>4. LineGood(line)
  BY <1>1, <1>3 DEF LineGood
<1> HIDE DEF E
<1>5. \A a, b \in DOMAIN E : E[a].index = E[b].index /\ E[a].index \in 1..n => a = b
  <2> SUFFICES ASSUME NEW a \in DOMAIN E, NEW b \in DOMAIN E, E[a].index = E[b].index
               PROVE  a = b
    OBVIOUS
  <2>1. a \in Int /\ b \in Int /\ E[a].index \in Int
    BY <1>1, <1>2, <1>3
  <2>2. ~(a < b) /\ ~(b < a)
    BY <1>1, <2>1
  <2> QED
    BY <2>1, <2>2
<1>6. SparsePoint(E, n) = Plain(E, n)
  <2>1. DOMAIN E \subseteq Int
    BY <1>2
  <2> QED
    BY <1>5, <2>1, PlainIs
<1>7. ASSUME NEW f \in 1..n PROVE Plain(E, n)[f] = point[f]
  <2>1. f \in DOMAIN point
    BY <1>3
  <2>2. CASE \E k \in DOMAIN E : E[k].index = f
    <3> DEFINE l == CHOOSE k \in DOMAIN E : E[k].index = f
    <3>1. l \in DOMAIN E /\ E[l].index = f
      BY <2>2
    <3>2. Plain(E, n)[f] = E[l].value
      BY <2>2 DEF Plain
    <3> HIDE DEF l
    <3> QED
      BY <1>1, <3>1, <3>2
  <2>3. CASE ~\E k \in DOMAIN E : E[k].index = f
    <3>1. Plain(E, n)[f] = 0
      BY <2>3 DEF Plain
    <3> QED
      BY <1>1, <2>1, <2>3, <3>1
  <2> QED
    BY <2>2, <2>3
<1>8. Plain(E, n) = [f \in 1..n |-> point[f]]
  <2>1. Plain(E, n) = [f \in 1..n |-> Plain(E, n)[f]]
    BY DEF Plain
  <2> QED
    BY <1>7, <2>1
<1>9. SubSeq(point, 1, n) = [f \in 1..n |-> point[f]]
  OBVIOUS
<1>10. E = <<>> <=> \A k \in DOMAIN point : point[k] = 0
  <2>1. E = <<>> <=> DOMAIN E = {}
    <3>1. E \in Seq(EntryRecords)
      BY <1>2
    <3>2. E = <<>> <=> Len(E) = 0
      BY <3>1
    <3>3. Len(E) = 0 <=> 1..Len(E) = {}
      <4> DEFINE l == Len(E)
      <4>1. l \in Nat
        BY <1>2
      <4> HIDE DEF l
      <4>2. l = 0 <=> 1..l = {}
        BY <4>1
      <4> QED
        BY <4>2 DEF l
    <3> QED
      BY <1>2, <3>2, <3>3
  <2>2. DOMAIN E = {} <=> \A k \in DOMAIN point : point[k] = 0
    BY <1>1
  <2> QED
    BY <2>1, <2>2
<1> QED
  BY <1>1, <1>4, <1>6, <1>8, <1>9, <1>10 DEF line, E

\* The features that are not zero everywhere, and the last of them.
Featured(P) == {f \in 1..NumFeatures(P) : Column(P, f) # {0}}
LastFeature(P) == Max({0} \cup Featured(P))

LEMMA FeaturedIs ==
    ASSUME NEW P, GoodPoints(P), NEW f \in 1..NumFeatures(P)
    PROVE  f \in Featured(P) <=> \E i \in DOMAIN P : P[i][f] # 0
<1>1. 1 \in DOMAIN P
  BY PointsAre
<1>2. Column(P, f) = {P[i][f] : i \in DOMAIN P}
  BY DEF Column
<1>3. Column(P, f) # {0} <=> \E i \in DOMAIN P : P[i][f] # 0
  BY <1>1, <1>2
<1> QED
  BY <1>3 DEF Featured

LEMMA LastFeatureIs ==
    ASSUME NEW P, GoodPoints(P)
    PROVE  /\ LastFeature(P) \in 0..NumFeatures(P)
           /\ LastFeature(P) = 0 <=> Featured(P) = {}
           /\ Featured(P) # {} => LastFeature(P) = Max(Featured(P))
<1> DEFINE N == NumFeatures(P)
           F == Featured(P)
<1>1. N \in Nat /\ F \subseteq 1..N
  BY PointsAre DEF Featured
<1>2. IsFiniteSet(F)
  <2>1. IsFiniteSet(1..N)
    BY <1>1, FS_Interval
  <2> HIDE DEF F, N
  <2> QED
    BY <1>1, <2>1, FS_Subset
<1>3. LastFeature(P) = Max({0} \cup F)
  BY DEF LastFeature
<1> HIDE DEF F, N
<1>4. CASE F = {}
  <2>1. {0} \cup F = {0} /\ {0} \subseteq Int
    BY <1>4
  <2>2. Max({0}) = 0
    BY <2>1, ExtremesAre
  <2> QED
    BY <1>1, <1>3, <1>4, <2>1, <2>2 DEF F, N
<1>5. CASE F # {}
  <2>1. F \subseteq Int /\ {0} \cup F \subseteq Int
    BY <1>1
  <2>2. Max(F) \in F /\ \A k \in F : k <= Max(F)
    BY <1>2, <1>5, <2>1, Extremes
  <2>3. Max(F) \in 1..N
    BY <1>1, <2>2
  <2>4. Max(F) \in {0} \cup F /\ \A k \in {0} \cup F : k <= Max(F)
    BY <2>2, <2>3
  <2>5. Max({0} \cup F) = Max(F)
    BY <2>1, <2>4, ExtremesAre
  <2> QED
    BY <1>1, <1>3, <1>5, <2>3, <2>5 DEF F, N
<1> QED
  BY <1>4, <1>5

\* What is read are n features of the rows of points P in the order src.
Reordered(P, labels, src, M, n) ==
    Parsed([b \in 1..M |-> SubSeq(P[src[b]], 1, n)],
           IF labels = NoLabels THEN NoLabels ELSE [b \in 1..M |-> labels[src[b]]])

\* It has the rows K, each once.
ReadBack(P, labels, K, n, p) ==
    \E M \in Nat \ {0} : \E src \in [1..M -> K] :
        EachOnce(src, M, K) /\ p = Reordered(P, labels, src, M, n)

LabelsFor(P, labels) == GoodLabels(labels) /\ (labels # NoLabels => Len(labels) = Len(P))

AllReadable(P) == \A i \in DOMAIN P : \A k \in DOMAIN P[i] : P[i][k] # Unreadable

\* The rows of a LIBSVM file that are not empty.
WithEntries(P, labels) == {i \in DOMAIN P : labels # NoLabels \/ ToSet(P[i]) # {0}}

LEMMA SavedLibsvm ==
    ASSUME NEW P, GoodPoints(P), AllReadable(P), NEW labels, LabelsFor(P, labels),
           NEW order \in Orders(Len(P))
    PROVE  LET p == ParseLibsvm(WriteLibsvm(P, labels, order))
               n == LastFeature(P)
           IN  /\ n = 0 => p = Error
               /\ n # 0 => ReadBack(P, labels, WithEntries(P, labels), n, p)
<1> DEFINE f == WriteLibsvm(P, labels, order)
           n == LastFeature(P)
           m == Len(P)
           K == WithEntries(P, labels)
           S == KeptLines(f)
           L == LibsvmLines(f)
           M == Cardinality(S)
           q == Sorted(S)
           Own(i) == LabelOf(labels, i)
           src == [b \in 1..M |-> order[q[b]]]
<1>1. /\ m \in Nat /\ DOMAIN P = 1..m /\ NumFeatures(P) \in Nat
      /\ \A i \in 1..m : /\ P[i] \in Seq(Int) /\ Len(P[i]) = NumFeatures(P)
                         /\ DOMAIN P[i] = 1..NumFeatures(P)
      /\ NumFeatures(P) # 0
  BY PointsAre
<1>2. /\ f \in LibsvmFiles /\ DOMAIN f.lines = 1..m
      /\ \A a \in 1..m : f.lines[a] = LibsvmLine(Own(order[a]), P[order[a]])
  BY WriteLibsvmTyped DEF LabelsFor
<1>3. /\ order \in [1..m -> 1..m]
      /\ \A a, b \in 1..m : order[a] = order[b] => a = b
      /\ \A i \in 1..m : \E a \in 1..m : order[a] = i
  BY <1>1, OrderIs
<1>4. ASSUME NEW i \in 1..m
      PROVE  /\ Own(i) \in Int /\ Own(i) # Unreadable
             /\ labels # NoLabels => Own(i) = labels[i] /\ Own(i) # NoLabel
             /\ labels = NoLabels => Own(i) = NoLabel
  BY <1>1, LabelsAre DEF LabelsFor
<1>5. n \in Nat /\ n <= NumFeatures(P)
  BY <1>1, LastFeatureIs
<1>6. S \subseteq 1..m /\ L = Picked(f.lines, S) /\ f.lines \in Seq(LineRecords)
  <2>1. L = Picked(f.lines, S)
    BY DEF LibsvmLines, KeptLines
  <2>2. S \subseteq 1..m
    BY <1>2 DEF KeptLines
  <2>3. f.lines \in Seq(LineRecords)
    BY <1>2, LinesAre
  <2> QED
    BY <2>1, <2>2, <2>3
<1> HIDE DEF f, Own, n, m
<1>7. ASSUME NEW i \in 1..m
      PROVE  LET line == LibsvmLine(Own(i), P[i])
             IN  /\ line \in LineRecords /\ line.label = Own(i) /\ LineGood(line)
                 /\ SparsePoint(line.entries, n) = SubSeq(P[i], 1, n)
                 /\ line.entries = <<>> <=> \A k \in DOMAIN P[i] : P[i][k] = 0
  <2>1. \A k \in DOMAIN P[i] : P[i][k] # Unreadable
    BY <1>1 DEF AllReadable
  <2>2. P[i] \in Seq(Int) /\ n <= Len(P[i]) /\ Own(i) \in Int /\ Own(i) # Unreadable
    BY <1>1, <1>4, <1>5
  <2> QED
    BY <1>5, <2>1, <2>2, LineBack
<1>8. ASSUME NEW i \in 1..m
      PROVE  i \in K <=> labels # NoLabels \/ \E k \in DOMAIN P[i] : P[i][k] # 0
  <2>1. DOMAIN P[i] # {}
    <3> DEFINE N == NumFeatures(P)
    <3>1. DOMAIN P[i] = 1..N /\ N \in Nat /\ N # 0
      BY <1>1
    <3> HIDE DEF N
    <3>2. 1 \in 1..N
      BY <3>1
    <3> QED
      BY <3>1, <3>2
  <2>2. ToSet(P[i]) = {P[i][k] : k \in DOMAIN P[i]}
    BY DEF ToSet
  <2>3. ToSet(P[i]) # {0} <=> \E k \in DOMAIN P[i] : P[i][k] # 0
    BY <2>1, <2>2
  <2> QED
    BY <1>1, <2>3 DEF WithEntries
<1>9. ASSUME NEW a \in 1..m PROVE a \in S <=> order[a] \in K
  <2> DEFINE i == order[a]
  <2>1. i \in 1..m
    BY <1>3
  <2>2. f.lines[a].label = Own(i)
        /\ (f.lines[a].entries = <<>> <=> \A k \in DOMAIN P[i] : P[i][k] = 0)
    BY <1>2, <1>7, <2>1
  <2>3. a \in S <=> f.lines[a].label # NoLabel \/ f.lines[a].entries # <<>>
    BY <1>2 DEF KeptLines
  <2> HIDE DEF i, S, K
  <2>4. a \in S <=> i \in K
    BY <1>4, <1>8, <2>1, <2>2, <2>3
  <2> QED
    BY <2>4 DEF i
<1> HIDE DEF S
<1>10. /\ M \in Nat /\ DOMAIN L = 1..M /\ L \in Seq(LineRecords)
       /\ \A b \in 1..M : q[b] \in S /\ L[b] = f.lines[q[b]]
       /\ \A k \in S : \E b \in 1..M : q[b] = k
  <2>1. S \in SUBSET DOMAIN f.lines
    BY <1>2, <1>6
  <2> HIDE DEF L
  <2> QED
    BY <1>6, <2>1, PickedIs
<1>11. \A a, b \in 1..M : a < b => q[a] < q[b]
  <2>1. IsFiniteSet(1..m) /\ 1..m \subseteq Int
    BY <1>1, FS_Interval
  <2>2. IsFiniteSet(S) /\ S \subseteq Int
    BY <1>6, <2>1, FS_Subset
  <2> QED
    BY <2>2, SortedIs
<1>12. ASSUME NEW b \in 1..M
       PROVE  /\ src[b] \in 1..m /\ src[b] \in K
              /\ L[b] = LibsvmLine(Own(src[b]), P[src[b]])
  <2>1. src[b] = order[q[b]] /\ q[b] \in 1..m /\ q[b] \in S
    BY <1>6, <1>10
  <2> QED
    BY <1>2, <1>3, <1>9, <1>10, <2>1
<1> HIDE DEF L, K, q, M
<1>13. \A a, b \in 1..M : src[a] = src[b] => a = b
  <2> SUFFICES ASSUME NEW a \in 1..M, NEW b \in 1..M, src[a] = src[b] PROVE a = b
    OBVIOUS
  <2>1. q[a] \in 1..m /\ q[b] \in 1..m
    BY <1>6, <1>10
  <2>2. q[a] = q[b]
    BY <1>3, <2>1
  <2>3. ~(a < b) /\ ~(b < a)
    BY <1>1, <1>11, <2>1, <2>2
  <2> QED
    BY <1>10, <2>3
<1>14. \A i \in K : \E b \in 1..M : src[b] = i
  <2> SUFFICES ASSUME NEW i \in K PROVE \E b \in 1..M : src[b] = i
    OBVIOUS
  <2>1. i \in 1..m
    BY <1>1 DEF K, WithEntries
  <2>2. PICK a \in 1..m : order[a] = i
    BY <1>3, <2>1
  <2>3. PICK b \in 1..M : q[b] = a
    BY <1>9, <1>10, <2>2
  <2> QED
    BY <2>2, <2>3
<1> HIDE DEF src
<1>15. \A b \in 1..M : LineGood(L[b]) /\ L[b] \in LineRecords /\ L[b].label = Own(src[b])
                       /\ SparsePoint(L[b].entries, n) = SubSeq(P[src[b]], 1, n)
  BY <1>7, <1>12
<1>16. ASSUME NEW x PROVE x \in AllIndices(L) <=> x \in Featured(P)
  <2>1. x \in AllIndices(L) <=> \E b \in 1..M : \E k \in DOMAIN L[b].entries :
                                    x = L[b].entries[k].index
    BY <1>10, AllIndicesAre
  <2>2. ASSUME NEW b \in 1..M, NEW k \in DOMAIN L[b].entries, x = L[b].entries[k].index
        PROVE  x \in Featured(P)
    <3> DEFINE i == src[b]
    <3>1. i \in 1..m /\ P[i] \in Seq(Int) /\ Own(i) \in Int /\ L[b] = LibsvmLine(Own(i), P[i])
      BY <1>1, <1>4, <1>12
    <3> HIDE DEF i
    <3>2. /\ L[b].entries[k].index \in DOMAIN P[i]
          /\ L[b].entries[k].value = P[i][L[b].entries[k].index]
          /\ L[b].entries[k].value # 0
      <4> DEFINE line == LibsvmLine(Own(i), P[i])
      <4>1. \A l \in DOMAIN line.entries :
               /\ line.entries[l].index \in DOMAIN P[i]
               /\ line.entries[l].value = P[i][line.entries[l].index]
               /\ line.entries[l].value # 0
        BY <3>1, LibsvmLineIs
      <4>2. L[b] = line
        BY <3>1
      <4> HIDE DEF line
      <4> QED
        BY <4>1, <4>2
    <3>3. x \in 1..NumFeatures(P) /\ i \in DOMAIN P
      BY <1>1, <2>2, <3>1, <3>2
    <3>4. P[i][x] # 0
      BY <2>2, <3>2
    <3> QED
      BY <3>3, <3>4, FeaturedIs
  <2>3. ASSUME x \in Featured(P)
        PROVE  \E b \in 1..M : \E k \in DOMAIN L[b].entries : x = L[b].entries[k].index
    <3>1. x \in 1..NumFeatures(P)
      BY <2>3 DEF Featured
    <3>2. PICK i \in 1..m : P[i][x] # 0
      BY <1>1, <2>3, <3>1, FeaturedIs
    <3>3. x \in DOMAIN P[i]
      BY <1>1, <3>1, <3>2
    <3>4. PICK b \in 1..M : src[b] = i
      BY <1>8, <1>14, <3>2, <3>3
    <3>5. P[i] \in Seq(Int) /\ Own(i) \in Int /\ L[b] = LibsvmLine(Own(i), P[i])
      BY <1>1, <1>4, <1>12, <3>4
    <3>6. \E k \in DOMAIN L[b].entries : L[b].entries[k].index = x
      BY <3>2, <3>3, <3>5, LibsvmLineIs
    <3> QED
      BY <3>6
  <2> QED
    BY <2>1, <2>2, <2>3
<1>17. AllIndices(L) = Featured(P)
  BY <1>16
<1>18. /\ LibsvmFeatures(L) = n
       /\ n # 0 => AllIndices(L) # {}
  <2>1. \A b \in DOMAIN L : LineGood(L[b])
    BY <1>10, <1>15
  <2>2. /\ LibsvmFeatures(L) \in Nat /\ (LibsvmFeatures(L) = 0 <=> Featured(P) = {})
        /\ Featured(P) # {} => LibsvmFeatures(L) = Max(Featured(P))
    BY <1>10, <1>17, <2>1, FeaturesAre
  <2>3. n = 0 <=> Featured(P) = {}
    BY LastFeatureIs DEF n
  <2>4. Featured(P) # {} => n = Max(Featured(P))
    BY LastFeatureIs DEF n
  <2> QED
    BY <1>17, <2>2, <2>3, <2>4
<1>19. ASSUME n = 0 PROVE ParseLibsvm(f) = Error
  <2>1. LibsvmRefused(L)
    BY <1>18, <1>19 DEF LibsvmRefused
  <2> QED
    BY <2>1, ParseLibsvmIs DEF L
<1>20. ASSUME n # 0 PROVE ReadBack(P, labels, K, n, ParseLibsvm(f))
  <2>1. PICK b \in 1..M : TRUE
    <3>1. \E b \in DOMAIN L : TRUE
      BY <1>18, <1>20, AllIndicesAre
    <3> QED
      BY <1>10, <3>1
  <2>2. M \in Nat \ {0}
    BY <1>10, <2>1
  <2>3. SomeUnlabelled(L) <=> labels = NoLabels
    BY <1>4, <1>10, <1>12, <1>15, <2>1 DEF SomeUnlabelled
  <2>4. \A a \in 1..M : LastIndex(L[a]) # Unreadable /\ ~LibsvmLineFails(L[a])
    <3> TAKE a \in 1..M
    <3>1. LineGood(L[a]) /\ L[a] \in LineRecords
      BY <1>15
    <3>2. LastIndex(L[a]) \in Nat /\ ~LibsvmLineFails(L[a])
      BY <3>1, LastIndexIs, LineFails
    <3> QED
      BY <3>2 DEF Unreadable
  <2>5. SomeUnlabelled(L) => \A a \in 1..M : L[a].label = NoLabel
    BY <1>4, <1>12, <1>15, <2>3
  <2>6. ~LibsvmRefused(L)
    BY <1>10, <1>18, <1>20, <2>4, <2>5 DEF LibsvmRefused
  <2>7. ParseLibsvm(f) =
            Parsed([a \in DOMAIN L |-> SparsePoint(L[a].entries, n)],
                   IF SomeUnlabelled(L) THEN NoLabels ELSE [a \in DOMAIN L |-> L[a].label])
    BY <1>18, <2>6, ParseLibsvmIs DEF L
  <2>8. [a \in DOMAIN L |-> SparsePoint(L[a].entries, n)] = [a \in 1..M |-> SubSeq(P[src[a]], 1, n)]
    BY <1>10, <1>15
  <2>9. labels # NoLabels =>
            [a \in DOMAIN L |-> L[a].label] = [a \in 1..M |-> labels[src[a]]]
    BY <1>4, <1>10, <1>12, <1>15
  <2>10. ParseLibsvm(f) =
            Parsed([a \in 1..M |-> SubSeq(P[src[a]], 1, n)],
                   IF labels = NoLabels THEN NoLabels ELSE [a \in 1..M |-> labels[src[a]]])
    BY <2>3, <2>7, <2>8, <2>9
  <2>11. src \in [1..M -> K]
    BY <1>12 DEF src
  <2>12. EachOnce(src, M, K)
    BY <1>13, <1>14, <2>11 DEF EachOnce
  <2>13. ParseLibsvm(f) = Reordered(P, labels, src, M, n)
    BY <2>10 DEF Reordered
  <2> QED
    BY <2>2, <2>11, <2>12, <2>13 DEF ReadBack
<1> QED
  BY <1>19, <1>20 DEF f, n, K

\* The labels of a header are those of the data set.
LEMMA SortedLabels ==
    ASSUME NEW labels, GoodLabels(labels), Mappable(labels)
    PROVE  LET L == Sorted(ToSet(labels))
           IN  Len(L) = 2 /\ ToSet(L) = ToSet(labels) /\ Unreadable \notin ToSet(L)
<1> DEFINE S == ToSet(labels)
           L == Sorted(S)
<1>1. labels \in Seq(Label) /\ Cardinality(S) = 2
  BY DEF GoodLabels, Mappable
<1>2. S = {labels[k] : k \in DOMAIN labels}
  BY DEF ToSet
<1>3. IsFiniteSet(DOMAIN labels)
  <2>1. DOMAIN labels = 1..Len(labels) /\ Len(labels) \in Int /\ 1 \in Int
    BY <1>1
  <2>2. IsFiniteSet(1..Len(labels))
    BY <2>1, FS_Interval
  <2> QED
    BY <2>1, <2>2
<1>4. IsFiniteSet(S)
  BY <1>2, <1>3, ImageFinite
<1>5. S \subseteq Label
  BY <1>1, <1>2
<1>6. S \subseteq Int /\ Unreadable \notin S
  BY <1>5 DEF Label
<1> HIDE DEF S
<1>7. /\ Len(L) = 2 /\ DOMAIN L = 1..2
      /\ \A k \in 1..2 : L[k] \in S
      /\ \A x \in S : \E k \in 1..2 : L[k] = x
  BY <1>1, <1>4, <1>6, SortedIs
<1> HIDE DEF L
<1>8. ToSet(L) = S
  BY <1>7 DEF ToSet
<1> QED
  BY <1>6, <1>7, <1>8 DEF L, S

\* A header as it is written.
Header(h, n, labels) ==
    /\ h \in Seq(HeaderRecords)
    /\ labels = NoLabels => Len(h) = 1 + n
    /\ labels # NoLabels => Len(h) = n + 2 /\ h[n + 2] = Class(Sorted(ToSet(labels)))
    /\ h[1] = Relation
    /\ \A k \in 1..n : h[1 + k] = Numeric

\* What the parser makes of it.
HeaderRead(h, n, labels) ==
    /\ Cardinality(Numerics(h)) = n
    /\ HasLabel(h) <=> labels # NoLabels
    /\ labels = NoLabels => NumAttributes(h) = n
    /\ labels # NoLabels =>
         /\ NumAttributes(h) = n + 1 /\ LabelIndex(h) = n
         /\ HeaderLabels(h) = ToSet(labels)

LEMMA HeaderBack ==
    ASSUME NEW f, NEW n \in Nat \ {0}, NEW labels, GoodLabels(labels),
           labels # NoLabels => Mappable(labels), Header(f.header, n, labels), f.lines # <<>>
    PROVE  ~HeaderFails(f) /\ HeaderRead(f.header, n, labels)
<1> DEFINE h == f.header
           L == Sorted(ToSet(labels))
<1>1. /\ h \in Seq(HeaderRecords) /\ h[1] = Relation
      /\ labels = NoLabels => Len(h) = 1 + n
      /\ labels # NoLabels => Len(h) = n + 2 /\ h[n + 2] = Class(L)
      /\ \A k \in 1..n : h[1 + k] = Numeric
  BY DEF Header
<1> HIDE DEF h
<1>2. DOMAIN h = 1..Len(h)
  BY <1>1
<1> DEFINE l == Len(h)
<1>3. DOMAIN h = 1..l /\ (labels = NoLabels => l = 1 + n) /\ (labels # NoLabels => l = n + 2)
  BY <1>1, <1>2
<1> HIDE DEF l
<1>4. /\ \A k \in DOMAIN h : k = 1 \/ k \in 2..(n + 1) \/ (labels # NoLabels /\ k = n + 2)
      /\ 1 \in DOMAIN h /\ 2..(n + 1) \subseteq DOMAIN h
      /\ labels # NoLabels => n + 2 \in DOMAIN h
  <2>1. CASE labels = NoLabels
    BY <1>3, <2>1
  <2>2. CASE labels # NoLabels
    BY <1>3, <2>2
  <2> QED
    BY <2>1, <2>2
<1>5. ASSUME NEW k \in 2..(n + 1) PROVE h[k] = Numeric
  <2>1. k - 1 \in 1..n /\ 1 + (k - 1) = k
    OBVIOUS
  <2> QED
    BY <1>1, <2>1
<1>6. /\ h[1].is = "relation" /\ \A k \in 2..(n + 1) : h[k].is = "numeric"
      /\ labels # NoLabels => h[n + 2].is = "class" /\ h[n + 2].labels = L
  BY <1>1, <1>5 DEF Relation, Numeric, Class
<1>7. Numerics(h) = 2..(n + 1)
  BY <1>4, <1>6 DEF Numerics
<1>8. Cardinality(2..(n + 1)) = n
  <2> DEFINE c == Cardinality(2..(n + 1))
  <2>1. 2 \in Int /\ n + 1 \in Int
    OBVIOUS
  <2>2. c = IF 2 > n + 1 THEN 0 ELSE (n + 1) - 2 + 1
    BY <2>1, FS_Interval
  <2> HIDE DEF c
  <2>3. c = n
    BY <2>2
  <2> QED
    BY <2>3 DEF c
<1>9. /\ labels = NoLabels => ClassesOf(h) = {}
      /\ labels # NoLabels => ClassesOf(h) = {n + 2}
  BY <1>4, <1>6 DEF ClassesOf
<1>10. HasLabel(h) <=> labels # NoLabels
  BY <1>9 DEF HasLabel
<1>11. NumAttributes(h) = n + IF labels # NoLabels THEN 1 ELSE 0
  BY <1>7, <1>8, <1>10 DEF NumAttributes
<1>12. ASSUME labels # NoLabels
       PROVE  LabelIndex(h) = n /\ HeaderLabels(h) = ToSet(labels)
  <2>1. {k \in Numerics(h) : \A c \in ClassesOf(h) : k < c} = 2..(n + 1)
    BY <1>7, <1>9, <1>12
  <2>2. LabelIndex(h) = n
    BY <1>8, <2>1 DEF LabelIndex
  <2>3. HeaderLabels(h) = ToSet(L)
    BY <1>6, <1>9, <1>12 DEF HeaderLabels
  <2> QED
    BY <1>12, <2>2, <2>3, SortedLabels
<1>13. ~HeaderFails(f)
  <2>1. \A k \in DOMAIN h : h[k].is # "unknown" /\ ~(h[k].is = "relation" /\ k # 1)
    BY <1>4, <1>6
  <2>2. ASSUME NEW k \in DOMAIN h, h[k].is = "class"
        PROVE  ~(\/ Len(h[k].labels) < 2
                 \/ Cardinality(ToSet(h[k].labels)) # Len(h[k].labels)
                 \/ Unreadable \in ToSet(h[k].labels))
    <3>1. labels # NoLabels /\ k = n + 2
      BY <1>4, <1>6, <2>2
    <3>2. h[k].labels = L
      BY <1>6, <3>1
    <3>3. Len(L) = 2 /\ ToSet(L) = ToSet(labels) /\ Unreadable \notin ToSet(L)
      BY <3>1, SortedLabels
    <3>4. Cardinality(ToSet(labels)) = 2
      BY <3>1 DEF Mappable
    <3> HIDE DEF L
    <3> QED
      BY <3>2, <3>3, <3>4
  <2>3. Cardinality(ClassesOf(h)) = 0 \/ Cardinality(ClassesOf(h)) = 1
    BY <1>9, FS_EmptySet, FS_Singleton
  <2>4. Numerics(h) # {}
    <3>1. 2 \in 2..(n + 1)
      OBVIOUS
    <3> QED
      BY <1>7, <3>1
  <2> QED
    BY <2>1, <2>2, <2>3, <2>4 DEF HeaderFails, h
<1> QED
  BY <1>7, <1>8, <1>10, <1>11, <1>12, <1>13 DEF h, HeaderRead

\* A dense line under such a header.
DenseLine(line, n, N, labels) ==
    /\ line.is = "dense" /\ line.tokens \in Seq(Int) /\ Len(line.tokens) = N
    /\ \A k \in 1..N : line.tokens[k] # Unreadable
    /\ labels # NoLabels => line.tokens[n + 1] \in ToSet(labels)

DenseRead(h, line, n, labels) ==
    /\ ~ArffLineFails(h, line)
    /\ ArffPoint(h, line) = [g \in 1..n |-> line.tokens[g]]
    /\ labels # NoLabels => ArffLabel(h, line) = line.tokens[n + 1]

LEMMA DenseBack ==
    ASSUME NEW h, NEW n \in Nat \ {0}, NEW labels, HeaderRead(h, n, labels),
           NEW line, NEW N \in Nat, DenseLine(line, n, N, labels), N = NumAttributes(h)
    PROVE  DenseRead(h, line, n, labels)
<1> USE DEF HeaderRead, DenseLine
<1> DEFINE t == line.tokens
           E == EntriesOf(line)
           T == [k \in DOMAIN E |-> Entry(TargetOf(h, line, E[k].index), E[k].value)]
<1>1. DOMAIN t = 1..N
  OBVIOUS
<1>2. labels # NoLabels => ArffLabel(h, line) = t[n + 1]
  BY DEF ArffLabel
<1>3. ~ArffLineFails(h, line)
  <2>1. Unreadable \notin ToSet(t)
    BY <1>1 DEF ToSet
  <2>2. ~ArffLabelFails(h, line)
    BY <1>2 DEF ArffLabelFails
  <2> QED
    BY <2>1, <2>2 DEF ArffLineFails
<1>4. DOMAIN E = 1..N /\ \A k \in 1..N : E[k].index = k - 1 /\ E[k].value = t[k]
  BY <1>1 DEF EntriesOf, Entry
<1>5. n <= N /\ N \in Nat /\ (labels = NoLabels => N = n) /\ (labels # NoLabels => N = n + 1)
  OBVIOUS
<1> HIDE DEF E, t
<1>6. ASSUME NEW k \in 1..N
      PROVE  T[k].value = t[k] /\ T[k].index = IF k <= n THEN k ELSE 0
  <2>1. T[k] = Entry(TargetOf(h, line, k - 1), t[k])
    BY <1>4
  <2>2. (k - 1) + 1 = k /\ k \in Int /\ (k <= n <=> k - 1 # n \/ labels = NoLabels)
    BY <1>5
  <2>3. TargetOf(h, line, k - 1) = IF k <= n THEN k ELSE 0
    BY <2>2 DEF TargetOf, DenseTarget
  <2> HIDE DEF T
  <2> QED
    BY <2>1, <2>3 DEF Entry
<1>7. DOMAIN T = 1..N
  BY <1>4
<1>8. ArffPoint(h, line) = SparsePoint(T, n)
  BY ArffPointIs DEF E
<1> HIDE DEF T
<1>9. SparsePoint(T, n) = Plain(T, n)
  <2>1. DOMAIN T \subseteq Int
    BY <1>7
  <2>2. \A a, b \in DOMAIN T : T[a].index = T[b].index /\ T[a].index \in 1..n => a = b
    BY <1>6, <1>7
  <2> QED
    BY <2>1, <2>2, PlainIs
<1>10. ASSUME NEW g \in 1..n PROVE Plain(T, n)[g] = t[g]
  <2>1. g \in DOMAIN T /\ T[g].index = g
    BY <1>5, <1>6, <1>7
  <2> DEFINE l == CHOOSE k \in DOMAIN T : T[k].index = g
  <2>2. l \in DOMAIN T /\ T[l].index = g
    BY <2>1
  <2>3. Plain(T, n)[g] = T[l].value
    BY <2>1 DEF Plain
  <2> HIDE DEF l
  <2>4. l = g
    BY <1>6, <1>7, <2>2
  <2> QED
    BY <1>6, <1>7, <2>1, <2>3, <2>4
<1>11. Plain(T, n) = [g \in 1..n |-> t[g]]
  <2>1. Plain(T, n) = [g \in 1..n |-> Plain(T, n)[g]]
    BY DEF Plain
  <2> QED
    BY <1>10, <2>1
<1> QED
  BY <1>2, <1>3, <1>8, <1>9, <1>11 DEF t, DenseRead

LEMMA SavedArff ==
    ASSUME NEW P, GoodPoints(P), AllReadable(P), NEW labels, LabelsFor(P, labels),
           labels # NoLabels => Mappable(labels), NEW order \in Orders(Len(P))
    PROVE  ReadBack(P, labels, DOMAIN P, NumFeatures(P), ParseArff(WriteArff(P, labels, order)))
<1> DEFINE f == WriteArff(P, labels, order)
           n == NumFeatures(P)
           m == Len(P)
           extra == IF labels = NoLabels THEN 0 ELSE 1
<1>1. /\ m \in Nat \ {0} /\ DOMAIN P = 1..m /\ n \in Nat \ {0}
      /\ \A i \in 1..m : P[i] \in Seq(Int) /\ Len(P[i]) = n /\ DOMAIN P[i] = 1..n
  BY PointsAre
<1>2. /\ f \in ArffFiles
      /\ Len(f.header) = (1 + n) + extra /\ f.header[1] = Relation
      /\ \A k \in 1..n : f.header[1 + k] = Numeric
      /\ labels # NoLabels => f.header[(1 + n) + 1] = Class(Sorted(ToSet(labels)))
      /\ DOMAIN f.lines = 1..m
      /\ \A a \in 1..m :
           /\ f.lines[a].is = "dense"
           /\ f.lines[a].tokens \in Seq(Int) /\ Len(f.lines[a].tokens) = n + extra
           /\ \A k \in 1..n : f.lines[a].tokens[k] = P[order[a]][k]
           /\ labels # NoLabels => f.lines[a].tokens[n + 1] = labels[order[a]]
  <2>1. GoodLabels(labels) /\ (labels # NoLabels => Len(labels) = Len(P))
    BY DEF LabelsFor
  <2>2. ArffWritten(f, P, labels, order)
    BY <2>1, WriteArffTyped
  <2> HIDE DEF f
  <2> QED
    BY <2>2 DEF ArffWritten
<1>3. /\ order \in [1..m -> 1..m]
      /\ \A a, b \in 1..m : order[a] = order[b] => a = b
      /\ \A i \in 1..m : \E a \in 1..m : order[a] = i
  BY <1>1, OrderIs
<1>4. /\ extra \in Nat /\ (labels = NoLabels => extra = 0) /\ (labels # NoLabels => extra = 1)
  OBVIOUS
<1> HIDE DEF f, n, m, extra
<1>5. Header(f.header, n, labels)
  <2>1. f.header \in Seq(HeaderRecords)
    BY <1>2, ArffFileIs
  <2>2. (1 + n) + 1 = n + 2 /\ (1 + n) + 0 = 1 + n
    BY <1>1
  <2>3. labels = NoLabels => Len(f.header) = 1 + n
    <3> DEFINE l == Len(f.header)
    <3>1. l = (1 + n) + extra
      BY <1>2
    <3> HIDE DEF l
    <3>2. labels = NoLabels => l = 1 + n
      BY <1>1, <1>4, <3>1
    <3> QED
      BY <3>2 DEF l
  <2>4. labels # NoLabels => Len(f.header) = n + 2
    <3> DEFINE l == Len(f.header)
    <3>1. l = (1 + n) + extra
      BY <1>2
    <3> HIDE DEF l
    <3>2. labels # NoLabels => l = n + 2
      BY <1>1, <1>4, <3>1
    <3> QED
      BY <3>2 DEF l
  <2>5. labels # NoLabels => f.header[n + 2] = Class(Sorted(ToSet(labels)))
    BY <1>2, <2>2
  <2> QED
    BY <1>2, <2>1, <2>3, <2>4, <2>5 DEF Header
<1>6. f.lines # <<>>
  <2>1. 1 \in DOMAIN f.lines
    BY <1>1, <1>2
  <2> QED
    BY <2>1
<1>7. ~HeaderFails(f) /\ HeaderRead(f.header, n, labels)
  BY <1>1, <1>5, <1>6, HeaderBack DEF LabelsFor
<1>8. ASSUME NEW a \in 1..m
      PROVE  DenseRead(f.header, f.lines[a], n, labels)
  <2> DEFINE line == f.lines[a]
             h == f.header
             N == n + extra
             i == order[a]
  <2>1. i \in 1..m
    BY <1>3
  <2>2. line.is = "dense" /\ line.tokens \in Seq(Int) /\ Len(line.tokens) = N
    BY <1>2
  <2>3. N \in Nat /\ N = NumAttributes(h)
    BY <1>1, <1>4, <1>7 DEF HeaderRead
  <2>4. labels # NoLabels => line.tokens[n + 1] = labels[i] /\ labels[i] \in ToSet(labels)
                             /\ labels[i] # Unreadable
    <3> SUFFICES ASSUME labels # NoLabels
                 PROVE  line.tokens[n + 1] = labels[i] /\ labels[i] \in ToSet(labels)
                        /\ labels[i] # Unreadable
      OBVIOUS
    <3>1. labels \in Seq(Label) /\ Len(labels) = m
      BY DEF LabelsFor, GoodLabels, m
    <3>2. i \in DOMAIN labels
      BY <2>1, <3>1
    <3>3. labels[i] \in Label
      BY <3>1, <3>2
    <3> QED
      BY <1>2, <3>2, <3>3 DEF ToSet, Label
  <2>5. \A k \in 1..N : line.tokens[k] # Unreadable
    <3> SUFFICES ASSUME NEW k \in 1..N PROVE line.tokens[k] # Unreadable
      OBVIOUS
    <3>1. k \in 1..n \/ (labels # NoLabels /\ k = n + 1)
      BY <1>1, <1>4
    <3>2. CASE k \in 1..n
      <4>1. line.tokens[k] = P[i][k] /\ i \in DOMAIN P /\ k \in DOMAIN P[i]
        BY <1>1, <1>2, <2>1, <3>2
      <4> QED
        BY <4>1 DEF AllReadable
    <3>3. CASE labels # NoLabels /\ k = n + 1
      BY <2>4, <3>3
    <3> QED
      BY <3>1, <3>2, <3>3
  <2> HIDE DEF line, h, N, i
  <2>6. HeaderRead(h, n, labels)
    BY <1>7 DEF h
  <2>7. DenseLine(line, n, N, labels)
    BY <2>2, <2>4, <2>5 DEF DenseLine
  <2>8. DenseRead(h, line, n, labels)
    BY <1>1, <2>3, <2>6, <2>7, DenseBack
  <2> QED
    BY <2>8 DEF h, line
<1>9. ASSUME NEW a \in 1..m
      PROVE  ArffPoint(f.header, f.lines[a]) = SubSeq(P[order[a]], 1, n)
  <2> DEFINE point == P[order[a]]
  <2>1. point \in Seq(Int) /\ Len(point) = n
    BY <1>1, <1>3
  <2>2. \A g \in 1..n : f.lines[a].tokens[g] = point[g]
    BY <1>2
  <2> HIDE DEF point
  <2>3. SubSeq(point, 1, n) = [g \in 1..n |-> point[g]]
    BY <1>1, <2>1
  <2> QED
    BY <1>8, <2>2, <2>3 DEF point, DenseRead
<1>10. ParseArff(f) =
         Parsed([a \in DOMAIN f.lines |-> ArffPoint(f.header, f.lines[a])],
                IF HasLabel(f.header)
                THEN [a \in DOMAIN f.lines |-> ArffLabel(f.header, f.lines[a])] ELSE NoLabels)
  BY <1>2, <1>7, <1>8 DEF ParseArff, DenseRead
<1>11. [a \in DOMAIN f.lines |-> ArffPoint(f.header, f.lines[a])] =
       [a \in 1..m |-> SubSeq(P[order[a]], 1, n)]
  BY <1>2, <1>9
<1>12. labels # NoLabels =>
         [a \in DOMAIN f.lines |-> ArffLabel(f.header, f.lines[a])] = [a \in 1..m |-> labels[order[a]]]
  BY <1>2, <1>8 DEF DenseRead
<1>13. ParseArff(f) =
         Parsed([a \in 1..m |-> SubSeq(P[order[a]], 1, n)],
                IF labels = NoLabels THEN NoLabels ELSE [a \in 1..m |-> labels[order[a]]])
  BY <1>7, <1>10, <1>11, <1>12 DEF HeaderRead
<1>14. order \in [1..m -> DOMAIN P] /\ EachOnce(order, m, DOMAIN P)
  BY <1>1, <1>3 DEF EachOnce
<1>15. ParseArff(f) = Reordered(P, labels, order, m, n)
  BY <1>13 DEF Reordered
<1>16. ReadBack(P, labels, DOMAIN P, n, ParseArff(f))
  BY <1>1, <1>14, <1>15 DEF ReadBack
<1> QED
  BY <1>16 DEF f, n

\* What was read back has the rows that were kept.
LEMMA RowsSurvive ==
    ASSUME NEW P, GoodPoints(P), NEW labels, LabelsFor(P, labels),
           NEW K \in SUBSET DOMAIN P, labels # NoLabels => K = DOMAIN P,
           NEW n \in Nat \ {0}, n <= NumFeatures(P), NEW p, ReadBack(P, labels, K, n, p)
    PROVE  /\ p # Error /\ NumFeatures(p.points) = n
           /\ RowsOf(p.points, p.labels, Mapped(p.labels)) = RowsKept(P, labels, K, n)
<1> DEFINE m == Len(P)
<1>1. /\ m \in Nat \ {0} /\ DOMAIN P = 1..m
      /\ \A i \in 1..m : P[i] \in Seq(Int) /\ Len(P[i]) = NumFeatures(P)
      /\ NumFeatures(P) \in Nat
  BY PointsAre
<1>2. PICK M \in Nat \ {0} : \E src \in [1..M -> K] :
        EachOnce(src, M, K) /\ p = Reordered(P, labels, src, M, n)
  BY DEF ReadBack
<1>3. PICK src \in [1..M -> K] : EachOnce(src, M, K) /\ p = Reordered(P, labels, src, M, n)
  BY <1>2
<1> DEFINE back == [b \in 1..M |-> SubSeq(P[src[b]], 1, n)]
           others == IF labels = NoLabels THEN NoLabels ELSE [b \in 1..M |-> labels[src[b]]]
<1>4. p.points = back /\ p.labels = others /\ p # Error
  BY <1>3, ParsedIs DEF Reordered
<1>5. NumFeatures(back) = n
  <2>1. 1 \in 1..M
    BY <1>2
  <2> DEFINE point == P[src[1]]
  <2>2. point \in Seq(Int) /\ Len(point) = NumFeatures(P)
    <3>1. src[1] \in K
      BY <1>3, <2>1
    <3>2. src[1] \in 1..m
      BY <1>1, <3>1
    <3> QED
      BY <1>1, <3>2
  <2>3. back[1] = SubSeq(point, 1, n)
    BY <2>1
  <2> HIDE DEF point, back
  <2>4. Len(SubSeq(point, 1, n)) = n
    BY <1>1, <2>2
  <2> QED
    BY <2>3, <2>4 DEF NumFeatures
<1>6. RowsRead(P, labels, src, n) = RowsOf(back, others, Mapped(others))
  <2>1. DOMAIN src = 1..M
    BY <1>3
  <2> QED
    BY <2>1 DEF RowsRead
<1>7. labels # NoLabels => DOMAIN labels = 1..m
  BY DEF LabelsFor, GoodLabels
<1>8. RowsRead(P, labels, src, n) = RowsKept(P, labels, K, n)
  <2>1. KeepsLabels(K, labels, m)
    BY <1>1, <1>7 DEF KeepsLabels
  <2> HIDE DEF m, back, others
  <2> QED
    BY <1>1, <1>2, <1>3, <2>1, RowsBack
<1> QED
  BY <1>4, <1>5, <1>6, <1>8

\* Whichever data set was saved, and in whichever order its rows were written.
LEMMA SavedSurvives ==
    ASSUME NEW s, GoodSet(s), NEW format \in Formats, NEW order \in Orders(Len(s.points)),
           NEW f, f = Write(format, s.points, s.labels, order)
    PROVE  LET K == IF format = "arff" THEN DOMAIN s.points ELSE WithEntries(s.points, s.labels)
               n == IF format = "arff" THEN NumFeatures(s.points) ELSE LastFeature(s.points)
               p == Parse(f, format)
           IN  /\ f.format = format
               /\ n = 0 => p = Error
               /\ n # 0 => /\ p # Error /\ NumFeatures(p.points) = n
                           /\ RowsOf(p.points, p.labels, Mapped(p.labels)) =
                              RowsKept(s.points, s.labels, K, n)
<1> DEFINE P == s.points
           labels == s.labels
           p == Parse(f, format)
<1>1. GoodPoints(P) /\ GoodLabels(labels) /\ Len(P) = Len(s.raw)
  BY SetPointsGood DEF GoodSet
<1>2. labels # NoLabels => Len(labels) = Len(P) /\ Mappable(labels)
  BY <1>1 DEF GoodSet, Accepts
<1>3. LabelsFor(P, labels)
  BY <1>1, <1>2 DEF LabelsFor
<1>4. AllReadable(P)
  <2>1. \A i \in DOMAIN P : \A k \in DOMAIN P[i] : P[i][k] = NotFinite \/ P[i][k] \in -MaxAbs..MaxAbs
    BY DEF GoodSet, Small
  <2>2. MaxAbs \in 1..99
    BY BoundsAssumption DEF NotFinite
  <2>3. \A x : x = NotFinite \/ x \in -MaxAbs..MaxAbs => x # Unreadable
    BY <2>2 DEF NotFinite, Unreadable
  <2> QED
    BY <2>1, <2>3 DEF AllReadable
<1>5. NumFeatures(P) \in Nat \ {0} /\ LastFeature(P) \in 0..NumFeatures(P)
  BY <1>1, PointsAre, LastFeatureIs
<1> HIDE DEF P, labels
<1>6. CASE format = "arff"
  <2> DEFINE n == NumFeatures(P)
             K == DOMAIN P
  <2>1. f = WriteArff(P, labels, order)
    BY <1>6 DEF Write, P, labels
  <2>2. f.format = "arff"
    BY <2>1 DEF WriteArff
  <2>3. p = ParseArff(f)
    BY <1>6, <2>2 DEF Parse
  <2>4. order \in Orders(Len(P))
    BY DEF P
  <2> HIDE DEF p
  <2>5. ReadBack(P, labels, K, n, p)
    BY <1>1, <1>2, <1>3, <1>4, <2>1, <2>3, <2>4, SavedArff
  <2>6. /\ p # Error /\ NumFeatures(p.points) = n
        /\ RowsOf(p.points, p.labels, Mapped(p.labels)) = RowsKept(P, labels, K, n)
    BY <1>1, <1>3, <1>5, <2>5, RowsSurvive
  <2> QED
    BY <1>5, <1>6, <2>2, <2>6 DEF P, labels, p
<1>7. CASE format = "libsvm"
  <2> DEFINE n == LastFeature(P)
             K == WithEntries(P, labels)
  <2>1. f = WriteLibsvm(P, labels, order)
    BY <1>7 DEF Write, P, labels
  <2>2. f.format = "libsvm"
    BY <2>1 DEF WriteLibsvm
  <2>3. p = ParseLibsvm(f)
    BY <1>7, <2>2 DEF Parse
  <2>4. order \in Orders(Len(P))
    BY DEF P
  <2> HIDE DEF p
  <2>5. (n = 0 => p = Error) /\ (n # 0 => ReadBack(P, labels, K, n, p))
    BY <1>1, <1>3, <1>4, <2>1, <2>3, <2>4, SavedLibsvm
  <2>6. K \in SUBSET DOMAIN P /\ (labels # NoLabels => K = DOMAIN P)
    BY DEF WithEntries
  <2> HIDE DEF K
  <2>7. ASSUME n # 0
        PROVE  /\ p # Error /\ NumFeatures(p.points) = n
               /\ RowsOf(p.points, p.labels, Mapped(p.labels)) = RowsKept(P, labels, K, n)
    <3>1. n \in Nat \ {0} /\ n <= NumFeatures(P)
      BY <1>5, <2>7
    <3> HIDE DEF n
    <3> QED
      BY <1>1, <1>3, <2>5, <2>6, <2>7, <3>1, RowsSurvive
  <2> QED
    BY <1>7, <2>2, <2>5, <2>7 DEF P, labels, p, K
<1>8. format = "arff" \/ format = "libsvm"
  BY DEF Formats
<1> QED
  BY <1>6, <1>7, <1>8

LEMMA InvSurvives == DataInv => SurvivesItsFile
<1> SUFFICES ASSUME DataInv, origin # None PROVE SurvivesItsFile
  BY DEF SurvivesItsFile
<1> DEFINE s == origin
           P == s.points
           labels == s.labels
<1>1. GoodSet(s)
  BY DEF DataInv
<1>2. PICK format \in Formats : \E order \in Orders(Len(s.points)) :
        data_file = Write(format, s.points, s.labels, order)
  BY DEF DataInv
<1>3. PICK order \in Orders(Len(s.points)) : data_file = Write(format, s.points, s.labels, order)
  BY <1>2
<1> DEFINE K == IF format = "arff" THEN DOMAIN P ELSE WithEntries(P, labels)
           n == IF format = "arff" THEN NumFeatures(P) ELSE LastFeature(P)
           p == Parse(data_file, format)
<1>4. /\ data_file.format = format
      /\ n = 0 => p = Error
      /\ n # 0 => /\ p # Error /\ NumFeatures(p.points) = n
                  /\ RowsOf(p.points, p.labels, Mapped(p.labels)) = RowsKept(P, labels, K, n)
  BY <1>1, <1>3, SavedSurvives
<1>5. {i \in DOMAIN P : format = "arff" \/ labels # NoLabels \/ ToSet(P[i]) # {0}} = K
  BY DEF WithEntries
<1>6. n = IF format = "arff" THEN NumFeatures(P)
          ELSE Max({0} \cup {g \in 1..NumFeatures(P) : Column(P, g) # {0}})
  BY DEF LastFeature, Featured
<1>7. s.y = Mapped(labels)
  BY <1>1, SetIs
<1> HIDE DEF K, n, p
<1>8. RowsKept(P, labels, K, n) =
        RowsOf([k \in DOMAIN Sorted(K) |-> SubSeq(P[Sorted(K)[k]], 1, n)],
               IF labels = NoLabels THEN NoLabels
               ELSE [k \in DOMAIN Sorted(K) |-> labels[Sorted(K)[k]]],
               s.y)
  BY <1>7 DEF RowsKept
<1> QED
  BY <1>4, <1>5, <1>6, <1>8, Zenon DEF SurvivesItsFile, p

\* Whichever data set is saved, in either format and whatever threads write its
\* rows: it is read again with every point beside its label, and nothing is
\* lost but last features and unlabelled points of zeros (data_set::save,
\* write_libsvm_data, write_arff_data and the parsers).
THEOREM Survives == DataSpec => []SurvivesItsFile
BY DataInvariant, InvSurvives, PTL

----------------------------------------------------------------------------
(* The writer of model files.                                              *)

USE ThreadsAssumption, SizesAssumption

\* The threads that have closed class c.
Passed(c) == {t \in Threads : cls[t] > c}

\* A counter counts the threads that have closed its class.
CountsMatch == \A c \in Classes : counts[c] = Cardinality(Passed(c))

\* A thread is "done" exactly behind the last class, and only waits for a
\* class that exists.
PcMatches ==
    \A t \in Threads :
        /\ pc[t] = "done" <=> cls[t] = NumClasses + 1
        /\ pc[t] = "wait" => cls[t] > 1

\* A row in the file is of no later class than any thread is at.
FileBehindThreads ==
    ~spilled => \A p \in DOMAIN out, t \in Threads : label[out[p]] <= cls[t]

IInv ==
    /\ TypeOK
    /\ CountsMatch
    /\ PcMatches
    /\ OwnRows
    /\ BusyWaitIsBarrier
    /\ FileBehindThreads
    /\ GroupedUnlessSpilled

----------------------------------------------------------------------------
LEMMA TypeStep == TypeOK /\ PcMatches /\ [Next]_vars => TypeOK'
<1>0. SUFFICES ASSUME TypeOK, PcMatches, [Next]_vars
               PROVE  TypeOK'
  OBVIOUS
<1> USE DEF TypeOK
<1>1. ASSUME NEW t \in Threads, FormatRow(t)
      PROVE  TypeOK'
  <2>1. PICK i \in Rows : /\ todo' = [todo EXCEPT ![t] = @ \ {i}]
                          /\ buf' = [buf EXCEPT ![t] = Append(@, i)]
    BY <1>1 DEF FormatRow, TakeRow
  <2>2. Append(buf[t], i) \in Seq(Rows)
    BY <1>0
  <2>3. QED
    BY <1>0, <1>1, <2>1, <2>2 DEF FormatRow, input
<1>2. ASSUME NEW t \in Threads, FormatRowAndFlush(t)
      PROVE  TypeOK'
  <2>1. PICK i \in Rows : /\ todo' = [todo EXCEPT ![t] = @ \ {i}]
                          /\ out' = out \o Append(buf[t], i)
    BY <1>2 DEF FormatRowAndFlush, TakeRow
  <2>2. out \o Append(buf[t], i) \in Seq(Rows)
    BY <1>0
  <2>3. buf' \in [Threads -> Seq(Rows)]
    BY <1>0, <1>2 DEF FormatRowAndFlush
  <2>4. spilled' \in BOOLEAN
    BY <1>0, <1>2 DEF FormatRowAndFlush
  <2>5. QED
    BY <1>0, <1>2, <2>1, <2>2, <2>3, <2>4 DEF FormatRowAndFlush, input
<1>3. ASSUME NEW t \in Threads, LeaveLoop(t)
      PROVE  TypeOK'
  BY <1>0, <1>3 DEF LeaveLoop, input
<1>4. ASSUME NEW t \in Threads, Spin(t)
      PROVE  TypeOK'
  BY <1>0, <1>4 DEF Spin, vars
<1>5. ASSUME NEW t \in Threads, StopWaiting(t)
      PROVE  TypeOK'
  BY <1>0, <1>5 DEF StopWaiting, input
<1>6. ASSUME NEW t \in Threads, CloseClass(t)
      PROVE  TypeOK'
  <2>1. pc[t] # "done"
    BY <1>6 DEF CloseClass
  <2>2. cls[t] \in Classes
    BY <1>0, <2>1 DEF PcMatches, Classes
  <2>3. out \o buf[t] \in Seq(Rows)
    BY <1>0
  <2>4. Assigned(t, cls[t] + 1) \in SUBSET Rows
    BY DEF Assigned
  <2>5. buf' \in [Threads -> Seq(Rows)]
    BY <1>0, <1>6 DEF CloseClass
  <2>6. cls' \in [Threads -> 1..(NumClasses + 1)]
    BY <1>0, <1>6, <2>2 DEF CloseClass, Classes
  <2>7. todo' \in [Threads -> SUBSET Rows]
    BY <1>0, <1>6, <2>4 DEF CloseClass
  <2>8. counts' \in [Classes -> Nat]
    <3>1. counts \in [Classes -> Nat]
      BY <1>0
    <3>2. counts' = [counts EXCEPT ![cls[t]] = counts[cls[t]] + 1]
      BY <1>6 DEF CloseClass
    <3>3. counts[cls[t]] + 1 \in Nat
      BY <2>2, <3>1
    <3> HIDE DEF TypeOK
    <3> QED
      BY <3>1, <3>2, <3>3
  <2>9. pc' \in [Threads -> {"rows", "wait", "critical", "done"}]
    BY <1>0, <1>6 DEF CloseClass
  <2>10. out' \in Seq(Rows)
    BY <1>6, <2>3 DEF CloseClass
  <2>11. UNCHANGED <<label, share, spilled>>
    BY <1>6 DEF CloseClass, input
  <2>12. QED
    BY <1>0, <2>5, <2>6, <2>7, <2>8, <2>9, <2>10, <2>11
<1>7. CASE UNCHANGED vars
  BY <1>0, <1>7 DEF vars
<1>8. QED
  BY <1>0, <1>1, <1>2, <1>3, <1>4, <1>5, <1>6, <1>7 DEF Next, Step, Terminated

\* A full counter means that the whole team has closed the class.
LEMMA FullCounter ==
    ASSUME TypeOK, CountsMatch,
           NEW c \in Classes, counts[c] >= Cardinality(Threads)
    PROVE  \A u \in Threads : cls[u] > c
<1>1. Passed(c) \in SUBSET Threads
  BY DEF Passed
<1>2. /\ Cardinality(Passed(c)) <= Cardinality(Threads)
      /\ Cardinality(Passed(c)) = Cardinality(Threads) => Threads = Passed(c)
      /\ IsFiniteSet(Passed(c))
  BY <1>1, FS_Subset
<1>3. /\ Cardinality(Passed(c)) \in Nat
      /\ Cardinality(Threads) \in Nat
  BY <1>2, FS_CardinalityType
<1>4. Cardinality(Passed(c)) = Cardinality(Threads)
  BY <1>2, <1>3 DEF CountsMatch
<1>5. QED
  BY <1>2, <1>4 DEF Passed

LEMMA CountsStep == TypeOK /\ CountsMatch /\ PcMatches /\ [Next]_vars => CountsMatch'
<1>0. SUFFICES ASSUME TypeOK, CountsMatch, PcMatches, [Next]_vars
               PROVE  CountsMatch'
  OBVIOUS
<1>1. ASSUME NEW t \in Threads, CloseClass(t)
      PROVE  CountsMatch'
  <2>1. cls[t] \in Classes /\ cls[t] \in Nat
    BY <1>0, <1>1 DEF CloseClass, PcMatches, TypeOK, Classes
  <2>2. cls' = [cls EXCEPT ![t] = cls[t] + 1]
    BY <1>1 DEF CloseClass
  <2>3. SUFFICES ASSUME NEW c \in Classes
                 PROVE  counts'[c] = Cardinality(Passed(c)')
    BY DEF CountsMatch
  <2>4. CASE c = cls[t]
    <3>1. Passed(c)' = Passed(c) \cup {t}
      BY <1>0, <2>1, <2>2, <2>4 DEF Passed, TypeOK
    <3>2. t \notin Passed(c)
      BY <1>0, <2>1, <2>4 DEF Passed
    <3>3. IsFiniteSet(Passed(c))
      BY FS_Subset, Passed(c) \in SUBSET Threads DEF Passed
    <3>4. Cardinality(Passed(c) \cup {t}) = Cardinality(Passed(c)) + 1
      BY <3>2, <3>3, FS_AddElement
    <3>5. counts'[c] = counts[c] + 1
      BY <1>0, <1>1, <2>1, <2>4 DEF CloseClass, TypeOK
    <3>6. QED
      BY <1>0, <3>1, <3>4, <3>5 DEF CountsMatch
  <2>5. CASE c # cls[t]
    <3>1. Passed(c)' = Passed(c)
      BY <1>0, <2>1, <2>2, <2>5 DEF Passed, TypeOK, Classes
    <3>2. counts'[c] = counts[c]
      BY <1>0, <1>1, <2>5 DEF CloseClass, TypeOK
    <3>3. QED
      BY <1>0, <3>1, <3>2 DEF CountsMatch
  <2>6. QED
    BY <2>4, <2>5
<1>2. CASE UNCHANGED <<counts, cls>>
  BY <1>0, <1>2 DEF CountsMatch, Passed
<1>3. QED
  BY <1>0, <1>1, <1>2 DEF Next, Step, Terminated, vars, FormatRow,
     FormatRowAndFlush, LeaveLoop, Spin, StopWaiting

LEMMA PcStep == TypeOK /\ PcMatches /\ [Next]_vars => PcMatches'
<1>0. SUFFICES ASSUME TypeOK, PcMatches, [Next]_vars
               PROVE  PcMatches'
  OBVIOUS
<1>1. ASSUME NEW t \in Threads, LeaveLoop(t)
      PROVE  PcMatches'
  BY <1>0, <1>1 DEF LeaveLoop, PcMatches, TypeOK
<1>2. ASSUME NEW t \in Threads, StopWaiting(t)
      PROVE  PcMatches'
  BY <1>0, <1>2 DEF StopWaiting, PcMatches, TypeOK
<1>3. ASSUME NEW t \in Threads, CloseClass(t)
      PROVE  PcMatches'
  BY <1>0, <1>3 DEF CloseClass, PcMatches, TypeOK
<1>4. CASE UNCHANGED <<pc, cls>>
  BY <1>0, <1>4 DEF PcMatches
<1>5. QED
  BY <1>0, <1>1, <1>2, <1>3, <1>4 DEF Next, Step, Terminated, vars, FormatRow,
     FormatRowAndFlush, Spin

\* A thread's rows are its own and of its class: what OwnRows says of one
\* thread is kept when its rows shrink and its buffer gets only such rows.
Owns(t) ==
    /\ todo[t] \subseteq Assigned(t, cls[t])
    /\ \A p \in DOMAIN buf[t] : buf[t][p] \in Assigned(t, cls[t])

LEMMA OwnRowsStep == TypeOK /\ OwnRows /\ [Next]_vars => OwnRows'
<1>0. SUFFICES ASSUME TypeOK, OwnRows, [Next]_vars,
                      NEW u \in Threads
               PROVE  Owns(u)'
  BY DEF OwnRows, Owns
<1> DEFINE Still == UNCHANGED <<share, label>> /\ cls'[u] = cls[u]
<1>1. Owns(u) /\ (Still => Assigned(u, cls[u])' = Assigned(u, cls[u]))
  BY <1>0 DEF OwnRows, Owns, Assigned
<1>2. ASSUME Still, todo'[u] \subseteq todo[u], buf'[u] = buf[u]
      PROVE  Owns(u)'
  BY <1>1, <1>2 DEF Owns
<1>3. ASSUME Still, todo'[u] \subseteq todo[u], buf'[u] = <<>>
      PROVE  Owns(u)'
  BY <1>1, <1>3 DEF Owns
<1>4. ASSUME NEW t \in Threads, FormatRow(t)
      PROVE  Owns(u)'
  <2>1. PICK i \in Rows : /\ i \in todo[t]
                          /\ todo' = [todo EXCEPT ![t] = todo[t] \ {i}]
                          /\ buf' = [buf EXCEPT ![t] = Append(buf[t], i)]
    BY <1>4 DEF FormatRow, TakeRow, IsNext
  <2>2. Still
    BY <1>4 DEF FormatRow, input
  <2>3. CASE u = t
    <3>1. todo'[u] \subseteq todo[u] /\ buf'[u] = Append(buf[u], i)
      BY <1>0, <2>1, <2>3 DEF TypeOK
    <3>2. i \in Assigned(u, cls[u])
      BY <1>1, <2>1, <2>3 DEF Owns
    <3>3. buf[u] \in Seq(Rows)
      BY <1>0 DEF TypeOK
    <3>4. \A p \in DOMAIN Append(buf[u], i) :
            Append(buf[u], i)[p] \in Assigned(u, cls[u])
      BY <1>1, <3>2, <3>3 DEF Owns
    <3>5. QED
      BY <1>1, <2>2, <3>1, <3>4 DEF Owns
  <2>4. CASE u # t
    BY <1>0, <1>2, <2>1, <2>2, <2>4 DEF TypeOK
  <2>5. QED
    BY <2>3, <2>4
<1>5. ASSUME NEW t \in Threads, FormatRowAndFlush(t)
      PROVE  Owns(u)'
  <2>1. PICK i \in Rows : todo' = [todo EXCEPT ![t] = todo[t] \ {i}]
    BY <1>5 DEF FormatRowAndFlush, TakeRow
  <2>2. Still /\ buf' = [buf EXCEPT ![t] = <<>>]
    BY <1>5 DEF FormatRowAndFlush, input
  <2>3. QED
    BY <1>0, <1>2, <1>3, <2>1, <2>2 DEF TypeOK
<1>6. ASSUME NEW t \in Threads, CloseClass(t)
      PROVE  Owns(u)'
  <2>1. CASE u = t
    <3>1. todo'[u] = Assigned(u, cls[u] + 1) /\ cls'[u] = cls[u] + 1 /\ buf'[u] = <<>>
      BY <1>0, <1>6, <2>1 DEF CloseClass, TypeOK
    <3>2. Assigned(u, cls[u] + 1) = Assigned(u, cls[u])'
      BY <1>6, <3>1 DEF CloseClass, Assigned, input
    <3>3. QED
      BY <3>1, <3>2 DEF Owns
  <2>2. CASE u # t
    BY <1>0, <1>2, <1>6, <2>2 DEF CloseClass, TypeOK, input
  <2>3. QED
    BY <2>1, <2>2
<1>7. CASE UNCHANGED <<share, label, cls, todo, buf>>
  BY <1>2, <1>7
<1>8. QED
  BY <1>0, <1>4, <1>5, <1>6, <1>7 DEF Next, Step, Terminated, vars, LeaveLoop,
     Spin, StopWaiting, input

LEMMA BarrierStep ==
    TypeOK /\ CountsMatch /\ PcMatches /\ BusyWaitIsBarrier /\ [Next]_vars
        => BusyWaitIsBarrier'
<1>0. SUFFICES ASSUME TypeOK, CountsMatch, PcMatches, BusyWaitIsBarrier, [Next]_vars
               PROVE  BusyWaitIsBarrier'
  OBVIOUS
<1>1. ASSUME NEW t \in Threads, LeaveLoop(t)
      PROVE  BusyWaitIsBarrier'
  BY <1>0, <1>1 DEF LeaveLoop, BusyWaitIsBarrier, TypeOK
<1>2. ASSUME NEW t \in Threads, StopWaiting(t)
      PROVE  BusyWaitIsBarrier'
  <2>1. cls[t] > 1 /\ cls[t] # NumClasses + 1
    BY <1>0, <1>2 DEF StopWaiting, PcMatches
  <2>2. cls[t] - 1 \in Classes /\ cls[t] \in Nat
    BY <1>0, <2>1 DEF TypeOK, Classes
  <2>3. \A u \in Threads : cls[u] > cls[t] - 1
    BY <1>0, <1>2, <2>2, FullCounter DEF StopWaiting, PreviousClassDone
  <2>4. QED
    BY <1>0, <1>2, <2>2, <2>3 DEF StopWaiting, BusyWaitIsBarrier, TypeOK
<1>3. ASSUME NEW t \in Threads, CloseClass(t)
      PROVE  BusyWaitIsBarrier'
  BY <1>0, <1>3 DEF CloseClass, BusyWaitIsBarrier, TypeOK
<1>4. CASE UNCHANGED <<pc, cls>>
  BY <1>0, <1>4 DEF BusyWaitIsBarrier
<1>5. QED
  BY <1>0, <1>1, <1>2, <1>3, <1>4 DEF Next, Step, Terminated, vars, FormatRow,
     FormatRowAndFlush, Spin

----------------------------------------------------------------------------
\* Rows of one class, appended when the file holds no later class, leave the
\* file grouped and behind the threads.
LEMMA AppendKeepsGroups ==
    ASSUME TypeOK, FileBehindThreads, GroupedUnlessSpilled,
           NEW t \in Threads, \A u \in Threads : cls[t] <= cls[u],
           NEW s \in Seq(Rows), \A p \in DOMAIN s : label[s[p]] = cls[t],
           out' = out \o s, label' = label,
           \A u \in Threads : cls'[u] \in Nat /\ cls[u] <= cls'[u],
           ~spilled
    PROVE  /\ \A p \in DOMAIN out', u \in Threads : label[out'[p]] <= cls'[u]
           /\ Grouped'
<1>1. /\ out' \in Seq(Rows)
      /\ Len(out') = Len(out) + Len(s)
      /\ \A p \in 1..Len(out') :
           out'[p] = IF p <= Len(out) THEN out[p] ELSE s[p - Len(out)]
  BY DEF TypeOK
<1>2. \A u \in Threads : cls[u] \in Nat
  BY DEF TypeOK
<1>3. \A p \in DOMAIN out : label[out[p]] \in Nat /\ label[out[p]] <= cls[t]
  BY DEF FileBehindThreads, TypeOK, Classes
<1>4. ASSUME NEW p \in 1..Len(out')
      PROVE  \/ p \in DOMAIN out /\ out'[p] = out[p]
             \/ p > Len(out) /\ label[out'[p]] = cls[t]
  <2>1. Len(out) \in Nat /\ Len(s) \in Nat /\ DOMAIN out = 1..Len(out) /\ DOMAIN s = 1..Len(s)
    BY DEF TypeOK
  <2>2. CASE p <= Len(out)
    BY <1>1, <2>1, <2>2
  <2>3. CASE p > Len(out)
    <3>1. p - Len(out) \in DOMAIN s /\ out'[p] = s[p - Len(out)]
      BY <1>1, <2>1, <2>3
    <3>2. QED
      BY <2>3, <3>1
  <2>4. QED
    BY <2>1, <2>2, <2>3
<1>5. \A p \in DOMAIN out' : label[out'[p]] \in Nat /\ label[out'[p]] <= cls[t]
  BY <1>1, <1>2, <1>3, <1>4
<1>6. \A p \in DOMAIN out', u \in Threads : label[out'[p]] <= cls'[u]
  <2>1. SUFFICES ASSUME NEW p \in DOMAIN out', NEW u \in Threads
                 PROVE  label[out'[p]] <= cls'[u]
    OBVIOUS
  <2>2. /\ cls[t] \in Nat /\ cls[u] \in Nat /\ cls'[u] \in Nat
        /\ cls[t] <= cls[u] /\ cls[u] <= cls'[u]
    BY <1>2
  <2>3. label[out'[p]] \in Nat /\ label[out'[p]] <= cls[t]
    BY <1>5
  <2>4. QED
    BY ONLY <2>2, <2>3
<1>7. Grouped'
  <2>1. SUFFICES ASSUME NEW p \in DOMAIN out', NEW q \in DOMAIN out', p < q
                 PROVE  label[out'[p]] <= label[out'[q]]
    BY DEF Grouped
  <2>2. p \in Nat /\ q \in Nat /\ Len(out) \in Nat /\ p \in 1..Len(out') /\ q \in 1..Len(out')
    BY <1>1 DEF TypeOK
  <2>3. CASE q \in DOMAIN out /\ out'[q] = out[q]
    <3>1. p \in DOMAIN out
      BY <2>1, <2>2, <2>3 DEF TypeOK
    <3>2. out'[p] = out[p]
      BY <1>1, <2>2, <3>1 DEF TypeOK
    <3>3. QED
      BY <2>1, <2>3, <3>1, <3>2 DEF GroupedUnlessSpilled, Grouped
  <2>4. CASE label[out'[q]] = cls[t]
    BY <1>5, <2>1, <2>4
  <2>5. QED
    BY <1>4, <2>2, <2>3, <2>4
<1>8. QED
  BY <1>6, <1>7

LEMMA GroupStep == IInv /\ [Next]_vars => (FileBehindThreads /\ GroupedUnlessSpilled)'
<1>0. SUFFICES ASSUME IInv, [Next]_vars, ~spilled'
               PROVE  /\ \A p \in DOMAIN out', u \in Threads : label'[out'[p]] <= cls'[u]
                      /\ Grouped'
  BY DEF FileBehindThreads, GroupedUnlessSpilled
<1> USE <1>0 DEF IInv
<1>1. TypeOK'
  BY TypeStep
<1>2. \A u \in Threads : cls[u] \in Nat /\ cls'[u] \in Nat
  BY <1>1 DEF TypeOK
<1>3. ASSUME NEW t \in Threads, FormatRowAndFlush(t)
      PROVE  /\ \A p \in DOMAIN out', u \in Threads : label'[out'[p]] <= cls'[u]
             /\ Grouped'
  <2>1. PICK i \in Rows : i \in todo[t] /\ out' = out \o Append(buf[t], i)
    BY <1>3 DEF FormatRowAndFlush, TakeRow, IsNext
  <2>2. ~spilled /\ (cls[t] > 1 => PreviousClassDone(t))
    BY <1>3 DEF FormatRowAndFlush
  <2>3. UNCHANGED <<label, cls>>
    BY <1>3 DEF FormatRowAndFlush, input
  <2>4. \A u \in Threads : cls[t] <= cls[u]
    <3>1. CASE cls[t] > 1
      <4>1. pc[t] = "rows"
        BY <1>3 DEF FormatRowAndFlush, TakeRow
      <4>2. cls[t] - 1 \in Classes
        BY <3>1, <4>1 DEF TypeOK, PcMatches, Classes
      <4>3. \A u \in Threads : cls[u] > cls[t] - 1
        BY <2>2, <3>1, <4>2, FullCounter DEF PreviousClassDone
      <4>4. QED
        BY <1>2, <4>3
    <3>2. CASE ~(cls[t] > 1)
      BY <3>2 DEF TypeOK
    <3>3. QED
      BY <3>1, <3>2
  <2>5. Append(buf[t], i) \in Seq(Rows)
    BY DEF TypeOK
  <2>6. \A p \in DOMAIN Append(buf[t], i) : label[Append(buf[t], i)[p]] = cls[t]
    <3>1. label[i] = cls[t]
      BY <2>1 DEF OwnRows, Assigned
    <3>2. \A p \in DOMAIN buf[t] : label[buf[t][p]] = cls[t]
      BY DEF OwnRows, Assigned
    <3>3. buf[t] \in Seq(Rows)
      BY DEF TypeOK
    <3>4. QED
      BY <3>1, <3>2, <3>3
  <2>7. \A u \in Threads : cls'[u] \in Nat /\ cls[u] <= cls'[u]
    BY <1>2, <2>3
  <2>8. QED
    BY <2>1, <2>2, <2>3, <2>4, <2>5, <2>6, <2>7, AppendKeepsGroups
<1>4. ASSUME NEW t \in Threads, CloseClass(t)
      PROVE  /\ \A p \in DOMAIN out', u \in Threads : label'[out'[p]] <= cls'[u]
             /\ Grouped'
  <2>1. out' = out \o buf[t] /\ UNCHANGED <<label, spilled>>
    BY <1>4 DEF CloseClass, input
  <2>2. \A u \in Threads : cls[u] <= cls'[u]
    BY <1>2, <1>4 DEF CloseClass, TypeOK
  <2>3. \A u \in Threads : cls[t] <= cls[u]
    BY <1>2, <1>4 DEF CloseClass, BusyWaitIsBarrier
  <2>4. \A p \in DOMAIN buf[t] : label[buf[t][p]] = cls[t]
    BY DEF OwnRows, Assigned
  <2>5. buf[t] \in Seq(Rows)
    BY DEF TypeOK
  <2>6. QED
    BY <1>2, <2>1, <2>2, <2>3, <2>4, <2>5, AppendKeepsGroups
<1>5. CASE UNCHANGED <<label, cls, out, spilled>>
  BY <1>5 DEF FileBehindThreads, GroupedUnlessSpilled, Grouped
<1>6. QED
  BY <1>3, <1>4, <1>5 DEF Next, Step, Terminated, vars, FormatRow,
     LeaveLoop, Spin, StopWaiting, input

----------------------------------------------------------------------------
LEMMA InitIInv == Init => IInv
<1>0. SUFFICES ASSUME Init PROVE IInv
  OBVIOUS
<1>1. TypeOK
  <2>1. <<>> \in Seq(Rows)
    OBVIOUS
  <2>2. \A t \in Threads : Assigned(t, 1) \in SUBSET Rows
    BY DEF Assigned
  <2>3. buf \in [Threads -> Seq(Rows)] /\ out \in Seq(Rows)
    BY <1>0, <2>1 DEF Init
  <2>4. todo \in [Threads -> SUBSET Rows]
    BY <1>0, <2>2 DEF Init
  <2>5. cls \in [Threads -> 1..(NumClasses + 1)] /\ counts \in [Classes -> Nat]
    BY <1>0 DEF Init
  <2>6. label \in [Rows -> Classes] /\ share \in [Rows -> Threads]
    BY <1>0 DEF Init
  <2>7. QED
    BY <1>0, <2>3, <2>4, <2>5, <2>6 DEF Init, TypeOK
<1>2. CountsMatch
  <2>1. SUFFICES ASSUME NEW c \in Classes PROVE Passed(c) = {}
    BY <1>0, FS_EmptySet DEF Init, CountsMatch
  <2>2. QED
    BY <1>0 DEF Init, Passed, Classes
<1>3. PcMatches /\ OwnRows /\ BusyWaitIsBarrier
  BY <1>0 DEF Init, PcMatches, OwnRows, BusyWaitIsBarrier
<1>4. FileBehindThreads /\ GroupedUnlessSpilled
  BY <1>0 DEF Init, FileBehindThreads, GroupedUnlessSpilled, Grouped
<1>5. QED
  BY <1>1, <1>2, <1>3, <1>4 DEF IInv

LEMMA StepIInv == IInv /\ [Next]_vars => IInv'
  BY TypeStep, CountsStep, PcStep, OwnRowsStep, BarrierStep, GroupStep DEF IInv

LEMMA InductiveInvariant == Spec => []IInv
  BY InitIInv, StepIInv, PTL DEF Spec

\* Every state variable keeps its type, in particular no thread runs past the
\* last class and no counter outside of its array is touched.
THEOREM TypeCorrect == Spec => []TypeOK
  BY InductiveInvariant, PTL DEF IInv

\* The busy wait on the volatile counters is a barrier: whoever is about to
\* write the rest of a class finds all threads at that class or behind it.
THEOREM BarrierCorrect == Spec => []BusyWaitIsBarrier
  BY InductiveInvariant, PTL DEF IInv

\* The support vectors are grouped by class as the header announces them,
\* unless a full buffer was written before its class's turn.
THEOREM GroupedCorrect == Spec => []GroupedUnlessSpilled
  BY InductiveInvariant, PTL DEF IInv

----------------------------------------------------------------------------
(***************************************************************************)
(* No row is lost or written twice.  EachRowOnce is inductive with         *)
(* LoopsExhausted: whoever has left a class loop has formatted all of its  *)
(* rows, so that a row is not lost when its thread goes to the next class. *)
(***************************************************************************)
LoopsExhausted == \A t \in Threads : pc[t] # "rows" => todo[t] = {}

LEMMA InAppend ==
    ASSUME NEW S, NEW s \in Seq(S), NEW j \in S, NEW i
    PROVE  InSeq(i, Append(s, j)) <=> InSeq(i, s) \/ i = j
<1>1. /\ DOMAIN Append(s, j) = 1..(Len(s) + 1) /\ DOMAIN s = 1..Len(s) /\ Len(s) \in Nat
      /\ \A p \in 1..Len(s) : Append(s, j)[p] = s[p]
      /\ Append(s, j)[Len(s) + 1] = j
  OBVIOUS
<1>2. ASSUME NEW p \in DOMAIN Append(s, j), Append(s, j)[p] = i
      PROVE  InSeq(i, s) \/ i = j
  <2>1. p \in 1..Len(s) \/ p = Len(s) + 1
    BY <1>1
  <2>2. QED
    BY <1>1, <1>2, <2>1 DEF InSeq
<1>3. InSeq(i, s) => InSeq(i, Append(s, j))
  BY <1>1 DEF InSeq
<1>4. i = j => InSeq(i, Append(s, j))
  BY <1>1 DEF InSeq
<1>5. QED
  BY <1>2, <1>3, <1>4 DEF InSeq

LEMMA InConcat ==
    ASSUME NEW S, NEW s \in Seq(S), NEW r \in Seq(S), NEW i
    PROVE  InSeq(i, s \o r) <=> InSeq(i, s) \/ InSeq(i, r)
<1>1. /\ DOMAIN (s \o r) = 1..(Len(s) + Len(r))
      /\ DOMAIN s = 1..Len(s) /\ DOMAIN r = 1..Len(r)
      /\ Len(s) \in Nat /\ Len(r) \in Nat
      /\ \A p \in 1..(Len(s) + Len(r)) :
           (s \o r)[p] = IF p <= Len(s) THEN s[p] ELSE r[p - Len(s)]
  OBVIOUS
<1>2. ASSUME NEW p \in DOMAIN (s \o r), (s \o r)[p] = i
      PROVE  InSeq(i, s) \/ InSeq(i, r)
  <2>1. CASE p <= Len(s)
    BY <1>1, <1>2, <2>1 DEF InSeq
  <2>2. CASE ~(p <= Len(s))
    <3>1. p - Len(s) \in DOMAIN r /\ r[p - Len(s)] = i
      BY <1>1, <1>2, <2>2
    <3>2. QED
      BY <3>1 DEF InSeq
  <2>3. QED
    BY <2>1, <2>2
<1>3. ASSUME NEW p \in DOMAIN s, s[p] = i
      PROVE  InSeq(i, s \o r)
  <2>1. p \in DOMAIN (s \o r) /\ (s \o r)[p] = i
    BY <1>1, <1>3
  <2>2. QED
    BY <2>1 DEF InSeq
<1>4. ASSUME NEW p \in DOMAIN r, r[p] = i
      PROVE  InSeq(i, s \o r)
  <2>1. Len(s) + p \in DOMAIN (s \o r) /\ (s \o r)[Len(s) + p] = i
    BY <1>1, <1>4
  <2>2. QED
    BY <2>1 DEF InSeq
<1>5. QED
  BY <1>2, <1>3, <1>4 DEF InSeq

LEMMA AppendDistinct ==
    ASSUME NEW S, NEW s \in Seq(S), NEW j \in S, Distinct(s), ~InSeq(j, s)
    PROVE  Distinct(Append(s, j))
<1>1. /\ DOMAIN Append(s, j) = 1..(Len(s) + 1) /\ DOMAIN s = 1..Len(s) /\ Len(s) \in Nat
      /\ \A p \in 1..Len(s) : Append(s, j)[p] = s[p]
      /\ Append(s, j)[Len(s) + 1] = j
  OBVIOUS
<1>2. SUFFICES ASSUME NEW p \in 1..(Len(s) + 1), NEW q \in 1..(Len(s) + 1),
                      Append(s, j)[p] = Append(s, j)[q]
               PROVE  p = q
  BY <1>1 DEF Distinct
<1>3. /\ p \in 1..Len(s) \/ p = Len(s) + 1
      /\ q \in 1..Len(s) \/ q = Len(s) + 1
  BY <1>1
<1>4. QED
  BY <1>1, <1>2, <1>3 DEF Distinct, InSeq

LEMMA ConcatDistinct ==
    ASSUME NEW S, NEW s \in Seq(S), NEW r \in Seq(S), Distinct(s), Distinct(r),
           \A p \in DOMAIN r : ~InSeq(r[p], s)
    PROVE  Distinct(s \o r)
<1>1. /\ DOMAIN (s \o r) = 1..(Len(s) + Len(r))
      /\ DOMAIN s = 1..Len(s) /\ DOMAIN r = 1..Len(r)
      /\ Len(s) \in Nat /\ Len(r) \in Nat
      /\ \A p \in 1..(Len(s) + Len(r)) :
           (s \o r)[p] = IF p <= Len(s) THEN s[p] ELSE r[p - Len(s)]
  OBVIOUS
<1>2. \A p \in 1..(Len(s) + Len(r)) :
        \/ p \in DOMAIN s /\ (s \o r)[p] = s[p]
        \/ p \notin DOMAIN s /\ p - Len(s) \in DOMAIN r /\ (s \o r)[p] = r[p - Len(s)]
  BY <1>1
<1>3. SUFFICES ASSUME NEW p \in 1..(Len(s) + Len(r)), NEW q \in 1..(Len(s) + Len(r)),
                      (s \o r)[p] = (s \o r)[q]
               PROVE  p = q
  BY <1>1 DEF Distinct
<1>4. CASE p \in DOMAIN s /\ q \in DOMAIN s
  BY <1>2, <1>3, <1>4 DEF Distinct
<1>5. CASE p \in DOMAIN s /\ q \notin DOMAIN s
  BY <1>2, <1>3, <1>5 DEF InSeq
<1>6. CASE p \notin DOMAIN s /\ q \in DOMAIN s
  BY <1>2, <1>3, <1>6 DEF InSeq
<1>7. CASE p \notin DOMAIN s /\ q \notin DOMAIN s
  <2>1. p - Len(s) = q - Len(s)
    BY <1>2, <1>3, <1>7 DEF Distinct
  <2>2. QED
    BY <1>1, <2>1
<1>8. QED
  BY <1>4, <1>5, <1>6, <1>7

LEMMA LoopsStep == TypeOK /\ LoopsExhausted /\ PcMatches /\ [Next]_vars => LoopsExhausted'
<1>0. SUFFICES ASSUME TypeOK, LoopsExhausted, PcMatches, [Next]_vars,
                      NEW u \in Threads, pc'[u] # "rows"
               PROVE  todo'[u] = {}
  BY DEF LoopsExhausted
<1> USE <1>0 DEF LoopsExhausted, TypeOK
<1>1. ASSUME NEW t \in Threads, FormatRow(t)
      PROVE  todo'[u] = {}
  BY <1>1 DEF FormatRow, TakeRow
<1>2. ASSUME NEW t \in Threads, FormatRowAndFlush(t)
      PROVE  todo'[u] = {}
  BY <1>2 DEF FormatRowAndFlush, TakeRow
<1>3. ASSUME NEW t \in Threads, LeaveLoop(t) \/ StopWaiting(t)
      PROVE  todo'[u] = {}
  BY <1>3 DEF LeaveLoop, StopWaiting
<1>4. ASSUME NEW t \in Threads, CloseClass(t)
      PROVE  todo'[u] = {}
  <2>1. CASE u = t
    <3>1. cls[t] = NumClasses
      BY <1>4, <2>1 DEF CloseClass
    <3>2. Assigned(t, NumClasses + 1) = {}
      BY DEF Assigned, Classes
    <3>3. QED
      BY <1>4, <2>1, <3>1, <3>2 DEF CloseClass
  <2>2. CASE u # t
    BY <1>4, <2>2 DEF CloseClass
  <2>3. QED
    BY <2>1, <2>2
<1>5. CASE UNCHANGED <<pc, todo>>
  BY <1>5
<1>6. QED
  BY <1>1, <1>2, <1>3, <1>4, <1>5 DEF Next, Step, Terminated, vars, Spin

\* What OwnRows says of one row.
LEMMA OwnRow ==
    ASSUME TypeOK, OwnRows, NEW t \in Threads, NEW i
    PROVE  /\ i \in todo[t] => i \in Rows /\ share[i] = t /\ label[i] = cls[t]
           /\ InSeq(i, buf[t]) => i \in Rows /\ share[i] = t /\ label[i] = cls[t]
  BY DEF OwnRows, Assigned, InSeq

\* EachRowOnce for one row.
OnceInPlace(i) ==
    IF cls[share[i]] < label[i]
    THEN ~InLoop(i) /\ ~InBuffer(i) /\ ~InFile(i)
    ELSE /\ InLoop(i) \/ InBuffer(i) \/ InFile(i)
         /\ ~(InLoop(i) /\ InBuffer(i))
         /\ ~(InLoop(i) /\ InFile(i))
         /\ ~(InBuffer(i) /\ InFile(i))

\* The buffer of a thread, with the row that filled it or without, is free of
\* repetitions and of rows that are in the file already.
LEMMA BufferIsFresh ==
    ASSUME TypeOK, EachRowOnce, NEW t \in Threads
    PROVE  /\ \A p \in DOMAIN buf[t] : ~InFile(buf[t][p])
           /\ \A i \in todo[t] :
                /\ ~InSeq(i, buf[t]) /\ ~InFile(i)
                /\ Distinct(Append(buf[t], i))
                /\ \A p \in DOMAIN Append(buf[t], i) : ~InFile(Append(buf[t], i)[p])
<1>1. OwnRows /\ Distinct(buf[t]) /\ \A i \in Rows : OnceInPlace(i)
  BY DEF EachRowOnce, OnceInPlace
<1>2. cls[t] \in Nat /\ ~(cls[t] < cls[t]) /\ buf[t] \in Seq(Rows)
  BY DEF TypeOK
<1>3. ASSUME NEW i, InSeq(i, buf[t]) PROVE ~InFile(i)
  <2>1. i \in Rows /\ share[i] = t /\ label[i] = cls[t] /\ InBuffer(i)
    BY <1>1, <1>3, OwnRow DEF InBuffer
  <2>2. QED
    BY <1>1, <1>2, <2>1 DEF OnceInPlace
<1>4. \A p \in DOMAIN buf[t] : InSeq(buf[t][p], buf[t])
  BY DEF InSeq
<1>5. ASSUME NEW i \in todo[t]
      PROVE  ~InSeq(i, buf[t]) /\ ~InFile(i) /\ i \in Rows
  <2>1. i \in Rows /\ share[i] = t /\ label[i] = cls[t] /\ InLoop(i)
    BY <1>1, <1>5, OwnRow DEF InLoop
  <2>2. QED
    BY <1>1, <1>2, <2>1 DEF OnceInPlace, InBuffer
<1>6. ASSUME NEW i \in todo[t]
      PROVE  /\ Distinct(Append(buf[t], i))
             /\ \A p \in DOMAIN Append(buf[t], i) : ~InFile(Append(buf[t], i)[p])
  <2>1. Distinct(Append(buf[t], i))
    BY <1>1, <1>2, <1>5, AppendDistinct
  <2>2. SUFFICES ASSUME NEW p \in DOMAIN Append(buf[t], i)
                 PROVE  ~InFile(Append(buf[t], i)[p])
    BY <2>1
  <2>3. InSeq(Append(buf[t], i)[p], Append(buf[t], i))
    BY DEF InSeq
  <2>4. InSeq(Append(buf[t], i)[p], buf[t]) \/ Append(buf[t], i)[p] = i
    BY <1>2, <1>5, <2>3, InAppend
  <2>5. QED
    BY <1>3, <1>5, <2>4
<1>7. QED
  BY <1>3, <1>4, <1>5, <1>6

\* A row that was taken out of the loop and put into the buffer or the file,
\* or that moved from the buffer to the file, is still in one place; the rows
\* of the other threads are where they were.
LEMMA OnceStep ==
    TypeOK /\ PcMatches /\ LoopsExhausted /\ EachRowOnce /\ [Next]_vars => EachRowOnce'
<1>0. SUFFICES ASSUME TypeOK, PcMatches, LoopsExhausted, EachRowOnce, [Next]_vars
               PROVE  EachRowOnce'
  OBVIOUS
<1>1. OwnRows /\ OwnRows' /\ TypeOK'
  BY <1>0, OwnRowsStep, TypeStep DEF EachRowOnce
<1>2. Distinct(out) /\ (\A t \in Threads : Distinct(buf[t])) /\ \A i \in Rows : OnceInPlace(i)
  BY <1>0 DEF EachRowOnce, OnceInPlace
<1>3. \A i \in Rows : share[i] \in Threads /\ label[i] \in Nat /\ cls[share[i]] \in Nat
  BY <1>0 DEF TypeOK, Classes
<1>4. \A t \in Threads : buf[t] \in Seq(Rows) /\ todo[t] \subseteq Rows /\ cls[t] \in Nat
  BY <1>0 DEF TypeOK
<1>5. out \in Seq(Rows)
  BY <1>0 DEF TypeOK
<1> DEFINE Kept == /\ Distinct(out')
                   /\ \A t \in Threads : Distinct(buf'[t])
                   /\ \A i \in Rows : OnceInPlace(i)'
<1>6. ASSUME NEW t \in Threads, FormatRow(t)
      PROVE  Kept
  <2>1. PICK j \in Rows : /\ j \in todo[t]
                          /\ todo' = [todo EXCEPT ![t] = todo[t] \ {j}]
                          /\ buf' = [buf EXCEPT ![t] = Append(buf[t], j)]
    BY <1>6 DEF FormatRow, TakeRow, IsNext
  <2>2. UNCHANGED <<label, share, cls, out>>
    BY <1>6 DEF FormatRow, input
  <2>3. share[j] = t /\ label[j] = cls[t]
    BY <1>0, <1>1, <2>1, OwnRow
  <2>4. \A u \in Threads : Distinct(buf'[u])
    BY <1>0, <1>2, <2>1, BufferIsFresh DEF TypeOK
  <2>5. ASSUME NEW i \in Rows
        PROVE  OnceInPlace(i)'
    <3>1. CASE i = j
      <4>1. OnceInPlace(i) /\ InLoop(i) /\ ~(cls[t] < label[i])
        BY <1>2, <1>3, <2>1, <2>3, <3>1 DEF InLoop
      <4>2. ~InLoop(i)' /\ InFile(i)' = InFile(i)
        BY <1>0, <2>1, <2>2, <2>3, <3>1 DEF InLoop, InFile, InSeq, TypeOK
      <4>3. InBuffer(i)'
        <5>1. buf'[t] = Append(buf[t], j)
          BY <1>0, <2>1 DEF TypeOK
        <5>2. QED
          <6>1. buf[t] \in Seq(Rows)
            BY <1>4
          <6>2. InSeq(j, Append(buf[t], j))
            BY <6>1, InAppend
          <6>3. share'[i] = t /\ buf'[share'[i]] = Append(buf[t], j)
            BY <2>2, <2>3, <3>1, <5>1
          <6> QED
            BY <3>1, <6>2, <6>3 DEF InBuffer, InSeq
      <4>4. QED
        BY <2>2, <2>3, <3>1, <4>1, <4>2, <4>3 DEF OnceInPlace
    <3>2. CASE i # j
      <4>1. InLoop(i)' = InLoop(i) /\ InFile(i)' = InFile(i)
        BY <1>0, <1>3, <2>1, <2>2, <3>2 DEF InLoop, InFile, InSeq, TypeOK
      <4>2. InBuffer(i)' = InBuffer(i)
        <5>1. CASE share[i] = t
          <6>1. buf'[t] = Append(buf[t], j)
            BY <1>0, <2>1 DEF TypeOK
          <6>2. InSeq(i, Append(buf[t], j)) <=> InSeq(i, buf[t])
            BY <1>4, <3>2, InAppend
          <6>3. QED
            BY <2>2, <5>1, <6>1, <6>2 DEF InBuffer, InSeq
        <5>2. CASE share[i] # t
          BY <1>0, <1>3, <2>1, <2>2, <5>2 DEF InBuffer, InSeq, TypeOK
        <5>3. QED
          BY <5>1, <5>2
      <4>3. QED
        BY <1>2, <2>2, <4>1, <4>2 DEF OnceInPlace
    <3>3. QED
      BY <3>1, <3>2
  <2>6. QED
    BY <1>2, <2>2, <2>4, <2>5
<1>7. ASSUME NEW t \in Threads, FormatRowAndFlush(t)
      PROVE  Kept
  <2>1. PICK j \in Rows : /\ j \in todo[t]
                          /\ todo' = [todo EXCEPT ![t] = todo[t] \ {j}]
                          /\ out' = out \o Append(buf[t], j)
    BY <1>7 DEF FormatRowAndFlush, TakeRow, IsNext
  <2>2. UNCHANGED <<label, share, cls>> /\ buf' = [buf EXCEPT ![t] = <<>>]
    BY <1>7 DEF FormatRowAndFlush, input
  <2>3. share[j] = t /\ label[j] = cls[t]
    BY <1>0, <1>1, <2>1, OwnRow
  <2>4. Append(buf[t], j) \in Seq(Rows)
    BY <1>4
  <2>5. Distinct(out')
    BY <1>0, <1>2, <1>5, <2>1, <2>4, BufferIsFresh, ConcatDistinct DEF InFile
  <2>6. \A u \in Threads : Distinct(buf'[u])
    BY <1>0, <1>2, <2>2 DEF TypeOK, Distinct
  <2>7. ASSUME NEW i \in Rows
        PROVE  OnceInPlace(i)'
    <3>1. InFile(i)' <=> InFile(i) \/ InSeq(i, buf[t]) \/ i = j
      <4>1. InFile(i)' <=> InSeq(i, out \o Append(buf[t], j))
        BY <2>1 DEF InFile, InSeq
      <4>2. InSeq(i, out \o Append(buf[t], j)) <=> InFile(i) \/ InSeq(i, Append(buf[t], j))
        BY <1>5, <2>4, InConcat DEF InFile
      <4>3. InSeq(i, Append(buf[t], j)) <=> InSeq(i, buf[t]) \/ i = j
        BY <1>4, InAppend
      <4>4. QED
        BY <4>1, <4>2, <4>3
    <3>2. CASE share[i] = t
      <4>1. ~InBuffer(i)' /\ (InLoop(i)' <=> InLoop(i) /\ i # j)
        BY <1>0, <2>1, <2>2, <3>2 DEF InBuffer, InLoop, InSeq, TypeOK
      <4>2. InSeq(i, buf[t]) <=> InBuffer(i)
        BY <3>2 DEF InBuffer
      <4>3. i = j => InLoop(i) /\ ~(cls[t] < label[i])
        BY <1>3, <2>1, <2>3 DEF InLoop
      <4>4. OnceInPlace(i)
        BY <1>2
      <4>5. QED
        BY <2>2, <3>1, <3>2, <4>1, <4>2, <4>3, <4>4 DEF OnceInPlace
    <3>3. CASE share[i] # t
      <4>1. InBuffer(i)' = InBuffer(i) /\ InLoop(i)' = InLoop(i)
        BY <1>0, <1>3, <2>1, <2>2, <3>3 DEF InBuffer, InLoop, InSeq, TypeOK
      <4>2. InFile(i)' <=> InFile(i)
        BY <1>0, <1>1, <2>3, <3>1, <3>3, OwnRow
      <4>3. QED
        BY <1>2, <2>2, <4>1, <4>2 DEF OnceInPlace
    <3>4. QED
      BY <3>2, <3>3
  <2>8. QED
    BY <2>5, <2>6, <2>7
<1>8. ASSUME NEW t \in Threads, CloseClass(t)
      PROVE  Kept
  <2>1. /\ out' = out \o buf[t]
        /\ buf' = [buf EXCEPT ![t] = <<>>]
        /\ cls' = [cls EXCEPT ![t] = cls[t] + 1]
        /\ todo' = [todo EXCEPT ![t] = Assigned(t, cls[t] + 1)]
        /\ UNCHANGED <<label, share>>
        /\ pc[t] = "critical"
    BY <1>8 DEF CloseClass, input
  <2>2. todo[t] = {}
    BY <1>0, <2>1 DEF LoopsExhausted
  <2>3. Distinct(out')
    BY <1>0, <1>2, <1>4, <1>5, <2>1, BufferIsFresh, ConcatDistinct DEF InFile
  <2>4. \A u \in Threads : Distinct(buf'[u])
    BY <1>0, <1>2, <2>1 DEF TypeOK, Distinct
  <2>5. ASSUME NEW i \in Rows
        PROVE  OnceInPlace(i)'
    <3>1. InFile(i)' <=> InFile(i) \/ InSeq(i, buf[t])
      <4>1. InFile(i)' <=> InSeq(i, out \o buf[t])
        BY <2>1 DEF InFile, InSeq
      <4>2. QED
        BY <1>4, <1>5, <4>1, InConcat DEF InFile
    <3>2. CASE share[i] = t
      <4>1. ~InBuffer(i)' /\ ~InLoop(i) /\ (InSeq(i, buf[t]) <=> InBuffer(i))
        BY <1>0, <2>1, <2>2, <3>2 DEF InBuffer, InLoop, InSeq, TypeOK
      <4>2. InLoop(i)' <=> label[i] = cls[t] + 1
        BY <1>0, <2>1, <3>2 DEF InLoop, Assigned, TypeOK
      <4>3. cls'[share[i]] = cls[t] + 1 /\ label'[i] = label[i] /\ cls[t] \in Nat /\ label[i] \in Nat
        BY <1>0, <1>3, <1>4, <2>1, <3>2 DEF TypeOK
      <4>4. OnceInPlace(i)
        BY <1>2
      <4>5. CASE cls[t] < label[i]
        BY <2>1, <3>1, <3>2, <4>1, <4>2, <4>3, <4>4, <4>5 DEF OnceInPlace
      <4>6. CASE ~(cls[t] < label[i])
        BY <2>1, <3>1, <3>2, <4>1, <4>2, <4>3, <4>4, <4>6 DEF OnceInPlace
      <4>7. QED
        BY <4>5, <4>6
    <3>3. CASE share[i] # t
      <4>1. /\ InBuffer(i)' = InBuffer(i) /\ InLoop(i)' = InLoop(i)
            /\ cls'[share[i]] = cls[share[i]]
        BY <1>0, <1>3, <2>1, <3>3 DEF InBuffer, InLoop, InSeq, TypeOK
      <4>2. InFile(i)' <=> InFile(i)
        BY <1>0, <1>1, <3>1, <3>3, OwnRow
      <4>3. QED
        BY <1>2, <2>1, <4>1, <4>2 DEF OnceInPlace
    <3>4. QED
      BY <3>2, <3>3
  <2>6. QED
    BY <2>3, <2>4, <2>5
<1>9. ASSUME UNCHANGED <<label, share, cls, todo, buf, out>>
      PROVE  Kept
  BY <1>2, <1>9 DEF Distinct, OnceInPlace, InLoop, InBuffer, InFile, InSeq
<1>10. Kept => EachRowOnce'
  BY <1>1 DEF EachRowOnce, OnceInPlace
<1> HIDE DEF Kept
<1>11. QED
  BY <1>0, <1>6, <1>7, <1>8, <1>9, <1>10 DEF Next, Step, Terminated, vars, LeaveLoop,
     Spin, StopWaiting, input

LEMMA InitOnce == Init => LoopsExhausted /\ EachRowOnce
<1>0. SUFFICES ASSUME Init PROVE LoopsExhausted /\ EachRowOnce
  OBVIOUS
<1>1. TypeOK /\ OwnRows
  BY <1>0, InitIInv DEF IInv
<1>2. Distinct(out) /\ \A t \in Threads : Distinct(buf[t])
  BY <1>0 DEF Init, Distinct
<1>3. ASSUME NEW i \in Rows
      PROVE  OnceInPlace(i)
  <2>1. cls[share[i]] = 1 /\ ~InBuffer(i) /\ ~InFile(i) /\ label[i] \in Nat \ {0}
    BY <1>0, <1>1 DEF Init, TypeOK, InBuffer, InFile, InSeq, Classes
  <2>2. InLoop(i) <=> label[i] = 1
    BY <1>0, <1>1 DEF Init, TypeOK, InLoop, Assigned
  <2>3. QED
    BY <2>1, <2>2 DEF OnceInPlace
<1>4. QED
  BY <1>0, <1>1, <1>2, <1>3 DEF Init, LoopsExhausted, EachRowOnce, OnceInPlace

WriterInv == IInv /\ LoopsExhausted /\ EachRowOnce

LEMMA WriterInvariant == Spec => []WriterInv
<1>1. Init => WriterInv
  BY InitIInv, InitOnce DEF WriterInv
<1>2. WriterInv /\ [Next]_vars => WriterInv'
  BY StepIInv, LoopsStep, OnceStep DEF WriterInv, IInv
<1>3. QED
  BY <1>1, <1>2, PTL DEF Spec

\* No support vector is lost, written twice or held in two places, whatever
\* rows the threads get and wherever their buffers fill up.
THEOREM OnceCorrect == Spec => []EachRowOnce
  BY WriterInvariant, PTL DEF WriterInv

----------------------------------------------------------------------------
(***************************************************************************)
(* The writer implements GroupedOutput until a buffer spills: a write of a *)
(* thread whose class is the least of all appends a chunk of that class,   *)
(* and of the classes before it nothing is missing.                        *)
(***************************************************************************)
\* A chunk cannot be longer than the set its rows are from.
LEMMA DistinctIsChunk ==
    ASSUME NEW S, IsFiniteSet(S), NEW s \in Seq(S), s # <<>>, Distinct(s)
    PROVE  s \in Abstract!Chunks(S)
<1>1. /\ s \in [1..Len(s) -> S] /\ Len(s) \in Nat /\ Len(s) >= 1 /\ DOMAIN s = 1..Len(s)
  OBVIOUS
<1>2. s \in Injection(1..Len(s), S)
  BY <1>1 DEF Injection, IsInjective, Distinct
<1>3. Cardinality(1..Len(s)) = Len(s) /\ IsFiniteSet(1..Len(s))
  BY <1>1, FS_Interval
<1>4. Len(s) <= Cardinality(S)
  BY <1>2, <1>3, FS_Injection
<1>5. Len(s) \in 1..Cardinality(S)
  BY <1>1, <1>4, FS_CardinalityType
<1>6. s \in {f \in [1..Len(s) -> S] : \A p, q \in 1..Len(s) : f[p] = f[q] => p = q}
  BY <1>1 DEF Distinct
<1>7. Abstract!Cardinality(S) = Cardinality(S)
  BY DEF Abstract!Cardinality, Cardinality
<1>8. QED
  BY <1>5, <1>6, <1>7 DEF Abstract!Chunks

LEMMA WriteRefines ==
    ASSUME WriterInv, NEW t \in Threads, cls[t] \in Classes,
           \A u \in Threads : cls[t] <= cls[u],
           NEW s \in Seq(Rows), s # <<>>, Distinct(s),
           \A p \in DOMAIN s : label[s[p]] = cls[t] /\ ~InFile(s[p]),
           out' = out \o s, label' = label
    PROVE  Abstract!Next
<1>0. TypeOK /\ OwnRows /\ EachRowOnce
  BY DEF WriterInv, IInv
<1>1. \A i \in Rows : Abstract!Written({i}) <=> InFile(i)
  BY DEF Abstract!Written, InFile, InSeq
<1>2. ASSUME NEW b \in 1..(cls[t] - 1), NEW i \in Abstract!Missing(b)
      PROVE  FALSE
  <2>1. i \in Rows /\ label[i] = b /\ ~InFile(i)
    BY <1>1, <1>2 DEF Abstract!Missing
  <2>2. share[i] \in Threads /\ label[i] \in Nat /\ cls[share[i]] \in Nat /\ cls[t] \in Nat
    <3>1. i \in Rows /\ TypeOK
      BY <1>0, <2>1
    <3>2. share[i] \in Threads /\ label[i] \in Classes /\ \A u \in Threads : cls[u] \in Nat
      BY ONLY <3>1, SizesAssumption DEF TypeOK
    <3>3. QED
      BY <3>2 DEF Classes
  <2>3. label[i] < cls[share[i]] /\ ~(cls[share[i]] < label[i])
    BY <2>1, <2>2
  <2>4. ~InLoop(i) /\ ~InBuffer(i)
    BY <1>0, <2>1, <2>2, <2>3, OwnRow DEF InLoop, InBuffer
  <2>5. QED
    BY <1>0, <2>1, <2>2, <2>3, <2>4 DEF EachRowOnce
<1>3. IsFiniteSet(Abstract!Missing(cls[t]))
  <2>1. IsFiniteSet(Rows) /\ Abstract!Missing(cls[t]) \in SUBSET Rows
    BY FS_Interval DEF Rows, Abstract!Missing
  <2>2. QED
    BY <2>1, FS_Subset
<1>4. s \in Seq(Abstract!Missing(cls[t]))
  <2>1. \A p \in DOMAIN s : s[p] \in Abstract!Missing(cls[t])
    BY <1>1 DEF Abstract!Missing
  <2>2. QED
    BY <2>1
<1>5. s \in Abstract!Chunks(Abstract!Missing(cls[t]))
  BY <1>3, <1>4, DistinctIsChunk
<1>6. Abstract!WriteChunk(cls[t])
  BY <1>2, <1>5 DEF Abstract!WriteChunk
<1>7. cls[t] \in Abstract!Classes
  BY DEF Abstract!Classes, Classes
<1>8. QED
  BY <1>6, <1>7 DEF Abstract!Next

LEMMA StepRefines ==
    WriterInv /\ [Next]_vars => [Abstract!Next \/ spilled']_<<label, out>>
<1>0. SUFFICES ASSUME WriterInv, [Next]_vars, ~spilled'
               PROVE  Abstract!Next \/ UNCHANGED <<label, out>>
  OBVIOUS
<1> USE <1>0 DEF WriterInv, IInv
<1>1. ASSUME NEW t \in Threads, FormatRowAndFlush(t)
      PROVE  Abstract!Next
  <2>1. PICK i \in Rows : i \in todo[t] /\ out' = out \o Append(buf[t], i)
    BY <1>1 DEF FormatRowAndFlush, TakeRow, IsNext
  <2>2. /\ pc[t] = "rows" /\ label' = label
        /\ ~spilled /\ (cls[t] > 1 => PreviousClassDone(t))
    BY <1>1 DEF FormatRowAndFlush, TakeRow, input
  <2>3. cls[t] \in Classes /\ \A u \in Threads : cls[u] \in Nat
    BY <2>2 DEF TypeOK, PcMatches, Classes
  <2>4. \A u \in Threads : cls[t] <= cls[u]
    <3>1. CASE cls[t] > 1
      <4>1. cls[t] - 1 \in Classes
        BY <2>3, <3>1 DEF Classes
      <4>2. \A u \in Threads : cls[u] > cls[t] - 1
        BY <2>2, <3>1, <4>1, FullCounter DEF PreviousClassDone
      <4>3. QED
        BY <2>3, <4>2
    <3>2. CASE ~(cls[t] > 1)
      BY <3>2 DEF TypeOK
    <3>3. QED
      BY <3>1, <3>2
  <2>5. buf[t] \in Seq(Rows) /\ Append(buf[t], i) \in Seq(Rows) /\ Append(buf[t], i) # <<>>
    <3>1. buf[t] \in Seq(Rows)
      BY DEF TypeOK
    <3>2. Append(buf[t], i) \in Seq(Rows) /\ Len(Append(buf[t], i)) = Len(buf[t]) + 1
      BY <3>1
    <3>3. QED
      BY <3>1, <3>2
  <2>6. /\ Distinct(Append(buf[t], i))
        /\ \A p \in DOMAIN Append(buf[t], i) : ~InFile(Append(buf[t], i)[p])
    BY <2>1, BufferIsFresh
  <2>7. ASSUME NEW p \in DOMAIN Append(buf[t], i)
        PROVE  label[Append(buf[t], i)[p]] = cls[t]
    <3>1. InSeq(Append(buf[t], i)[p], Append(buf[t], i))
      BY DEF InSeq
    <3>2. InSeq(Append(buf[t], i)[p], buf[t]) \/ Append(buf[t], i)[p] = i
      BY <2>5, <3>1, InAppend
    <3>3. QED
      BY <2>1, <3>2, OwnRow
  <2>8. QED
    BY <2>1, <2>2, <2>3, <2>4, <2>5, <2>6, <2>7, WriteRefines
<1>2. ASSUME NEW t \in Threads, CloseClass(t)
      PROVE  Abstract!Next \/ UNCHANGED <<label, out>>
  <2>1. out' = out \o buf[t] /\ label' = label /\ pc[t] = "critical"
    BY <1>2 DEF CloseClass, input
  <2>2. buf[t] \in Seq(Rows) /\ out \in Seq(Rows)
    BY DEF TypeOK
  <2>3. cls[t] \in Classes /\ \A u \in Threads : cls[t] <= cls[u]
    BY <2>1 DEF TypeOK, PcMatches, Classes, BusyWaitIsBarrier
  <2>4. CASE buf[t] = <<>>
    BY <2>1, <2>2, <2>4
  <2>5. CASE buf[t] # <<>>
    <3>1. Distinct(buf[t]) /\ \A p \in DOMAIN buf[t] : ~InFile(buf[t][p])
      BY BufferIsFresh DEF EachRowOnce
    <3>2. \A p \in DOMAIN buf[t] : label[buf[t][p]] = cls[t]
      BY DEF OwnRows, Assigned
    <3>3. QED
      BY <2>1, <2>2, <2>3, <2>5, <3>1, <3>2, WriteRefines
  <2>6. QED
    BY <2>4, <2>5
<1>3. QED
  BY <1>1, <1>2 DEF Next, Step, Terminated, vars, FormatRow, LeaveLoop, Spin,
     StopWaiting, input

\* Every write before the first spill is a chunk of rows that were missing, of
\* the first class that is not complete; every other step leaves the file alone.
THEOREM WriterImplementsGroupedOutput == Spec => ImplementsGroupedUnlessSpilled
<1>1. Init => Abstract!Init
  BY InitIInv DEF Init, Abstract!Init, Classes, Abstract!Classes
<1>2. QED
  BY <1>1, WriterInvariant, StepRefines, PTL DEF Spec, ImplementsGroupedUnlessSpilled
=============================================================================
