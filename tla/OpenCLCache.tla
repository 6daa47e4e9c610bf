---------------------------- MODULE OpenCLCache -----------------------------
(***************************************************************************)
(* Processes that construct an OpenCL csvm: each compiles its kernels for  *)
(* float and for double, and keeps the binaries in a directory of the      *)
(* temporary directory, where every later process looks for them.          *)
(*                                                                         *)
(* The file system is shared, there are no locks, and a process may be     *)
(* killed at any step.  A device stands for all devices that take the same *)
(* binary; a binary that is cut short, or that is for another device or    *)
(* real type, is refused by the driver.  The processes are of one build of *)
(* the library: checksums and targets, which go into the directory's name, *)
(* are the same for all of them.  Permissions are left out.                *)
(***************************************************************************)
EXTENDS Naturals, Sequences

CONSTANTS
    Processes,
    DeviceLists,    \* what a process may see: sequences of devices
    MaxStarts       \* bound on the number of constructions

ASSUME DeviceListsAssumption ==
    \A list \in DeviceLists : Len(list) \in Nat \ {0}

ASSUME MaxStartsAssumption == MaxStarts \in Nat

VARIABLES
    dir,            \* the directories
    at,             \* where a process is
    devices,        \* contexts[0].devices
    real,           \* real_type of fill_command_queues_with_kernels
    index,              \* index of a loop over the devices
    binaries,
    starts,
    spoiled,        \* history: what is left of a directory may be a torn file
    writers,        \* history: the device lists a directory was written for
    overlap         \* history: files were written while the process read them

history == <<spoiled, writers, overlap>>
cache_vars == <<dir, at, devices, real, index, binaries, starts, history>>

RealTypes == {"float", "double"}
Directories == [real : RealTypes, num_devices : {Len(list) : list \in DeviceLists}]

NoFile == [is |-> "missing"]
TornFile == [is |-> "torn"]         \* opened and not yet flushed, or without content
Binary(r, d) == [is |-> "binary", real |-> r, device |-> d]

\* cache_dir_name.
Key(p) == [real |-> real[p], num_devices |-> Len(devices[p])]

Exists(k) == dir[k] # <<>>
Files(k) == IF Exists(k) THEN {j \in 1..k.num_devices : dir[k][j] # NoFile} ELSE {}
Full(k) == Files(k) = 1..k.num_devices

Off == {"off", "up", "failed"}
Writing(p) == at[p] \in {"open", "flush"}
Building(p) == at[p] \in {"build", "create"} \/ Writing(p)
Go(p, next) == at' = [at EXCEPT ![p] = next]
Mine(p) == [j \in 1..Len(devices[p]) |-> Binary(real[p], devices[p][j])]

----------------------------------------------------------------------------
(* Looking for the binaries.                                               *)

\* A new process.  Float comes first.
Start(p, list) ==
    /\ at[p] \in Off /\ starts < MaxStarts
    /\ Go(p, "exists")
    /\ starts' = starts + 1
    /\ devices' = [devices EXCEPT ![p] = list]
    /\ real' = [real EXCEPT ![p] = "float"]
    /\ index' = [index EXCEPT ![p] = 1]
    /\ binaries' = [binaries EXCEPT ![p] = <<>>]
    /\ overlap' = [overlap EXCEPT ![p] = FALSE]
    /\ UNCHANGED <<dir, spoiled, writers>>

CheckExists(p) ==
    /\ at[p] = "exists"
    /\ Go(p, IF Exists(Key(p)) THEN "count" ELSE "build")
    /\ UNCHANGED <<dir, devices, real, index, binaries, starts, history>>

\* Mutant: any file will do.
Usable_Some(k) == Files(k) # {}

\* Mutant: the files are counted from zero.
Usable_OffByOne(k) == Files(k) = 1..(k.num_devices - 1)

\* The number of files is the number of devices.
Usable(k) == Full(k)

CheckCount(p) ==
    /\ at[p] = "count"
    /\ Go(p, IF Usable(Key(p)) THEN "read" ELSE "build")
    /\ index' = [index EXCEPT ![p] = 1]
    /\ overlap' = [overlap EXCEPT ![p] =
         \E q \in Processes \ {p} : Writing(q) /\ Key(q) = Key(p)]
    /\ UNCHANGED <<dir, devices, real, binaries, starts, spoiled, writers>>

----------------------------------------------------------------------------
(* Building from source.                                                   *)

\* The result of clBuildProgram is not looked at: the message function checks
\* the query for the log, not the build.  After a failed build the binaries
\* are empty.
Build(p, succeeds) ==
    /\ at[p] = "build"
    /\ binaries' = [binaries EXCEPT ![p] =
         IF succeeds THEN Mine(p) ELSE [j \in 1..Len(devices[p]) |-> TornFile]]
    /\ Go(p, "create")
    /\ UNCHANGED <<dir, devices, real, index, starts, history>>

CreateDirectory(p) ==
    /\ at[p] = "create"
    /\ dir' = [dir EXCEPT ![Key(p)] =
         IF Exists(Key(p)) THEN @ ELSE [j \in 1..Len(devices[p]) |-> NoFile]]
    /\ Go(p, "open")
    /\ index' = [index EXCEPT ![p] = 1]
    /\ UNCHANGED <<devices, real, binaries, starts, history>>

\* Others that are reading from the directory p writes to.
Readers(p) == {q \in Processes \ {p} : at[q] = "read" /\ Key(q) = Key(p)}

\* The file is cut to nothing.
OpenFile(p) ==
    /\ at[p] = "open"
    /\ dir' = [dir EXCEPT ![Key(p)][index[p]] = TornFile]
    /\ Go(p, "flush")
    /\ writers' = [writers EXCEPT ![Key(p)] = @ \cup {devices[p]}]
    /\ overlap' = [q \in Processes |-> overlap[q] \/ q \in Readers(p)]
    /\ UNCHANGED <<devices, real, index, binaries, starts, spoiled>>

\* Two processes that have the file open write to the same place: what the
\* second one writes may be shorter.
Flushed(old, new) == IF old \in {TornFile, new} THEN {new} ELSE {new, TornFile}

\* Mutant: the devices are taken from the last one to the first one.
Content_Reversed(p) == binaries[p][Len(devices[p]) + 1 - index[p]]

Content(p) == binaries[p][index[p]]

FlushFile(p) ==
    /\ at[p] = "flush"
    /\ \E file \in Flushed(dir[Key(p)][index[p]], Content(p)) :
         dir' = [dir EXCEPT ![Key(p)][index[p]] = file]
    /\ spoiled' = [spoiled EXCEPT ![Key(p)] = @ \/ Content(p) = TornFile]
    /\ Go(p, IF index[p] < Len(devices[p]) THEN "open" ELSE "link")
    /\ index' = [index EXCEPT ![p] = @ + 1]
    /\ UNCHANGED <<devices, real, binaries, starts, writers, overlap>>

----------------------------------------------------------------------------
(* Reading the files, and the program.                                     *)

ReadFile(p) ==
    /\ at[p] = "read"
    /\ binaries' = [binaries EXCEPT ![p] = Append(@, dir[Key(p)][index[p]])]
    /\ Go(p, IF index[p] < Len(devices[p]) THEN "read" ELSE "link")
    /\ index' = [index EXCEPT ![p] = @ + 1]
    /\ UNCHANGED <<dir, devices, real, starts, history>>

Accepted(p) == binaries[p] = Mine(p)

\* The queues get their kernels, first all for float and then all for double.
\* A refused binary throws out of the constructor.
LinkProgram(p) ==
    /\ at[p] = "link"
    /\ Go(p, IF ~Accepted(p) THEN "failed" ELSE IF real[p] = "float" THEN "exists" ELSE "up")
    /\ IF Accepted(p) THEN real' = [real EXCEPT ![p] = "double"] ELSE UNCHANGED real
    /\ index' = [index EXCEPT ![p] = 1]
    /\ binaries' = [binaries EXCEPT ![p] = <<>>]
    /\ UNCHANGED <<dir, devices, starts, history>>

\* The process is killed.
Crash(p) ==
    /\ at[p] \notin Off
    /\ Go(p, "off")
    /\ spoiled' = [spoiled EXCEPT ![Key(p)] = @
         \/ /\ at[p] = "flush"
            /\ \/ Full(Key(p))
               \/ \E q \in Processes \ {p} : Writing(q) /\ Key(q) = Key(p)]
    /\ index' = [index EXCEPT ![p] = 1]
    /\ binaries' = [binaries EXCEPT ![p] = <<>>]
    /\ overlap' = [overlap EXCEPT ![p] = FALSE]
    /\ UNCHANGED <<dir, devices, real, starts, writers>>

----------------------------------------------------------------------------
CacheInit ==
    /\ dir = [k \in Directories |-> <<>>]
    /\ at = [p \in Processes |-> "off"]
    /\ \E list \in DeviceLists : devices = [p \in Processes |-> list]
    /\ real = [p \in Processes |-> "float"]
    /\ index = [p \in Processes |-> 1]
    /\ binaries = [p \in Processes |-> <<>>]
    /\ starts = 0
    /\ spoiled = [k \in Directories |-> FALSE]
    /\ writers = [k \in Directories |-> {}]
    /\ overlap = [p \in Processes |-> FALSE]

Construct(p) ==
    \/ CheckExists(p) \/ CheckCount(p)
    \/ \E succeeds \in BOOLEAN : Build(p, succeeds)
    \/ CreateDirectory(p) \/ OpenFile(p) \/ FlushFile(p)
    \/ ReadFile(p)
    \/ LinkProgram(p)

CacheNext ==
    \E p \in Processes :
        \/ \E list \in DeviceLists : Start(p, list)
        \/ Construct(p)
        \/ Crash(p)

CacheSpec == CacheInit /\ [][CacheNext]_cache_vars

----------------------------------------------------------------------------
(* Properties.                                                             *)

\* What the number of files is taken for: a directory with one file for each
\* device holds the binaries of just these devices and this real type, also
\* after processes were killed and after several wrote it at a time, unless one
\* was killed with a file open that nobody wrote again, or could not build.
NumberTellsComplete ==
    \A k \in Directories : \A list \in writers[k] :
        /\ ~spoiled[k] /\ Full(k) /\ writers[k] = {list}
        /\ \A p \in Processes : Writing(p) => Key(p) # k
        => dir[k] = [j \in 1..Len(list) |-> Binary(k.real, list[j])]

\* The constructor throws for a reason only: the files were written while it
\* read them, or for other devices in the same number (the name holds no more
\* than that), or they are spoiled.
FailsForAReason ==
    \A p \in Processes : at[p] = "failed" =>
        \/ overlap[p] \/ spoiled[Key(p)]
        \/ writers[Key(p)] # {devices[p]}

\* There is a file for each device and nobody builds.
Settled(k) == Full(k) /\ \A p \in Processes : Building(p) => Key(p) # k

\* Kernels are compiled once: from the moment a directory is settled, whatever
\* it holds and whoever starts, is killed or was just looking, nobody builds or
\* writes there any more.  So a spoiled one is never repaired.
FullIsKept ==
    [][\A k \in Directories : Settled(k) => Settled(k)' /\ dir'[k] = dir[k]]_cache_vars
=============================================================================
