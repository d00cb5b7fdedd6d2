---------------------------- MODULE FileReplace ----------------------------
(***************************************************************************)
(* Saving and loading one file (src/src/file_io.rs), as the resume bundles, *)
(* program artifacts, safetensors files and render capsules do.  A save     *)
(* creates a staging file named after the process id and an attempt number, *)
(* writes and syncs it, and renames it over the destination; a load asks    *)
(* for the size, opens the file and reads one byte more than it may take.   *)
(* Threads of several processes save and load at the same time, every       *)
(* system call may fail, processes crash and come back under the same id,   *)
(* and the machine loses power.                                             *)
(*                                                                         *)
(* A file is an object of the file system that names refer to: it is named  *)
(* here by the save that creates it.  The file system is external: rename   *)
(* is atomic, create_new is exclusive, and after a loss of power a synced   *)
(* file is whole, any other file is anything, and the directory holds any   *)
(* of the entries it has held, for the code never syncs it.                 *)
(***************************************************************************)
EXTENDS Naturals, FiniteSets, Nothing

CONSTANTS
    Writer, Reader,
    Pid, PidOf,      \* the process of each writer
    Value,           \* what may be saved
    Size,            \* its length in bytes
    Maximum,         \* the maximum of every load
    Attempts,        \* staging names tried (128)
    MaxCalls,        \* saves each writer makes
    MaxLoads,        \* loads each reader makes
    MaxCrashes,      \* crashes of a process and losses of power
    MaxFaults,       \* saves and loads that fail
    Original,        \* the file the destination names at first, if any
    First           \* its contents

ASSUME ProcessAssumption == PidOf \in [Writer -> Pid]
ASSUME SizeAssumption == Size \in [Value -> Nat] /\ Maximum \in Nat /\ First \in Value
ASSUME BoundAssumption ==
    Attempts \in Nat \ {0} /\ MaxCalls \in Nat /\ MaxLoads \in Nat /\ MaxCrashes \in Nat
ASSUME FaultAssumption == MaxFaults \in Nat

Attempt == 0 .. Attempts - 1
Save == Writer \X (1 .. MaxCalls)
File == Save \cup {Original}

ASSUME FileAssumption ==
    IsFiniteSet(Writer) /\ Original \notin Save /\ None \notin File

VARIABLES
    part,      \* what each file holds of its value: "none", "empty", "some", "whole"
    synced,    \* the files that survive a loss of power
    contents,  \* the value that is, or will be, in each file
    dest,      \* the file the destination names, or None
    past,      \* the files it may name after a loss of power
    staging,   \* the file that each staging name <<pid, attempt>> names, or None
    pc, attempt, handle, calls, result,  \* the writers
    rpc, opened, got, loads,             \* the readers
    undeleted, \* history: staging names whose removal failed
    crashes, faults

files == <<part, synced, contents>>
names == <<dest, past, staging, undeleted>>
writers == <<pc, attempt, handle, calls, result>>
readers == <<rpc, opened, got, loads>>
fileVars == <<files, names, writers, readers, crashes, faults>>

FileInit ==
    /\ part = [f \in File |-> IF f = Original THEN "whole" ELSE "none"]
    /\ synced = {Original}
    /\ contents = [f \in File |-> IF f = Original THEN First ELSE None]
    /\ dest \in {Original, None}
    /\ past = {dest}
    /\ staging = [n \in Pid \X Attempt |-> None]
    /\ pc = [w \in Writer |-> "idle"]
    /\ attempt = [w \in Writer |-> 0]
    /\ handle = [w \in Writer |-> None]
    /\ calls = [w \in Writer |-> 0]
    /\ result = [w \in Writer |-> "none"]
    /\ rpc = [r \in Reader |-> "idle"]
    /\ opened = [r \in Reader |-> None]
    /\ got = [r \in Reader |-> None]
    /\ loads = [r \in Reader |-> 0]
    /\ undeleted = {}
    /\ crashes = 0
    /\ faults = 0

Fault == faults < MaxFaults /\ faults' = faults + 1

(* The file of a writer's save, and the staging name it has come to. *)
Mine(w) == <<w, calls[w]>>
Name(w) == <<PidOf[w], attempt[w]>>

-----------------------------------------------------------------------------
(* replace_file_bytes_atomically *)

FirstAttempt == 0

Begin(w, v) ==
    /\ pc[w] = "idle"
    /\ calls[w] < MaxCalls
    /\ calls' = [calls EXCEPT ![w] = @ + 1]
    /\ contents' = [contents EXCEPT ![<<w, calls[w] + 1>>] = v]
    /\ pc' = [pc EXCEPT ![w] = "create"]
    /\ attempt' = [attempt EXCEPT ![w] = FirstAttempt]
    /\ result' = [result EXCEPT ![w] = "none"]
    /\ UNCHANGED <<part, synced, names, handle, readers, crashes, faults>>

(* The save is over, with one of the results of ExactFileError or "ok". *)
Return(w, outcome) ==
    /\ pc' = [pc EXCEPT ![w] = "idle"]
    /\ handle' = [handle EXCEPT ![w] = None]
    /\ result' = [result EXCEPT ![w] = outcome]
    /\ UNCHANGED <<attempt, calls>>

(* Mutant: the staging file is opened with truncate(true), not create_new. *)
CreateOrTruncate(w) ==
    LET f == IF staging[Name(w)] = None THEN Mine(w) ELSE staging[Name(w)]
    IN  /\ pc[w] = "create"
        /\ attempt[w] < Attempts
        /\ staging' = [staging EXCEPT ![Name(w)] = f]
        /\ part' = [part EXCEPT ![f] = "empty"]
        /\ handle' = [handle EXCEPT ![w] = f]
        /\ pc' = [pc EXCEPT ![w] = "write"]
        /\ UNCHANGED <<synced, contents, dest, past, undeleted, attempt, calls, result,
                   readers, crashes, faults>>

(* create_new(true): the name is free and now names an empty file. *)
Create(w) ==
    /\ pc[w] = "create"
    /\ attempt[w] < Attempts
    /\ staging[Name(w)] = None
    /\ staging' = [staging EXCEPT ![Name(w)] = Mine(w)]
    /\ part' = [part EXCEPT ![Mine(w)] = "empty"]
    /\ handle' = [handle EXCEPT ![w] = Mine(w)]
    /\ pc' = [pc EXCEPT ![w] = "write"]
    /\ UNCHANGED <<synced, contents, dest, past, undeleted, attempt, calls, result,
                   readers, crashes, faults>>

(* AlreadyExists: the next attempt. *)
Exists(w) ==
    /\ pc[w] = "create"
    /\ attempt[w] < Attempts
    /\ staging[Name(w)] # None
    /\ attempt' = [attempt EXCEPT ![w] = @ + 1]
    /\ UNCHANGED <<files, names, pc, handle, calls, result, readers, crashes, faults>>

(* StagingExhausted, or another error of the creation. *)
CreateFails(w) ==
    /\ pc[w] = "create"
    /\ \/ attempt[w] = Attempts /\ UNCHANGED faults /\ Return(w, "exhausted")
       \/ attempt[w] < Attempts /\ Fault /\ Return(w, "error")
    /\ UNCHANGED <<files, names, readers, crashes>>

(* write_all writes the bytes in several pieces. *)
Write(w) ==
    /\ pc[w] = "write"
    /\ LET done == part[handle[w]] # "empty"
       IN  /\ part' = [part EXCEPT ![handle[w]] = IF done THEN "whole" ELSE "some"]
           /\ pc' = [pc EXCEPT ![w] = IF done THEN "sync" ELSE "write"]
    /\ UNCHANGED <<synced, contents, names, attempt, handle, calls, result, readers, crashes, faults>>

(* Mutant: the file is flushed but not synced. *)
Unsynced(w) == synced

AfterSync(w) == synced \cup {handle[w]}

Sync(w) ==
    /\ pc[w] = "sync"
    /\ synced' = AfterSync(w)
    /\ pc' = [pc EXCEPT ![w] = "rename"]
    /\ UNCHANGED <<part, contents, names, attempt, handle, calls, result, readers, crashes, faults>>

(* let _ = fs::remove_file(..) after a step has failed: its own failure is
   ignored. *)
RemoveStaging(w) ==
    \/ staging' = [staging EXCEPT ![Name(w)] = None] /\ UNCHANGED undeleted
    \/ UNCHANGED staging /\ undeleted' = undeleted \cup {Name(w)}

(* Mutant: the error of a failed step is dropped with its file. *)
FailsSilently(w) ==
    /\ Fault
    /\ pc[w] \in {"write", "sync", "rename"}
    /\ RemoveStaging(w)
    /\ Return(w, "ok")
    /\ UNCHANGED <<files, dest, past, readers, crashes>>

(* A write, the sync or the rename fails: the staging file is removed. *)
SaveFails(w) ==
    /\ Fault
    /\ pc[w] \in {"write", "sync", "rename"}
    /\ RemoveStaging(w)
    /\ Return(w, "error")
    /\ UNCHANGED <<files, dest, past, readers, crashes>>

(* fs::rename moves whatever the staging name refers to. *)
Rename(w) ==
    /\ pc[w] = "rename"
    /\ staging[Name(w)] # None
    /\ dest' = staging[Name(w)]
    /\ past' = past \cup {staging[Name(w)]}
    /\ staging' = [staging EXCEPT ![Name(w)] = None]
    /\ Return(w, "ok")
    /\ UNCHANGED <<files, undeleted, readers, crashes, faults>>

-----------------------------------------------------------------------------
(* read_file_bytes_bounded *)

(* What a length query or a read finds, in bytes. *)
Length(f) == CASE part[f] = "whole" -> Size[contents[f]]
               [] part[f] = "some"  -> Size[contents[f]] \div 2
               [] OTHER             -> 0

(* A load starts with the length of the file that the name refers to. *)
Inspect(r) ==
    /\ rpc[r] = "idle"
    /\ loads[r] < MaxLoads
    /\ loads' = [loads EXCEPT ![r] = @ + 1]
    /\ got' = [got EXCEPT ![r] = None]
    /\ rpc' = [rpc EXCEPT ![r] =
           IF dest # None /\ Length(dest) <= Maximum THEN "open" ELSE "idle"]
    /\ UNCHANGED <<files, names, writers, opened, crashes, faults>>

Open(r) ==
    /\ rpc[r] = "open"
    /\ IF dest = None
       THEN rpc' = [rpc EXCEPT ![r] = "idle"] /\ UNCHANGED opened
       ELSE rpc' = [rpc EXCEPT ![r] = "read"] /\ opened' = [opened EXCEPT ![r] = dest]
    /\ UNCHANGED <<files, names, writers, got, loads, crashes, faults>>

(* At most Maximum + 1 bytes are read, and that one more byte is refused. *)
Accepts(f) == Length(f) <= Maximum

Read(r) ==
    /\ rpc[r] = "read"
    /\ rpc' = [rpc EXCEPT ![r] = "idle"]
    /\ opened' = [opened EXCEPT ![r] = None]
    /\ got' = [got EXCEPT ![r] = IF Accepts(opened[r])
                  THEN <<part[opened[r]], Length(opened[r])>>
                  ELSE None]
    /\ UNCHANGED <<files, names, writers, loads, crashes, faults>>

(* A system call or the reservation of the buffer fails. *)
LoadFails(r) ==
    /\ Fault
    /\ rpc[r] \in {"open", "read"}
    /\ rpc' = [rpc EXCEPT ![r] = "idle"]
    /\ opened' = [opened EXCEPT ![r] = None]
    /\ UNCHANGED <<files, names, writers, got, loads, crashes>>

-----------------------------------------------------------------------------
(* Faults of processes and of the machine *)

(* The threads of a process stop where they are; a new process gets its id. *)
Stopped(P) ==
    /\ crashes < MaxCrashes
    /\ crashes' = crashes + 1
    /\ pc' = [w \in Writer |-> IF PidOf[w] \in P THEN "idle" ELSE pc[w]]
    /\ result' = [w \in Writer |-> IF PidOf[w] \in P THEN "none" ELSE result[w]]
    /\ handle' = [w \in Writer |-> IF PidOf[w] \in P THEN None ELSE handle[w]]
    /\ UNCHANGED <<attempt, calls>>

Crash(p) ==
    /\ Stopped({p})
    /\ UNCHANGED <<files, names, readers, faults>>

(* Files that were not synced hold anything, and the directory is some
   earlier one: the entries of its staging files are there or not. *)
PowerLoss ==
    /\ Stopped(Pid)
    /\ \E torn \in SUBSET {f \in File : part[f] # "none" /\ f \notin synced} :
           part' = [f \in File |-> IF f \in torn THEN "some" ELSE part[f]]
    /\ dest' \in past
    /\ past' = {dest'}
    /\ \E lost \in SUBSET {n \in Pid \X Attempt : staging[n] # None} :
           staging' = [n \in Pid \X Attempt |-> IF n \in lost THEN None ELSE staging[n]]
    /\ rpc' = [r \in Reader |-> "idle"]
    /\ opened' = [r \in Reader |-> None]
    /\ got' = [r \in Reader |-> None]
    /\ UNCHANGED <<synced, contents, loads, undeleted, faults>>

FileNext ==
    \/ \E w \in Writer : \/ \E v \in Value : Begin(w, v)
                         \/ Create(w)
                         \/ Exists(w)
                         \/ CreateFails(w)
                         \/ Write(w)
                         \/ Sync(w)
                         \/ SaveFails(w)
                         \/ Rename(w)
    \/ \E r \in Reader : \/ Inspect(r)
                         \/ Open(r)
                         \/ Read(r)
                         \/ LoadFails(r)
    \/ \E p \in Pid : Crash(p)
    \/ PowerLoss

FileSpec == FileInit /\ [][FileNext]_fileVars

-----------------------------------------------------------------------------
(* Properties *)

(* The destination is never half a file: whatever fails, crashes or loses
   power between the steps of replace_file_bytes_atomically, the name refers
   to the whole bytes of one save. *)
DestinationIsWhole == dest # None => part[dest] = "whole"

(* Once a file has been renamed into place no save writes to it, so that a
   reader that has it open, or a machine that comes back to it, finds it
   unchanged: staging names that come free or are left behind are never
   shared by two saves. *)
PublishedIsImmutable ==
    [][\A f \in past \ {None} : part'[f] = part[f]]_fileVars

(* read_file_bytes_bounded returns the whole of one file and never more than
   its maximum, although the file may be replaced after its length was asked
   for. *)
LoadsAreWholeAndBounded ==
    \A r \in Reader : got[r] # None => got[r][1] = "whole" /\ got[r][2] <= Maximum

(* Nobody ever meets half a file, under its name or in a load. *)
FileIsWhole == DestinationIsWhole /\ LoadsAreWholeAndBounded

(* A save that returned Ok has been the destination, and a save that returned
   an error has not been and will not be. *)
SaveReportsTruth ==
    \A w \in Writer : result[w] # "none" => (Mine(w) \in past <=> result[w] = "ok")

(* Staging files that no save under way owns. *)
Leftover(p) ==
    {n \in {p} \X Attempt :
        /\ staging[n] # None
        /\ ~\E w \in Writer : Name(w) = n /\ pc[w] \in {"write", "sync", "rename"}}

(* StagingExhausted is returned only when the other threads of the process
   and the files left under its id could hold every staging name at once,
   although the names are tried one after the other while they come and go. *)
ExhaustedOnlyWhenFull ==
    \A w \in Writer : result[w] = "exhausted" =>
        Cardinality({u \in Writer \ {w} : PidOf[u] = PidOf[w]})
            + Cardinality(Leftover(PidOf[w])) >= Attempts

(* Without crashes every path out of a save takes its staging file away,
   unless the file could not be removed. *)
NothingIsLeft == crashes = 0 => \A p \in Pid : Leftover(p) \subseteq undeleted

(* What a save returns is true of the destination and of the directory. *)
SavesTellTheTruth == SaveReportsTruth /\ ExhaustedOnlyWhenFull /\ NothingIsLeft

=============================================================================
