------------------------------- MODULE Store -------------------------------
(***************************************************************************)
(* crates/zutreexo-chain/src/store.rs: save as the system calls it makes,  *)
(* load, and a process that replays, saves, dies and resumes               *)
(* (zutreexo-testkit/src/bin/genesis_replay.rs).                           *)
(*                                                                         *)
(* A state is its tip.  The file system is POSIX's: renames and creations  *)
(* reach the disk in order, at any later time or when the directory is     *)
(* synced; what is written to a file, when the file is synced.             *)
(***************************************************************************)
EXTENDS Integers, Sequences, SequencesExt, FiniteSetsExt, Functions

CONSTANTS
    ParentOpens,            \* File::open(path.parent()) can succeed
    MaxTip,                 \* bound: blocks to replay
    MaxPending              \* bound: directory changes not yet on disk

ASSUME ParentAssumption == ParentOpens \in BOOLEAN
ASSUME BoundAssumption == MaxTip \in Nat /\ MaxPending \in Nat

NoTip  == -1                \* nothing applied, or no snapshot
Torn   == -2                \* what load refuses
Down   == -3                \* no process
NoFile == 0
Whole  == 3                 \* pieces of a file: two of payload, one of checksum

VARIABLES
    memory, pc,             \* the state in memory; the next call of save
    dirs,                   \* directories, from the one on disk to the one seen now
    files,                  \* their files: the state, pieces written, pieces on disk
    returned, confirmed     \* ghosts: the last save that returned Ok; ... after a sync

vars == <<memory, pc, dirs, files, returned, confirmed>>

FilesOf(some_dirs) ==
    (UNION {{dir.path, dir.temp} : dir \in Range(some_dirs)}) \ {NoFile}

\* load: a file is used only when its checksum is there and matches.
Load(dir, length) ==
    CASE dir.path = NoFile -> NoTip
      [] dir.path # NoFile /\ length = Whole -> files[dir.path].tip
      [] OTHER -> Torn

Loaded == Load(Last(dirs), IF Last(dirs).path = NoFile THEN 0 ELSE files[Last(dirs).path].written)

\* File::create: a temporary left by an earlier save is truncated.
Truncated(file) == [tip |-> memory, written |-> 0, synced |-> 0]

CreateTemp ==
    LET dir  == Last(dirs)
        file == IF dir.temp # NoFile THEN dir.temp
                ELSE Min((1 .. 2 * MaxPending + 2) \ DOMAIN files)
    IN  /\ pc = "replay" /\ memory >= 0
        /\ Len(dirs) < MaxPending
        /\ dirs' = IF dir.temp # NoFile THEN dirs
                   ELSE Append(dirs, [dir EXCEPT !.temp = file])
        /\ files' = [f \in DOMAIN files \cup {file} |->
                        IF f = file THEN Truncated(file) ELSE files[f]]
        /\ pc' = "write"
        /\ UNCHANGED <<memory, returned, confirmed>>

\* write_all, in as many writes as it takes.
Write ==
    LET temp == Last(dirs).temp
    IN  /\ pc = "write"
        /\ files' = [files EXCEPT ![temp].written = @ + 1]
        /\ pc' = IF files'[temp].written = Whole THEN "sync" ELSE "write"
        /\ UNCHANGED <<memory, dirs, returned, confirmed>>

\* Mutant: the data is left to the system.
OnDiskLater(file) == file

OnDisk(file) == [file EXCEPT !.synced = file.written]

SyncFile ==
    /\ pc = "sync"
    /\ files' = [files EXCEPT ![Last(dirs).temp] = OnDisk(@)]
    /\ pc' = "rename"
    /\ UNCHANGED <<memory, dirs, returned, confirmed>>

Rename ==
    /\ pc = "rename"
    /\ dirs' = Append(dirs, [path |-> Last(dirs).temp, temp |-> NoFile])
    /\ pc' = "sync_directory"
    /\ UNCHANGED <<memory, files, returned, confirmed>>

\* Mutant: the sync reaches the file again and not its directory.
DirectoriesSyncedAsFile(some_dirs) == some_dirs

DirectoriesSynced(some_dirs) == <<Last(some_dirs)>>

SyncDirectory ==
    /\ pc = "sync_directory" /\ ParentOpens
    /\ dirs' = DirectoriesSynced(dirs)
    /\ files' = Restrict(files, FilesOf(dirs'))
    /\ returned' = memory /\ confirmed' = memory
    /\ pc' = "replay"
    /\ UNCHANGED memory

\* The directory does not open, or its sync fails: save returns Ok all the same.
DirectoryNotSynced ==
    /\ pc = "sync_directory"
    /\ returned' = memory
    /\ pc' = "replay"
    /\ UNCHANGED <<memory, dirs, files, confirmed>>

\* Any call up to the rename can fail: save returns the error.
SaveFails ==
    /\ pc \in {"write", "sync", "rename"}
    /\ pc' = "replay"
    /\ UNCHANGED <<memory, dirs, files, returned, confirmed>>

----------------------------------------------------------------------------
Replay ==
    /\ pc = "replay" /\ memory \in NoTip .. MaxTip - 1
    /\ memory' = memory + 1
    /\ UNCHANGED <<pc, dirs, files, returned, confirmed>>

Killed ==
    /\ memory # Down
    /\ memory' = Down /\ pc' = "replay"
    /\ UNCHANGED <<dirs, files, returned, confirmed>>

PowerLoss ==
    /\ memory' = Down /\ pc' = "replay"
    /\ \E i \in DOMAIN dirs :
           /\ dirs' = <<dirs[i]>>
           /\ \E lengths \in [FilesOf(dirs') -> 0 .. Whole] :
                  /\ \A f \in FilesOf(dirs') : lengths[f] \in files[f].synced .. files[f].written
                  /\ files' = [f \in FilesOf(dirs') |->
                                  [tip |-> files[f].tip, written |-> lengths[f],
                                   synced |-> lengths[f]]]
    /\ UNCHANGED <<returned, confirmed>>

\* The system writes some of the directory's changes back on its own.
Writeback ==
    /\ \E i \in 2 .. Len(dirs) : dirs' = SubSeq(dirs, i, Len(dirs))
    /\ files' = Restrict(files, FilesOf(dirs'))
    /\ UNCHANGED <<memory, pc, returned, confirmed>>

\* A new process resumes from the snapshot, or from nothing when there is none.
Resume ==
    /\ memory = Down
    /\ Loaded # Torn
    /\ memory' = Loaded
    /\ UNCHANGED <<pc, dirs, files, returned, confirmed>>

Init ==
    /\ memory = NoTip /\ pc = "replay"
    /\ dirs = <<[path |-> NoFile, temp |-> NoFile]>>
    /\ files = [f \in {} |-> NoFile]
    /\ returned = NoTip /\ confirmed = NoTip

Next ==
    \/ CreateTemp \/ Write \/ SyncFile \/ Rename \/ SyncDirectory
    \/ DirectoryNotSynced \/ SaveFails
    \/ Replay \/ Killed \/ PowerLoss \/ Writeback \/ Resume

Spec == Init /\ [][Next]_vars

----------------------------------------------------------------------------
(* Properties.                                                             *)

\* What a load may return after a loss of power now.
AfterPowerLoss ==
    UNION {{Load(dir, n) : n \in IF dir.path = NoFile THEN {0}
                                 ELSE files[dir.path].synced .. files[dir.path].written} :
              dir \in Range(dirs)}

\* store.rs: "A crash at any point leaves either the previous snapshot or the
\* new one -- never a partial file": the target is a file replaced as a whole.
SnapshotFile == INSTANCE SnapshotFile WITH
    Tips <- 0 .. MaxTip, current <- Loaded, possible <- AfterPowerLoss
ImplementsSnapshotFile == SnapshotFile!Spec

\* Once a save has synced the directory, no later save, kill or loss of power
\* brings back an older snapshot, whatever fails meanwhile.
ConfirmedSnapshotIsKept ==
    \A tip \in AfterPowerLoss \cup {Loaded} : tip >= confirmed

\* store.rs: "finally the containing directory is `fsync`ed so the rename
\* itself is durable": a loss of power after save returned Ok leaves its state.
SavedSnapshotIsKept ==
    \A tip \in AfterPowerLoss : tip >= returned
=============================================================================
