---------------------------- MODULE StoreProofs -----------------------------
(***************************************************************************)
(* Proofs about module Store: whatever call of save fails and wherever the *)
(* process or the machine stops, a snapshot is replaced as a whole, and    *)
(* one whose directory was synced never gives way to an older one.         *)
(*                                                                         *)
(* The reason is where a file is named.  Only the temporary of the newest  *)
(* directory is ever written to, no directory that may still reach the     *)
(* disk names that file as its snapshot, and a file becomes a snapshot     *)
(* only once all of it is on disk.                                         *)
(***************************************************************************)
EXTENDS Store, Numbers, FiniteSetTheorems, SequenceTheorems

Saving == {"write", "sync", "rename"}

Dir == [path : Nat, temp : Nat]

File == [tip : 0 .. MaxTip, written : 0 .. Whole, synced : 0 .. Whole]

WellFormed(file) == file \in File /\ file.synced <= file.written

Disk ==
    /\ dirs \in Seq(Dir) /\ dirs # <<>>
    /\ DOMAIN files = FilesOf(dirs)
    /\ \A f \in DOMAIN files : WellFormed(files[f])

Types ==
    /\ memory \in {Down} \cup NoTip .. MaxTip
    /\ pc \in Saving \cup {"replay", "sync_directory"}
    /\ confirmed \in NoTip .. MaxTip
    /\ Disk

\* A directory that may be found after a loss of power: its snapshot is whole
\* on disk and no older than what was confirmed.
Sound(dir) ==
    /\ dir.path = NoFile => confirmed = NoTip
    /\ dir.path # NoFile => /\ files[dir.path].synced = Whole
                            /\ files[dir.path].tip >= confirmed
    /\ dir.temp # NoFile => dir.temp # dir.path

Newest == dirs[Len(dirs)]

\* The file save writes to is no directory's snapshot.
TempPart ==
    Newest.temp # NoFile => \A i \in 1 .. Len(dirs) : dirs[i].path # Newest.temp

\* How far save has come.
SavePart ==
    /\ pc \in Saving => /\ Newest.temp # NoFile /\ files[Newest.temp].tip = memory
    /\ pc = "write" => files[Newest.temp].written < Whole
    /\ pc = "sync" => files[Newest.temp].written = Whole
    /\ pc = "rename" => files[Newest.temp].synced = Whole
    /\ pc = "sync_directory" => Newest.path # NoFile /\ files[Newest.path].tip = memory

\* A process that is up knows at least what was confirmed.
MemoryPart == memory # Down => memory >= confirmed

StoreInv ==
    /\ Types
    /\ \A i \in 1 .. Len(dirs) : Sound(dirs[i])
    /\ TempPart
    /\ SavePart
    /\ MemoryPart
----------------------------------------------------------------------------
(* Directories and the files they name.                                    *)

\* What the directories a crash could leave are made of.
LEMMA DirFacts ==
    ASSUME NEW some_dirs \in Seq(Dir), some_dirs # <<>>
    PROVE  /\ Len(some_dirs) \in Nat \ {0} /\ Len(some_dirs) \in 1 .. Len(some_dirs)
           /\ DOMAIN some_dirs = 1 .. Len(some_dirs)
           /\ Last(some_dirs) = some_dirs[Len(some_dirs)]
           /\ \A i \in 1 .. Len(some_dirs) :
                  /\ some_dirs[i] \in Dir
                  /\ some_dirs[i].path \in Nat /\ some_dirs[i].temp \in Nat
                  /\ some_dirs[i] = [path |-> some_dirs[i].path, temp |-> some_dirs[i].temp]
<1>1. Len(some_dirs) \in Nat \ {0} /\ DOMAIN some_dirs = 1 .. Len(some_dirs)
    BY EmptySeq, LenProperties
<1>2. \A i \in 1 .. Len(some_dirs) : some_dirs[i] \in Dir
    BY ElementOfSeq
<1>3. \A d \in Dir : /\ d.path \in Nat /\ d.temp \in Nat
                     /\ d = [path |-> d.path, temp |-> d.temp]
    BY DEF Dir
<1> QED BY <1>1, <1>2, <1>3 DEF Last

\* The files of some directories are those they name.
LEMMA FilesNamed ==
    ASSUME NEW some_dirs \in Seq(Dir), NEW f
    PROVE  f \in FilesOf(some_dirs) <=>
               /\ f # NoFile
               /\ \E i \in 1 .. Len(some_dirs) :
                      f = some_dirs[i].path \/ f = some_dirs[i].temp
<1>1. DOMAIN some_dirs = 1 .. Len(some_dirs)
    BY LenProperties
<1>2. \A d : d \in Range(some_dirs) <=> \E i \in 1 .. Len(some_dirs) : d = some_dirs[i]
    BY <1>1 DEF Range
<1>3. f \in FilesOf(some_dirs) <=>
          f # NoFile /\ \E d \in Range(some_dirs) : f = d.path \/ f = d.temp
    <2>1. f \in UNION {{dir.path, dir.temp} : dir \in Range(some_dirs)} <=>
              \E d \in Range(some_dirs) : f \in {d.path, d.temp}
        OBVIOUS
    <2> QED BY <2>1 DEF FilesOf
<1> QED BY <1>2, <1>3

\* There are enough names for the files of the directories not yet on disk.
LEMMA FreshFile ==
    ASSUME Disk, Len(dirs) < MaxPending
    PROVE  /\ Min((1 .. 2 * MaxPending + 2) \ DOMAIN files) \in Nat \ {0}
           /\ Min((1 .. 2 * MaxPending + 2) \ DOMAIN files) \notin DOMAIN files
<1> DEFINE n == Len(dirs)
           names == 1 .. 2 * MaxPending + 2
           f == [k \in 1 .. 2 * n |-> IF k <= n THEN dirs[k].path ELSE dirs[k - n].temp]
           S == {f[k] : k \in 1 .. 2 * n}
<1>1. n \in Nat /\ MaxPending \in Nat /\ n < MaxPending /\ dirs \in Seq(Dir)
      /\ DOMAIN files = FilesOf(dirs)
    BY LenProperties, BoundAssumption DEF Disk
<1>2. IsFiniteSet(1 .. 2 * n) /\ Cardinality(1 .. 2 * n) = 2 * n
    <2>1. 2 * n \in Int /\ (1 > 2 * n => 2 * n = 0) /\ 2 * n - 1 + 1 = 2 * n
        BY <1>1
    <2> HIDE DEF n
    <2>2. /\ IsFiniteSet(1 .. 2 * n)
          /\ Cardinality(1 .. 2 * n) = IF 1 > 2 * n THEN 0 ELSE 2 * n - 1 + 1
        BY <2>1, FS_Interval, SMTT(40)
    <2> QED BY <2>1, <2>2
<1>3. f \in Surjection(1 .. 2 * n, S)
    BY DEF Surjection
<1>4. DOMAIN files \subseteq S
    <2> SUFFICES ASSUME NEW file \in DOMAIN files PROVE file \in S
        OBVIOUS
    <2>1. PICK i \in 1 .. n : file = dirs[i].path \/ file = dirs[i].temp
        BY <1>1, FilesNamed
    <2>2. i \in 1 .. 2 * n /\ n + i \in 1 .. 2 * n /\ i <= n /\ ~(n + i <= n)
          /\ (n + i) - n = i
        BY <1>1
    <2>3. f[i] = dirs[i].path /\ f[n + i] = dirs[i].temp
        BY <2>2
    <2> HIDE DEF f
    <2> QED BY <2>1, <2>2, <2>3
<1> HIDE DEF f, S
<1>5. IsFiniteSet(S) /\ Cardinality(S) <= 2 * n
    <2> HIDE DEF n
    <2> QED BY <1>2, <1>3, FS_Surjection
<1>6. IsFiniteSet(names) /\ Cardinality(names) = 2 * MaxPending + 2
    <2>1. /\ 1 \in Int /\ 2 * MaxPending + 2 \in Int /\ ~(1 > 2 * MaxPending + 2)
          /\ (2 * MaxPending + 2) - 1 + 1 = 2 * MaxPending + 2
        BY <1>1
    <2>2. /\ IsFiniteSet(names)
          /\ Cardinality(names) = IF 1 > 2 * MaxPending + 2 THEN 0
                                  ELSE (2 * MaxPending + 2) - 1 + 1
        BY <2>1, FS_Interval
    <2> QED BY <2>1, <2>2
<1>7. names \ DOMAIN files # {}
    <2> SUFFICES ASSUME names \subseteq S PROVE FALSE
        BY <1>4
    <2> HIDE DEF names, n
    <2>1. Cardinality(names) <= Cardinality(S)
        BY <1>5, FS_Subset
    <2>2. Cardinality(S) \in Nat
        BY <1>5, FS_CardinalityType
    <2> QED BY <1>1, <1>5, <1>6, <2>1, <2>2
<1>8. names \ DOMAIN files \in SUBSET Nat
    BY <1>1
<1>9. \E m \in names \ DOMAIN files : \A k \in names \ DOMAIN files : m <= k
    <2> HIDE DEF names
    <2> QED BY <1>7, <1>8, SmallestNat
<1>10. Min(names \ DOMAIN files) \in names \ DOMAIN files
    BY <1>9 DEF Min
<1> QED BY <1>1, <1>10

\* What a load finds in a directory.
TipOf(dir) == IF dir.path = NoFile THEN NoTip ELSE files[dir.path].tip

Tips(some_dirs) == {TipOf(some_dirs[i]) : i \in 1 .. Len(some_dirs)}

\* A whole file has all its pieces, in memory as on disk.
LEMMA WholeFile ==
    ASSUME NEW file, WellFormed(file), file.synced = Whole
    PROVE  file.written = Whole /\ file.synced .. file.written = {Whole}
BY DEF WellFormed, File, Whole

\* When every snapshot is whole a load finds one, and so it does after any
\* loss of power.
LEMMA EveryLoadFindsAState ==
    ASSUME StoreInv
    PROVE  /\ Loaded = TipOf(Newest)
           /\ AfterPowerLoss = Tips(dirs)
           /\ TipOf(Newest) \in Tips(dirs)
           /\ \A i \in 1 .. Len(dirs) : /\ TipOf(dirs[i]) \in NoTip .. MaxTip
                                        /\ TipOf(dirs[i]) >= confirmed
<1>1. /\ dirs \in Seq(Dir) /\ dirs # <<>> /\ DOMAIN files = FilesOf(dirs)
      /\ \A f \in DOMAIN files : WellFormed(files[f])
    BY DEF StoreInv, Types, Disk
<1>2. /\ Len(dirs) \in 1 .. Len(dirs) /\ DOMAIN dirs = 1 .. Len(dirs) /\ Last(dirs) = Newest
    BY <1>1, DirFacts DEF Newest
<1>3. ASSUME NEW i \in 1 .. Len(dirs), dirs[i].path # NoFile
      PROVE  /\ files[dirs[i].path].written = Whole
             /\ files[dirs[i].path].synced .. files[dirs[i].path].written = {Whole}
             /\ files[dirs[i].path].tip \in 0 .. MaxTip
             /\ files[dirs[i].path].tip >= confirmed
    <2>1. dirs[i].path \in DOMAIN files
        BY <1>1, <1>3, FilesNamed
    <2>2. WellFormed(files[dirs[i].path]) /\ Sound(dirs[i])
        BY <1>1, <2>1 DEF StoreInv
    <2> QED BY <1>3, <2>2, WholeFile DEF Sound, WellFormed, File
<1>4. \A i \in 1 .. Len(dirs) : /\ TipOf(dirs[i]) \in NoTip .. MaxTip
                                /\ TipOf(dirs[i]) >= confirmed
    <2> TAKE i \in 1 .. Len(dirs)
    <2>1. CASE dirs[i].path = NoFile
        BY <2>1, BoundAssumption DEF TipOf, StoreInv, Types, Sound, NoTip
    <2>2. CASE dirs[i].path # NoFile
        BY <1>3, <2>2, BoundAssumption DEF TipOf, NoTip, StoreInv, Types
    <2> QED BY <2>1, <2>2
<1>5. Loaded = TipOf(Newest)
    BY <1>2, <1>3 DEF Loaded, Load, TipOf, Newest
<1>6. ASSUME NEW x
      PROVE  x \in AfterPowerLoss <=> \E i \in 1 .. Len(dirs) : x = TipOf(dirs[i])
    <2> DEFINE lengths(dir) == IF dir.path = NoFile THEN {0}
                               ELSE files[dir.path].synced .. files[dir.path].written
    <2>1. x \in AfterPowerLoss <=>
              \E dir \in Range(dirs) : \E n \in lengths(dir) : x = Load(dir, n)
        BY DEF AfterPowerLoss
    <2>2. \A dir : dir \in Range(dirs) <=> \E i \in 1 .. Len(dirs) : dir = dirs[i]
        BY <1>2 DEF Range
    <2>3. ASSUME NEW i \in 1 .. Len(dirs)
          PROVE  (\E n \in lengths(dirs[i]) : x = Load(dirs[i], n)) <=> x = TipOf(dirs[i])
        <3>1. CASE dirs[i].path = NoFile
            BY <3>1 DEF Load, TipOf
        <3>2. CASE dirs[i].path # NoFile
            <4>1. lengths(dirs[i]) = {Whole}
                BY <1>3, <3>2
            <4>2. Load(dirs[i], Whole) = TipOf(dirs[i])
                BY <3>2 DEF Load, TipOf
            <4> HIDE DEF lengths
            <4> QED BY <4>1, <4>2
        <3> QED BY <3>1, <3>2
    <2> HIDE DEF lengths
    <2> QED BY <2>1, <2>2, <2>3
<1>7. \A x : x \in Tips(dirs) <=> \E i \in 1 .. Len(dirs) : x = TipOf(dirs[i])
    BY DEF Tips
<1>8. AfterPowerLoss = Tips(dirs)
    BY <1>6, <1>7
<1>9. TipOf(Newest) \in Tips(dirs)
    BY <1>2 DEF Newest, Tips
<1> QED BY <1>4, <1>5, <1>8, <1>9
----------------------------------------------------------------------------
(* What the steps do to the disk.                                          *)

\* The file in the newest directory's temporary changes, and no other.
TempChanges ==
    /\ Newest.temp # NoFile /\ dirs' = dirs
    /\ DOMAIN files' = DOMAIN files
    /\ \A f \in DOMAIN files : f # Newest.temp => files'[f] = files[f]
    /\ WellFormed(files'[Newest.temp])

\* A change to the newest temporary file is none to a snapshot.
LEMMA TempChangesKeepsSnapshots ==
    ASSUME StoreInv, TempChanges
    PROVE  /\ Disk' /\ TempPart'
           /\ \A i \in 1 .. Len(dirs) : /\ TipOf(dirs[i])' = TipOf(dirs[i])
                                        /\ confirmed' = confirmed => Sound(dirs[i])'
<1>1. /\ dirs \in Seq(Dir) /\ dirs # <<>> /\ DOMAIN files = FilesOf(dirs)
      /\ \A f \in DOMAIN files : WellFormed(files[f])
      /\ Newest.temp # NoFile
      /\ \A i \in 1 .. Len(dirs) : dirs[i].path # Newest.temp
    BY DEF StoreInv, Types, Disk, TempPart, TempChanges
<1>2. \A i \in 1 .. Len(dirs) :
          dirs[i].path # NoFile => files'[dirs[i].path] = files[dirs[i].path]
    <2> SUFFICES ASSUME NEW i \in 1 .. Len(dirs), dirs[i].path # NoFile
                 PROVE  files'[dirs[i].path] = files[dirs[i].path]
        OBVIOUS
    <2>1. dirs[i].path \in DOMAIN files
        BY <1>1, FilesNamed
    <2> QED BY <1>1, <2>1 DEF TempChanges
<1>3. Disk'
    BY <1>1 DEF TempChanges, Disk, FilesOf, WellFormed, File
<1>4. TempPart'
    BY <1>1 DEF TempChanges, TempPart, Newest
<1>5. ASSUME NEW i \in 1 .. Len(dirs)
      PROVE  /\ TipOf(dirs[i])' = TipOf(dirs[i])
             /\ confirmed' = confirmed => Sound(dirs[i])'
    <2>1. Sound(dirs[i])
        BY DEF StoreInv
    <2>2. dirs'[i] = dirs[i]
        BY DEF TempChanges
    <2> QED BY <1>2, <2>1, <2>2 DEF TipOf, Sound
<1> QED BY <1>3, <1>4, <1>5

\* Directories reach the disk, or are lost: those that are left were there,
\* and so were their files, each with no less of it on disk.
DirsDropped ==
    /\ dirs' \in Seq(Dir) /\ dirs' # <<>>
    /\ \A j \in 1 .. Len(dirs') : \E i \in 1 .. Len(dirs) : dirs'[j] = dirs[i]
    /\ DOMAIN files' = FilesOf(dirs')
    /\ \A f \in FilesOf(dirs') :
           /\ WellFormed(files'[f]) /\ files'[f].tip = files[f].tip
           /\ files'[f].synced >= files[f].synced

\* Fewer directories, with more of their files on disk, lose no snapshot.
LEMMA DirsDroppedKeepsSnapshots ==
    ASSUME StoreInv, DirsDropped
    PROVE  /\ Disk'
           /\ \A j \in 1 .. Len(dirs') : \E i \in 1 .. Len(dirs) :
                  /\ dirs'[j] = dirs[i] /\ TipOf(dirs[j])' = TipOf(dirs[i])
                  /\ dirs[i].path # NoFile => files'[dirs[i].path].synced = Whole
                  /\ confirmed' = confirmed => Sound(dirs[j])'
<1>1. Disk' /\ dirs \in Seq(Dir) /\ dirs' \in Seq(Dir)
    BY DEF DirsDropped, Disk, StoreInv, Types, WellFormed, File
<1>2. ASSUME NEW j \in 1 .. Len(dirs')
      PROVE  \E i \in 1 .. Len(dirs) :
                  /\ dirs'[j] = dirs[i] /\ TipOf(dirs[j])' = TipOf(dirs[i])
                  /\ dirs[i].path # NoFile => files'[dirs[i].path].synced = Whole
                  /\ confirmed' = confirmed => Sound(dirs[j])'
    <2>1. PICK i \in 1 .. Len(dirs) : dirs'[j] = dirs[i]
        BY DEF DirsDropped
    <2>2. Sound(dirs[i])
        BY DEF StoreInv
    <2>3. CASE dirs[i].path = NoFile
        BY <2>1, <2>2, <2>3 DEF Sound, TipOf
    <2>4. CASE dirs[i].path # NoFile
        <3> DEFINE f == dirs[i].path
        <3>1. f \in FilesOf(dirs')
            BY <1>1, <2>1, <2>4, FilesNamed
        <3>2. /\ WellFormed(files'[f]) /\ files'[f].tip = files[f].tip
              /\ files'[f].synced >= files[f].synced
            BY <3>1 DEF DirsDropped
        <3>3. files[f].synced = Whole
            BY <2>2, <2>4 DEF Sound
        <3>4. files'[f].synced = Whole
            BY <3>2, <3>3 DEF WellFormed, File, Whole
        <3> QED BY <2>1, <2>2, <2>4, <3>2, <3>4 DEF Sound, TipOf
    <2> QED BY <2>3, <2>4
<1> QED BY <1>1, <1>2

\* The files of some of the directories are among the files of all.
LEMMA FilesOfSome ==
    ASSUME NEW some_dirs \in Seq(Dir), NEW others \in Seq(Dir),
           \A j \in 1 .. Len(others) : \E i \in 1 .. Len(some_dirs) : others[j] = some_dirs[i]
    PROVE  FilesOf(others) \subseteq FilesOf(some_dirs)
<1> SUFFICES ASSUME NEW f \in FilesOf(others) PROVE f \in FilesOf(some_dirs)
    OBVIOUS
<1>1. PICK j \in 1 .. Len(others) : f # NoFile /\ (f = others[j].path \/ f = others[j].temp)
    BY FilesNamed
<1> QED BY <1>1, FilesNamed
----------------------------------------------------------------------------
(* Every step keeps the invariant.                                         *)

\* There is one directory, with no files.
LEMMA InitHasInvariant ==
    ASSUME Init PROVE StoreInv
<1> DEFINE d == [path |-> NoFile, temp |-> NoFile]
<1>1. d \in Dir /\ <<d>> \in Seq(Dir) /\ Len(<<d>>) = 1 /\ <<d>>[1] = d /\ <<d>> # <<>>
    BY DEF Dir, NoFile
<1>2. dirs = <<d>> /\ confirmed = NoTip /\ memory = NoTip /\ pc = "replay"
      /\ DOMAIN files = {}
    BY DEF Init
<1>3. \A i \in 1 .. Len(dirs) : dirs[i].path = NoFile /\ dirs[i].temp = NoFile
    BY <1>1, <1>2
<1> HIDE DEF d
<1>4. FilesOf(dirs) = {}
    <2> SUFFICES ASSUME NEW f \in FilesOf(dirs) PROVE FALSE
        OBVIOUS
    <2> QED BY <1>1, <1>2, <1>3, FilesNamed
<1>5. Types
    BY <1>1, <1>2, <1>4, BoundAssumption DEF Types, Disk, NoTip
<1>6. \A i \in 1 .. Len(dirs) : Sound(dirs[i])
    BY <1>2, <1>3 DEF Sound
<1>7. TempPart
    BY <1>1, <1>2, <1>3 DEF TempPart, Newest
<1>8. SavePart /\ MemoryPart
    BY <1>2 DEF SavePart, MemoryPart, Saving, NoTip
<1> QED BY <1>5, <1>6, <1>7, <1>8 DEF StoreInv

\* The newest directory and its files.
LEMMA NewestFacts ==
    ASSUME StoreInv
    PROVE  /\ dirs \in Seq(Dir) /\ dirs # <<>> /\ Last(dirs) = Newest
           /\ Len(dirs) \in Nat \ {0} /\ Len(dirs) \in 1 .. Len(dirs)
           /\ Newest = [path |-> Newest.path, temp |-> Newest.temp]
           /\ Newest.path \in Nat /\ Newest.temp \in Nat /\ Sound(Newest)
           /\ \A f \in {Newest.path, Newest.temp} :
                  f # NoFile => f \in DOMAIN files /\ WellFormed(files[f])
<1>1. /\ dirs \in Seq(Dir) /\ dirs # <<>> /\ DOMAIN files = FilesOf(dirs)
      /\ \A f \in DOMAIN files : WellFormed(files[f])
    BY DEF StoreInv, Types, Disk
<1>2. /\ Len(dirs) \in Nat \ {0} /\ Len(dirs) \in 1 .. Len(dirs) /\ Last(dirs) = Newest
      /\ Newest = [path |-> Newest.path, temp |-> Newest.temp]
      /\ Newest.path \in Nat /\ Newest.temp \in Nat
    BY <1>1, DirFacts DEF Newest
<1>3. Sound(Newest)
    BY <1>2 DEF StoreInv, Newest
<1>4. ASSUME NEW f \in {Newest.path, Newest.temp}, f # NoFile
      PROVE  f \in DOMAIN files /\ WellFormed(files[f])
    <2>1. f \in DOMAIN files
        BY <1>1, <1>2, <1>4, FilesNamed DEF Newest
    <2> QED BY <1>1, <2>1
<1> QED BY <1>1, <1>2, <1>3, <1>4

\* Steps that leave the disk alone.
LEMMA DiskUntouched ==
    ASSUME StoreInv, dirs' = dirs, files' = files, confirmed' = confirmed
    PROVE  Disk' /\ (\A i \in 1 .. Len(dirs) : Sound(dirs[i]))' /\ TempPart'
BY DEF StoreInv, Types, Disk, Sound, TempPart, Newest, FilesOf, WellFormed, File

\* A block replayed is in memory only.
LEMMA ReplayKeepsInvariant ==
    ASSUME StoreInv, Replay PROVE StoreInv'
<1>1. /\ dirs' = dirs /\ files' = files /\ confirmed' = confirmed /\ pc' = "replay"
      /\ memory' = memory + 1 /\ memory \in NoTip .. MaxTip - 1 /\ confirmed \in NoTip .. MaxTip
      /\ memory >= confirmed
    BY DEF Replay, StoreInv, Types, MemoryPart, NoTip, Down
<1>2. memory' \in NoTip .. MaxTip /\ memory' >= confirmed
    BY <1>1, BoundAssumption DEF NoTip
<1>3. Types'
    BY <1>1, <1>2, DiskUntouched DEF Types, Saving
<1>4. SavePart' /\ MemoryPart'
    BY <1>1, <1>2 DEF SavePart, MemoryPart, Saving
<1> QED BY <1>1, <1>3, <1>4, DiskUntouched DEF StoreInv

\* A process that stops leaves the disk alone.
LEMMA StopKeepsInvariant ==
    ASSUME StoreInv, dirs' = dirs, files' = files, confirmed' = confirmed,
           pc' = "replay", memory' \in {memory, Down}
    PROVE  StoreInv'
<1>1. Types'
    BY DiskUntouched DEF StoreInv, Types
<1>2. SavePart' /\ MemoryPart'
    BY DEF StoreInv, SavePart, MemoryPart, Saving
<1> QED BY <1>1, <1>2, DiskUntouched DEF StoreInv

\* A process that starts reads the disk.
LEMMA ResumeKeepsInvariant ==
    ASSUME StoreInv, Resume PROVE StoreInv'
<1>1. /\ dirs' = dirs /\ files' = files /\ confirmed' = confirmed /\ pc' = pc
      /\ memory = Down /\ memory' = Loaded
    BY DEF Resume
<1>2. Loaded \in NoTip .. MaxTip /\ Loaded >= confirmed
    <2>1. Loaded = TipOf(Newest) /\ Len(dirs) \in 1 .. Len(dirs)
        BY EveryLoadFindsAState, NewestFacts
    <2> QED BY <2>1, EveryLoadFindsAState DEF Newest
<1>3. pc \notin Saving /\ pc # "sync_directory"
    <2>1. Down \notin 0 .. MaxTip
        BY DEF Down
    <2>2. ASSUME pc \in Saving PROVE FALSE
        BY <1>1, <2>1, <2>2, NewestFacts DEF StoreInv, SavePart, WellFormed, File
    <2>3. ASSUME pc = "sync_directory" PROVE FALSE
        BY <1>1, <2>1, <2>3, NewestFacts DEF StoreInv, SavePart, WellFormed, File
    <2> QED BY <2>2, <2>3
<1>4. Types'
    BY <1>1, <1>2, DiskUntouched DEF StoreInv, Types
<1>5. SavePart' /\ MemoryPart'
    BY <1>1, <1>2, <1>3 DEF SavePart, MemoryPart, Saving
<1> QED BY <1>1, <1>4, <1>5, DiskUntouched DEF StoreInv

\* Writing and syncing the temporary.
LEMMA TempStepKeepsInvariant ==
    ASSUME StoreInv, TempChanges, confirmed' = confirmed, memory' = memory,
           pc \in Saving \cup {"replay"}, pc' \in Saving,
           files'[Newest.temp].tip = memory,
           pc' = "write" => files'[Newest.temp].written < Whole,
           pc' = "sync" => files'[Newest.temp].written = Whole,
           pc' = "rename" => files'[Newest.temp].synced = Whole
    PROVE  StoreInv'
<1>1. dirs' = dirs /\ Newest' = Newest /\ Newest.temp # NoFile
    BY DEF TempChanges, Newest
<1>2. Types'
    BY TempChangesKeepsSnapshots DEF StoreInv, Types
<1>3. (\A i \in 1 .. Len(dirs) : Sound(dirs[i]))' /\ TempPart'
    BY <1>1, TempChangesKeepsSnapshots
<1>4. SavePart' /\ MemoryPart'
    BY <1>1 DEF SavePart, MemoryPart, Saving, StoreInv
<1> QED BY <1>2, <1>3, <1>4 DEF StoreInv

\* A temporary file is written.
LEMMA WriteKeepsInvariant ==
    ASSUME StoreInv, Write PROVE StoreInv' /\ TempChanges
<1> DEFINE temp == Newest.temp
<1>1. /\ pc = "write" /\ dirs' = dirs /\ confirmed' = confirmed /\ memory' = memory
      /\ files' = [files EXCEPT ![temp].written = @ + 1]
      /\ pc' = IF files'[temp].written = Whole THEN "sync" ELSE "write"
    BY NewestFacts DEF Write
<1>2. /\ temp # NoFile /\ temp \in DOMAIN files /\ WellFormed(files[temp])
      /\ files[temp].tip = memory /\ files[temp].written < Whole
    BY <1>1, NewestFacts DEF StoreInv, SavePart, Saving
<1>3. /\ files'[temp] = [files[temp] EXCEPT !.written = @ + 1] /\ DOMAIN files' = DOMAIN files
      /\ \A f \in DOMAIN files : f # temp => files'[f] = files[f]
    BY <1>1, <1>2
<1>4. WellFormed(files'[temp]) /\ files'[temp].tip = memory
      /\ (files'[temp].written = Whole \/ files'[temp].written < Whole)
    <2>1. /\ files'[temp].tip = files[temp].tip /\ files'[temp].synced = files[temp].synced
          /\ files'[temp].written = files[temp].written + 1
        BY <1>2, <1>3 DEF WellFormed, File
    <2>2. /\ files[temp].written \in Nat /\ files[temp].synced \in Nat
          /\ files[temp].synced <= files[temp].written
          /\ files[temp].written + 1 \in 0 .. Whole
        BY <1>2 DEF WellFormed, File, Whole
    <2>3. files'[temp] \in File
        BY <1>2, <1>3, <2>2 DEF WellFormed, File
    <2>4. files'[temp].synced <= files'[temp].written
        BY <2>1, <2>2
    <2>5. files'[temp].written = Whole \/ files'[temp].written < Whole
        BY <2>1, <2>2 DEF Whole
    <2> QED BY <1>2, <2>1, <2>3, <2>4, <2>5 DEF WellFormed
<1>5. TempChanges
    BY <1>1, <1>2, <1>3, <1>4 DEF TempChanges
<1> QED BY <1>1, <1>4, <1>5, TempStepKeepsInvariant DEF Saving

\* A temporary file is on disk before it is renamed.
LEMMA SyncFileKeepsInvariant ==
    ASSUME StoreInv, SyncFile PROVE StoreInv' /\ TempChanges
<1> DEFINE temp == Newest.temp
<1>1. /\ pc = "sync" /\ dirs' = dirs /\ confirmed' = confirmed /\ memory' = memory
      /\ files' = [files EXCEPT ![temp] = OnDisk(@)] /\ pc' = "rename"
    BY NewestFacts DEF SyncFile
<1>2. /\ temp # NoFile /\ temp \in DOMAIN files /\ WellFormed(files[temp])
      /\ files[temp].tip = memory /\ files[temp].written = Whole
    BY <1>1, NewestFacts DEF StoreInv, SavePart, Saving
<1>3. /\ files'[temp] = [files[temp] EXCEPT !.synced = files[temp].written]
      /\ DOMAIN files' = DOMAIN files
      /\ \A f \in DOMAIN files : f # temp => files'[f] = files[f]
    BY <1>1, <1>2 DEF OnDisk
<1>4. WellFormed(files'[temp]) /\ files'[temp].tip = memory /\ files'[temp].synced = Whole
    <2>1. /\ files'[temp].tip = files[temp].tip /\ files'[temp].synced = files[temp].written
          /\ files'[temp].written = files[temp].written
        BY <1>2, <1>3 DEF WellFormed, File
    <2>2. files[temp].written \in 0 .. Whole
        BY <1>2 DEF WellFormed, File
    <2>3. files'[temp] \in File
        BY <1>2, <1>3, <2>2 DEF WellFormed, File
    <2>4. files'[temp].synced <= files'[temp].written
        BY <2>1, <2>2 DEF Whole
    <2> QED BY <1>2, <2>1, <2>3, <2>4 DEF WellFormed
<1>5. TempChanges
    BY <1>1, <1>2, <1>3, <1>4 DEF TempChanges
<1> QED BY <1>1, <1>4, <1>5, TempStepKeepsInvariant DEF Saving
\* The directory changes.
LEMMA DirAdded ==
    ASSUME StoreInv, NEW d \in Dir, dirs' = Append(dirs, d)
    PROVE  /\ dirs' \in Seq(Dir) /\ dirs' # <<>> /\ Len(dirs') = Len(dirs) + 1
           /\ Newest' = d /\ dirs'[Len(dirs) + 1] = d
           /\ \A i \in 1 .. Len(dirs) : dirs'[i] = dirs[i]
           /\ \A i \in 1 .. Len(dirs) + 1 : i \in 1 .. Len(dirs) \/ i = Len(dirs) + 1
           /\ FilesOf(dirs') = FilesOf(dirs) \cup ({d.path, d.temp} \ {NoFile})
<1>1. /\ dirs' \in Seq(Dir) /\ dirs' # <<>> /\ Len(dirs') = Len(dirs) + 1
      /\ dirs'[Len(dirs) + 1] = d /\ \A i \in 1 .. Len(dirs) : dirs'[i] = dirs[i]
      /\ dirs \in Seq(Dir) /\ Len(dirs) \in Nat
    BY AppendProperties, NewestFacts
<1>2. \A i \in 1 .. Len(dirs) + 1 : i \in 1 .. Len(dirs) \/ i = Len(dirs) + 1
    BY <1>1
<1>3. Newest' = d
    BY <1>1 DEF Newest
<1>4. ASSUME NEW f
      PROVE  f \in FilesOf(dirs') <=> f \in FilesOf(dirs) \cup ({d.path, d.temp} \ {NoFile})
    <2>1. \A i \in 1 .. Len(dirs) : i \in 1 .. Len(dirs')
        BY <1>1
    <2>2. Len(dirs) + 1 \in 1 .. Len(dirs')
        BY <1>1
    <2>3. f \in FilesOf(dirs') <=>
              /\ f # NoFile
              /\ \E i \in 1 .. Len(dirs') : f = dirs'[i].path \/ f = dirs'[i].temp
        BY <1>1, FilesNamed, ZenonT(60)
    <2>4. f \in FilesOf(dirs) <=>
              /\ f # NoFile
              /\ \E i \in 1 .. Len(dirs) : f = dirs[i].path \/ f = dirs[i].temp
        BY <1>1, FilesNamed
    <2>5. (\E i \in 1 .. Len(dirs') : f = dirs'[i].path \/ f = dirs'[i].temp) <=>
              \/ f \in {d.path, d.temp}
              \/ \E i \in 1 .. Len(dirs) : f = dirs[i].path \/ f = dirs[i].temp
        BY <1>1, <1>2, <2>1, <2>2
    <2> QED BY <2>3, <2>4, <2>5
<1> QED BY <1>1, <1>2, <1>3, <1>4

\* A save begins with a file that is no snapshot, emptied or new.
LEMMA CreateTempKeepsInvariant ==
    ASSUME StoreInv, CreateTemp
    PROVE  /\ StoreInv'
           /\ \/ TempChanges
              \/ /\ dirs' = Append(dirs, [path |-> Newest.path, temp |-> Newest'.temp])
                 /\ [path |-> Newest.path, temp |-> Newest'.temp] \in Dir
                 /\ \A f \in DOMAIN files : files'[f] = files[f]
<1> DEFINE fresh == Min((1 .. 2 * MaxPending + 2) \ DOMAIN files)
           file == IF Newest.temp # NoFile THEN Newest.temp ELSE fresh
<1>1. /\ pc = "replay" /\ memory >= 0 /\ Len(dirs) < MaxPending /\ pc' = "write"
      /\ dirs' = IF Newest.temp # NoFile THEN dirs
                 ELSE Append(dirs, [Newest EXCEPT !.temp = file])
      /\ files' = [f \in DOMAIN files \cup {file} |->
                      IF f = file THEN Truncated(file) ELSE files[f]]
      /\ memory' = memory /\ confirmed' = confirmed
    BY NewestFacts DEF CreateTemp, Truncated
<1>2. Truncated(file) = [tip |-> memory, written |-> 0, synced |-> 0]
    BY DEF Truncated
<1>3. memory \in 0 .. MaxTip
    BY <1>1, BoundAssumption DEF StoreInv, Types, NoTip, Down
<1>4. WellFormed(Truncated(file)) /\ Truncated(file).tip = memory
      /\ Truncated(file).written < Whole
    BY <1>2, <1>3 DEF WellFormed, File, Whole
<1>5. CASE Newest.temp # NoFile
    <2>1. file = Newest.temp /\ file \in DOMAIN files
        BY <1>5, NewestFacts
    <2> HIDE DEF file
    <2>2. TempChanges
        BY <1>1, <1>4, <1>5, <2>1 DEF TempChanges
    <2>3. files'[Newest.temp] = Truncated(file)
        BY <1>1, <2>1
    <2> QED BY <1>1, <1>4, <2>2, <2>3, TempStepKeepsInvariant DEF Saving
<1>6. CASE Newest.temp = NoFile
    <2> DEFINE d == [path |-> Newest.path, temp |-> fresh]
    <2>1. file = fresh /\ fresh \in Nat \ {0} /\ fresh \notin DOMAIN files
        BY <1>1, <1>6, FreshFile DEF StoreInv, Types
    <2> HIDE DEF file, fresh
    <2>2. d \in Dir /\ d.path = Newest.path /\ d.temp = fresh /\ d = [Newest EXCEPT !.temp = file]
        BY <2>1, NewestFacts DEF Dir
    <2> HIDE DEF d
    <2>3. dirs' = Append(dirs, d)
        BY <1>1, <1>6, <2>2
    <2>4. /\ dirs' \in Seq(Dir) /\ dirs' # <<>> /\ Len(dirs') = Len(dirs) + 1
          /\ Newest' = d /\ dirs'[Len(dirs) + 1] = d
          /\ \A i \in 1 .. Len(dirs) : dirs'[i] = dirs[i]
          /\ \A i \in 1 .. Len(dirs) + 1 : i \in 1 .. Len(dirs) \/ i = Len(dirs) + 1
          /\ FilesOf(dirs') = FilesOf(dirs) \cup ({d.path, d.temp} \ {NoFile})
        BY <2>2, <2>3, DirAdded
    <2>5. /\ DOMAIN files = FilesOf(dirs) /\ dirs \in Seq(Dir)
          /\ \A f \in DOMAIN files : WellFormed(files[f])
        BY DEF StoreInv, Types, Disk
    <2>6. /\ files' = [f \in DOMAIN files \cup {fresh} |->
                          IF f = fresh THEN Truncated(file) ELSE files[f]]
          /\ \A f \in DOMAIN files : files'[f] = files[f]
          /\ files'[fresh] = Truncated(file) /\ DOMAIN files' = DOMAIN files \cup {fresh}
        BY <1>1, <2>1
    <2>7. DOMAIN files' = FilesOf(dirs')
        <3>1. Newest.path # NoFile => Newest.path \in DOMAIN files
            BY NewestFacts
        <3> QED BY <2>1, <2>2, <2>4, <2>5, <2>6, <3>1 DEF NoFile
    <2>8. Disk'
        <3>1. \A f \in DOMAIN files' : WellFormed(files'[f])
            BY <1>4, <2>5, <2>6
        <3> QED BY <2>4, <2>7, <3>1 DEF Disk, WellFormed, File
    <2>9. \A i \in 1 .. Len(dirs) : dirs[i].path # NoFile => dirs[i].path \in DOMAIN files
        BY <2>5, FilesNamed
    <2>10. ASSUME NEW i \in 1 .. Len(dirs) PROVE Sound(dirs[i])'
        <3>1. Sound(dirs[i]) /\ dirs'[i] = dirs[i]
            BY <2>4 DEF StoreInv
        <3> QED BY <1>1, <2>6, <2>9, <3>1 DEF Sound
    <2>11. ASSUME NEW i, i = Len(dirs) + 1 PROVE Sound(dirs[i])'
        <3>1. Sound(Newest) /\ (Newest.path # NoFile => Newest.path \in DOMAIN files)
            BY NewestFacts
        <3>2. dirs'[i] = d
            BY <2>4, <2>11
        <3>3. d.temp # d.path
            BY <2>1, <2>2, <3>1 DEF NoFile
        <3>4. d.path # NoFile => files'[d.path] = files[Newest.path]
            BY <2>2, <2>6, <3>1
        <3>5. d.path = Newest.path /\ confirmed' = confirmed
            BY <1>1, <2>2
        <3> QED BY <3>1, <3>2, <3>3, <3>4, <3>5 DEF Sound
    <2>12. (\A i \in 1 .. Len(dirs) : Sound(dirs[i]))'
        BY <2>4, <2>10, <2>11
    <2>13. TempPart'
        <3>1. \A i \in 1 .. Len(dirs) : dirs[i].path # fresh
            BY <2>1, <2>9 DEF NoFile
        <3>2. Newest.path # fresh
            BY <3>1, NewestFacts DEF Newest
        <3> QED BY <2>2, <2>4, <3>1, <3>2 DEF TempPart
    <2>14. Types'
        BY <1>1, <2>8 DEF StoreInv, Types, Saving
    <2>15. SavePart' /\ MemoryPart'
        BY <1>1, <1>4, <2>1, <2>2, <2>4, <2>6
           DEF SavePart, MemoryPart, Saving, StoreInv, NoFile
    <2>16. d = [path |-> Newest.path, temp |-> Newest'.temp]
        BY <2>2, <2>4 DEF d
    <2>17. StoreInv'
        BY <2>12, <2>13, <2>14, <2>15 DEF StoreInv
    <2> QED BY <2>2, <2>3, <2>6, <2>16, <2>17
<1> QED BY <1>5, <1>6
\* A whole file takes the snapshot's name.
LEMMA RenameKeepsInvariant ==
    ASSUME StoreInv, Rename
    PROVE  /\ StoreInv' /\ files' = files
           /\ dirs' = Append(dirs, [path |-> Newest.temp, temp |-> NoFile])
           /\ [path |-> Newest.temp, temp |-> NoFile] \in Dir
           /\ Newest.temp # NoFile /\ files[Newest.temp].tip = memory /\ memory \in 0 .. MaxTip
<1> DEFINE d == [path |-> Newest.temp, temp |-> NoFile]
<1>1. /\ pc = "rename" /\ pc' = "sync_directory" /\ dirs' = Append(dirs, d)
      /\ files' = files /\ memory' = memory /\ confirmed' = confirmed
    BY NewestFacts DEF Rename
<1>2. /\ Newest.temp # NoFile /\ Newest.temp \in DOMAIN files /\ WellFormed(files[Newest.temp])
      /\ files[Newest.temp].tip = memory /\ files[Newest.temp].synced = Whole
    BY <1>1, NewestFacts DEF StoreInv, SavePart, Saving
<1>3. memory \in 0 .. MaxTip /\ memory >= confirmed
    BY <1>2, BoundAssumption DEF WellFormed, File, Down, StoreInv, MemoryPart
<1>4. d \in Dir /\ d.path = Newest.temp /\ d.temp = NoFile
    BY NewestFacts DEF Dir, NoFile
<1> HIDE DEF d
<1>5. /\ dirs' \in Seq(Dir) /\ dirs' # <<>> /\ Len(dirs') = Len(dirs) + 1
      /\ Newest' = d /\ dirs'[Len(dirs) + 1] = d
      /\ \A i \in 1 .. Len(dirs) : dirs'[i] = dirs[i]
      /\ \A i \in 1 .. Len(dirs) + 1 : i \in 1 .. Len(dirs) \/ i = Len(dirs) + 1
      /\ FilesOf(dirs') = FilesOf(dirs) \cup ({d.path, d.temp} \ {NoFile})
    BY <1>1, <1>4, DirAdded
<1>6. DOMAIN files = FilesOf(dirs) /\ \A f \in DOMAIN files : WellFormed(files[f])
    BY DEF StoreInv, Types, Disk
<1>7. Disk'
    <2>1. DOMAIN files' = FilesOf(dirs')
        BY <1>1, <1>2, <1>4, <1>5, <1>6
    <2> QED BY <1>1, <1>5, <1>6, <2>1 DEF Disk, WellFormed, File
<1>8. ASSUME NEW i \in 1 .. Len(dirs) + 1 PROVE Sound(dirs[i])'
    <2>1. CASE i \in 1 .. Len(dirs)
        <3>1. Sound(dirs[i]) /\ dirs'[i] = dirs[i]
            BY <1>5, <2>1 DEF StoreInv
        <3> QED BY <1>1, <3>1 DEF Sound
    <2>2. CASE i = Len(dirs) + 1
        <3>1. dirs'[i] = d
            BY <1>5, <2>2
        <3> QED BY <1>1, <1>2, <1>3, <1>4, <3>1 DEF Sound
    <2> QED BY <1>5, <2>1, <2>2
<1>9. (\A i \in 1 .. Len(dirs) : Sound(dirs[i]))'
    BY <1>5, <1>8
<1>10. TempPart'
    BY <1>4, <1>5 DEF TempPart
<1>11. Types'
    BY <1>1, <1>7 DEF StoreInv, Types
<1>12. SavePart' /\ MemoryPart'
    BY <1>1, <1>2, <1>4, <1>5 DEF SavePart, MemoryPart, Saving, StoreInv
<1> QED BY <1>1, <1>2, <1>3, <1>4, <1>9, <1>10, <1>11, <1>12 DEF StoreInv, d

\* The newest of a suffix is the newest.
LEMMA WritebackDrops ==
    ASSUME StoreInv, Writeback
    PROVE  DirsDropped /\ Newest' = Newest
<1>1. PICK k \in 2 .. Len(dirs) : dirs' = SubSeq(dirs, k, Len(dirs))
    BY DEF Writeback
<1>2. /\ dirs \in Seq(Dir) /\ Len(dirs) \in Nat \ {0} /\ k \in Nat /\ k <= Len(dirs)
      /\ \A i \in k .. Len(dirs) : i \in 1 .. Len(dirs) /\ dirs[i] \in Dir
    BY <1>1, NewestFacts, DirFacts
<1> DEFINE m == Len(dirs) - k + 1
<1>3. /\ dirs' \in Seq(Dir)
      /\ Len(dirs') = IF k <= Len(dirs) THEN Len(dirs) - k + 1 ELSE 0
      /\ \A i \in 1 .. Len(dirs) - k + 1 : dirs'[i] = dirs[k + i - 1]
    BY <1>1, <1>2, SubSeqProperties
<1>4. /\ Len(dirs') = m /\ m \in 1 .. m /\ k + m - 1 = Len(dirs)
      /\ \A i \in 1 .. m : k + i - 1 \in 1 .. Len(dirs)
    BY <1>2, <1>3
<1>5. \A j \in 1 .. Len(dirs') : \E i \in 1 .. Len(dirs) : dirs'[j] = dirs[i]
    BY <1>3, <1>4
<1>6. Newest' = Newest
    BY <1>3, <1>4 DEF Newest
<1>7. dirs' # <<>>
    <2> HIDE DEF m
    <2> QED BY <1>3, <1>4, EmptySeq
<1>8. files' = Restrict(files, FilesOf(dirs')) /\ DOMAIN files = FilesOf(dirs)
      /\ \A f \in DOMAIN files : WellFormed(files[f])
    BY DEF Writeback, StoreInv, Types, Disk
<1>9. FilesOf(dirs') \subseteq FilesOf(dirs)
    BY <1>2, <1>3, <1>5, FilesOfSome
<1>10. \A f \in FilesOf(dirs') : files'[f] = files[f] /\ WellFormed(files[f])
    BY <1>8, <1>9 DEF Restrict
<1>11. \A f \in FilesOf(dirs') : files[f].synced >= files[f].synced
    BY <1>10 DEF WellFormed, File, Whole
<1>12. DOMAIN files' = FilesOf(dirs')
    BY <1>8 DEF Restrict
<1> QED BY <1>3, <1>5, <1>6, <1>7, <1>10, <1>11, <1>12 DEF DirsDropped

\* The system may write what it likes at any time.
LEMMA WritebackKeepsInvariant ==
    ASSUME StoreInv, Writeback PROVE StoreInv'
<1>1. /\ DirsDropped /\ Newest' = Newest /\ memory' = memory /\ pc' = pc
      /\ confirmed' = confirmed
    BY WritebackDrops DEF Writeback
<1>2. Types'
    BY <1>1, DirsDroppedKeepsSnapshots DEF StoreInv, Types
<1>3. (\A i \in 1 .. Len(dirs) : Sound(dirs[i]))'
    BY <1>1, DirsDroppedKeepsSnapshots
<1>4. TempPart'
    <2> SUFFICES ASSUME Newest.temp # NoFile, NEW j \in 1 .. Len(dirs')
                 PROVE  dirs'[j].path # Newest.temp
        BY <1>1 DEF TempPart
    <2> QED BY <1>1 DEF StoreInv, TempPart, DirsDropped
<1>5. \A f \in {Newest.path, Newest.temp} : f # NoFile => files'[f] = files[f]
    <2>1. (\A f \in {Newest.path, Newest.temp} : f # NoFile => f \in FilesOf(dirs'))
        <3>1. dirs' \in Seq(Dir) /\ dirs' # <<>>
            BY <1>1 DEF DirsDropped
        <3>2. Len(dirs') \in 1 .. Len(dirs') /\ Newest' = dirs'[Len(dirs')]
            BY <3>1, DirFacts DEF Newest
        <3> QED BY <1>1, <3>1, <3>2, FilesNamed
    <2> QED BY <2>1 DEF Writeback, Restrict
<1>6. SavePart'
    BY <1>1, <1>5 DEF StoreInv, SavePart, Saving
<1>7. MemoryPart'
    BY <1>1 DEF StoreInv, MemoryPart
<1> QED BY <1>2, <1>3, <1>4, <1>6, <1>7 DEF StoreInv
\* One directory is left.
LEMMA OneDirectory ==
    ASSUME StoreInv, NEW i \in 1 .. Len(dirs), dirs' = <<dirs[i]>>
    PROVE  /\ dirs' \in Seq(Dir) /\ dirs' # <<>> /\ Len(dirs') = 1 /\ dirs'[1] = dirs[i]
           /\ Newest' = dirs[i] /\ FilesOf(dirs') \subseteq FilesOf(dirs)
           /\ \A j \in 1 .. Len(dirs') : j = 1
<1>1. dirs[i] \in Dir /\ dirs \in Seq(Dir)
    BY NewestFacts, DirFacts
<1>2. dirs' \in Seq(Dir) /\ dirs' # <<>> /\ Len(dirs') = 1 /\ dirs'[1] = dirs[i]
    BY <1>1
<1>3. Newest' = dirs[i]
    BY <1>2 DEF Newest
<1>4. \A j \in 1 .. Len(dirs') : j = 1
    BY <1>2
<1>5. FilesOf(dirs') \subseteq FilesOf(dirs)
    BY <1>1, <1>2, <1>4, FilesOfSome
<1> QED BY <1>2, <1>3, <1>4, <1>5

\* A directory on disk is the only one a crash can leave.
LEMMA SyncDirectoryDrops ==
    ASSUME StoreInv, SyncDirectory
    PROVE  /\ DirsDropped /\ dirs' = <<Newest>> /\ Newest' = Newest /\ Len(dirs') = 1
           /\ \A f \in FilesOf(dirs') : files'[f] = files[f]
<1>1. dirs' = <<Newest>> /\ files' = Restrict(files, FilesOf(dirs'))
    BY NewestFacts DEF SyncDirectory, DirectoriesSynced
<1>2. Len(dirs) \in 1 .. Len(dirs) /\ dirs' = <<dirs[Len(dirs)]>>
    BY <1>1, NewestFacts DEF Newest
<1>3. /\ dirs' \in Seq(Dir) /\ dirs' # <<>> /\ Len(dirs') = 1 /\ dirs'[1] = dirs[Len(dirs)]
      /\ Newest' = dirs[Len(dirs)] /\ FilesOf(dirs') \subseteq FilesOf(dirs)
      /\ \A j \in 1 .. Len(dirs') : j = 1
    BY <1>2, OneDirectory
<1>4. DOMAIN files = FilesOf(dirs) /\ \A f \in DOMAIN files : WellFormed(files[f])
    BY DEF StoreInv, Types, Disk
<1>5. \A f \in FilesOf(dirs') : files'[f] = files[f] /\ WellFormed(files[f])
    BY <1>1, <1>3, <1>4 DEF Restrict
<1>6. \A f \in FilesOf(dirs') : files[f].synced >= files[f].synced
    BY <1>5 DEF WellFormed, File, Whole
<1>7. DOMAIN files' = FilesOf(dirs')
    BY <1>1 DEF Restrict
<1>8. \A j \in 1 .. Len(dirs') : \E i \in 1 .. Len(dirs) : dirs'[j] = dirs[i]
    BY <1>2, <1>3
<1> QED BY <1>1, <1>3, <1>5, <1>6, <1>7, <1>8 DEF DirsDropped, Newest

\* What the save wrote is what is confirmed.
LEMMA SyncDirectoryKeepsInvariant ==
    ASSUME StoreInv, SyncDirectory PROVE StoreInv'
<1>1. /\ DirsDropped /\ dirs' = <<Newest>> /\ Newest' = Newest /\ Len(dirs') = 1
      /\ \A f \in FilesOf(dirs') : files'[f] = files[f]
    BY SyncDirectoryDrops
<1>2. /\ pc = "sync_directory" /\ pc' = "replay" /\ memory' = memory /\ confirmed' = memory
      /\ Newest.path # NoFile /\ files[Newest.path].tip = memory
    BY DEF SyncDirectory, StoreInv, SavePart
<1>3. /\ Newest.path \in DOMAIN files /\ WellFormed(files[Newest.path]) /\ Sound(Newest)
    BY <1>2, NewestFacts
<1>4. memory \in 0 .. MaxTip /\ memory >= memory
    BY <1>2, <1>3 DEF WellFormed, File
<1>5. dirs' \in Seq(Dir) /\ 1 \in 1 .. Len(dirs') /\ dirs'[1] = Newest
      /\ \A i \in 1 .. Len(dirs') : i = 1
    BY <1>1 DEF DirsDropped
<1>6. files'[Newest.path] = files[Newest.path]
    BY <1>1, <1>2, <1>5, FilesNamed
<1>7. Types'
    BY <1>1, <1>2, <1>4, BoundAssumption, DirsDroppedKeepsSnapshots
       DEF StoreInv, Types, NoTip
<1>8. ASSUME NEW i \in 1 .. Len(dirs') PROVE Sound(dirs[i])'
    <2>1. dirs'[i] = Newest
        BY <1>5
    <2> QED BY <1>2, <1>3, <1>4, <1>6, <2>1 DEF Sound
<1>9. TempPart'
    BY <1>1, <1>3, <1>5 DEF TempPart, Sound
<1>10. SavePart' /\ MemoryPart'
    BY <1>2, <1>4 DEF SavePart, MemoryPart, Saving
<1> QED BY <1>7, <1>8, <1>9, <1>10 DEF StoreInv

\* After a power loss there is one directory.
LEMMA PowerLossDrops ==
    ASSUME StoreInv, PowerLoss
    PROVE  DirsDropped /\ Len(dirs') = 1
<1>1. PICK i \in 1 .. Len(dirs) :
          /\ dirs' = <<dirs[i]>>
          /\ \E lengths \in [FilesOf(dirs') -> 0 .. Whole] :
                 /\ \A f \in FilesOf(dirs') : lengths[f] \in files[f].synced .. files[f].written
                 /\ files' = [f \in FilesOf(dirs') |->
                                 [tip |-> files[f].tip, written |-> lengths[f],
                                  synced |-> lengths[f]]]
    BY NewestFacts, DirFacts DEF PowerLoss
<1>2. PICK lengths \in [FilesOf(dirs') -> 0 .. Whole] :
          /\ \A f \in FilesOf(dirs') : lengths[f] \in files[f].synced .. files[f].written
          /\ files' = [f \in FilesOf(dirs') |->
                          [tip |-> files[f].tip, written |-> lengths[f],
                           synced |-> lengths[f]]]
    BY <1>1
<1>3. /\ dirs' \in Seq(Dir) /\ dirs' # <<>> /\ Len(dirs') = 1 /\ dirs'[1] = dirs[i]
      /\ FilesOf(dirs') \subseteq FilesOf(dirs) /\ \A j \in 1 .. Len(dirs') : j = 1
    BY <1>1, OneDirectory
<1>4. DOMAIN files = FilesOf(dirs) /\ \A f \in DOMAIN files : WellFormed(files[f])
    BY DEF StoreInv, Types, Disk
<1>5. ASSUME NEW f \in FilesOf(dirs')
      PROVE  /\ WellFormed(files'[f]) /\ files'[f].tip = files[f].tip
             /\ files'[f].synced >= files[f].synced
    <2>1. WellFormed(files[f])
        BY <1>3, <1>4
    <2>2. files'[f] = [tip |-> files[f].tip, written |-> lengths[f], synced |-> lengths[f]]
        BY <1>2
    <2>3. lengths[f] \in 0 .. Whole /\ lengths[f] \in files[f].synced .. files[f].written
        BY <1>2
    <2>4. lengths[f] <= lengths[f] /\ lengths[f] >= files[f].synced
        BY <2>1, <2>3 DEF WellFormed, File, Whole
    <2> QED BY <2>1, <2>2, <2>3, <2>4 DEF WellFormed, File
<1>6. DOMAIN files' = FilesOf(dirs')
    BY <1>2
<1> QED BY <1>3, <1>5, <1>6 DEF DirsDropped

\* A power loss keeps a prefix of what was written, under the names it chooses.
LEMMA PowerLossKeepsInvariant ==
    ASSUME StoreInv, PowerLoss PROVE StoreInv'
<1>1. /\ DirsDropped /\ Len(dirs') = 1 /\ memory' = Down /\ pc' = "replay"
      /\ confirmed' = confirmed
    BY PowerLossDrops DEF PowerLoss
<1>2. Types'
    BY <1>1, DirsDroppedKeepsSnapshots DEF StoreInv, Types
<1>3. (\A i \in 1 .. Len(dirs) : Sound(dirs[i]))'
    BY <1>1, DirsDroppedKeepsSnapshots
<1>4. TempPart'
    <2>1. 1 \in 1 .. Len(dirs') /\ (\A j \in 1 .. Len(dirs') : j = 1) /\ Newest' = dirs'[1]
        BY <1>1 DEF Newest
    <2> QED BY <1>3, <2>1 DEF TempPart, Sound
<1>5. SavePart' /\ MemoryPart'
    BY <1>1 DEF SavePart, MemoryPart, Saving
<1> QED BY <1>2, <1>3, <1>4, <1>5 DEF StoreInv

\* The invariant holds of every state that processes, disks and losses of power
\* can reach.
THEOREM StoreInvariant == Spec => []StoreInv
<1>1. StoreInv /\ [Next]_vars => StoreInv'
    <2> SUFFICES ASSUME StoreInv, [Next]_vars PROVE StoreInv'
        OBVIOUS
    <2>1. CASE DirectoryNotSynced \/ SaveFails \/ Killed
        BY <2>1, StopKeepsInvariant DEF DirectoryNotSynced, SaveFails, Killed
    <2>2. CASE UNCHANGED vars
        <3>1. (\A i \in 1 .. Len(dirs) : Sound(dirs[i]))' /\ TempPart' /\ Disk'
            BY <2>2, DiskUntouched DEF vars
        <3>2. Types' /\ SavePart' /\ MemoryPart'
            BY <2>2, <3>1 DEF vars, StoreInv, Types, SavePart, MemoryPart, Newest
        <3> QED BY <3>1, <3>2 DEF StoreInv
    <2> QED BY <2>1, <2>2, CreateTempKeepsInvariant, WriteKeepsInvariant,
               SyncFileKeepsInvariant, RenameKeepsInvariant, SyncDirectoryKeepsInvariant,
               ReplayKeepsInvariant, PowerLossKeepsInvariant, WritebackKeepsInvariant,
               ResumeKeepsInvariant
            DEF Next
<1> QED BY <1>1, InitHasInvariant, PTL DEF Spec

\* A snapshot that was confirmed is never followed by an older one.
THEOREM ConfirmedSnapshotIsAlwaysKept == Spec => []ConfirmedSnapshotIsKept
<1>1. StoreInv => ConfirmedSnapshotIsKept
    <2> SUFFICES ASSUME StoreInv PROVE ConfirmedSnapshotIsKept
        OBVIOUS
    <2>1. /\ Loaded \in Tips(dirs) /\ AfterPowerLoss = Tips(dirs)
          /\ \A i \in 1 .. Len(dirs) : TipOf(dirs[i]) >= confirmed
        BY EveryLoadFindsAState
    <2> QED BY <2>1 DEF ConfirmedSnapshotIsKept, Tips
<1> QED BY <1>1, StoreInvariant, PTL
----------------------------------------------------------------------------
(* The snapshot file.                                                      *)

\* What loads find, before and after a step.
LEMMA LoadsAroundAStep ==
    StoreInv /\ StoreInv' =>
        /\ Loaded = TipOf(Newest) /\ AfterPowerLoss = Tips(dirs)
        /\ Loaded' = TipOf(Newest)' /\ AfterPowerLoss' = Tips(dirs)'
        /\ Loaded' \in AfterPowerLoss' /\ Loaded \in AfterPowerLoss
<1>1. StoreInv => /\ Loaded = TipOf(Newest) /\ AfterPowerLoss = Tips(dirs)
                  /\ Loaded \in AfterPowerLoss
    BY EveryLoadFindsAState
<1>2. (StoreInv => /\ Loaded = TipOf(Newest) /\ AfterPowerLoss = Tips(dirs)
                   /\ Loaded \in AfterPowerLoss)'
    BY <1>1, PTL
<1> QED BY <1>1, <1>2

\* A step that changes no snapshot changes nothing a load could find.
LEMMA SnapshotsUnchanged ==
    ASSUME StoreInv, StoreInv',
           \/ TempChanges
           \/ dirs' = dirs /\ files' = files
           \/ /\ dirs' = Append(dirs, [path |-> Newest.path, temp |-> Newest'.temp])
              /\ [path |-> Newest.path, temp |-> Newest'.temp] \in Dir
              /\ \A f \in DOMAIN files : files'[f] = files[f]
    PROVE  Loaded' = Loaded /\ AfterPowerLoss' = AfterPowerLoss
<1>1. CASE TempChanges
    <2>1. dirs' = dirs /\ \A i \in 1 .. Len(dirs) : TipOf(dirs[i])' = TipOf(dirs[i])
        BY <1>1, TempChangesKeepsSnapshots DEF TempChanges
    <2>2. Tips(dirs)' = Tips(dirs)
        BY <2>1 DEF Tips
    <2>3. TipOf(Newest)' = TipOf(Newest)
        BY <2>1, NewestFacts DEF Newest
    <2> QED BY <2>2, <2>3, LoadsAroundAStep
<1>2. CASE dirs' = dirs /\ files' = files
    BY <1>2, LoadsAroundAStep, ZenonT(60) DEF Tips, TipOf, Newest
<1>3. CASE /\ dirs' = Append(dirs, [path |-> Newest.path, temp |-> Newest'.temp])
           /\ [path |-> Newest.path, temp |-> Newest'.temp] \in Dir
           /\ \A f \in DOMAIN files : files'[f] = files[f]
    <2> DEFINE d == [path |-> Newest.path, temp |-> Newest'.temp]
    <2>1. /\ Len(dirs') = Len(dirs) + 1 /\ Newest' = d /\ dirs'[Len(dirs) + 1] = d
          /\ \A i \in 1 .. Len(dirs) : dirs'[i] = dirs[i]
          /\ \A i \in 1 .. Len(dirs) + 1 : i \in 1 .. Len(dirs) \/ i = Len(dirs) + 1
        BY <1>3, DirAdded
    <2>2. DOMAIN files = FilesOf(dirs) /\ dirs \in Seq(Dir) /\ Len(dirs) \in 1 .. Len(dirs)
          /\ Len(dirs) \in Nat
        BY NewestFacts DEF StoreInv, Types, Disk
    <2>3. ASSUME NEW i \in 1 .. Len(dirs) PROVE TipOf(dirs[i])' = TipOf(dirs[i])
        <3>1. dirs[i].path # NoFile => dirs[i].path \in DOMAIN files
            BY <2>2, FilesNamed
        <3> QED BY <1>3, <2>1, <3>1 DEF TipOf
    <2>4. d.path = Newest.path
        OBVIOUS
    <2> HIDE DEF d
    <2>5. TipOf(Newest)' = TipOf(Newest)
        <3>1. Newest.path # NoFile => Newest.path \in DOMAIN files
            BY NewestFacts
        <3> QED BY <1>3, <2>1, <2>4, <3>1 DEF TipOf
    <2>6. Tips(dirs)' = Tips(dirs)
        <3>1. \A i \in 1 .. Len(dirs) : i \in 1 .. Len(dirs')
            BY <2>1, <2>2
        <3>2. ASSUME NEW i, i = Len(dirs) + 1 PROVE TipOf(dirs[i])' = TipOf(Newest)
            BY <2>1, <2>5, <3>2 DEF TipOf
        <3>3. ASSUME NEW x PROVE x \in Tips(dirs)' <=> x \in Tips(dirs)
            <4>1. x \in Tips(dirs)' <=> \E i \in 1 .. Len(dirs) + 1 : x = TipOf(dirs[i])'
                BY <2>1 DEF Tips
            <4>2. x \in Tips(dirs) <=> \E i \in 1 .. Len(dirs) : x = TipOf(dirs[i])
                BY DEF Tips
            <4>3. TipOf(Newest) = TipOf(dirs[Len(dirs)])
                BY DEF Newest
            <4>4. Len(dirs) + 1 \in 1 .. Len(dirs) + 1
                  /\ \A i \in 1 .. Len(dirs) : i \in 1 .. Len(dirs) + 1
                BY <2>2
            <4> QED BY <2>1, <2>2, <2>3, <3>2, <4>1, <4>2, <4>3, <4>4
        <3> QED BY <3>3
    <2> QED BY <2>5, <2>6, LoadsAroundAStep
<1> QED BY <1>1, <1>2, <1>3

\* The rename is the moment of the save.
LEMMA RenameSaves ==
    ASSUME StoreInv, Rename
    PROVE  memory \in 0 .. MaxTip /\ SnapshotFile!Save(memory)
<1> DEFINE d == [path |-> Newest.temp, temp |-> NoFile]
<1>1. /\ StoreInv' /\ files' = files /\ dirs' = Append(dirs, d) /\ d \in Dir
      /\ Newest.temp # NoFile /\ files[Newest.temp].tip = memory /\ memory \in 0 .. MaxTip
    BY RenameKeepsInvariant
<1>2. d.path = Newest.temp
    OBVIOUS
<1> HIDE DEF d
<1>3. /\ Len(dirs') = Len(dirs) + 1 /\ Newest' = d /\ dirs'[Len(dirs) + 1] = d
      /\ \A i \in 1 .. Len(dirs) : dirs'[i] = dirs[i]
      /\ \A i \in 1 .. Len(dirs) + 1 : i \in 1 .. Len(dirs) \/ i = Len(dirs) + 1
      /\ Len(dirs) \in Nat
    BY <1>1, DirAdded, NewestFacts
<1>4. TipOf(Newest)' = memory
    BY <1>1, <1>2, <1>3 DEF TipOf
<1>5. \A i \in 1 .. Len(dirs) : TipOf(dirs[i])' = TipOf(dirs[i])
    BY <1>1, <1>3 DEF TipOf
<1>6. ASSUME NEW i, i = Len(dirs) + 1 PROVE TipOf(dirs[i])' = memory
    BY <1>1, <1>2, <1>3, <1>6 DEF TipOf
<1>7. ASSUME NEW x PROVE x \in Tips(dirs)' <=> x \in Tips(dirs) \cup {memory}
    <2>1. x \in Tips(dirs)' <=> \E i \in 1 .. Len(dirs) + 1 : x = TipOf(dirs[i])'
        BY <1>3 DEF Tips
    <2>2. x \in Tips(dirs) <=> \E i \in 1 .. Len(dirs) : x = TipOf(dirs[i])
        BY DEF Tips
    <2>3. Len(dirs) + 1 \in 1 .. Len(dirs) + 1
          /\ \A i \in 1 .. Len(dirs) : i \in 1 .. Len(dirs) + 1
        BY <1>3
    <2> QED BY <1>3, <1>5, <1>6, <2>1, <2>2, <2>3
<1>8. Tips(dirs)' = Tips(dirs) \cup {memory}
    BY <1>7
<1> QED BY <1>1, <1>4, <1>8, LoadsAroundAStep DEF SnapshotFile!Save

\* What reaches the disk leaves fewer states to find.
LEMMA DroppedTips ==
    ASSUME StoreInv, DirsDropped
    PROVE  Tips(dirs)' \subseteq Tips(dirs)
<1> SUFFICES ASSUME NEW x \in Tips(dirs)' PROVE x \in Tips(dirs)
    OBVIOUS
<1>1. PICK j \in 1 .. Len(dirs') : x = TipOf(dirs[j])'
    BY DEF Tips
<1>2. PICK i \in 1 .. Len(dirs) : TipOf(dirs[j])' = TipOf(dirs[i])
    BY DirsDroppedKeepsSnapshots
<1> QED BY <1>1, <1>2 DEF Tips

\* Of several snapshots a crash could leave, fewer are left.
LEMMA DropSettles ==
    ASSUME StoreInv, StoreInv', DirsDropped, Newest' = Newest,
           Newest.path # NoFile => files'[Newest.path].tip = files[Newest.path].tip
    PROVE  SnapshotFile!Settle
<1>1. TipOf(Newest)' = TipOf(Newest)
    BY DEF TipOf
<1> QED BY <1>1, DroppedTips, LoadsAroundAStep DEF SnapshotFile!Settle

\* A power loss of the store is one of the file.
LEMMA PowerLossIsPowerLoss ==
    ASSUME StoreInv, PowerLoss PROVE SnapshotFile!PowerLoss
<1>1. DirsDropped /\ Len(dirs') = 1 /\ StoreInv'
    BY PowerLossDrops, PowerLossKeepsInvariant
<1>2. (\A j \in 1 .. Len(dirs') : j = 1) /\ 1 \in 1 .. Len(dirs') /\ Newest' = dirs'[1]
    BY <1>1 DEF Newest
<1>3. Tips(dirs)' = {TipOf(Newest)'}
    BY <1>2 DEF Tips
<1>4. TipOf(Newest)' \in Tips(dirs)
    BY <1>1, <1>3, DroppedTips
<1> QED BY <1>1, <1>3, <1>4, LoadsAroundAStep DEF SnapshotFile!PowerLoss

\* Saves with their failures, kills, losses of power and what the system
\* writes back in between are a file that is replaced as a whole.
THEOREM StoreImplementsSnapshotFile == Spec => ImplementsSnapshotFile
<1>1. Init => SnapshotFile!Init
    <2> SUFFICES ASSUME Init PROVE SnapshotFile!Init
        OBVIOUS
    <2>1. StoreInv
        BY InitHasInvariant
    <2>2. Loaded = TipOf(Newest) /\ AfterPowerLoss = Tips(dirs)
        BY <2>1, EveryLoadFindsAState
    <2>3. /\ Len(dirs) = 1 /\ dirs[1].path = NoFile
        BY DEF Init
    <2>4. \A i \in 1 .. Len(dirs) : TipOf(dirs[i]) = NoTip
        BY <2>3 DEF TipOf
    <2>5. 1 \in 1 .. Len(dirs) /\ Newest = dirs[1]
        BY <2>3 DEF Newest
    <2>6. Tips(dirs) = {NoTip} /\ TipOf(Newest) = NoTip
        BY <2>4, <2>5 DEF Tips
    <2> QED BY <2>2, <2>6 DEF SnapshotFile!Init
<1>2. StoreInv /\ StoreInv' /\ [Next]_vars
          => [SnapshotFile!Next]_(<<Loaded, AfterPowerLoss>>)
    <2> SUFFICES ASSUME StoreInv, StoreInv', [Next]_vars
                 PROVE  SnapshotFile!Next \/ UNCHANGED <<Loaded, AfterPowerLoss>>
        OBVIOUS
    <2>1. CASE Rename
        BY <2>1, RenameSaves DEF SnapshotFile!Next
    <2>2. CASE SyncDirectory
        <3>1. /\ DirsDropped /\ Newest' = Newest /\ Len(dirs') = 1
              /\ \A f \in FilesOf(dirs') : files'[f] = files[f]
            BY <2>2, SyncDirectoryDrops
        <3>2. Newest.path # NoFile => Newest.path \in FilesOf(dirs')
            <4>1. dirs' \in Seq(Dir) /\ 1 \in 1 .. Len(dirs') /\ Newest' = dirs'[1]
                BY <3>1 DEF DirsDropped, Newest
            <4> QED BY <3>1, <4>1, FilesNamed
        <3> QED BY <3>1, <3>2, DropSettles DEF SnapshotFile!Next
    <2>3. CASE Writeback
        <3>1. DirsDropped /\ Newest' = Newest
            BY <2>3, WritebackDrops
        <3>2. Newest.path # NoFile => Newest.path \in FilesOf(dirs')
            <4>1. dirs' \in Seq(Dir) /\ dirs' # <<>>
                BY <3>1 DEF DirsDropped
            <4>2. Len(dirs') \in 1 .. Len(dirs') /\ Newest' = dirs'[Len(dirs')]
                BY <4>1, DirFacts DEF Newest
            <4> QED BY <3>1, <4>1, <4>2, FilesNamed
        <3> QED BY <3>1, <3>2, DropSettles DEF SnapshotFile!Next, DirsDropped
    <2>4. CASE PowerLoss
        BY <2>4, PowerLossIsPowerLoss DEF SnapshotFile!Next
    <2>5. CASE CreateTemp \/ Write \/ SyncFile
        <3>1. \/ TempChanges
              \/ /\ dirs' = Append(dirs, [path |-> Newest.path, temp |-> Newest'.temp])
                 /\ [path |-> Newest.path, temp |-> Newest'.temp] \in Dir
                 /\ \A f \in DOMAIN files : files'[f] = files[f]
            BY <2>5, CreateTempKeepsInvariant, WriteKeepsInvariant, SyncFileKeepsInvariant
        <3> QED BY <3>1, SnapshotsUnchanged
    <2>6. CASE \/ DirectoryNotSynced \/ SaveFails \/ Replay \/ Killed \/ Resume
               \/ UNCHANGED vars
        <3>1. dirs' = dirs /\ files' = files
            BY <2>6 DEF DirectoryNotSynced, SaveFails, Replay, Killed, Resume, vars
        <3> QED BY <3>1, SnapshotsUnchanged
    <2> QED BY <2>1, <2>2, <2>3, <2>4, <2>5, <2>6 DEF Next
<1> QED BY <1>1, <1>2, StoreInvariant, PTL
        DEF Spec, ImplementsSnapshotFile, SnapshotFile!Spec
=============================================================================
