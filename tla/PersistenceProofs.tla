------------------------- MODULE PersistenceProofs --------------------------
(***************************************************************************)
(* What crashes and restarts leave of the snapshots and the log, for every *)
(* set of ids, data objects, operation lists and bounds.                   *)
(*                                                                         *)
(* The directory takes the steps of SnapshotFiles, so that the invariant   *)
(* proved of that module holds here as well; the rest relates it to the    *)
(* store and the log.                                                      *)
(***************************************************************************)
EXTENDS Persistence, StateManagerProofs

FP == INSTANCE SnapshotFilesProofs WITH up <- (phase # "down"), Bursts <- {1}

(* Log entries are not typed here: an entry replayed from a file is only   *)
(* looked at.                                                              *)
FileOK(f) == f = [disk |-> f.disk, buffer |-> f.buffer] /\ IsSeq(f.disk) /\ IsSeq(f.buffer)
FilesOK   == IsSeq(files) /\ \A i \in DOMAIN files : FileOK(files[i])

(* The entries of a file, on disk or still buffered. *)
Held(f) == ToSet(f.disk) \cup ToSet(f.buffer)

(* A checkpoint is covered when the last completed snapshot is at least as *)
(* new, which is so while no start found the directory out of order;       *)
(* checkpoints that are still buffered are covered like those on disk.     *)
Covered(e, top) ==
  e.type = "checkpoint" =>
    e.stateVersion \in Nat /\ top # Files!NoName /\ e.stateVersion <= top.version
LogCovered ==
  ~lapsed => \A i \in DOMAIN files : \A e \in Held(files[i]) : Covered(e, newest)
NewestBehind ==
  (~lapsed /\ phase # "down" /\ newest # Files!NoName) => newest.version <= version

(* After a clean shutdown the last completed snapshot, while it can be     *)
(* read, holds the entities it left, and so does the store from the moment *)
(* the snapshot is loaded.                                                 *)
ExpectedHeld ==
  expected.known =>
    /\ newest # Files!NoName
    /\ newest \in disk \ torn => DOMAIN contents[newest] = expected.ids
    /\ phase # "down" => DOMAIN entities = expected.ids

StoreInv ==
  /\ phase \in {"down", "replaying", "running", "closing"}
  /\ CacheCoherent
  /\ NewestBehind
  /\ VersionBeyondSnapshot
  /\ ExpectedHeld
LogInv == FilesOK /\ LogCovered
PersistInv == FP!FilesInv /\ StoreInv /\ LogInv

-----------------------------------------------------------------------------
(* The actions on the directory, as those of the module its proofs are     *)
(* about.                                                                  *)
LEMMA SameNames ==
  /\ Files!NoName = FP!NoName /\ Files!NextName = FP!NextName
  /\ Files!Pushed = FP!Pushed /\ Files!Excess = FP!Excess /\ Files!Repeats = FP!Repeats
  /\ Files!TimeOfName = FP!TimeOfName
<1>1. \A v, t : Files!Name(v, t) = FP!Name(v, t)
  BY DEF Files!Name, FP!Name
<1>2. Files!NoName = FP!NoName
  BY <1>1 DEF Files!NoName, FP!NoName
<1>3. Files!NextName = FP!NextName
  BY <1>1, <1>2 DEF Files!NextName, FP!NextName
<1>4. Files!Pushed = FP!Pushed
  BY <1>3 DEF Files!Pushed, FP!Pushed
<1>5. Files!Excess = FP!Excess
  BY <1>4 DEF Files!Excess, FP!Excess
<1>6. Files!Repeats = FP!Repeats
  BY <1>3 DEF Files!Repeats, FP!Repeats
<1>7. Files!TimeOfName = FP!TimeOfName
  BY <1>2 DEF Files!TimeOfName, FP!TimeOfName
<1> QED BY <1>2, <1>3, <1>4, <1>5, <1>6, <1>7

(* The order of the names. *)
LEMMA SameOrder ==
  /\ Files!Digits = FP!Digits
  /\ Files!Sorted(disk) = FP!Sorted(disk)
  /\ Files!SameDigits <=> FP!SameDigits
<1>1. Files!Digits = FP!Digits
  BY DEF Files!Digits, FP!Digits
<1>2. \A a, b : Files!FileNameBefore(a, b) <=> FP!FileNameBefore(a, b)
  BY <1>1 DEF Files!FileNameBefore, FP!FileNameBefore, Files!StringBefore, FP!StringBefore,
              Files!IsStrictPrefix, FP!IsStrictPrefix, Files!IsPrefix, FP!IsPrefix
<1>5. Files!Cardinality(disk) = FP!Cardinality(disk)
  BY DEF Files!Cardinality, FP!Cardinality
<1>6. \A S, T : Files!Bijection(S, T) = FP!Bijection(S, T)
  BY DEF Files!Bijection, FP!Bijection, Files!Injection, FP!Injection,
         Files!Surjection, FP!Surjection, Files!IsInjective, FP!IsInjective
<1>3. Files!Sorted(disk) = FP!Sorted(disk)
  BY <1>2, <1>5, <1>6 DEF Files!Sorted, FP!Sorted
<1>4. Files!SameDigits <=> FP!SameDigits
  BY <1>1 DEF Files!SameDigits, FP!SameDigits
<1> QED BY <1>1, <1>3, <1>4

(* And the actions. *)
LEMMA SameActions ==
  /\ Files!FilesInit => FP!FilesInit
  /\ Files!Start => FP!Start
  /\ Files!Change(1) => FP!Change(1)
  /\ Files!SnapshotOnly => FP!SnapshotOnly
  /\ Files!SnapshotFails => FP!SnapshotFails
  /\ Files!TakeSnapshot => FP!TakeSnapshot
  /\ Files!Crash => FP!Crash
  /\ Files!CrashInWrite => FP!CrashInWrite
  /\ \A n : Files!CrashAfterWrite(n) => FP!CrashAfterWrite(n)
<1>1. Files!FilesInit => FP!FilesInit
  BY SameNames DEF Files!FilesInit, FP!FilesInit
<1>2. Files!Start => FP!Start
  BY SameOrder DEF Files!Start, FP!Start, Files!Last, FP!Last
<1>3. Files!Change(1) => FP!Change(1)
  BY SameNames DEF Files!Change, FP!Change
<1>4. Files!MakeSnapshot => FP!MakeSnapshot
  BY SameNames DEF Files!MakeSnapshot, FP!MakeSnapshot
<1>5. Files!SpoilNext => FP!SpoilNext
  BY SameNames DEF Files!SpoilNext, FP!SpoilNext
<1>6. \A n : Files!WriteAndPrune(n) => FP!WriteAndPrune(n)
  BY SameNames DEF Files!WriteAndPrune, FP!WriteAndPrune, Files!ToSet, FP!ToSet
<1>7. Files!Killed => FP!Killed
  BY SameNames DEF Files!Killed, FP!Killed
<1>8. Files!SnapshotOnly => FP!SnapshotOnly
  BY <1>4, SameNames DEF Files!SnapshotOnly, FP!SnapshotOnly
<1>9. Files!SnapshotFails => FP!SnapshotFails
  BY <1>4, <1>5, SameNames DEF Files!SnapshotFails, FP!SnapshotFails
<1>10. Files!TakeSnapshot => FP!TakeSnapshot
  BY <1>4, <1>6, SameNames DEF Files!TakeSnapshot, FP!TakeSnapshot
<1>11. Files!Crash => FP!Crash
  BY <1>7 DEF Files!Crash, FP!Crash
<1>12. Files!CrashInWrite => FP!CrashInWrite
  BY <1>4, <1>5, <1>7 DEF Files!CrashInWrite, FP!CrashInWrite
<1>13. \A n : Files!CrashAfterWrite(n) => FP!CrashAfterWrite(n)
  BY <1>4, <1>6, <1>7, SameNames DEF Files!CrashAfterWrite, FP!CrashAfterWrite
<1> QED BY <1>1, <1>2, <1>3, <1>8, <1>9, <1>10, <1>11, <1>12, <1>13
(* Every step of the process is one of the directory, or leaves it alone. *)
LEMMA DirSteps ==
  ASSUME [PersistNext]_persistVars
  PROVE  [FP!FilesNext]_(FP!fileVars)
<1>1. ASSUME Changed PROVE FP!FilesNext
  <2>1. FP!Change(1) /\ 1 \in {1}
    BY <1>1, SameActions DEF Changed
  <2> QED BY <2>1 DEF FP!FilesNext
<1>2. ASSUME Files!Start \/ Files!SnapshotOnly \/ Files!SnapshotFails \/ Files!TakeSnapshot
             \/ Files!Crash \/ Files!CrashInWrite
      PROVE  FP!FilesNext
  BY <1>2, SameActions DEF FP!FilesNext
<1>3. ASSUME NEW n \in 0 .. Files!Excess, Files!CrashAfterWrite(n) PROVE FP!FilesNext
  <2>1. n \in 0 .. FP!Excess /\ FP!CrashAfterWrite(n)
    BY <1>3, SameActions, SameNames
  <2> QED BY <2>1 DEF FP!FilesNext
<1>4. ASSUME UNCHANGED <<version, dirVars>>, (phase' # "down") = (phase # "down")
      PROVE  UNCHANGED FP!fileVars
  BY <1>4 DEF FP!fileVars, dirVars
<1>5. ASSUME NEW id \in EntityIds, NEW data \in InitialData, Create(id, data) PROVE FP!FilesNext
  BY <1>1, <1>5 DEF Create
<1>6. ASSUME NEW id \in EntityIds, NEW ops \in OpLists, Update(id, ops) PROVE FP!FilesNext
  BY <1>1, <1>6 DEF Update
<1>7. ASSUME NEW id \in EntityIds, Delete(id) PROVE FP!FilesNext
  BY <1>1, <1>7 DEF Delete
<1>8. ASSUME PeriodicSnapshot PROVE FP!FilesNext
  BY <1>2, <1>8 DEF PeriodicSnapshot, SnapshotAndCheckpoint, NoCheckpoint
<1>9. ASSUME NEW i \in DOMAIN files, WriteOut(i) PROVE UNCHANGED FP!fileVars
  BY <1>4, <1>9 DEF WriteOut, smVars
<1>10. ASSUME Crash \/ Exit PROVE FP!FilesNext
  BY <1>2, <1>10 DEF Crash, Exit
<1>11. ASSUME CrashInSnapshot PROVE FP!FilesNext
  BY <1>2, <1>3, <1>11 DEF CrashInSnapshot
<1>12. ASSUME Stop PROVE FP!FilesNext
  BY <1>2, <1>12 DEF Stop, NoCheckpoint
<1>13. ASSUME Start PROVE FP!FilesNext
  BY <1>2, <1>13 DEF Start
<1>14. ASSUME ReplayEntry PROVE FP!FilesNext \/ UNCHANGED FP!fileVars
  <2>1. CASE Changed
    BY <1>1, <2>1
  <2>2. CASE UNCHANGED <<smVars, logVars, lapsed, dirVars>>
    BY <1>4, <1>14, <2>2 DEF ReplayEntry, smVars
  <2> QED BY <1>14, <2>1, <2>2 DEF ReplayEntry
<1>15. ASSUME Recovered PROVE UNCHANGED FP!fileVars
  BY <1>4, <1>15 DEF Recovered, smVars
<1>16. ASSUME UNCHANGED persistVars PROVE UNCHANGED FP!fileVars
  BY <1>4, <1>16 DEF persistVars, smVars
<1> QED
  BY <1>5, <1>6, <1>7, <1>8, <1>9, <1>10, <1>11, <1>12, <1>13, <1>14, <1>15, <1>16 DEF PersistNext

(* So the invariant of the directory is kept.                              *)
LEMMA DirKept ==
  ASSUME FP!FilesInv, [PersistNext]_persistVars
  PROVE  FP!FilesInv'
<1>1. {1} \subseteq Nat \ {0}
  OBVIOUS
<1>2. [FP!FilesNext]_(FP!fileVars)
  BY DirSteps
<1> QED BY <1>1, <1>2, FP!FilesNextInv, KeepAssumption, NumeralAssumption

-----------------------------------------------------------------------------
(* Log files with no entry but those of the present files and E. *)
Holds(fs, E) ==
  /\ IsSeq(fs)
  /\ \A i \in DOMAIN fs :
       /\ FileOK(fs[i])
       /\ \A x \in Held(fs[i]) : x \in E \/ \E j \in DOMAIN files : x \in Held(files[j])

(* A new log file is empty. *)
LEMMA EmptyFileOK == FileOK(EmptyFile) /\ Held(EmptyFile) = {}
<1>1. IsSeq(<<>>) /\ ToSet(<<>>) = {}
  BY DEF IsSeq, ToSet
<1> QED BY <1>1 DEF FileOK, Held, EmptyFile

(* A new file at the end holds nothing yet. *)
LEMMA NewFileHolds == ASSUME FilesOK PROVE Holds(Append(files, EmptyFile), {})
<1> DEFINE a == Append(files, EmptyFile)
<1>1. /\ IsSeq(a)
      /\ Len(a) = Len(files) + 1
      /\ \A i \in 1 .. Len(files) : a[i] = files[i]
      /\ a[Len(files) + 1] = EmptyFile
  BY AppendIsSeq DEF FilesOK
<1>2. Len(files) \in Nat /\ DOMAIN files = 1 .. Len(files) /\ DOMAIN a = 1 .. Len(a)
  BY <1>1, SeqIsFunction DEF FilesOK
<1> HIDE DEF a
<1>3. \A i \in DOMAIN a : i \in DOMAIN files \/ i = Len(files) + 1
  BY <1>1, <1>2
<1>4. \A i \in DOMAIN a : FileOK(a[i]) /\ \A x \in Held(a[i]) : i \in DOMAIN files /\ x \in Held(files[i])
  BY <1>1, <1>2, <1>3, EmptyFileOK DEF FilesOK
<1> QED BY <1>1, <1>4 DEF Holds, a

(* append, with or without a rotation, adds one entry to one file. *)
LEMMA WithEntryHolds == ASSUME FilesOK, NEW entry PROVE Holds(WithEntry(entry), {entry})
<1> DEFINE r == Rotated
           n == Len(r)
           w == WithEntry(entry)
<1>1. Holds(r, {})
  <2>1. Holds(files, {})
    BY DEF Holds, FilesOK
  <2> QED BY <2>1, NewFileHolds DEF Rotated
<1>2. n \in Nat /\ DOMAIN r = 1 .. n /\ r = [i \in 1 .. n |-> r[i]]
  BY <1>1, SeqIsFunction DEF Holds
<1>3. w = [r EXCEPT ![n].buffer = Append(@, entry)]
  BY DEF WithEntry
<1> HIDE DEF r, w
<1>4. DOMAIN w = 1 .. n /\ w = [i \in 1 .. n |-> w[i]]
  BY <1>2, <1>3
<1>5. IsSeq(w)
  BY <1>2, <1>4, FunctionIsSeq
<1>6. ASSUME NEW i \in 1 .. n
      PROVE  /\ FileOK(w[i])
             /\ \A x \in Held(w[i]) : x = entry \/ \E j \in DOMAIN files : x \in Held(files[j])
  <2> DEFINE f == r[i]
  <2>1. FileOK(f) /\ \A x \in Held(f) : \E j \in DOMAIN files : x \in Held(files[j])
    BY <1>1, <1>2 DEF Holds
  <2>2. CASE i # n
    BY <1>2, <1>3, <2>1, <2>2
  <2>3. CASE i = n
    <3>1. w[i] = [f EXCEPT !.buffer = Append(@, entry)]
      BY <1>2, <1>3, <2>3
    <3>2. w[i] = [disk |-> f.disk, buffer |-> Append(f.buffer, entry)]
      BY <2>1, <3>1 DEF FileOK
    <3>3. /\ IsSeq(Append(f.buffer, entry))
          /\ ToSet(Append(f.buffer, entry)) = ToSet(f.buffer) \cup {entry}
      BY <2>1, AppendIsSeq DEF FileOK
    <3>4. w[i].disk = f.disk /\ w[i].buffer = Append(f.buffer, entry)
      BY <3>2
    <3> HIDE DEF f
    <3>5. Held(w[i]) = Held(f) \cup {entry}
      BY <3>3, <3>4 DEF Held
    <3>6. FileOK(w[i])
      BY <2>1, <3>2, <3>3, <3>4 DEF FileOK
    <3> QED BY <2>1, <3>5, <3>6
  <2> QED BY <2>2, <2>3
<1> QED BY <1>4, <1>5, <1>6 DEF Holds, w

(* The log stays covered when the entries it gains are, and what the last  *)
(* completed snapshot covers is still covered.                             *)
LEMMA LogKeeps ==
  ASSUME LogInv, NEW E, Holds(files', E),
         ~lapsed' => /\ ~lapsed
                     /\ \A e : Covered(e, newest) => Covered(e, newest')
                     /\ \A e \in E : Covered(e, newest')
  PROVE  LogInv'
BY DEF LogInv, FilesOK, LogCovered, Holds

(* Files that stay as they are hold nothing new. *)
LEMMA SameFilesHold == ASSUME FilesOK PROVE Holds(files, {})
BY DEF Holds, FilesOK

(* A crash, or a flush, per file. *)
LEMMA EachFileHolds ==
  ASSUME NEW all, NEW E, Holds(all, E), NEW g,
         g = [i \in DOMAIN all |-> g[i]],
         \A i \in DOMAIN all : FileOK(g[i]) /\ Held(g[i]) \subseteq Held(all[i])
  PROVE  Holds(g, E)
<1>1. Len(all) \in Nat /\ DOMAIN all = 1 .. Len(all)
  BY SeqIsFunction DEF Holds
<1>2. IsSeq(g)
  BY <1>1, FunctionIsSeq
<1> QED BY <1>2 DEF Holds

(* A crash empties the buffers: what is left of the log was there before. *)
LEMMA CrashHolds ==
  ASSUME FilesOK, files' = BuffersLost
  PROVE  Holds(files', {})
<1>1. \A i \in DOMAIN files : FileOK(files'[i]) /\ Held(files'[i]) \subseteq Held(files[i])
  <2> SUFFICES ASSUME NEW i \in DOMAIN files
               PROVE  FileOK(files'[i]) /\ Held(files'[i]) \subseteq Held(files[i])
    OBVIOUS
  <2>1. FileOK(files[i])
    BY DEF FilesOK
  <2>2. files'[i] = [disk |-> files[i].disk, buffer |-> <<>>]
    BY DEF BuffersLost
  <2>3. IsSeq(<<>>) /\ ToSet(<<>>) = {}
    BY DEF IsSeq, ToSet
  <2> QED BY <2>1, <2>2, <2>3 DEF FileOK, Held
<1>2. files' = [i \in DOMAIN files |-> files'[i]]
  BY DEF BuffersLost
<1> QED BY <1>1, <1>2, SameFilesHold, EachFileHolds

-----------------------------------------------------------------------------
(* What a step does to the last completed snapshot: its file is written    *)
(* from the present state, or it stays as it is or is lost.                *)
Written ==
  /\ newest' # Files!NoName /\ newest'.version = version
  /\ disk' \ torn' \subseteq (disk \ torn) \cup {newest'}
  /\ newest' \in disk' \ torn' => contents'[newest'] = entities
NotWritten ==
  /\ UNCHANGED newest
  /\ disk' \ torn' \subseteq disk \ torn
  /\ newest \in disk' \ torn' => contents'[newest] = contents[newest]

(* The numbers in the names. *)
LEMMA DirFacts ==
  ASSUME FP!FilesInv
  PROVE  /\ version \in Nat
         /\ \A f \in disk : f.version \in Nat
         /\ newest # Files!NoName => newest.version \in Nat
         /\ newest = Files!NoName => disk \ torn = {}
<1>1. FP!FilesTypeOK /\ FP!NewestState
  BY DEF FP!FilesInv
<1>2. \A f \in FP!Names : f.version \in Nat
  BY DEF FP!Names
<1>3. version \in Nat /\ disk \subseteq FP!Names /\ newest \in FP!Names \cup {Files!NoName}
  BY <1>1, SameNames DEF FP!FilesTypeOK
<1>4. newest = Files!NoName => disk \ torn = {}
  BY <1>1, SameNames DEF FP!NewestState
<1> QED BY <1>2, <1>3, <1>4

(* writeFileSync succeeded, and n entries have been pruned. *)
LEMMA WriteFacts ==
  ASSUME FP!FilesInv, CacheCoherent, NEW n,
         Files!MakeSnapshot, Files!WriteAndPrune(n), FileWritten
  PROVE  Written
<1>1. /\ Files!NextName # Files!NoName
      /\ Files!NextName.version = version
  <2>1. FP!MakeSnapshot
    BY SameNames DEF Files!MakeSnapshot, FP!MakeSnapshot
  <2>2. {1} \subseteq Nat \ {0}
    OBVIOUS
  <2>3. FP!NextName # FP!NoName /\ FP!NextName.version = version
    BY <2>1, <2>2, FP!SnapshotName, KeepAssumption, NumeralAssumption
  <2> QED BY <2>3, SameNames
<1>2. /\ newest' = Files!NextName
      /\ disk' \ torn' \subseteq (disk \ torn) \cup {Files!NextName}
  BY DEF Files!WriteAndPrune
<1>3. CurrentSnapshot.entities = entities
  BY DEF CurrentSnapshot, CacheCoherent, Snapshot
<1>4. newest' \in disk' \ torn' => contents'[newest'] = entities
  BY <1>2, <1>3 DEF FileWritten
<1> QED BY <1>1, <1>2, <1>4 DEF Written

(* No file is written, or only a part of it. *)
LEMMA NoWriteFacts ==
  ASSUME FileNotWritten,
         \/ Files!SpoilNext
         \/ UNCHANGED <<newest, disk, torn>>
  PROVE  NotWritten
BY DEF FileNotWritten, Files!SpoilNext, NotWritten

(* While the global version is not behind the last snapshot, one of the    *)
(* present version covers what that one covered.                           *)
LEMMA NewerCovers ==
  ASSUME FP!FilesInv, NewestBehind, phase # "down", ~lapsed,
         newest' # Files!NoName, newest'.version = version
  PROVE  \A e : Covered(e, newest) => Covered(e, newest')
<1>1. newest # Files!NoName => newest.version \in Nat /\ newest.version <= version
  BY DirFacts DEF NewestBehind
<1> QED BY <1>1, DirFacts DEF Covered

-----------------------------------------------------------------------------
(* The first start finds no files. *)
LEMMA PersistInitInv == PersistInit => PersistInv
<1> SUFFICES ASSUME PersistInit PROVE PersistInv
  OBVIOUS
<1>1. IsSeq(<<>>) /\ DOMAIN <<>> = {}
  BY DEF IsSeq, ToSet
<1>2. FP!FilesInv
  <2>1. FP!FilesInit
    BY SameActions DEF PersistInit
  <2>2. {1} \subseteq Nat \ {0}
    OBVIOUS
  <2> QED BY <2>1, <2>2, FP!FilesInitInv, KeepAssumption, NumeralAssumption
<1>3. /\ phase = "down" /\ cache = NoSnapshot /\ files = <<>> /\ expected = Unknown
  BY DEF PersistInit, Init
<1>4. StoreInv
  BY <1>3 DEF StoreInv, CacheCoherent, NewestBehind, VersionBeyondSnapshot, ExpectedHeld, Unknown
<1>5. LogInv
  BY <1>1, <1>3 DEF LogInv, FilesOK, LogCovered
<1> QED BY <1>2, <1>4, <1>5 DEF PersistInv

(* A snapshot is completed while the process goes on: the checkpoint that  *)
(* is logged, if it is, has the snapshot's version.                        *)
LEMMA WrittenKeeps ==
  ASSUME PersistInv, phase # "down", phase' \in {"running", "closing"},
         CreateSnapshot, Written, UNCHANGED lapsed,
         \/ UNCHANGED expected
         \/ expected' = Known(DOMAIN entities),
         \/ UNCHANGED files
         \/ \E seq : files' = WithEntry(CheckpointEntry(seq, version))
  PROVE  StoreInv' /\ LogInv'
<1>1. CacheCoherent /\ NewestBehind /\ VersionBeyondSnapshot /\ ExpectedHeld
      /\ FP!FilesInv /\ LogInv /\ FilesOK
  BY DEF PersistInv, StoreInv, LogInv
<1>2. version \in Nat /\ UNCHANGED <<version, entities>>
  BY <1>1, DirFacts DEF CreateSnapshot
<1>3. CacheCoherent'
  BY <1>1, <1>2 DEF CreateSnapshot, CacheCoherent, CurrentSnapshot, Cached
<1>4. NewestBehind' /\ VersionBeyondSnapshot'
  BY <1>1, <1>2 DEF Written, NewestBehind, VersionBeyondSnapshot
<1>5. ExpectedHeld'
  BY <1>1, <1>2 DEF Written, ExpectedHeld, Known
<1>6. ~lapsed' => ~lapsed /\ \A e : Covered(e, newest) => Covered(e, newest')
  BY <1>1, NewerCovers DEF Written
<1>7. LogInv'
  <2>1. CASE UNCHANGED files
    <3>1. Holds(files', {})
      BY <1>1, <2>1, SameFilesHold
    <3> QED BY <1>1, <1>6, <3>1, LogKeeps
  <2>2. ASSUME NEW seq, files' = WithEntry(CheckpointEntry(seq, version)) PROVE LogInv'
    <3>1. Holds(files', {CheckpointEntry(seq, version)})
      BY <1>1, <2>2, WithEntryHolds
    <3>2. Covered(CheckpointEntry(seq, version), newest')
      BY <1>2 DEF Written, Covered, CheckpointEntry
    <3> QED BY <1>1, <1>6, <3>1, <3>2, LogKeeps
  <2> QED BY <2>1, <2>2
<1> QED BY <1>3, <1>4, <1>5, <1>7 DEF StoreInv

(* No snapshot is completed, and the process goes on. *)
LEMMA NotWrittenKeeps ==
  ASSUME PersistInv, phase # "down", phase' \in {"replaying", "running", "closing"},
         CacheCoherent', NotWritten, UNCHANGED lapsed,
         \/ UNCHANGED version
         \/ version' = version + 1,
         \/ expected' = Unknown
         \/ UNCHANGED expected /\ DOMAIN entities' = DOMAIN entities,
         NEW E, Holds(files', E), \A e \in E : e.type # "checkpoint"
  PROVE  StoreInv' /\ LogInv'
<1>1. NewestBehind /\ VersionBeyondSnapshot /\ ExpectedHeld /\ FP!FilesInv /\ LogInv
  BY DEF PersistInv, StoreInv
<1>2. /\ version \in Nat /\ \A f \in disk : f.version \in Nat
      /\ newest # Files!NoName => newest.version \in Nat
  BY <1>1, DirFacts
<1>3. NewestBehind'
  BY <1>1, <1>2 DEF NotWritten, NewestBehind
<1>4. VersionBeyondSnapshot'
  BY <1>1, <1>2 DEF NotWritten, VersionBeyondSnapshot
<1>5. ExpectedHeld'
  BY <1>1 DEF NotWritten, ExpectedHeld, Unknown
<1>6. /\ \A e : Covered(e, newest) => Covered(e, newest')
      /\ \A e \in E : Covered(e, newest')
  BY DEF NotWritten, Covered
<1>7. LogInv'
  BY <1>1, <1>6, LogKeeps
<1> QED BY <1>3, <1>4, <1>5, <1>7 DEF StoreInv

(* The process ends, with or without a snapshot completed on the way; only *)
(* what was on disk is left of the log.                                    *)
LEMMA MemoryLostKeeps ==
  ASSUME PersistInv, phase # "down", MemoryLost,
         \/ Written /\ expected' = Unknown
         \/ NotWritten /\ (expected' = Unknown \/ UNCHANGED expected)
  PROVE  StoreInv' /\ LogInv'
<1>1. NewestBehind /\ ExpectedHeld /\ FP!FilesInv /\ LogInv /\ FilesOK
  BY DEF PersistInv, StoreInv, LogInv
<1>2. phase' = "down" /\ cache' = NoSnapshot /\ files' = BuffersLost /\ UNCHANGED lapsed
  BY DEF MemoryLost
<1>3. CacheCoherent' /\ NewestBehind' /\ VersionBeyondSnapshot'
  BY <1>2 DEF CacheCoherent, NewestBehind, VersionBeyondSnapshot
<1>4. ExpectedHeld'
  BY <1>1, <1>2 DEF Written, NotWritten, ExpectedHeld, Unknown
<1>5. ~lapsed' => ~lapsed /\ \A e : Covered(e, newest) => Covered(e, newest')
  <2>1. CASE Written
    BY <1>1, <1>2, <2>1, NewerCovers DEF Written
  <2>2. CASE NotWritten
    BY <1>2, <2>2 DEF NotWritten
  <2> QED BY <2>1, <2>2
<1>6. LogInv'
  BY <1>1, <1>2, <1>5, CrashHolds, LogKeeps
<1> QED BY <1>2, <1>3, <1>4, <1>6 DEF StoreInv

(* A directory in order: the last completed snapshot is on disk, readable, *)
(* and its version the greatest, and a start loads it.                     *)
LEMMA StartLoads ==
  ASSUME PersistInv, Start, InOrder, newest # Files!NoName
  PROVE  /\ newest \in disk \ torn
         /\ version' = newest.version /\ entities' = contents[newest]
         /\ \A f \in disk : f.version <= newest.version
<1>1. /\ FP!FilesInv /\ FP!Start /\ FP!SameDigits
      /\ newest # FP!NoName /\ torn = {} /\ repeats <= MaxSnapshots
  BY SameNames, SameOrder, SameActions DEF PersistInv, Start, InOrder
<1>2. newest \in disk
  BY <1>1 DEF FP!FilesInv, FP!NewestState
<1>3. Last(index') = newest
  <2>1. {1} \subseteq Nat \ {0}
    OBVIOUS
  <2>2. FP!Last(index') = newest
    BY <1>1, <2>1, FP!StartLoadsNewest, KeepAssumption, NumeralAssumption
  <2> QED BY <2>2 DEF Last, FP!Last
<1>4. LatestLoaded
  BY <1>1, <1>2, <1>3 DEF LatestLoaded
<1>5. version' = newest.version /\ entities' = contents[newest]
  BY <1>3, <1>4 DEF Start, LoadSnapshot, Snapshot
<1>6. \A f \in disk : f.version <= newest.version
  <2>1. \A f \in disk : f = newest \/ FP!Before(f, newest)
    BY <1>1 DEF FP!FilesInv, FP!NewestGreatest
  <2>2. \A f \in disk : f.version \in Nat
    BY <1>1, DirFacts
  <2> QED BY <1>2, <2>1, <2>2 DEF FP!Before
<1> QED BY <1>1, <1>2, <1>5, <1>6

(* start.                                                                  *)
LEMMA StartKeeps == ASSUME PersistInv, Start PROVE StoreInv' /\ LogInv'
<1>1. CacheCoherent /\ ExpectedHeld /\ FP!FilesInv /\ LogInv /\ FilesOK
  BY DEF PersistInv, StoreInv, LogInv
<1>2. /\ phase' = "replaying" /\ files' = Append(files, EmptyFile)
      /\ expected' = IF InOrder THEN expected ELSE Unknown
      /\ lapsed' = (lapsed \/ ~InOrder)
      /\ UNCHANGED <<disk, torn, newest, contents>>
  BY DEF Start, Files!Start
<1>3. CacheCoherent'
  BY <1>1 DEF Start, LoadSnapshot, smVars, CacheCoherent
<1>4. newest = Files!NoName => disk \ torn = {}
  BY <1>1, DirFacts
<1>5. (InOrder /\ newest # Files!NoName) =>
        /\ newest \in disk \ torn
        /\ version' = newest.version /\ entities' = contents[newest]
        /\ \A f \in disk : f.version <= newest.version
  BY StartLoads
<1>6. NewestBehind'
  <2>1. newest # Files!NoName => newest.version \in Nat
    BY <1>1, DirFacts
  <2> QED BY <1>2, <1>5, <2>1 DEF NewestBehind
<1>7. VersionBeyondSnapshot'
  BY <1>2, <1>4, <1>5 DEF VersionBeyondSnapshot
<1>8. ExpectedHeld'
  BY <1>1, <1>2, <1>5 DEF ExpectedHeld, Unknown
<1>9. LogInv'
  <2>1. Holds(files', {})
    BY <1>1, <1>2, NewFileHolds
  <2>2. ~lapsed' => ~lapsed /\ \A e : Covered(e, newest) => Covered(e, newest')
    BY <1>2
  <2> QED BY <1>1, <2>1, <2>2, LogKeeps
<1> QED BY <1>2, <1>3, <1>6, <1>7, <1>8, <1>9 DEF StoreInv

(* updateEntity neither adds nor removes an entity. *)
LEMMA UpdateFacts ==
  ASSUME NEW id, NEW ops, UpdateEntity(id, ops)
  PROVE  /\ DOMAIN entities' = DOMAIN entities /\ version' = version + 1
         /\ cache' = NoSnapshot
BY DEF UpdateEntity, Write

(* A change of the store, served to a client or replayed, logged or not:   *)
(* it raises the global version and leaves the snapshots alone.            *)
LEMMA ChangeKeeps ==
  ASSUME PersistInv, phase # "down", UNCHANGED phase, Changed,
         version' = version + 1, cache' = NoSnapshot,
         \/ expected' = Unknown
         \/ UNCHANGED expected /\ DOMAIN entities' = DOMAIN entities,
         \/ UNCHANGED files
         \/ \E seq, id, ops, v : files' = WithEntry(DeltaEntry(seq, id, ops, v))
  PROVE  StoreInv' /\ LogInv'
<1>1. FilesOK /\ phase' \in {"replaying", "running", "closing"}
  BY DEF PersistInv, StoreInv, LogInv
<1>2. NotWritten /\ UNCHANGED lapsed
  BY DEF Changed, Files!Change, NotWritten
<1>3. CacheCoherent'
  BY DEF CacheCoherent
<1>4. CASE UNCHANGED files
  <2>1. Holds(files', {})
    BY <1>1, <1>4, SameFilesHold
  <2> QED BY <1>1, <1>2, <1>3, <2>1, NotWrittenKeeps
<1>5. ASSUME NEW seq, NEW id, NEW ops, NEW v, files' = WithEntry(DeltaEntry(seq, id, ops, v))
      PROVE  StoreInv' /\ LogInv'
  <2>1. Holds(files', {DeltaEntry(seq, id, ops, v)})
    BY <1>1, <1>5, WithEntryHolds
  <2>2. DeltaEntry(seq, id, ops, v).type # "checkpoint"
    BY DEF DeltaEntry
  <2> QED BY <1>1, <1>2, <1>3, <2>1, <2>2, NotWrittenKeeps
<1> QED BY <1>4, <1>5

(* Steps that change neither the store nor the snapshots; an entry may     *)
(* reach the disk.                                                         *)
LEMMA IdleKeeps ==
  ASSUME PersistInv, phase # "down", phase' \in {"replaying", "running", "closing"},
         UNCHANGED <<smVars, expected, lapsed, dirVars>>,
         Holds(files', {})
  PROVE  StoreInv' /\ LogInv'
<1>1. NotWritten /\ UNCHANGED <<version, entities, expected, lapsed>>
  BY DEF NotWritten, smVars, dirVars
<1>2. CacheCoherent'
  BY DEF PersistInv, StoreInv, CacheCoherent, smVars
<1> QED BY <1>1, <1>2, NotWrittenKeeps

(* A buffered entry reaches the disk. *)
LEMMA WriteOutHolds ==
  ASSUME FilesOK, NEW i \in DOMAIN files, WriteOut(i)
  PROVE  Holds(files', {})
<1> DEFINE f == files[i]
           g == [disk |-> Append(f.disk, Head(f.buffer)), buffer |-> Tail(f.buffer)]
<1>1. f.buffer # <<>> /\ files' = [files EXCEPT ![i] = g]
  BY DEF WriteOut
<1>2. FileOK(f)
  BY DEF FilesOK
<1>3. FileOK(g) /\ Held(g) \subseteq Held(f)
  <2>1. /\ IsSeq(g.disk) /\ ToSet(g.disk) = ToSet(f.disk) \cup {Head(f.buffer)}
        /\ IsSeq(g.buffer) /\ ToSet(g.buffer) \subseteq ToSet(f.buffer)
        /\ Head(f.buffer) \in ToSet(f.buffer)
    BY <1>1, <1>2, AppendIsSeq, TailIsSeq DEF FileOK
  <2> QED BY <2>1 DEF FileOK, Held
<1> HIDE DEF g
<1>4. files' = [j \in DOMAIN files |-> files'[j]]
  BY <1>1
<1>5. \A j \in DOMAIN files : FileOK(files'[j]) /\ Held(files'[j]) \subseteq Held(files[j])
  BY <1>1, <1>3 DEF FilesOK
<1> QED BY <1>4, <1>5, SameFilesHold, EachFileHolds

(* Snapshots while the process goes on: from the timer, from the API, and  *)
(* the last one in stop.                                                   *)
LEMMA RunningSnapshotKeeps ==
  ASSUME PersistInv, PeriodicSnapshot \/ Stop
  PROVE  StoreInv' /\ LogInv'
<1>1. /\ FP!FilesInv /\ CacheCoherent /\ FilesOK
      /\ phase # "down" /\ phase' \in {"running", "closing"}
      /\ UNCHANGED lapsed
  BY DEF PersistInv, StoreInv, LogInv, PeriodicSnapshot, Stop, Serving
<1>2. CurrentSnapshot.version = version
  BY <1>1 DEF CurrentSnapshot, CacheCoherent, Snapshot
<1>3. ASSUME CreateSnapshot, Files!TakeSnapshot, FileWritten,
             \/ UNCHANGED expected
             \/ expected' = Known(DOMAIN entities),
             \/ UNCHANGED files
             \/ \E seq : files' = WithEntry(CheckpointEntry(seq, version))
      PROVE  StoreInv' /\ LogInv'
  <2>1. Written
    BY <1>1, <1>3, WriteFacts DEF Files!TakeSnapshot
  <2> QED BY <1>1, <1>3, <2>1, WrittenKeeps
<1>4. ASSUME NoCheckpoint, expected' = Unknown \/ UNCHANGED expected
      PROVE  StoreInv' /\ LogInv'
  <2>1. NotWritten
    BY <1>4, NoWriteFacts DEF NoCheckpoint, Files!SnapshotFails, Files!SnapshotOnly
  <2>2. CreateSnapshot /\ UNCHANGED <<version, entities, files>>
    BY <1>4 DEF NoCheckpoint, CreateSnapshot
  <2>3. CacheCoherent'
    BY <1>1, <2>2 DEF CreateSnapshot, CacheCoherent, CurrentSnapshot, Cached
  <2>4. Holds(files', {})
    BY <1>1, <2>2, SameFilesHold
  <2> QED BY <1>1, <1>4, <2>1, <2>2, <2>3, <2>4, NotWrittenKeeps
<1>5. CASE PeriodicSnapshot
  <2>1. CASE SnapshotAndCheckpoint
    <3>1. UNCHANGED files \/ files' = WithEntry(CheckpointEntry(sequence + 1, version))
      BY <1>2, <2>1 DEF SnapshotAndCheckpoint, AppendEntry
    <3> QED BY <1>3, <1>5, <2>1, <3>1 DEF PeriodicSnapshot, SnapshotAndCheckpoint
  <2> QED BY <1>4, <1>5, <2>1 DEF PeriodicSnapshot
<1>6. CASE Stop
  <2>1. CASE NoCheckpoint /\ expected' = Unknown
    BY <1>4, <2>1
  <2>2. CASE /\ CreateSnapshot /\ Files!TakeSnapshot /\ FileWritten
             /\ files' = WithEntry(CheckpointEntry(sequence + 1, CurrentSnapshot.version))
             /\ expected' = Known(DOMAIN entities)
    BY <1>2, <1>3, <2>2
  <2> QED BY <1>6, <2>1, <2>2 DEF Stop
<1> QED BY <1>5, <1>6

(* The process ends: killed at any time, killed inside takeSnapshot, or    *)
(* after a clean stop.                                                     *)
LEMMA EndKeeps ==
  ASSUME PersistInv, Crash \/ CrashInSnapshot \/ Exit
  PROVE  StoreInv' /\ LogInv'
<1>1. /\ FP!FilesInv /\ CacheCoherent /\ phase # "down" /\ MemoryLost
  BY DEF PersistInv, StoreInv, Crash, CrashInSnapshot, Exit, Serving
<1>2. CASE Crash \/ Exit
  <2>1. NotWritten /\ (expected' = Unknown \/ UNCHANGED expected)
    BY <1>2 DEF Crash, Exit, Files!Crash, NotWritten
  <2> QED BY <1>1, <2>1, MemoryLostKeeps
<1>3. ASSUME CrashInSnapshot PROVE StoreInv' /\ LogInv'
  <2>1. expected' = Unknown
    BY <1>3 DEF CrashInSnapshot
  <2>2. CASE Files!CrashInWrite /\ FileNotWritten
    <3>1. NotWritten
      BY <2>2, NoWriteFacts DEF Files!CrashInWrite
    <3> QED BY <1>1, <2>1, <3>1, MemoryLostKeeps
  <2>3. ASSUME NEW n \in 0 .. Files!Excess, Files!CrashAfterWrite(n), FileWritten
        PROVE  StoreInv' /\ LogInv'
    <3>1. Written
      BY <1>1, <2>3, WriteFacts DEF Files!CrashAfterWrite
    <3> QED BY <1>1, <2>1, <3>1, MemoryLostKeeps
  <2> QED BY <1>3, <2>2, <2>3 DEF CrashInSnapshot
<1> QED BY <1>2, <1>3

(* Every step of the process keeps the invariant. *)
LEMMA PersistNextInv == PersistInv /\ [PersistNext]_persistVars => PersistInv'
<1> SUFFICES ASSUME PersistInv, [PersistNext]_persistVars PROVE PersistInv'
  OBVIOUS
<1> SUFFICES StoreInv' /\ LogInv'
  <2>1. FP!FilesInv'
    BY DirKept DEF PersistInv
  <2> QED BY <2>1 DEF PersistInv
<1>1. ASSUME NEW id \in EntityIds, NEW data \in InitialData, Create(id, data)
      PROVE  StoreInv' /\ LogInv'
  BY <1>1, ChangeKeeps DEF Create, CreateEntity, Serving, logVars
<1>2. ASSUME NEW id \in EntityIds, NEW ops \in OpLists, Update(id, ops)
      PROVE  StoreInv' /\ LogInv'
  BY <1>2, UpdateFacts, ChangeKeeps DEF Update, AppendEntry, logVars
<1>3. ASSUME NEW id \in EntityIds, Delete(id) PROVE StoreInv' /\ LogInv'
  BY <1>3, ChangeKeeps DEF Delete, DeleteEntity, Serving, logVars
<1>4. ASSUME PeriodicSnapshot \/ Stop PROVE StoreInv' /\ LogInv'
  BY <1>4, RunningSnapshotKeeps
<1>5. ASSUME NEW i \in DOMAIN files, WriteOut(i) PROVE StoreInv' /\ LogInv'
  <2>1. Holds(files', {})
    BY <1>5, WriteOutHolds DEF PersistInv, LogInv
  <2> QED BY <1>5, <2>1, IdleKeeps DEF WriteOut, PersistInv, StoreInv
<1>6. ASSUME Crash \/ CrashInSnapshot \/ Exit PROVE StoreInv' /\ LogInv'
  BY <1>6, EndKeeps
<1>7. ASSUME Start PROVE StoreInv' /\ LogInv'
  BY <1>7, StartKeeps
<1>8. Holds(files, {})
  BY SameFilesHold DEF PersistInv, LogInv
<1>9. ASSUME ReplayEntry PROVE StoreInv' /\ LogInv'
  <2> DEFINE e == Head(replay)
  <2>1. phase = "replaying" /\ UNCHANGED <<phase, expected>>
    BY <1>9 DEF ReplayEntry
  <2>2. CASE /\ UpdateEntity(e.entityId, e.operations)
             /\ AppendEntry(DeltaEntry(sequence + 1, e.entityId, e.operations, version + 1))
             /\ Changed
    BY <2>1, <2>2, UpdateFacts, ChangeKeeps DEF AppendEntry
  <2>3. CASE UNCHANGED <<smVars, logVars, lapsed, dirVars>>
    BY <1>8, <2>1, <2>3, IdleKeeps DEF logVars
  <2> QED BY <1>9, <2>2, <2>3 DEF ReplayEntry
<1>10. ASSUME Recovered PROVE StoreInv' /\ LogInv'
  BY <1>8, <1>10, IdleKeeps DEF Recovered, logVars
<1>11. ASSUME UNCHANGED persistVars PROVE StoreInv' /\ LogInv'
  <2>1. UNCHANGED <<entities, version, cache, phase, files, expected, lapsed,
                    disk, torn, newest, contents>>
    BY <1>11 DEF persistVars, smVars, logVars, dirVars
  <2>2. StoreInv'
    BY <2>1 DEF PersistInv, StoreInv, CacheCoherent, NewestBehind, VersionBeyondSnapshot, ExpectedHeld
  <2>3. LogInv'
    BY <2>1 DEF PersistInv, LogInv, FilesOK, LogCovered
  <2> QED BY <2>2, <2>3
<1> QED
  BY <1>1, <1>2, <1>3, <1>4, <1>5, <1>6, <1>7, <1>9, <1>10, <1>11 DEF PersistNext

(* The inductive invariant holds in every reachable state, through any     *)
(* number of crashes and restarts.                                         *)
THEOREM PersistInvariance == PersistSpec => []PersistInv
  BY PersistInitInv, PersistNextInv, PTL DEF PersistSpec

(* Whatever crashes, a checkpoint in a log file has a readable snapshot on *)
(* disk that is at least as new, as long as no start found the directory   *)
(* out of order, no failed write spoiled the last completed snapshot, and  *)
(* it was not completed more than maxSnapshots times in a row.             *)
THEOREM CheckpointsCovered == PersistSpec => []CheckpointCovered
<1>1. PersistInv => CheckpointCovered
  <2> SUFFICES ASSUME PersistInv, ~lapsed, ~spoiled, repeats <= MaxSnapshots,
                      NEW i \in DOMAIN files, NEW e \in ToSet(files[i].disk),
                      e.type = "checkpoint"
               PROVE  \E f \in disk \ torn : f.version >= e.stateVersion
    BY DEF CheckpointCovered
  <2>1. FP!FilesInv /\ FP!NewestState /\ LogCovered
    BY DEF PersistInv, FP!FilesInv, LogInv
  <2>2. e.stateVersion \in Nat /\ newest # Files!NoName /\ e.stateVersion <= newest.version
    BY <2>1 DEF LogCovered, Held, Covered
  <2>3. newest \in disk \ torn
    BY <2>1, <2>2, SameNames DEF FP!NewestState
  <2>4. newest.version \in Nat
    BY <2>1, <2>2, DirFacts
  <2>5. newest.version >= e.stateVersion
    BY <2>2, <2>4
  <2> QED BY <2>3, <2>5
<1> QED BY <1>1, PersistInvariance, PTL

(* A clean shutdown whose last snapshot was completed, and a restart with  *)
(* the directory in order, keep exactly the entities there were, whatever  *)
(* is replayed.                                                            *)
THEOREM RestartKeepsEntities == PersistSpec => []CleanRestartKeepsEntities
<1>1. PersistInv => CleanRestartKeepsEntities
  BY DEF PersistInv, StoreInv, ExpectedHeld, CleanRestartKeepsEntities
<1> QED BY <1>1, PersistInvariance, PTL

(* While every start finds the directory in order, the global version of a *)
(* running process is never behind a readable snapshot on disk.            *)
THEOREM VersionsGrow == PersistSpec => []VersionBeyondSnapshot
<1>1. PersistInv => VersionBeyondSnapshot
  BY DEF PersistInv, StoreInv
<1> QED BY <1>1, PersistInvariance, PTL

=============================================================================
