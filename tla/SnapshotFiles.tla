--------------------------- MODULE SnapshotFiles ----------------------------
(***************************************************************************)
(* SnapshotManager's files: naming, the in-memory index, pruning, and what *)
(* a restart finds, with failed and interrupted writes.                    *)
(*                                                                         *)
(* A snapshot is known by its name, its version and the time it was made;  *)
(* "torn" are the files whose content does not parse.  Three history       *)
(* variables: "newest" is the last snapshot completed; "repeats" counts    *)
(* how many times in a row it was, which happens while the state does not  *)
(* change and createSnapshot returns its cached snapshot; and "spoiled"    *)
(* says that a later write to its file failed or was cut short.            *)
(***************************************************************************)
EXTENDS Integers, Sequences, SequencesExt

CONSTANTS
  MaxSnapshots,  \* maxSnapshots
  Base,          \* of the numerals in file names: 10
  Bursts,        \* how many state changes may happen in a row
  MaxVersion,    \* bound on the version
  MaxClock       \* bound on the snapshots made

ASSUME SnapshotsAssumption == MaxSnapshots \in Nat \ {0}
ASSUME BurstAssumption == Bursts \subseteq Nat \ {0}
ASSUME BaseAssumption == Base \in Nat /\ Base >= 2

VARIABLES
  up,         \* whether the process runs
  version,    \* StateManager's version
  cached,     \* the name of the cached snapshot, or NoName
  clock,      \* Date.now(), advancing between snapshots
  disk,       \* the names in the snapshot directory
  torn,       \* those whose content is damaged
  index,      \* the snapshots array
  newest,
  repeats,
  spoiled

fileVars == <<up, version, cached, clock, disk, torn, index, newest, repeats, spoiled>>

Name(v, t) == [version |-> v, timestamp |-> t]
NoName     == Name(-1, -1)

(* The digits of a number, and the order of strings. *)
Digits[n \in Nat] == IF n < Base THEN <<n>> ELSE Append(Digits[n \div Base], n % Base)
StringBefore(s, t) ==
  \/ IsStrictPrefix(s, t)
  \/ \E k \in 1 .. Len(s) : /\ k <= Len(t)
                            /\ SubSeq(s, 1, k - 1) = SubSeq(t, 1, k - 1)
                            /\ s[k] < t[k]

(* Faulty: sorted the other way round. *)
FileNameAfter(a, b) ==
  \/ StringBefore(Digits[b.version], Digits[a.version])
  \/ a.version = b.version /\ a.timestamp > b.timestamp

(* "snapshot-<version>-<timestamp>.json": '-' sorts before every digit and *)
(* all timestamps have the same number of digits.                          *)
FileNameBefore(a, b) ==
  \/ StringBefore(Digits[a.version], Digits[b.version])
  \/ a.version = b.version /\ a.timestamp < b.timestamp

FilesInit ==
  /\ up = FALSE
  /\ version = 0 /\ cached = NoName /\ clock = 0
  /\ disk = {} /\ torn = {} /\ index = <<>>
  /\ newest = NoName /\ repeats = 0 /\ spoiled = FALSE

(* The one list of all files of a directory in the order of their names.   *)
Sorted(files) ==
  {s \in Bijection(1 .. Cardinality(files), files) :
     \A i, j \in DOMAIN s : i < j => FileNameBefore(s[i], s[j])}

(* loadSnapshotIndex, then loadLatestSnapshot: the last name in sorted     *)
(* order; when that file does not parse, nothing is loaded.                *)
Start ==
  /\ ~up
  /\ up' = TRUE
  /\ index' \in Sorted(disk)
  /\ version' = IF disk = {} \/ Last(index') \in torn THEN 0 ELSE Last(index').version
  /\ UNCHANGED <<cached, clock, disk, torn, newest, repeats, spoiled>>

(* Creations, updates and deletions, from clients or from the log. *)
Change(k) ==
  /\ up
  /\ version + k <= MaxVersion
  /\ version' = version + k
  /\ cached' = NoName
  /\ UNCHANGED <<up, clock, disk, torn, index, newest, repeats, spoiled>>

(* createSnapshot, by name: the cached snapshot's, or a new one. *)
NextName == IF cached # NoName THEN cached ELSE Name(version, clock)
TimeOfName == IF cached # NoName THEN clock ELSE clock + 1
MakeSnapshot ==
  /\ up
  /\ TimeOfName <= MaxClock
  /\ clock' = TimeOfName

(* Nothing is written: createSnapshot for a node or a client that asks for *)
(* the state, or a takeSnapshot whose writeFileSync cannot open the file.  *)
SnapshotOnly ==
  /\ MakeSnapshot
  /\ cached' = NextName
  /\ UNCHANGED <<up, version, disk, torn, index, newest, repeats, spoiled>>

(* writeFileSync throws half-way: takeSnapshot returns null. *)
SpoilNext ==
  /\ disk' = disk \cup {NextName}
  /\ torn' = torn \cup {NextName}
  /\ spoiled' = (spoiled \/ NextName = newest)
  /\ UNCHANGED <<newest, repeats>>
SnapshotFails ==
  /\ MakeSnapshot
  /\ cached' = NextName
  /\ SpoilNext
  /\ UNCHANGED <<up, version, index>>

(* The index after the push, how many entries pruneOldSnapshots shifts,    *)
(* and how often in a row the snapshot has then been completed, counted up *)
(* to one more than maxSnapshots.                                          *)
Pushed == Append(index, NextName)
Excess == IF Len(Pushed) > MaxSnapshots THEN Len(Pushed) - MaxSnapshots ELSE 0
Repeats ==
  IF NextName # newest THEN 1
  ELSE IF repeats <= MaxSnapshots THEN repeats + 1 ELSE repeats

(* The file is written, and the files of the first n entries unlinked. *)
WriteAndPrune(n) ==
  LET pruned == ToSet(SubSeq(Pushed, 1, n))
  IN  /\ disk' = (disk \cup {NextName}) \ pruned
      /\ torn' = torn \ ({NextName} \cup pruned)
      /\ newest' = NextName
      /\ spoiled' = FALSE

(* Faulty: pop instead of shift. *)
TakeSnapshotPrunesNewest ==
  /\ MakeSnapshot /\ cached' = NextName
  /\ LET kept   == SubSeq(Pushed, 1, Len(Pushed) - Excess)
         pruned == ToSet(SubSeq(Pushed, Len(kept) + 1, Len(Pushed)))
     IN  /\ index' = kept
         /\ disk' = (disk \cup {NextName}) \ pruned
         /\ torn' = torn \ ({NextName} \cup pruned)
  /\ newest' = NextName /\ spoiled' = FALSE /\ repeats' = Repeats
  /\ UNCHANGED <<up, version>>

(* takeSnapshot: writeFileSync, push, pruneOldSnapshots. *)
TakeSnapshot ==
  /\ MakeSnapshot
  /\ cached' = NextName
  /\ WriteAndPrune(Excess)
  /\ index' = SubSeq(Pushed, Excess + 1, Len(Pushed))
  /\ repeats' = Repeats
  /\ UNCHANGED <<up, version>>

Killed ==
  /\ up' = FALSE
  /\ version' = 0 /\ cached' = NoName /\ index' = <<>>

Crash ==
  /\ up
  /\ Killed
  /\ UNCHANGED <<clock, disk, torn, newest, repeats, spoiled>>

(* Killed inside writeFileSync: the file is there, but not all of it. *)
CrashInWrite ==
  /\ MakeSnapshot
  /\ SpoilNext
  /\ Killed

(* Killed after writeFileSync, when n entries have been pruned. *)
CrashAfterWrite(n) ==
  /\ MakeSnapshot
  /\ WriteAndPrune(n)
  /\ repeats' = IF n = Excess THEN Repeats ELSE 1
  /\ Killed

FilesNext ==
  \/ Start
  \/ \E k \in Bursts : Change(k)
  \/ SnapshotOnly
  \/ SnapshotFails
  \/ TakeSnapshot
  \/ Crash
  \/ CrashInWrite
  \/ \E n \in 0 .. Excess : CrashAfterWrite(n)

FilesSpec == FilesInit /\ [][FilesNext]_fileVars
-----------------------------------------------------------------------------
(* Pruning works from the front of the index, whose order a restart        *)
(* changes, and knows its entries by name only.  Still the last completed  *)
(* snapshot stays on disk and readable, with two exceptions, in both of    *)
(* which it does not: a later write to its file did not succeed, or an     *)
(* unchanged state made takeSnapshot complete it more than maxSnapshots    *)
(* times in a row, so that pruning unlinked the file just written.  And    *)
(* pruning bounds the directory: it holds no readable snapshot that the    *)
(* index of the running process does not know, only torn ones.             *)
NewestKept ==
  /\ newest # NoName =>
       (newest \in disk \ torn <=> ~spoiled /\ repeats <= MaxSnapshots)
  /\ up => (disk \ torn) \subseteq ToSet(index)

(* A restart loads the last completed snapshot when three things hold: all *)
(* versions on disk have equally many digits, no file is damaged, and the  *)
(* snapshot was not completed more than maxSnapshots times in a row.       *)
SameDigits ==
  \A a, b \in disk : Len(Digits[a.version]) = Len(Digits[b.version])
RestartLoadsNewest ==
  [][ (~up /\ up' /\ newest # NoName
         /\ SameDigits /\ torn = {} /\ repeats <= MaxSnapshots)
        => Last(index') = newest ]_fileVars

=============================================================================
