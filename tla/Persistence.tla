---------------------------- MODULE Persistence -----------------------------
(***************************************************************************)
(* WriteAheadLog and SnapshotManager around StateManager, through crashes  *)
(* and clean restarts of the process.                                      *)
(*                                                                         *)
(* The snapshot directory and its index are those of module SnapshotFiles: *)
(* every action here takes one of its actions.  "contents" are the         *)
(* entities in each readable file.  A log file is a write stream: append   *)
(* only buffers, and each file reaches the disk at its own pace; when the  *)
(* process ends, what is still buffered is lost.  Recovery runs            *)
(* synchronously inside start(): "replay" holds the log entries still to   *)
(* be applied.                                                             *)
(*                                                                         *)
(* Two history variables: "expected" are the ids of the entities a clean   *)
(* shutdown left, and "lapsed" says that a start found the directory other *)
(* than InOrder, and may have loaded an old snapshot or none.              *)
(***************************************************************************)
EXTENDS StateManager

CONSTANTS
  MaxSnapshots,    \* maxSnapshots
  Base,            \* of the numerals in file names: 10
  MaxClock,        \* bound on the snapshots made
  MaxFileEntries,  \* maxFileSize, in entries
  MaxFiles         \* bound on the log files written

ASSUME KeepAssumption == MaxSnapshots \in Nat \ {0}
ASSUME NumeralAssumption == Base \in Nat /\ Base >= 2
ASSUME FileBounds == MaxFileEntries \in Nat \ {0} /\ MaxFiles \in Nat \ {0}

VARIABLES
  phase,     \* "down", "replaying", "running", or "closing"
  sequence,  \* the log's sequence
  files,     \* the log files in the order of their names
  open,      \* whether the log has a writeStream
  replay,    \* the entries recoverState still has to go through
  contents,  \* of the readable snapshot files: name -> entities
  expected,
  lapsed,
  cached, clock, disk, torn, index, newest, repeats, spoiled

Files == INSTANCE SnapshotFiles WITH up <- (phase # "down"), Bursts <- {1}

logVars     == <<sequence, files, open>>
dirVars     == <<cached, clock, disk, torn, index, newest, repeats, spoiled, contents>>
persistVars == <<smVars, phase, logVars, replay, expected, lapsed, dirVars>>

EmptyFile == [disk |-> <<>>, buffer |-> <<>>]
Unknown   == [known |-> FALSE]
Known(ids) == [known |-> TRUE, ids |-> ids]

(* "stateVersion" is not in the file: it is the global version after the   *)
(* change, to compare an entry with a snapshot.                            *)
DeltaEntry(seq, id, ops, v) ==
  [sequence |-> seq, type |-> "delta", entityId |-> id, operations |-> ops,
   stateVersion |-> v]
CheckpointEntry(seq, v) ==
  [sequence |-> seq, type |-> "checkpoint", stateVersion |-> v]

PersistInit ==
  /\ Init
  /\ phase = "down"
  /\ sequence = 0 /\ files = <<>> /\ open = FALSE
  /\ replay = <<>>
  /\ contents = [f \in {} |-> 0]
  /\ expected = Unknown /\ lapsed = FALSE
  /\ Files!FilesInit

(* append: a full file is rotated first, which opens a stream even after   *)
(* wal.stop(); without a stream the entry is dropped.                      *)
FileIsFull(f) == Len(f.disk) + Len(f.buffer) >= MaxFileEntries
Rotated == IF FileIsFull(Last(files)) THEN Append(files, EmptyFile) ELSE files
WithEntry(entry) == [Rotated EXCEPT ![Len(Rotated)].buffer = Append(@, entry)]

MaxEntries == MaxFileEntries * MaxFiles  \* what the log files can hold
AppendEntry(entry) ==
  /\ sequence' = sequence + 1
  /\ \/ /\ open \/ FileIsFull(Last(files))
        /\ Len(Rotated) <= MaxFiles
        /\ files' = WithEntry(entry)
        /\ open' = TRUE
     \/ /\ ~open /\ ~FileIsFull(Last(files))
        /\ sequence < MaxEntries
        /\ UNCHANGED <<files, open>>

(* The write stream hands one line of a file to the disk. *)
WriteOut(i) ==
  /\ phase # "down"
  /\ files[i].buffer # <<>>
  /\ files' = [files EXCEPT ![i] = [disk |-> Append(@.disk, Head(@.buffer)),
                                    buffer |-> Tail(@.buffer)]]
  /\ UNCHANGED <<smVars, phase, sequence, open, replay, expected, lapsed, dirVars>>

Serving == phase \in {"running", "closing"}

(* A change of the store, in the version and the cached snapshot. *)
Changed == Files!Change(1) /\ UNCHANGED <<contents, lapsed>>

Create(id, data) ==
  /\ Serving
  /\ CreateEntity(id, data)
  /\ expected' = Unknown
  /\ UNCHANGED <<phase, logVars, replay>>
  /\ Changed

(* updateEntity and the entity:updated listener of SyncEngine, which is    *)
(* gone once globalEventBus.destroy has been called.                       *)
Update(id, ops) ==
  /\ UpdateEntity(id, ops)
  /\ \/ /\ phase = "running"
        /\ AppendEntry(DeltaEntry(sequence + 1, id, ops, version + 1))
     \/ /\ phase = "closing"
        /\ UNCHANGED logVars
  /\ expected' = Unknown
  /\ UNCHANGED <<phase, replay>>
  /\ Changed

Delete(id) ==
  /\ Serving
  /\ DeleteEntity(id)
  /\ expected' = Unknown
  /\ UNCHANGED <<phase, logVars, replay>>
  /\ Changed

(* A write to the file of the next snapshot that succeeds, and one that    *)
(* does not.                                                               *)
FileWritten ==
  contents' = [f \in disk' \ torn' |->
                 IF f = Files!NextName THEN CurrentSnapshot.entities ELSE contents[f]]
FileNotWritten == contents' = [f \in disk' \ torn' |-> contents[f]]

(* Faulty: the checkpoint is logged although no file was written. *)
CheckpointOnly ==
  /\ CreateSnapshot /\ UNCHANGED <<saved, phase, contents>>
  /\ Files!SnapshotOnly
  /\ AppendEntry(CheckpointEntry(sequence + 1, CurrentSnapshot.version))

(* takeSnapshot: write the file, prune, then log a checkpoint. *)
SnapshotAndCheckpoint ==
  /\ CreateSnapshot
  /\ Files!TakeSnapshot
  /\ FileWritten
  /\ AppendEntry(CheckpointEntry(sequence + 1, CurrentSnapshot.version))
  /\ UNCHANGED saved

(* No checkpoint: the write fails, or createSnapshot was called for a node *)
(* or a client that asks for the state.                                    *)
NoCheckpoint ==
  /\ CreateSnapshot
  /\ Files!SnapshotFails \/ Files!SnapshotOnly
  /\ FileNotWritten
  /\ UNCHANGED <<saved, sequence, files>>

(* From the timer, or from the API. *)
PeriodicSnapshot ==
  /\ Serving
  /\ UNCHANGED <<phase, replay, expected, lapsed>>
  /\ \/ SnapshotAndCheckpoint
     \/ NoCheckpoint /\ UNCHANGED open

(* The process is gone: memory and the buffers of the log are lost. *)
BuffersLost == [i \in DOMAIN files |-> [disk |-> files[i].disk, buffer |-> <<>>]]

MemoryLost ==
  /\ phase' = "down"
  /\ entities' = [x \in {} |-> 0]
  /\ history' = [x \in {} |-> <<>>]
  /\ version' = 0
  /\ cache' = NoSnapshot
  /\ sequence' = 0 /\ files' = BuffersLost /\ open' = FALSE
  /\ replay' = <<>>
  /\ UNCHANGED <<now, used, saved, lapsed>>

Crash ==
  /\ phase # "down"
  /\ MemoryLost
  /\ expected' = Unknown
  /\ Files!Crash
  /\ UNCHANGED contents

(* Killed inside takeSnapshot: in the write, or after it, when n entries   *)
(* have been pruned and the checkpoint is not yet logged.                  *)
CrashInSnapshot ==
  /\ Serving
  /\ MemoryLost
  /\ expected' = Unknown
  /\ \/ Files!CrashInWrite /\ FileNotWritten
     \/ \E n \in 0 .. Files!Excess : Files!CrashAfterWrite(n) /\ FileWritten

(* SyncEngine.stop: snapshotManager.stop() takes a snapshot, wal.stop()    *)
(* gives the stream up, whose buffer is still written out, and the event   *)
(* bus is destroyed.  HTTP requests are served until the server closes.    *)
(* The shutdown is clean when that last snapshot is completed.             *)
Stop ==
  /\ phase = "running"
  /\ phase' = "closing"
  /\ \/ /\ CreateSnapshot
        /\ Files!TakeSnapshot
        /\ FileWritten
        /\ sequence' = sequence + 1
        /\ Len(Rotated) <= MaxFiles
        /\ files' = WithEntry(CheckpointEntry(sequence + 1, CurrentSnapshot.version))
        /\ expected' = Known(DOMAIN entities)
        /\ UNCHANGED saved
     \/ /\ NoCheckpoint
        /\ expected' = Unknown
  /\ open' = FALSE
  /\ UNCHANGED <<replay, lapsed>>

Exit ==
  /\ phase = "closing"
  /\ MemoryLost
  /\ UNCHANGED expected
  /\ Files!Crash
  /\ UNCHANGED contents

(* replay(fromSequence): the entries of all files with a larger sequence   *)
(* number, in a stable sort by that number.                                *)
OnDisk == FlattenSeq([i \in DOMAIN files |-> files[i].disk])
Entries(from) ==
  LET all  == SelectSeq(OnDisk, LAMBDA e : e.sequence > from)
      seqs == SetToSortSeq({e.sequence : e \in ToSet(all)}, <)
  IN  FlattenSeq([i \in DOMAIN seqs |-> SelectSeq(all, LAMBDA e : e.sequence = seqs[i])])

(* The directory is in order when a restart will find the last completed   *)
(* snapshot: all versions in it have equally many digits, no file is       *)
(* damaged, and the snapshot was not completed so often in a row that      *)
(* pruning unlinked it; or no snapshot was ever completed.                 *)
InOrder ==
  newest # Files!NoName => Files!SameDigits /\ torn = {} /\ repeats <= MaxSnapshots

(* loadLatestSnapshot succeeds. *)
LatestLoaded == disk # {} /\ Last(index') \notin torn

(* SyncEngine.start: wal.start() opens a new file, then recoverState loads *)
(* the snapshot listed last and asks for the entries whose sequence number *)
(* is beyond its version; when there is none, or it does not parse,        *)
(* nothing is loaded and every entry is replayed.                          *)
Start ==
  /\ phase = "down"
  /\ phase' = "replaying"
  /\ Len(files) < MaxFiles
  /\ files' = Append(files, EmptyFile) /\ open' = TRUE
  /\ Files!Start
  /\ \/ /\ ~LatestLoaded
        /\ replay' = Entries(0)
        /\ UNCHANGED smVars
     \/ /\ LatestLoaded
        /\ LoadSnapshot(Snapshot(Last(index').version, contents[Last(index')]))
        /\ replay' = Entries(version')
  /\ version' + Len(replay') <= MaxVersion
  /\ Len(replay') <= MaxFileEntries * (MaxFiles - Len(files))
  /\ expected' = IF InOrder THEN expected ELSE Unknown
  /\ lapsed' = (lapsed \/ ~InOrder)
  /\ UNCHANGED <<sequence, contents>>

(* Faulty: an unknown entity is created. *)
ReplayEntryUpserts ==
  /\ phase = "replaying" /\ replay # <<>>
  /\ entities' = IF Head(replay).type = "delta"
                 THEN MapPut(entities, Head(replay).entityId,
                        [data |-> ApplyAll(EmptyData, Head(replay).operations),
                         version |-> 1, lastModified |-> now])
                 ELSE entities
  /\ replay' = Tail(replay)
  /\ UNCHANGED <<history, version, cache, now, used, saved,
                 phase, logVars, expected, lapsed, dirVars>>

(* One round of the loop of recoverState.  The re-applied update is logged *)
(* again; an entity that the snapshot does not hold is not created.        *)
ReplayEntry ==
  /\ phase = "replaying"
  /\ replay # <<>>
  /\ replay' = Tail(replay)
  /\ UNCHANGED <<phase, expected>>
  /\ LET e == Head(replay)
     IN  \/ /\ e.type = "delta"
            /\ e.entityId \in DOMAIN entities
            /\ UpdateEntity(e.entityId, e.operations)
            /\ AppendEntry(DeltaEntry(sequence + 1, e.entityId, e.operations, version + 1))
            /\ Changed
         \/ /\ e.type = "delta" => e.entityId \notin DOMAIN entities
            /\ UNCHANGED <<smVars, logVars, lapsed, dirVars>>

Recovered ==
  /\ phase = "replaying"
  /\ replay = <<>>
  /\ phase' = "running"
  /\ UNCHANGED <<smVars, logVars, replay, expected, lapsed, dirVars>>

PersistNext ==
  \/ \E id \in EntityIds, data \in InitialData : Create(id, data)
  \/ \E id \in EntityIds, ops \in OpLists : Update(id, ops)
  \/ \E id \in EntityIds : Delete(id)
  \/ PeriodicSnapshot
  \/ \E i \in DOMAIN files : WriteOut(i)
  \/ Crash
  \/ CrashInSnapshot
  \/ Stop
  \/ Exit
  \/ Start
  \/ ReplayEntry
  \/ Recovered

PersistSpec == PersistInit /\ [][PersistNext]_persistVars
-----------------------------------------------------------------------------
(* Whatever crashes, whenever a checkpoint is in a log file, a snapshot at *)
(* least as new is on disk and readable, although pruning and restarts     *)
(* happen between them.  Three things end this: a restart with a directory *)
(* that was not InOrder, after which older versions are made again; a      *)
(* failed write over the newest snapshot; and the newest snapshot          *)
(* completed more than maxSnapshots times in a row, for takeSnapshot logs  *)
(* its checkpoint after pruning has unlinked the file.                     *)
CheckpointCovered ==
  (~lapsed /\ ~spoiled /\ repeats <= MaxSnapshots) =>
    \A i \in DOMAIN files : \A e \in ToSet(files[i].disk) :
      e.type = "checkpoint" => \E f \in disk \ torn : f.version >= e.stateVersion

(* recoverState only updates entities, and only the snapshot brings them   *)
(* back: after a shutdown whose last snapshot was completed, and a start   *)
(* that finds the directory InOrder, the same entities exist again, none   *)
(* lost and none invented, whatever the log of earlier runs holds.         *)
CleanRestartKeepsEntities ==
  (phase = "running" /\ expected.known) => DOMAIN entities = expected.ids

(* As long as every start finds the directory InOrder, replaying never     *)
(* puts the global version behind a snapshot on disk, so that the          *)
(* snapshots of successive runs have growing versions.                     *)
VersionBeyondSnapshot ==
  (phase # "down" /\ ~lapsed) => \A f \in disk \ torn : version >= f.version

=============================================================================
