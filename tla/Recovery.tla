------------------------------ MODULE Recovery ------------------------------
(***************************************************************************)
(* Storage metadata across crashes: the registry of StorageRegistry, the   *)
(* loggers' log files, the Savepoint that says how much of each log is     *)
(* durable, and the snapshot metadata file.  As metadata.hpp describes it, *)
(* a snapshot writes the metadata of all storages to one file, starting    *)
(* from the previous snapshot and applying the durable logs up to some     *)
(* epoch; a restart reads the snapshot metadata and the savepoint and      *)
(* replays the durable logs after the snapshot.  The loggers, the          *)
(* savepoint manager, the snapshot writer and the restart sequence are not *)
(* under src/: they are modelled from those comments and the field         *)
(* comments of Savepoint::save.                                            *)
(*                                                                         *)
(* Each worker thread writes to the log of its own logger; a record        *)
(* carries the epoch it was written in (the logger's epoch markers,        *)
(* EpochHistory, say where each epoch begins in the file).                 *)
(***************************************************************************)
EXTENDS StorageRegistry, Savepoint
LOCAL INSTANCE FiniteSetsExt
LOCAL INSTANCE SequencesExt

CONSTANTS
  LoggerCount,   \* number of loggers: entries of each Savepoint vector
  MaxEpoch,      \* bound on the engine's current epoch
  MaxSnapshots,  \* bound on snapshots
  MaxCrashes,    \* bound on crashes
  NoFile         \* no savepoint file has been written

Loggers == 1..LoggerCount

\* No file is longer than all creates of all lives of the engine.
MaxFileLength == MaxStorages * (MaxCrashes + 1)

VARIABLES
  up,         \* the engine is running
  epoch,      \* the engine's current epoch
  llog,       \* logger -> its log file: records [entry, epoch], in order
  flushed,    \* logger -> the last epoch all of whose records it flushed
  sp,         \* the engine's in-memory Savepoint
  spFile,     \* the savepoint file: a document written by save, or NoFile
  snapMeta,   \* snapshot metadata file: id -> metadata, or NoStorage
  snapEpoch,  \* the epoch up to which the snapshot applied the logs
  snapCount,  \* snapshots taken
  crashes,    \* crashes so far
  image,      \* history: the registry at the last crash
  lastSaved   \* history: the savepoint last written to the file, or NoFile

rvars == <<storages, log, lastResult, up, epoch, llog, flushed, sp, spFile,
           snapMeta, snapEpoch, snapCount, crashes, image, lastSaved>>

NoStorages == [id \in StorageIds |-> NoStorage]

\* The durable end of logger l's current log file.
DurableOffset(s, l) == s.current_log_files_offset_durable_[l]

\* The inclusive beginning of the active region of logger l's file.
ActiveBegin(s, l) == s.oldest_log_files_offset_begin_[l] + 1

\* The records in the active regions of the files, up to their ends.
ActiveRecords(logs, s) ==
  UNION {{logs[l][i] : i \in ActiveBegin(s, l)..Len(logs[l])} : l \in Loggers}

\* The records of logger l's file written in epochs up to e: the offset of
\* the epoch marker that begins epoch e + 1.
UpTo(l, e) == Len(SelectSeq(llog[l], LAMBDA r : r.epoch <= e))

\* The records of all the files of logs.
Records(logs) == UNION {ToSet(logs[l]) : l \in Loggers}

\* The records of all files written in epochs from + 1 .. to.
RecordsIn(from, to) ==
  {r \in Records(llog) : r.epoch \in (from + 1)..to}

RInit ==
  /\ storages = NoStorages /\ log = <<>> /\ lastResult = "kRetOk"
  /\ up = FALSE /\ epoch = 0
  /\ llog = [l \in Loggers |-> <<>>] /\ flushed = [l \in Loggers |-> 0]
  /\ sp = Fresh /\ spFile = NoFile
  /\ snapMeta = NoStorages /\ snapEpoch = 0 /\ snapCount = 0
  /\ crashes = 0 /\ image = NoStorages /\ lastSaved = NoFile

\* A create by a worker of logger l; its log record goes to l's file, in
\* the current epoch.
RCreate(md, l) ==
  /\ up
  /\ Create(md)
  /\ llog' = IF Len(log') > Len(log)
               THEN [llog EXCEPT ![l] = Append(@, [entry |-> log'[Len(log')],
                                                   epoch |-> epoch])]
               ELSE llog
  /\ UNCHANGED <<up, epoch, flushed, sp, spFile, snapMeta, snapEpoch,
                 snapCount, crashes, image, lastSaved>>

AdvanceEpoch ==
  /\ up /\ epoch < MaxEpoch
  /\ epoch' = epoch + 1
  /\ UNCHANGED <<storages, log, lastResult, up, llog, flushed, sp, spFile,
                 snapMeta, snapEpoch, snapCount, crashes, image, lastSaved>>

\* Logger l has written out all its records of the next finished epoch.
Flush(l) ==
  /\ up /\ flushed[l] < epoch - 1
  /\ flushed' = [flushed EXCEPT ![l] = @ + 1]
  /\ UNCHANGED <<storages, log, lastResult, up, epoch, llog, sp, spFile,
                 snapMeta, snapEpoch, snapCount, crashes, image, lastSaved>>

\* The durable epoch: the least epoch every logger has flushed.
DurableEpoch == Min({flushed[l] : l \in Loggers})

\* The savepoint of this instant, with per-logger active-region beginnings
\* and durable ends.
Progress(begin, end) ==
  [sp EXCEPT !.current_epoch_ = epoch, !.durable_epoch_ = DurableEpoch,
             !.oldest_log_files_offset_begin_ = begin,
             !.current_log_files_offset_durable_ = end]

\* The manager keeps the new savepoint and Savepoint::save writes the file.
WriteSavepoint(new) ==
  /\ up
  /\ sp' = new /\ spFile' = save(new) /\ lastSaved' = new
  /\ UNCHANGED <<storages, log, lastResult, up, epoch, llog, flushed,
                 snapMeta, snapEpoch, snapCount, crashes, image>>

\* Mutant of TakeSavepoint: each logger's durable offset is the end of
\* what that logger flushed, not of the global durable epoch.
TakeSavepointOwnFlush ==
  WriteSavepoint(Progress([l \in Loggers |-> UpTo(l, snapEpoch)],
                          [l \in Loggers |-> UpTo(l, flushed[l])]))

\* Mutant of TakeSavepoint: the active region begins at the durable end,
\* dropping logs the snapshot has not applied.
TakeSavepointBeginAtDurable ==
  WriteSavepoint(Progress([l \in Loggers |-> UpTo(l, DurableEpoch)],
                          [l \in Loggers |-> UpTo(l, DurableEpoch)]))

(***************************************************************************)
(* The savepoint manager: the durable epoch is the least epoch every       *)
(* logger has flushed; each logger's durable offset is the end of its      *)
(* records of epochs up to it; the active region of each file begins after *)
(* the records the last snapshot applied; Savepoint::save writes the file. *)
(* Each logger has one file (oldest_log_files_ = current_log_files_ = 0).  *)
(***************************************************************************)
TakeSavepoint ==
  WriteSavepoint(Progress([l \in Loggers |-> UpTo(l, snapEpoch)],
                          [l \in Loggers |-> UpTo(l, DurableEpoch)]))

(***************************************************************************)
(* A snapshot: starting from the previous snapshot, it applies the create  *)
(* logs of epochs up to the savepoint's durable epoch; every storage so    *)
(* covered gets a new root page and its metadata is cloned into the file.  *)
(***************************************************************************)
Snapshot ==
  LET to == sp.durable_epoch_
      covered == {id \in StorageIds : snapMeta[id] # NoStorage}
                 \cup {r.entry.id : r \in RecordsIn(snapEpoch, to)}
      rooted == [id \in StorageIds |->
                   IF id \in covered
                     THEN [storages[id] EXCEPT !.root_snapshot_page_id_ = snapCount + 1]
                     ELSE storages[id]]
  IN  /\ up /\ snapCount < MaxSnapshots
      /\ storages' = rooted
      /\ snapMeta' = [id \in StorageIds |->
                        IF id \in covered THEN Clone(rooted[id]) ELSE NoStorage]
      /\ snapEpoch' = to /\ snapCount' = snapCount + 1
      /\ UNCHANGED <<log, lastResult, up, epoch, llog, flushed, sp, spFile,
                     crashes, image, lastSaved>>

(***************************************************************************)
(* The process dies: the registry, the in-memory log buffer and savepoint  *)
(* are lost.  Each log file keeps at least what its logger flushed, and    *)
(* maybe more of the records it had begun to write.                        *)
(***************************************************************************)
Crash ==
  /\ up /\ crashes < MaxCrashes
  /\ \E keep \in [Loggers -> 0..MaxFileLength] :
       /\ \A l \in Loggers : keep[l] \in UpTo(l, flushed[l])..Len(llog[l])
       /\ llog' = [l \in Loggers |-> SubSeq(llog[l], 1, keep[l])]
  /\ up' = FALSE /\ image' = storages /\ storages' = NoStorages
  /\ log' = <<>> /\ sp' = Fresh
  /\ crashes' = crashes + 1
  /\ UNCHANGED <<lastResult, epoch, flushed, spFile, snapMeta, snapEpoch,
                 snapCount, lastSaved>>

\* After a restart every logger has flushed up to the loaded durable epoch.
RecoveredFlush(loaded) == [l \in Loggers |-> loaded.durable_epoch_]

(***************************************************************************)
(* Start or restart: load the savepoint file, or populate_empty when there *)
(* is none; truncate each log file to its durable offset; rebuild the      *)
(* registry from the snapshot metadata (Metadata with its root page) and   *)
(* from the create logs of the files' active regions (Metadata(id, type,   *)
(* name), no root) for storages the snapshot does not hold, keeping a      *)
(* clone of each.                                                          *)
(***************************************************************************)
Restart ==
  LET loaded == IF spFile = NoFile THEN populate_empty(Fresh, LoggerCount)
                                   ELSE load(Fresh, spFile)
      kept == [l \in Loggers |-> SubSeq(llog[l], 1, DurableOffset(loaded, l))]
      replayed == {r.entry : r \in ActiveRecords(kept, loaded)}
      FromSnapshot(id) ==
        LET m == snapMeta[id]
        IN  NewMetadataWithRoot(id, m.type_, m.name_, m.array_size_,
                                m.payload_size_, m.root_snapshot_page_id_)
      FromLog(id) ==
        LET e == CHOOSE e \in replayed : e.id = id
        IN  NewMetadata(id, "array", e.name, e.array_size, e.payload_size)
  IN  /\ ~up
      /\ up' = TRUE /\ sp' = loaded /\ epoch' = loaded.current_epoch_
      /\ llog' = kept
      /\ flushed' = RecoveredFlush(loaded)
      /\ storages' = [id \in StorageIds |->
                        IF snapMeta[id] # NoStorage THEN Clone(FromSnapshot(id))
                        ELSE IF \E e \in replayed : e.id = id
                          THEN Clone(FromLog(id))
                        ELSE NoStorage]
      /\ UNCHANGED <<log, lastResult, spFile, snapMeta, snapEpoch, snapCount,
                     crashes, image, lastSaved>>

RNext ==
  \/ \E id \in StorageIds, type \in StorageTypes, name \in Names,
        a \in ArraySizes, p \in PayloadSizes, l \in Loggers :
       RCreate(NewMetadata(id, type, name, a, p), l)
  \/ AdvanceEpoch \/ TakeSavepoint \/ Snapshot \/ Crash \/ Restart
  \/ \E l \in Loggers : Flush(l)

RSpec == RInit /\ [][RNext]_rvars

-----------------------------------------------------------------------------

\* What the last savepoint made durable: storages whose create record was
\* written in an epoch up to its durable epoch.
DurableAtCrash(id) ==
  /\ lastSaved # NoFile
  /\ \E r \in Records(llog) :
       r.entry.id = id /\ r.epoch <= lastSaved.durable_epoch_

(***************************************************************************)
(* A restart recovers an epoch-consistent cut: exactly the storages that   *)
(* were live at the crash and were created in an epoch up to the durable   *)
(* epoch of the last savepoint, whichever logger wrote the record, each    *)
(* with its id, name, sizes and the root page of the last snapshot that    *)
(* covered it.  Storages of later epochs are gone, even those a logger had *)
(* already flushed.                                                        *)
(***************************************************************************)
RecoveredStoragesMatch ==
  [][Restart => storages' = [id \in StorageIds |->
                               IF image[id] # NoStorage /\ DurableAtCrash(id)
                                 THEN image[id] ELSE NoStorage]]_rvars

(***************************************************************************)
(* Loading the savepoint file at restart gives back the savepoint that was *)
(* saved: save and load name the same fields.                              *)
(***************************************************************************)
SavepointRoundTrip ==
  [][Restart /\ lastSaved # NoFile => sp' = lastSaved]_rvars

(***************************************************************************)
(* While the engine runs, its savepoint has durable epoch < current epoch  *)
(* <= the engine's epoch; the snapshot applied no epoch the savepoint has  *)
(* not made durable; and every logger's durable offset lies inside its     *)
(* file and ends exactly at the durable epoch's end, after the beginning   *)
(* of the file's active region; and that region holds every durable        *)
(* record of an epoch the snapshot has not applied, so a restart replays   *)
(* all of them.                                                            *)
(***************************************************************************)
EpochsOrdered ==
  up => /\ sp.durable_epoch_ < sp.current_epoch_
        /\ sp.current_epoch_ <= epoch
        /\ snapEpoch <= sp.durable_epoch_
        /\ \A l \in Loggers : /\ DurableOffset(sp, l) = UpTo(l, sp.durable_epoch_)
                              /\ ActiveBegin(sp, l) <= DurableOffset(sp, l) + 1
                              /\ \A i \in 1..DurableOffset(sp, l) :
                                   llog[l][i].epoch > snapEpoch => i >= ActiveBegin(sp, l)
=============================================================================
