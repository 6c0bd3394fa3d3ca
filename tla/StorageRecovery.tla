--------------------------- MODULE StorageRecovery ---------------------------
(***************************************************************************)
(* One table on the disk of the Stoolap engine as liquidstoolap builds it: *)
(* what patches/stoolap-0.4.0-liquidstoolap.patch makes of checkpoint,     *)
(* compaction, TRUNCATE, DROP and recovery.  The engine itself is not in   *)
(* the repository; what surrounds the hunks of the patch is modelled as    *)
(* their comments and tests describe it.                                   *)
(*                                                                         *)
(* A committed statement is a record of the write-ahead log; the row of an *)
(* INSERT is its position there.  A checkpoint seals the rows in memory    *)
(* into a volume, publishes it in the manifest of the table and truncates  *)
(* the log.  Every write to the disk is a step of its own and the process  *)
(* may stop between any two of them.  Statements and maintenance take      *)
(* turns.                                                                  *)
(***************************************************************************)
EXTENDS Integers, Sequences, FiniteSets

CONSTANTS
    Volumes,     \* volume ids; one is taken again only when no trace of it is left
    Threshold,   \* compact_threshold: volumes that make a compaction worth while
    MaxInputs,   \* MAX_COMPACTION_INPUT_VOLUMES
    MaxLog,      \* bound: records in the log
    MaxStops,    \* bound: times the process stops
    MaxTorn,     \* bound: volumes that are not read back as they were written
    MaxDamage    \* bound: files damaged while the process is down

ASSUME StorageAssumption ==
    /\ Volumes \subseteq Nat
    /\ Threshold \in Nat \ {0, 1}
    /\ MaxInputs \in Nat \ {0, 1}
    /\ {MaxLog, MaxStops, MaxTorn, MaxDamage} \subseteq Nat

VARIABLES
    log,       \* every record ever written to the log
    kept,      \* the position of the first record that is still in it
    manifest,  \* manifest.bin
    files,     \* the volume files: absent, sound, or bad
    content,   \* the rows that were written into each volume
    tmp,       \* the .tmp file: absent, sound or bad
    hot,       \* in memory: the rows in no volume
    segs,      \* in memory: the segments of the manifest
    loaded,    \* in memory: the volumes that have been loaded
    lsn,       \* in memory: checkpoint_lsn of the manifest
    job,       \* the volume being made: its id, its inputs, its checkpoint_lsn
    next,      \* the record that recovery replays next, 0 in an open database
    pc,        \* where the engine is
    stops, torn, damage  \* counters for the bounds

disk == <<log, kept, manifest, files, content, tmp>>
memory == <<hot, segs, loaded, lsn, job, next>>
counters == <<stops, torn, damage>>
vars == <<disk, memory, pc, counters>>

NoManifest == [is |-> "absent", segments |-> {}, lsn |-> 0]
Manifest(s, l) == [is |-> "sound", segments |-> s, lsn |-> l]
NoJob == [out |-> 0, inputs |-> {}, lsn |-> 0]

RowsOf(vs) == UNION {content[v] : v \in vs}

\* Runtime statements end in an open database, replayed ones in the replay.
Resume == pc' = IF next = 0 THEN "open" ELSE "replay"

Init ==
    /\ log = <<>> /\ kept = 1
    /\ manifest = NoManifest
    /\ files = [v \in Volumes |-> "absent"]
    /\ content = [v \in Volumes |-> {}]
    /\ tmp = "absent"
    /\ hot = {} /\ segs = {} /\ loaded = {} /\ lsn = 0
    /\ job = NoJob
    /\ next = 0
    /\ pc = "open"
    /\ stops = 0 /\ torn = 0 /\ damage = 0

-----------------------------------------------------------------------------
(* Statements.  The record is in the log before anything is deleted.        *)

Commit(op) ==
    /\ pc = "open" /\ Len(log) < MaxLog
    /\ log' = Append(log, op)

Insert ==
    /\ Commit("insert")
    /\ hot' = hot \union {Len(log) + 1}
    /\ UNCHANGED <<kept, manifest, files, content, tmp, segs, loaded, lsn, job, next, pc, counters>>

\* mgr.clear(), or the removal of mgr, with the version store
Forget == hot' = {} /\ segs' = {} /\ loaded' = {}

Truncate ==
    /\ Commit("truncate")
    /\ Forget
    /\ pc' = "clearing"
    /\ UNCHANGED <<kept, manifest, files, content, tmp, lsn, job, next, counters>>

\* Mutant: as before the patch, the manifest keeps its segments.
ManifestLeft ==
    /\ pc = "clearing"
    /\ pc' = "cleared"
    /\ UNCHANGED <<disk, memory, counters>>

\* persist_manifest_only of the segment manager.  Whoever has a manifest has one.
PersistEmptyManifest ==
    /\ pc = "clearing"
    /\ manifest' = Manifest(segs, lsn)
    /\ pc' = "cleared"
    /\ UNCHANGED <<log, kept, files, content, tmp, memory, counters>>

\* No segment manager: the table has never been in a manifest, or was dropped.
NothingToPersist ==
    /\ pc = "clearing" /\ manifest = NoManifest
    /\ pc' = "cleared"
    /\ UNCHANGED <<disk, memory, counters>>

Remove(v) == files' = [files EXCEPT ![v] = "absent"]

OnDisk == {v \in Volumes : files[v] # "absent"}

DeleteVolume ==
    /\ pc = "cleared"
    /\ \E v \in OnDisk : Remove(v)
    /\ UNCHANGED <<log, kept, manifest, content, tmp, memory, pc, counters>>

VolumesDeleted ==
    /\ pc = "cleared" /\ OnDisk = {}
    /\ Resume
    /\ UNCHANGED <<disk, memory, counters>>

Drop ==
    /\ Commit("drop")
    /\ Forget /\ lsn' = 0
    /\ pc' = "removing"
    /\ UNCHANGED <<kept, manifest, files, content, tmp, job, next, counters>>

\* delete_table_storage: remove_dir_all takes the files in any order
RemoveFile ==
    /\ pc = "removing"
    /\ \/ manifest # NoManifest /\ manifest' = NoManifest /\ UNCHANGED files
       \/ \E v \in OnDisk : Remove(v) /\ UNCHANGED manifest
    /\ UNCHANGED <<log, kept, content, tmp, memory, pc, counters>>

DirectoryRemoved ==
    /\ pc = "removing" /\ OnDisk = {} /\ manifest = NoManifest
    /\ Resume
    /\ UNCHANGED <<disk, memory, counters>>

-----------------------------------------------------------------------------
(* Checkpoint and compaction.                                               *)

FreeIds == {v \in Volumes : v \notin OnDisk \union segs \union manifest.segments}

\* write_volume_to_disk_opts up to the fsync of the .tmp file
WriteVolume(rs, inputs, at) ==
    /\ \E v \in FreeIds :
          /\ \A w \in FreeIds : v <= w
          /\ content' = [content EXCEPT ![v] = rs]
          /\ job' = [out |-> v, inputs |-> inputs, lsn |-> at]
    /\ \/ tmp' = "sound" /\ UNCHANGED torn
       \/ torn < MaxTorn /\ tmp' = "bad" /\ torn' = torn + 1
    /\ pc' = "written"
    /\ UNCHANGED <<log, kept, manifest, files, hot, segs, loaded, lsn, next, stops, damage>>

Seal ==
    /\ pc = "open" /\ hot # {}
    /\ WriteVolume(hot, {}, Len(log))

\* Mutant: the inputs stay in the manifest.
Remaining == segs \union {job.out}

Compacted == (segs \ job.inputs) \union {job.out}

\* merge_indices, cut to its first MaxInputs entries
Compact ==
    /\ pc = "open" /\ Cardinality(segs) >= Threshold
    /\ \E inputs \in SUBSET segs :
          /\ Cardinality(inputs) =
                IF Cardinality(segs) > MaxInputs THEN MaxInputs ELSE Cardinality(segs)
          /\ WriteVolume(RowsOf(inputs), inputs, lsn)

\* Mutant: the .tmp file is not read back.
RenameUnverified ==
    /\ pc = "written"
    /\ files' = [files EXCEPT ![job.out] = tmp]
    /\ tmp' = "absent"
    /\ pc' = "renamed"
    /\ UNCHANGED <<log, kept, manifest, content, memory, counters>>

\* verify_v4_crc, then the rename
RenameVerified ==
    /\ pc = "written" /\ tmp = "sound"
    /\ files' = [files EXCEPT ![job.out] = "sound"]
    /\ tmp' = "absent"
    /\ pc' = "renamed"
    /\ UNCHANGED <<log, kept, manifest, content, memory, counters>>

VerifyFails ==
    /\ pc = "written" /\ tmp = "bad"
    /\ tmp' = "absent"
    /\ pc' = "open"
    /\ UNCHANGED <<log, kept, manifest, files, content, memory, counters>>

\* The volume becomes part of the table.  Its rows are those of memory for a
\* checkpoint, of the inputs for a compaction.
Publish ==
    /\ pc = "renamed"
    /\ segs' = Compacted
    /\ loaded' = segs'
    /\ lsn' = job.lsn
    /\ hot' = hot \ content[job.out]
    /\ manifest' = Manifest(segs', lsn')
    /\ pc' = IF job.inputs = {} THEN "sealed" ELSE "merged"
    /\ UNCHANGED <<log, kept, files, content, tmp, job, next, counters>>

\* Mutant: the log is truncated before the manifest names the volume.
TruncateWalEarly ==
    /\ pc = "renamed" /\ job.inputs = {}
    /\ kept' = job.lsn + 1
    /\ UNCHANGED <<log, manifest, files, content, tmp, memory, pc, counters>>

TruncateWal ==
    /\ pc = "sealed"
    /\ kept' = job.lsn + 1
    /\ pc' = "open"
    /\ UNCHANGED <<log, manifest, files, content, tmp, memory, counters>>

\* A checkpoint that has nothing to seal
TruncateWalOnly ==
    /\ pc = "open" /\ hot = {} /\ kept <= Len(log)
    /\ kept' = Len(log) + 1
    /\ UNCHANGED <<log, manifest, files, content, tmp, memory, pc, counters>>

DeleteInput ==
    /\ pc = "merged"
    /\ \E v \in job.inputs \intersect OnDisk : Remove(v)
    /\ UNCHANGED <<log, kept, manifest, content, tmp, memory, pc, counters>>

InputsDeleted ==
    /\ pc = "merged" /\ job.inputs \intersect OnDisk = {}
    /\ pc' = "open"
    /\ UNCHANGED <<disk, memory, counters>>

-----------------------------------------------------------------------------
(* The process stops, the medium decays, the database is opened again.      *)

\* A crash; also an orderly end, with checkpoint_on_close off.
Stop ==
    /\ pc # "stopped" /\ stops < MaxStops
    /\ stops' = stops + 1
    /\ pc' = "stopped"
    /\ next' = 1
    /\ tmp' = "absent"     \* list_volumes does not look at it
    /\ Forget /\ lsn' = 0 /\ job' = NoJob
    /\ UNCHANGED <<log, kept, manifest, files, content, torn, damage>>

Damage ==
    /\ pc = "stopped" /\ damage < MaxDamage
    /\ damage' = damage + 1
    /\ \/ /\ \E v \in OnDisk, f \in {"bad", "absent"} : files' = [files EXCEPT ![v] = f]
          /\ UNCHANGED manifest
       \/ /\ manifest.is = "sound" /\ manifest' = [manifest EXCEPT !.is = "bad"]
          /\ UNCHANGED files
    /\ UNCHANGED <<log, kept, content, tmp, memory, pc, stops, torn>>

\* A directory without a manifest is skipped; then all of the log is replayed.
ReplayFrom ==
    IF manifest.is = "absent" \/ kept > manifest.lsn THEN kept ELSE manifest.lsn + 1

LoadManifest ==
    /\ pc = "stopped" /\ manifest.is # "bad"
    /\ segs' = manifest.segments
    /\ lsn' = manifest.lsn
    /\ next' = ReplayFrom
    /\ pc' = "volumes"
    /\ UNCHANGED <<disk, hot, loaded, job, counters>>

ManifestUnreadable ==
    /\ pc = "stopped" /\ manifest.is = "bad"
    /\ pc' = "refused"
    /\ UNCHANGED <<disk, memory, counters>>

\* Files that the manifest does not name are deleted; a bad one is a warning.
LoadVolumes ==
    /\ pc = "volumes"
    /\ loaded' = {v \in segs : files[v] = "sound"}
    /\ files' = [v \in Volumes |-> IF v \in segs THEN files[v] ELSE "absent"]
    /\ pc' = "replay"
    /\ UNCHANGED <<log, kept, manifest, content, tmp, hot, segs, lsn, job, next, counters>>

Replaying(op) ==
    /\ pc = "replay" /\ next <= Len(log) /\ log[next] = op
    /\ next' = next + 1

\* is_row_id_in_volume makes the INSERT idempotent.
ReplayInsert ==
    /\ Replaying("insert")
    /\ hot' = IF next \in RowsOf(loaded) THEN hot ELSE hot \union {next}
    /\ UNCHANGED <<disk, segs, loaded, lsn, job, pc, counters>>

ReplayTruncate ==
    /\ Replaying("truncate")
    /\ Forget
    /\ pc' = "clearing"
    /\ UNCHANGED <<disk, lsn, job, counters>>

ReplayDrop ==
    /\ Replaying("drop")
    /\ Forget /\ lsn' = 0
    /\ pc' = "removing"
    /\ UNCHANGED <<disk, job, counters>>

\* Mutant: what could be loaded will do.
OpenAnyway ==
    /\ pc = "replay" /\ next > Len(log)
    /\ next' = 0
    /\ pc' = "open"
    /\ UNCHANGED <<disk, hot, segs, loaded, lsn, job, counters>>

\* validate_loaded_manifest_volumes
OpenValidated ==
    /\ pc = "replay" /\ next > Len(log)
    /\ segs \subseteq loaded
    /\ next' = 0
    /\ pc' = "open"
    /\ UNCHANGED <<disk, hot, segs, loaded, lsn, job, counters>>

VolumesMissing ==
    /\ pc = "replay" /\ next > Len(log)
    /\ ~(segs \subseteq loaded)
    /\ pc' = "refused"
    /\ UNCHANGED <<disk, memory, counters>>

-----------------------------------------------------------------------------

Statement == Insert \/ Truncate \/ Drop

\* The steps of what has been begun
StatementStep ==
    \/ PersistEmptyManifest \/ NothingToPersist \/ DeleteVolume \/ VolumesDeleted
    \/ RemoveFile           \/ DirectoryRemoved

MaintenanceStep ==
    \/ RenameVerified \/ VerifyFails \/ Publish \/ TruncateWal
    \/ DeleteInput    \/ InputsDeleted

RecoveryStep ==
    \/ LoadManifest \/ ManifestUnreadable \/ LoadVolumes
    \/ ReplayInsert \/ ReplayTruncate     \/ ReplayDrop
    \/ OpenValidated \/ VolumesMissing

Next ==
    \/ Statement
    \/ StatementStep
    \/ Seal \/ TruncateWalOnly \/ Compact
    \/ MaintenanceStep
    \/ Stop \/ Damage
    \/ RecoveryStep

Spec == Init /\ [][Next]_vars

(***************************************************************************)
(* Fairness: what has been begun goes on, the server opens the database    *)
(* again, and a table with enough volumes is compacted (with every         *)
(* checkpoint, and the engine makes checkpoints by itself).                *)
(***************************************************************************)
Fairness == WF_vars(StatementStep \/ MaintenanceStep \/ RecoveryStep) /\ WF_vars(Compact)

FairSpec == Spec /\ Fairness

-----------------------------------------------------------------------------
(* Properties.                                                              *)

\* the rows inserted since the last DROP or TRUNCATE, from a position on
InsertedSince(k) ==
    {r \in k .. Len(log) : \A j \in r .. Len(log) : log[j] = "insert"}

Committed == InsertedSince(1)

Cleared(k) == \E j \in k .. Len(log) : log[j] # "insert"

\* The files alone hold the table, at every moment: the log covers what no
\* published volume has, and every published volume that no DROP or TRUNCATE in
\* the log makes superfluous can be read.
DiskSuffices ==
    damage = 0 =>
        /\ Committed = InsertedSince(ReplayFrom) \union
              (IF Cleared(ReplayFrom) THEN {} ELSE RowsOf(manifest.segments))
        /\ Cleared(ReplayFrom) \/ \A v \in manifest.segments : files[v] = "sound"

Table == INSTANCE DurableTable
           WITH Keys    <- 1 .. MaxLog,
                rows    <- Committed,
                shown   <- IF next = 0 THEN hot \union RowsOf(loaded) ELSE {},
                state   <- IF next = 0 THEN "open"
                           ELSE IF pc = "refused" THEN "refused" ELSE "down",
                damaged <- damage > 0

\* An open database shows exactly the committed rows, whenever it was stopped,
\* and it is refused only if the medium was damaged.
KeepsTable == Table!Spec

\* Compaction gets through any backlog, however few volumes it takes at a time,
\* and however often it is interrupted.
BacklogCleared == <>[](pc = "refused" \/ Cardinality(segs) < Threshold)

=============================================================================
