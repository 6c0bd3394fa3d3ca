----------------------- MODULE StorageRecovery_proofs -----------------------
(***************************************************************************)
(* Proofs about StorageRecovery, for any volumes, any thresholds, logs of  *)
(* any length and any number of stops, torn volumes and damaged files:     *)
(* DiskSuffices, and that the table implements DurableTable.               *)
(***************************************************************************)
EXTENDS StorageRecovery, FiniteSetTheorems, TLAPS

Operations == {"insert", "truncate", "drop"}

\* Where an open database is between two statements, where a table is being
\* emptied, at run time or in recovery, and where recovery is besides that.
Steady == {"open", "written", "renamed", "sealed", "merged"}
Emptying == {"clearing", "cleared", "removing"}
Recovering == {"volumes", "replay"}

Types ==
    /\ log \in Seq(Operations)
    /\ kept \in 1 .. Len(log) + 1
    /\ manifest \in [is : {"absent", "sound", "bad"}, segments : SUBSET Volumes, lsn : 0 .. Len(log)]
    /\ manifest.is = "absent" => manifest = NoManifest
    /\ files \in [Volumes -> {"absent", "sound", "bad"}]
    /\ content \in [Volumes -> SUBSET Nat]
    /\ segs \in SUBSET Volumes
    /\ loaded \in SUBSET segs
    /\ lsn \in 0 .. Len(log)
    /\ next \in 0 .. Len(log) + 1
    /\ pc \in Steady \union Emptying \union Recovering \union {"stopped", "refused"}
    /\ pc \in Steady => next = 0
    /\ pc \in Recovering \union {"stopped", "refused"} => next # 0
    /\ damage \in Nat

\* The statement that empties the table.
Last == IF next = 0 THEN Len(log) ELSE next - 1

\* It is in the part of the log that is replayed, and memory is empty already.
EmptyingHolds ==
    pc \in Emptying =>
        /\ hot = {} /\ segs = {} /\ loaded = {}
        /\ Last \in ReplayFrom .. Len(log)
        /\ log[Last] # "insert"

\* What memory knows of the manifest is true, unless the manifest is about to be
\* replaced by what memory knows, or removed.
ManifestKnown ==
    /\ pc \in Steady \union Recovering \union {"cleared"} => manifest.segments = segs
    /\ pc \in Steady \union Recovering \union {"clearing", "cleared"} => manifest.lsn = lsn
    /\ pc = "removing" => lsn = 0

\* The log from ReplayFrom on and the volumes of the manifest are the table.
DiskHolds ==
    ~Cleared(ReplayFrom) =>
        Committed = (ReplayFrom .. Len(log)) \union RowsOf(manifest.segments)

DiskSound ==
    /\ damage = 0 /\ ~Cleared(ReplayFrom) =>
          \A v \in manifest.segments : files[v] = "sound"
    /\ manifest.is = "bad" => damage # 0

\* Memory and its volumes are the table.
MemoryHolds ==
    /\ pc \in Steady => loaded = segs /\ Committed = hot \union RowsOf(segs)
    /\ \A v \in loaded : files[v] = "sound"
    /\ pc = "stopped" => hot = {} /\ loaded = {}

\* So they are in recovery, together with what is still to be replayed.
ReplayHolds ==
    next # 0 /\ pc \in Recovering \union Emptying =>
        /\ ReplayFrom <= next
        /\ ~Cleared(next) => Committed = hot \union RowsOf(segs) \union (next .. Len(log))
        /\ ~Cleared(next) /\ damage = 0 /\ pc # "volumes" => segs \subseteq loaded
        /\ pc = "volumes" => next = ReplayFrom

\* The volume in the making has the rows of memory, or those of its inputs.
JobHolds ==
    /\ pc \in {"written", "renamed"} =>
          /\ job.out \in Volumes \ segs
          /\ job.inputs = {} => content[job.out] = hot /\ job.lsn = Len(log)
          /\ job.inputs # {} => /\ job.inputs \subseteq segs
                                /\ content[job.out] = RowsOf(job.inputs)
                                /\ job.lsn = lsn
    /\ pc = "renamed" => files[job.out] = "sound"
    /\ pc = "sealed" => hot = {} /\ job.lsn = Len(log)
    /\ pc = "merged" => job.inputs \intersect segs = {}

StorageInv ==
    /\ Types
    /\ EmptyingHolds
    /\ ManifestKnown
    /\ DiskHolds
    /\ DiskSound
    /\ MemoryHolds
    /\ ReplayHolds
    /\ JobHolds

-----------------------------------------------------------------------------
(* The records of the log.                                                  *)

\* A record more: an INSERT adds its row, any other leaves none.
LEMMA RecordAdded ==
    ASSUME log \in Seq(Operations), NEW op \in Operations, log' = Append(log, op)
    PROVE  /\ log' \in Seq(Operations)
           /\ Len(log') = Len(log) + 1
           /\ log'[Len(log) + 1] = op
           /\ op = "insert" => /\ Committed' = Committed \union {Len(log) + 1}
                               /\ \A k \in 1 .. Len(log) + 1 : Cleared(k)' <=> Cleared(k)
           /\ op # "insert" => /\ Committed' = {}
                               /\ \A k \in 1 .. Len(log) + 1 : Cleared(k)'
<1> DEFINE n == Len(log)
<1>1. n \in Nat /\ Len(log') = n + 1 /\ log' \in Seq(Operations) /\ log'[n + 1] = op
  OBVIOUS
<1>2. \A j \in 1 .. n : log'[j] = log[j]
  OBVIOUS
<1> HIDE DEF n
<1>3. CASE op = "insert"
  <2>1. Committed' = {r \in 1 .. n + 1 : \A j \in r .. n + 1 : log'[j] = "insert"}
    BY <1>1 DEF Committed, InsertedSince
  <2>2. Committed = {r \in 1 .. n : \A j \in r .. n : log[j] = "insert"}
    BY DEF Committed, InsertedSince, n
  <2>3. Committed' = Committed \union {n + 1}
    BY <1>1, <1>2, <1>3, <2>1, <2>2
  <2>4. \A k \in 1 .. n + 1 : Cleared(k)' <=> Cleared(k)
    <3>1. \A k \in 1 .. n + 1 : Cleared(k)' <=> \E j \in k .. n + 1 : log'[j] # "insert"
      BY <1>1 DEF Cleared
    <3>2. \A k \in 1 .. n + 1 : Cleared(k) <=> \E j \in k .. n : log[j] # "insert"
      BY DEF Cleared, n
    <3> QED
      BY <1>1, <1>2, <1>3, <3>1, <3>2
  <2> QED
    BY <1>1, <1>3, <2>3, <2>4 DEF n
<1>4. CASE op # "insert"
  <2>1. Committed' = {}
    BY <1>1, <1>4 DEF Committed, InsertedSince
  <2>2. \A k \in 1 .. n + 1 : Cleared(k)'
    BY <1>1, <1>4 DEF Cleared
  <2> QED
    BY <1>1, <1>4, <2>1, <2>2 DEF n
<1> QED
  BY <1>3, <1>4

\* From a position on after which nothing is emptied, every record is a row.
LEMMA RecordsOfLog ==
    ASSUME log \in Seq(Operations), NEW k \in 1 .. Len(log) + 1
    PROVE  /\ k > Len(log) => ~Cleared(k)
           /\ k <= Len(log) => (Cleared(k) <=> Cleared(k + 1) \/ log[k] # "insert")
           /\ \A j \in 1 .. k : Cleared(k) => Cleared(j)
           /\ \A j \in k .. Len(log) : log[j] # "insert" => Cleared(k)
           /\ ~Cleared(k) => InsertedSince(k) = k .. Len(log)
           /\ Cleared(k) => Committed = InsertedSince(k)
           /\ ~Cleared(k) => k .. Len(log) \subseteq Committed
           /\ k > 1 /\ ~Cleared(k) /\ log[k - 1] # "insert" => Committed = k .. Len(log)
<1> DEFINE n == Len(log)
<1>1. n \in Nat
  OBVIOUS
<1>2. Committed = {r \in 1 .. n : \A j \in r .. n : log[j] = "insert"}
  BY DEF Committed, InsertedSince
<1>3. InsertedSince(k) = {r \in k .. n : \A j \in r .. n : log[j] = "insert"}
  BY DEF InsertedSince
<1>4. \A i \in 1 .. n + 1 : Cleared(i) <=> \E j \in i .. n : log[j] # "insert"
  BY DEF Cleared
<1> HIDE DEF n
<1>5. k \in 1 .. n + 1
  BY DEF n
<1>6. /\ k > n => ~Cleared(k)
      /\ k <= n => (Cleared(k) <=> Cleared(k + 1) \/ log[k] # "insert")
      /\ \A j \in 1 .. k : Cleared(k) => Cleared(j)
      /\ \A j \in k .. n : log[j] # "insert" => Cleared(k)
  BY <1>1, <1>4, <1>5
<1>7. ~Cleared(k) => InsertedSince(k) = k .. n
  BY <1>1, <1>3, <1>4, <1>5
<1>8. Cleared(k) => Committed = InsertedSince(k)
  BY <1>1, <1>2, <1>3, <1>4, <1>5
<1>9. ~Cleared(k) => k .. n \subseteq Committed
  BY <1>1, <1>2, <1>4, <1>5
<1>10. k > 1 /\ ~Cleared(k) /\ log[k - 1] # "insert" => Committed = k .. n
  BY <1>1, <1>2, <1>4, <1>5
<1> QED
  BY <1>6, <1>7, <1>8, <1>9, <1>10 DEF n

\* What follows from the log follows from the same log.
LEMMA SameLog ==
    ASSUME log' = log
    PROVE  Committed' = Committed /\ \A k : Cleared(k)' <=> Cleared(k)
BY DEF Committed, InsertedSince, Cleared

\* The rows of some volumes depend on what is in them.
LEMMA SameRows ==
    ASSUME content' = content
    PROVE  \A vs : RowsOf(vs)' = RowsOf(vs)
BY DEF RowsOf

LEMMA SameRowsElsewhere ==
    ASSUME content \in [Volumes -> SUBSET Nat], NEW v \in Volumes, NEW rs,
           content' = [content EXCEPT ![v] = rs]
    PROVE  /\ content'[v] = rs
           /\ \A vs \in SUBSET (Volumes \ {v}) : RowsOf(vs)' = RowsOf(vs)
BY DEF RowsOf

\* Replay starts behind what was truncated and behind the checkpoint.
LEMMA WhereReplayStarts ==
    ASSUME Types
    PROVE  /\ ReplayFrom \in 1 .. Len(log) + 1
           /\ ReplayFrom = IF kept > manifest.lsn THEN kept ELSE manifest.lsn + 1
BY DEF Types, ReplayFrom, NoManifest

LEMMA SameReplay ==
    ASSUME kept' = kept, manifest' = manifest
    PROVE  ReplayFrom' = ReplayFrom
BY DEF ReplayFrom

-----------------------------------------------------------------------------
(* Every action keeps the invariant.                                        *)

LEMMA InsertKeepsInv ==
    ASSUME StorageInv, Insert
    PROVE  StorageInv'
<1> USE DEF StorageInv
<1>1. /\ pc = "open" /\ next = 0 /\ pc' = pc
      /\ log' = Append(log, "insert")
      /\ hot' = hot \union {Len(log) + 1}
      /\ UNCHANGED <<kept, manifest, files, content, tmp, segs, loaded, lsn, job, next, counters>>
  BY DEF Insert, Commit, Types, Steady
<1>2. /\ log' \in Seq(Operations) /\ Len(log) \in Nat /\ Len(log') = Len(log) + 1
      /\ Committed' = Committed \union {Len(log) + 1}
      /\ \A k \in 1 .. Len(log) + 1 : Cleared(k)' <=> Cleared(k)
  BY <1>1, RecordAdded DEF Types, Operations
<1>3. ReplayFrom' = ReplayFrom /\ ReplayFrom \in 1 .. Len(log) + 1
  BY <1>1, SameReplay, WhereReplayStarts
<1>4. \A vs : RowsOf(vs)' = RowsOf(vs)
  BY <1>1, SameRows
<1>5. Types'
  BY <1>1, <1>2 DEF Types, Steady, Emptying, Recovering, counters
<1>6. DiskHolds'
  <2>1. ~Cleared(ReplayFrom)' <=> ~Cleared(ReplayFrom)
    BY <1>2, <1>3 DEF Cleared
  <2>2. (ReplayFrom .. Len(log))' = (ReplayFrom .. Len(log)) \union {Len(log) + 1}
    BY <1>2, <1>3
  <2> QED
    BY <1>1, <1>2, <1>4, <2>1, <2>2 DEF DiskHolds
<1>7. DiskSound'
  BY <1>1, <1>2, <1>3 DEF DiskSound, Cleared, counters
<1>8. MemoryHolds'
  BY <1>1, <1>2, <1>4 DEF MemoryHolds, Steady
<1> QED
  BY <1>1, <1>5, <1>6, <1>7, <1>8
  DEF EmptyingHolds, ManifestKnown, ReplayHolds, JobHolds, Steady, Emptying, Recovering

\* TRUNCATE and DROP at run time: the record is last in the log.
LEMMA EmptyingBegins ==
    ASSUME StorageInv, NEW op \in {"truncate", "drop"}, Commit(op), Forget,
           pc' \in {"clearing", "removing"},
           lsn' = IF pc' = "removing" THEN 0 ELSE lsn,
           UNCHANGED <<kept, manifest, files, content, tmp, job, next, counters>>
    PROVE  StorageInv'
<1> USE DEF StorageInv
<1>1. /\ pc = "open" /\ next = 0
      /\ log' = Append(log, op)
      /\ hot' = {} /\ segs' = {} /\ loaded' = {}
  BY DEF Commit, Forget, Types, Steady
<1>2. /\ log' \in Seq(Operations) /\ Len(log) \in Nat /\ Len(log') = Len(log) + 1
      /\ log'[Len(log) + 1] # "insert"
      /\ Committed' = {}
      /\ \A k \in 1 .. Len(log) + 1 : Cleared(k)'
  BY <1>1, RecordAdded DEF Types, Operations
<1>3. ReplayFrom' = ReplayFrom /\ ReplayFrom \in 1 .. Len(log) + 1
  BY <1>1, SameReplay, WhereReplayStarts
<1>4. Cleared(ReplayFrom)'
  BY <1>2, <1>3 DEF Cleared
<1>5. Types'
  BY <1>1, <1>2 DEF Types, Steady, Emptying, Recovering, counters
<1>6. EmptyingHolds'
  BY <1>1, <1>2, <1>3 DEF EmptyingHolds, Last
<1>7. ManifestKnown'
  BY <1>1 DEF ManifestKnown, Steady, Recovering
<1>8. DiskHolds' /\ DiskSound'
  BY <1>4 DEF DiskHolds, DiskSound, counters
<1>9. MemoryHolds' /\ ReplayHolds' /\ JobHolds'
  BY <1>1 DEF MemoryHolds, ReplayHolds, JobHolds, Steady
<1> QED
  BY <1>5, <1>6, <1>7, <1>8, <1>9

LEMMA StatementKeepsInv ==
    ASSUME StorageInv, Statement
    PROVE  StorageInv'
<1>1. CASE Insert
  BY <1>1, InsertKeepsInv
<1>2. CASE Truncate
  BY <1>2, EmptyingBegins DEF Truncate
<1>3. CASE Drop
  BY <1>3, EmptyingBegins DEF Drop
<1> QED
  BY <1>1, <1>2, <1>3 DEF Statement

\* Nothing is recorded in the steps that follow.
LEMMA SameRecords ==
    ASSUME UNCHANGED <<log, content>>
    PROVE  /\ Committed' = Committed
           /\ \A k : Cleared(k)' <=> Cleared(k)
           /\ \A vs : RowsOf(vs)' = RowsOf(vs)
BY SameLog, SameRows

\* The table is being emptied, and remains so: what the files hold does not
\* matter as long as the log is replayed from no later a record.
LEMMA EmptyingGoesOn ==
    ASSUME StorageInv, pc \in Emptying, Types',
           UNCHANGED <<log, content, hot, segs, loaded, lsn, job, next, damage>>,
           pc' = pc \/ (pc = "clearing" /\ pc' = "cleared"),
           ReplayFrom' <= ReplayFrom,
           manifest'.is = "bad" => manifest.is = "bad",
           ManifestKnown'
    PROVE  StorageInv'
<1> USE DEF StorageInv
<1>1. /\ Len(log) \in Nat /\ log \in Seq(Operations)
      /\ ReplayFrom \in 1 .. Len(log) + 1
      /\ ReplayFrom' \in 1 .. Len(log) + 1
  <2>1. Types => ReplayFrom \in 1 .. Len(log) + 1
    BY WhereReplayStarts
  <2>2. Types' => (ReplayFrom \in 1 .. Len(log) + 1)'
    BY DEF Types, ReplayFrom, NoManifest
  <2> QED
    BY <2>1, <2>2 DEF Types
<1>2. /\ pc' \in Emptying /\ Last' = Last
      /\ hot = {} /\ segs = {} /\ loaded = {}
      /\ Last \in ReplayFrom .. Len(log) /\ log[Last] # "insert"
  BY DEF Emptying, EmptyingHolds, Last
<1>3. EmptyingHolds'
  BY <1>1, <1>2 DEF EmptyingHolds
<1>4. Cleared(ReplayFrom)'
  BY <1>1, <1>2 DEF Cleared
<1>5. DiskHolds' /\ DiskSound'
  BY <1>4 DEF DiskHolds, DiskSound
<1>6. MemoryHolds'
  BY <1>2 DEF MemoryHolds, Steady, Emptying
<1>7. ReplayHolds'
  <2>1. Cleared(next)' <=> Cleared(next)
    BY DEF Cleared
  <2>2. next # 0 => ReplayFrom <= next /\ next \in Nat
    BY DEF ReplayHolds, Types
  <2>3. next # 0 => ReplayFrom' <= next
    BY <1>1, <2>2
  <2> QED
    BY <1>2, <2>1, <2>3, SameRecords DEF ReplayHolds, Recovering, Emptying
<1>8. JobHolds'
  BY <1>2 DEF JobHolds, Emptying
<1> QED
  BY <1>3, <1>5, <1>6, <1>7, <1>8

LEMMA EmptyingStepKeepsInv ==
    ASSUME StorageInv,
           PersistEmptyManifest \/ NothingToPersist \/ DeleteVolume \/ RemoveFile
    PROVE  StorageInv'
<1> USE DEF StorageInv
<1>1. CASE PersistEmptyManifest
  <2>1. /\ pc = "clearing" /\ pc' = "cleared" /\ segs = {}
        /\ manifest.lsn = lsn /\ manifest' = [is |-> "sound", segments |-> {}, lsn |-> lsn]
        /\ UNCHANGED <<log, kept, files, content, tmp, memory, counters>>
    BY <1>1 DEF PersistEmptyManifest, Manifest, EmptyingHolds, Emptying, ManifestKnown
  <2>2. Types'
    BY <2>1 DEF Types, Steady, Emptying, Recovering, memory, counters
  <2>3. ReplayFrom' = ReplayFrom
    BY <2>1, WhereReplayStarts DEF ReplayFrom, Types
  <2>4. ManifestKnown'
    BY <2>1 DEF ManifestKnown, memory
  <2> QED
    BY <2>1, <2>2, <2>3, <2>4, EmptyingGoesOn, WhereReplayStarts
    DEF Emptying, memory, counters
<1>2. CASE DeleteVolume
  <2>1. /\ pc = "cleared" /\ pc' = pc
        /\ files' \in [Volumes -> {"absent", "sound", "bad"}]
        /\ UNCHANGED <<log, kept, manifest, content, tmp, memory, counters>>
    BY <1>2 DEF DeleteVolume, Remove, OnDisk, Types
  <2>2. Types'
    BY <2>1 DEF Types, memory, counters
  <2>3. ReplayFrom' = ReplayFrom
    BY <2>1, SameReplay
  <2>4. ManifestKnown'
    BY <2>1 DEF ManifestKnown, memory
  <2> QED
    BY <2>1, <2>2, <2>3, <2>4, EmptyingGoesOn, WhereReplayStarts
    DEF Emptying, memory, counters
<1>3. CASE RemoveFile
  <2>1. /\ pc = "removing" /\ pc' = pc
        /\ files' \in [Volumes -> {"absent", "sound", "bad"}]
        /\ manifest' = manifest \/ manifest' = NoManifest
        /\ UNCHANGED <<log, kept, content, tmp, memory, counters>>
    BY <1>3 DEF RemoveFile, Remove, OnDisk, Types
  <2>2. Types'
    BY <2>1 DEF Types, NoManifest, memory, counters
  <2>3. ReplayFrom' <= ReplayFrom
    BY <2>1, WhereReplayStarts DEF ReplayFrom, Types, NoManifest
  <2>4. ManifestKnown'
    BY <2>1 DEF ManifestKnown, Steady, Recovering, memory
  <2>5. manifest'.is = "bad" => manifest.is = "bad"
    BY <2>1 DEF NoManifest
  <2>6. pc \in Emptying /\ pc' = pc
        /\ UNCHANGED <<log, content, hot, segs, loaded, lsn, job, next, damage>>
    BY <2>1 DEF Emptying, memory, counters
  <2> QED
    BY <2>2, <2>3, <2>4, <2>5, <2>6, EmptyingGoesOn
<1>4. CASE NothingToPersist
  <2>1. /\ pc = "clearing" /\ pc' = "cleared" /\ segs = {} /\ manifest.segments = {}
        /\ UNCHANGED <<disk, memory, counters>>
    BY <1>4 DEF NothingToPersist, NoManifest, EmptyingHolds, Emptying
  <2>2. Types'
    BY <2>1 DEF Types, Steady, Emptying, Recovering, disk, memory, counters
  <2>3. ReplayFrom' = ReplayFrom
    BY <2>1 DEF ReplayFrom, disk
  <2>4. ManifestKnown'
    BY <1>4, <2>1 DEF ManifestKnown, NothingToPersist, NoManifest, Steady, Recovering, Emptying, disk, memory
  <2>5. ReplayFrom' <= ReplayFrom
    BY <2>3, WhereReplayStarts
  <2>6. /\ pc \in Emptying /\ manifest' = manifest
        /\ UNCHANGED <<log, content, hot, segs, loaded, lsn, job, next, damage>>
    BY <2>1 DEF Emptying, disk, memory, counters
  <2> QED
    BY <2>1, <2>2, <2>4, <2>5, <2>6, EmptyingGoesOn
<1> QED
  BY <1>1, <1>2, <1>3, <1>4

\* The statement ends, or replay goes on behind it: nothing is left of the table.
LEMMA EmptiedKeepsInv ==
    ASSUME StorageInv, VolumesDeleted \/ DirectoryRemoved
    PROVE  StorageInv'
<1> USE DEF StorageInv
<1>1. /\ pc \in {"cleared", "removing"}
      /\ pc' = IF next = 0 THEN "open" ELSE "replay"
      /\ UNCHANGED <<disk, memory, counters>>
  BY DEF VolumesDeleted, DirectoryRemoved, Resume
<1>2. /\ hot = {} /\ segs = {} /\ loaded = {}
      /\ Last \in ReplayFrom .. Len(log) /\ log[Last] # "insert"
      /\ Len(log) \in Nat /\ log \in Seq(Operations)
      /\ ReplayFrom \in 1 .. Len(log) + 1
  BY <1>1, WhereReplayStarts DEF EmptyingHolds, Emptying, Types
<1>3. manifest.segments = segs /\ manifest.lsn = lsn
  BY <1>1, <1>2 DEF ManifestKnown, DirectoryRemoved, VolumesDeleted, NoManifest
<1>4. /\ Committed' = Committed /\ ReplayFrom' = ReplayFrom
      /\ \A k : Cleared(k)' <=> Cleared(k)
      /\ \A vs : RowsOf(vs)' = RowsOf(vs)
  BY <1>1, SameRecords, SameReplay DEF disk
<1>5. Types'
  BY <1>1 DEF Types, Steady, Recovering, disk, memory, counters
<1>6. EmptyingHolds' /\ ManifestKnown' /\ JobHolds'
  BY <1>1, <1>3 DEF EmptyingHolds, ManifestKnown, JobHolds, Emptying, disk, memory
<1>7. DiskHolds' /\ DiskSound'
  <2>1. Cleared(ReplayFrom)
    BY <1>2 DEF Cleared
  <2> QED
    BY <1>1, <1>4, <2>1 DEF DiskHolds, DiskSound, disk, counters, Cleared
<1>8. MemoryHolds'
  <2>1. next = 0 => Committed = {}
    BY <1>2 DEF Last, Committed, InsertedSince
  <2> QED
    BY <1>1, <1>2, <1>4, <2>1 DEF MemoryHolds, Steady, RowsOf, disk, memory
<1>9. ReplayHolds'
  BY <1>1, <1>2, <1>4 DEF ReplayHolds, Emptying, Recovering, disk, memory, counters
<1> QED
  BY <1>5, <1>6, <1>7, <1>8, <1>9

\* A volume that is begun is none of the table, and its rows are known.
LEMMA WriteVolumeKeepsInv ==
    ASSUME StorageInv, pc = "open", NEW rs, NEW inputs \in SUBSET segs, NEW at,
           inputs = {} => rs = hot /\ at = Len(log),
           inputs # {} => rs = RowsOf(inputs) /\ at = lsn,
           WriteVolume(rs, inputs, at)
    PROVE  StorageInv'
<1> USE DEF StorageInv
<1>1. PICK v \in FreeIds : /\ content' = [content EXCEPT ![v] = rs]
                           /\ job' = [out |-> v, inputs |-> inputs, lsn |-> at]
  BY DEF WriteVolume
<1>2. /\ pc' = "written"
      /\ UNCHANGED <<log, kept, manifest, files, hot, segs, loaded, lsn, next, stops, damage>>
  BY DEF WriteVolume
<1>3. /\ v \in Volumes /\ v \notin segs /\ v \notin manifest.segments
      /\ segs \subseteq Volumes /\ manifest.segments \subseteq Volumes
  BY DEF FreeIds, Types
<1>4. /\ content'[v] = rs
      /\ RowsOf(segs)' = RowsOf(segs)
      /\ RowsOf(manifest.segments)' = RowsOf(manifest.segments)
      /\ RowsOf(inputs)' = RowsOf(inputs)
  <2>1. /\ segs \in SUBSET (Volumes \ {v})
        /\ manifest.segments \in SUBSET (Volumes \ {v})
        /\ inputs \in SUBSET (Volumes \ {v})
    BY <1>3
  <2>2. /\ content'[v] = rs
        /\ \A vs \in SUBSET (Volumes \ {v}) :
              UNION {content'[w] : w \in vs} = UNION {content[w] : w \in vs}
    BY <1>1, <1>3, SameRowsElsewhere DEF Types, RowsOf
  <2> QED
    BY <1>2, <2>1, <2>2 DEF RowsOf
<1>5. /\ Committed' = Committed /\ ReplayFrom' = ReplayFrom
      /\ \A k : Cleared(k)' <=> Cleared(k)
  BY <1>2, SameLog, SameReplay
<1>6. rs \subseteq Nat
  <2>1. Committed \subseteq Nat /\ Committed = hot \union RowsOf(segs)
    BY DEF Committed, InsertedSince, MemoryHolds, Steady, Types
  <2>2. inputs # {} => RowsOf(inputs) \subseteq RowsOf(segs)
    BY DEF RowsOf
  <2> QED
    BY <2>1, <2>2
<1>7. Types'
  BY <1>1, <1>2, <1>3, <1>6 DEF Types, Steady, Emptying, Recovering
<1>8. EmptyingHolds' /\ ManifestKnown' /\ ReplayHolds'
  BY <1>2 DEF EmptyingHolds, ManifestKnown, ReplayHolds, Emptying, Steady, Recovering, Types
<1>9. DiskHolds' /\ DiskSound'
  BY <1>2, <1>4, <1>5 DEF DiskHolds, DiskSound, Cleared
<1>10. MemoryHolds'
  BY <1>2, <1>4, <1>5 DEF MemoryHolds, Steady
<1>11. JobHolds'
  BY <1>1, <1>2, <1>3, <1>4 DEF JobHolds
<1> QED
  BY <1>7, <1>8, <1>9, <1>10, <1>11

LEMMA SealAndCompactKeepInv ==
    ASSUME StorageInv, Seal \/ Compact
    PROVE  StorageInv'
<1>1. CASE Seal
  <2>1. pc = "open" /\ {} \in SUBSET segs /\ WriteVolume(hot, {}, Len(log))
    BY <1>1 DEF Seal
  <2> QED
    BY <2>1, WriteVolumeKeepsInv
<1>2. CASE Compact
  <2>1. PICK inputs \in SUBSET segs :
           /\ Cardinality(inputs) =
                 IF Cardinality(segs) > MaxInputs THEN MaxInputs ELSE Cardinality(segs)
           /\ WriteVolume(RowsOf(inputs), inputs, lsn)
    BY <1>2 DEF Compact
  <2>2. inputs # {}
    BY <1>2, <2>1, FS_EmptySet, StorageAssumption DEF Compact
  <2> QED
    BY <1>2, <2>1, <2>2, WriteVolumeKeepsInv DEF Compact
<1> QED
  BY <1>1, <1>2

LEMMA RenameKeepsInv ==
    ASSUME StorageInv, RenameVerified \/ VerifyFails
    PROVE  StorageInv'
<1> USE DEF StorageInv
<1>1. /\ pc = "written" /\ pc' \in {"renamed", "open"}
      /\ files' = files \/ files' = [files EXCEPT ![job.out] = "sound"]
      /\ pc' = "renamed" => files' = [files EXCEPT ![job.out] = "sound"]
      /\ UNCHANGED <<log, kept, manifest, content, memory, counters>>
  BY DEF RenameVerified, VerifyFails
<1>2. /\ files' \in [Volumes -> {"absent", "sound", "bad"}]
      /\ \A v \in Volumes : files[v] = "sound" => files'[v] = "sound"
      /\ pc' = "renamed" => files'[job.out] = "sound"
  BY <1>1 DEF Types, JobHolds
<1>3. /\ Committed' = Committed /\ ReplayFrom' = ReplayFrom
      /\ \A k : Cleared(k)' <=> Cleared(k)
      /\ \A vs : RowsOf(vs)' = RowsOf(vs)
  BY <1>1, SameRecords, SameReplay
<1>4. Types'
  BY <1>1, <1>2 DEF Types, Steady, Emptying, Recovering, memory, counters
<1>5. EmptyingHolds' /\ ManifestKnown' /\ ReplayHolds'
  BY <1>1 DEF EmptyingHolds, ManifestKnown, ReplayHolds, Emptying, Steady, Recovering, Types, memory
<1>6. DiskHolds' /\ DiskSound'
  BY <1>1, <1>2, <1>3 DEF DiskHolds, DiskSound, Cleared, Types, counters
<1>7. MemoryHolds'
  BY <1>1, <1>2, <1>3 DEF MemoryHolds, Steady, Types, memory
<1>8. JobHolds'
  BY <1>1, <1>2, <1>3 DEF JobHolds, memory
<1> QED
  BY <1>4, <1>5, <1>6, <1>7, <1>8

\* The rows in memory or in the inputs have moved to the new volume.
LEMMA PublishKeepsInv ==
    ASSUME StorageInv, Publish
    PROVE  StorageInv'
<1> USE DEF StorageInv
<1>1. /\ pc = "renamed" /\ next = 0
      /\ segs' = (segs \ job.inputs) \union {job.out}
      /\ loaded' = segs' /\ lsn' = job.lsn
      /\ hot' = hot \ content[job.out]
      /\ manifest' = [is |-> "sound", segments |-> segs', lsn |-> job.lsn]
      /\ pc' = IF job.inputs = {} THEN "sealed" ELSE "merged"
      /\ UNCHANGED <<log, kept, files, content, tmp, job, next, counters>>
  BY DEF Publish, Compacted, Manifest, Types, Steady
<1>2. /\ job.out \in Volumes \ segs /\ files[job.out] = "sound"
      /\ job.inputs = {} => content[job.out] = hot /\ job.lsn = Len(log)
      /\ job.inputs # {} => /\ job.inputs \subseteq segs
                            /\ content[job.out] = RowsOf(job.inputs)
                            /\ job.lsn = lsn
  BY <1>1 DEF JobHolds
<1>3. /\ loaded = segs /\ Committed = hot \union RowsOf(segs)
      /\ manifest.segments = segs /\ manifest.lsn = lsn
      /\ \A v \in segs : files[v] = "sound"
  BY <1>1 DEF MemoryHolds, ManifestKnown, Steady
<1>4. /\ Committed' = Committed
      /\ \A k : Cleared(k)' <=> Cleared(k)
      /\ \A vs : RowsOf(vs)' = RowsOf(vs)
  BY <1>1, SameRecords
<1>5. Committed = hot' \union RowsOf(segs')
  <2>1. RowsOf(segs') = RowsOf(segs \ job.inputs) \union content[job.out]
    BY <1>1, <1>2 DEF RowsOf
  <2>2. job.inputs # {} => RowsOf(segs) = RowsOf(segs \ job.inputs) \union RowsOf(job.inputs)
    BY <1>2 DEF RowsOf
  <2>3. job.inputs = {} => segs \ job.inputs = segs
    OBVIOUS
  <2> QED
    BY <1>1, <1>2, <1>3, <2>1, <2>2, <2>3
<1>6. Len(log) \in Nat /\ job.lsn \in 0 .. Len(log) /\ segs' \subseteq Volumes
  BY <1>1, <1>2 DEF Types
<1>7. Types'
  BY <1>1, <1>6 DEF Types, Steady, Emptying, Recovering, counters
<1>8. EmptyingHolds' /\ ManifestKnown' /\ ReplayHolds'
  BY <1>1 DEF EmptyingHolds, ManifestKnown, ReplayHolds, Emptying, Steady, Recovering
<1>9. DiskHolds'
  <2>1. ReplayFrom' = IF kept > job.lsn THEN kept ELSE job.lsn + 1
    BY <1>1 DEF ReplayFrom
  <2>2. CASE job.inputs = {}
    <3>1. ReplayFrom' = Len(log) + 1
      BY <1>2, <1>6, <2>1, <2>2 DEF Types
    <3>2. hot' = {} /\ Len(log)' = Len(log)
      BY <1>1, <1>2, <2>2
    <3> QED
      BY <1>1, <1>4, <1>5, <1>6, <3>1, <3>2 DEF DiskHolds
  <2>3. CASE job.inputs # {}
    <3>1. ReplayFrom' = ReplayFrom
      BY <1>2, <1>3, <2>1, <2>3, WhereReplayStarts
    <3>2. RowsOf(segs') = RowsOf(segs)
      <4>1. RowsOf(segs') = RowsOf(segs \ job.inputs) \union RowsOf(job.inputs)
        BY <1>1, <1>2, <2>3 DEF RowsOf
      <4> QED
        BY <1>2, <2>3, <4>1 DEF RowsOf
    <3> QED
      BY <1>1, <1>3, <1>4, <3>1, <3>2 DEF DiskHolds, Cleared
  <2> QED
    BY <2>2, <2>3
<1>10. DiskSound'
  BY <1>1, <1>2, <1>3 DEF DiskSound
<1>11. MemoryHolds'
  BY <1>1, <1>2, <1>3, <1>4, <1>5 DEF MemoryHolds
<1>12. JobHolds'
  BY <1>1, <1>2 DEF JobHolds
<1> QED
  BY <1>7, <1>8, <1>9, <1>10, <1>11, <1>12

\* What is cut off the log is in the volumes.
LEMMA TruncateWalKeepsInv ==
    ASSUME StorageInv, TruncateWal \/ TruncateWalOnly
    PROVE  StorageInv'
<1> USE DEF StorageInv
<1>1. /\ pc \in {"sealed", "open"} /\ pc' = "open" /\ next = 0 /\ hot = {}
      /\ kept' = Len(log) + 1
      /\ UNCHANGED <<log, manifest, files, content, tmp, memory, counters>>
  BY DEF TruncateWal, TruncateWalOnly, JobHolds, Types, Steady
<1>2. /\ loaded = segs /\ Committed = RowsOf(segs)
      /\ manifest.segments = segs /\ \A v \in segs : files[v] = "sound"
  BY <1>1 DEF MemoryHolds, ManifestKnown, Steady
<1>3. /\ Committed' = Committed
      /\ \A vs : RowsOf(vs)' = RowsOf(vs)
  BY <1>1, SameRecords
<1>4. ReplayFrom' = Len(log) + 1 /\ Len(log) \in Nat
  BY <1>1 DEF ReplayFrom, Types
<1>5. Types'
  BY <1>1 DEF Types, Steady, Emptying, Recovering, memory, counters
<1>6. EmptyingHolds' /\ ManifestKnown' /\ ReplayHolds' /\ JobHolds'
  BY <1>1 DEF EmptyingHolds, ManifestKnown, ReplayHolds, JobHolds, Emptying, Steady, Recovering, memory
<1>7. DiskHolds'
  BY <1>1, <1>2, <1>3, <1>4 DEF DiskHolds
<1>8. DiskSound'
  BY <1>1, <1>2 DEF DiskSound, counters
<1>9. MemoryHolds'
  BY <1>1, <1>2, <1>3 DEF MemoryHolds, memory
<1> QED
  BY <1>5, <1>6, <1>7, <1>8, <1>9

\* The inputs of a compaction are no part of the table any more.
LEMMA DeleteInputKeepsInv ==
    ASSUME StorageInv, DeleteInput \/ InputsDeleted
    PROVE  StorageInv'
<1> USE DEF StorageInv
<1>1. /\ pc = "merged" /\ pc' \in {"merged", "open"} /\ next = 0
      /\ UNCHANGED <<log, kept, manifest, content, tmp, memory, counters>>
  BY DEF DeleteInput, InputsDeleted, disk, Types, Steady
<1>2. /\ files' \in [Volumes -> {"absent", "sound", "bad"}]
      /\ \A v \in segs : files'[v] = files[v]
  BY <1>1 DEF DeleteInput, InputsDeleted, Remove, disk, JobHolds, Types
<1>3. /\ loaded = segs /\ manifest.segments = segs
      /\ Committed' = Committed /\ ReplayFrom' = ReplayFrom
      /\ \A k : Cleared(k)' <=> Cleared(k)
      /\ \A vs : RowsOf(vs)' = RowsOf(vs)
  BY <1>1, SameRecords, SameReplay DEF MemoryHolds, ManifestKnown, Steady
<1>4. Types'
  BY <1>1, <1>2 DEF Types, Steady, Emptying, Recovering, memory, counters
<1>5. EmptyingHolds' /\ ManifestKnown' /\ ReplayHolds' /\ JobHolds'
  BY <1>1 DEF EmptyingHolds, ManifestKnown, ReplayHolds, JobHolds, Emptying, Steady, Recovering, memory
<1>6. DiskHolds' /\ DiskSound'
  BY <1>1, <1>2, <1>3 DEF DiskHolds, DiskSound, Cleared, counters
<1>7. MemoryHolds'
  BY <1>1, <1>2, <1>3 DEF MemoryHolds, Steady, memory
<1> QED
  BY <1>4, <1>5, <1>6, <1>7

LEMMA StopKeepsInv ==
    ASSUME StorageInv, Stop
    PROVE  StorageInv'
<1> USE DEF StorageInv
<1>1. /\ pc' = "stopped" /\ next' = 1
      /\ hot' = {} /\ segs' = {} /\ loaded' = {} /\ lsn' = 0
      /\ UNCHANGED <<log, kept, manifest, files, content, damage>>
  BY DEF Stop, Forget
<1>2. /\ Committed' = Committed /\ ReplayFrom' = ReplayFrom
      /\ \A k : Cleared(k)' <=> Cleared(k)
      /\ \A vs : RowsOf(vs)' = RowsOf(vs)
  BY <1>1, SameRecords, SameReplay
<1>3. Types'
  BY <1>1 DEF Types, Steady, Emptying, Recovering
<1>4. EmptyingHolds' /\ ManifestKnown' /\ MemoryHolds' /\ ReplayHolds' /\ JobHolds'
  BY <1>1 DEF EmptyingHolds, ManifestKnown, MemoryHolds, ReplayHolds, JobHolds,
              Emptying, Steady, Recovering
<1>5. DiskHolds' /\ DiskSound'
  BY <1>1, <1>2 DEF DiskHolds, DiskSound, Cleared
<1> QED
  BY <1>3, <1>4, <1>5

LEMMA DamageKeepsInv ==
    ASSUME StorageInv, Damage
    PROVE  StorageInv'
<1> USE DEF StorageInv
<1>1. /\ pc = "stopped" /\ pc' = pc /\ damage' = damage + 1
      /\ UNCHANGED <<log, kept, content, tmp, memory>>
  BY DEF Damage
<1>2. /\ files' \in [Volumes -> {"absent", "sound", "bad"}]
      /\ \/ manifest' = manifest
         \/ manifest.is = "sound" /\ manifest' = [manifest EXCEPT !.is = "bad"]
  BY DEF Damage, OnDisk, Types
<1>3. /\ manifest'.segments = manifest.segments /\ manifest'.lsn = manifest.lsn
      /\ manifest'.is = "absent" <=> manifest.is = "absent"
  BY <1>2 DEF Types
<1>4. ReplayFrom' = ReplayFrom
  BY <1>1, <1>3 DEF ReplayFrom
<1>5. Types'
  <2>1. /\ manifest' \in [is : {"absent", "sound", "bad"}, segments : SUBSET Volumes, lsn : 0 .. Len(log)]
        /\ manifest'.is = "absent" => manifest' = NoManifest
    BY <1>2 DEF Types
  <2> QED
    BY <1>1, <1>2, <2>1 DEF Types, memory
<1>6. EmptyingHolds' /\ ManifestKnown' /\ MemoryHolds' /\ ReplayHolds' /\ JobHolds'
  BY <1>1 DEF EmptyingHolds, ManifestKnown, MemoryHolds, ReplayHolds, JobHolds,
              Emptying, Steady, Recovering, memory
<1>7. DiskHolds' /\ DiskSound'
  BY <1>1, <1>3, <1>4, SameRecords DEF DiskHolds, DiskSound, Cleared, Types
<1> QED
  BY <1>5, <1>6, <1>7

LEMMA LoadKeepsInv ==
    ASSUME StorageInv, LoadManifest \/ LoadVolumes
    PROVE  StorageInv'
<1> USE DEF StorageInv
<1>1. CASE LoadManifest
  <2>1. /\ pc = "stopped" /\ pc' = "volumes" /\ hot = {} /\ loaded = {}
        /\ segs' = manifest.segments /\ lsn' = manifest.lsn /\ next' = ReplayFrom
        /\ UNCHANGED <<log, kept, manifest, files, content, tmp, hot, loaded, job, counters>>
    BY <1>1 DEF LoadManifest, MemoryHolds, disk
  <2>2. /\ Committed' = Committed /\ ReplayFrom' = ReplayFrom
        /\ \A k : Cleared(k)' <=> Cleared(k)
        /\ \A vs : RowsOf(vs)' = RowsOf(vs)
    BY <2>1, SameRecords, SameReplay
  <2>3. ReplayFrom \in 1 .. Len(log) + 1 /\ Len(log) \in Nat
    BY WhereReplayStarts DEF Types
  <2>4. Types'
    BY <2>1, <2>3 DEF Types, Steady, Emptying, Recovering, counters
  <2>5. EmptyingHolds' /\ ManifestKnown' /\ MemoryHolds' /\ JobHolds'
    BY <2>1 DEF EmptyingHolds, ManifestKnown, MemoryHolds, JobHolds, Emptying, Steady, Recovering
  <2>6. DiskHolds' /\ DiskSound'
    BY <2>1, <2>2 DEF DiskHolds, DiskSound, Cleared, counters
  <2>7. ReplayHolds'
    <3>1. Cleared(next)' <=> Cleared(ReplayFrom)
      BY <2>1 DEF Cleared
    <3>2. ~Cleared(ReplayFrom) => Committed = (ReplayFrom .. Len(log)) \union RowsOf(manifest.segments)
      BY DEF DiskHolds
    <3> QED
      BY <2>1, <2>2, <2>3, <3>1, <3>2 DEF ReplayHolds
  <2> QED
    BY <2>4, <2>5, <2>6, <2>7
<1>2. CASE LoadVolumes
  <2>1. /\ pc = "volumes" /\ pc' = "replay" /\ next # 0
        /\ loaded' = {v \in segs : files[v] = "sound"}
        /\ files' = [v \in Volumes |-> IF v \in segs THEN files[v] ELSE "absent"]
        /\ UNCHANGED <<log, kept, manifest, content, tmp, hot, segs, lsn, job, next, counters>>
    BY <1>2 DEF LoadVolumes, Types, Recovering
  <2>2. /\ files' \in [Volumes -> {"absent", "sound", "bad"}]
        /\ \A v \in segs : files'[v] = files[v]
        /\ loaded' \subseteq segs
        /\ manifest.segments = segs /\ segs \subseteq Volumes
        /\ ReplayFrom = next
    BY <2>1 DEF Types, ManifestKnown, ReplayHolds, Recovering
  <2>3. /\ Committed' = Committed /\ ReplayFrom' = ReplayFrom
        /\ \A k : Cleared(k)' <=> Cleared(k)
        /\ \A vs : RowsOf(vs)' = RowsOf(vs)
    BY <2>1, SameRecords, SameReplay
  <2>4. Types'
    BY <2>1, <2>2 DEF Types, Steady, Emptying, Recovering, counters
  <2>5. EmptyingHolds' /\ ManifestKnown' /\ MemoryHolds' /\ JobHolds'
    BY <2>1, <2>2 DEF EmptyingHolds, ManifestKnown, MemoryHolds, JobHolds, Emptying, Steady, Recovering
  <2>6. DiskHolds' /\ DiskSound'
    BY <2>1, <2>2, <2>3 DEF DiskHolds, DiskSound, Cleared, counters
  <2>7. ReplayHolds'
    <3>1. Cleared(next)' <=> Cleared(next)
      BY <2>1 DEF Cleared
    <3>2. ~Cleared(next) /\ damage = 0 => segs \subseteq loaded'
      BY <2>1, <2>2 DEF DiskSound
    <3> QED
      BY <2>1, <2>2, <2>3, <3>1, <3>2 DEF ReplayHolds, Recovering, counters
  <2> QED
    BY <2>4, <2>5, <2>6, <2>7
<1> QED
  BY <1>1, <1>2

LEMMA ReplayInsertKeepsInv ==
    ASSUME StorageInv, ReplayInsert
    PROVE  StorageInv'
<1> USE DEF StorageInv
<1>1. /\ pc = "replay" /\ pc' = pc /\ next' = next + 1
      /\ next # 0 /\ next <= Len(log) /\ log[next] = "insert"
      /\ hot' = IF next \in RowsOf(loaded) THEN hot ELSE hot \union {next}
      /\ UNCHANGED <<log, kept, manifest, files, content, tmp, segs, loaded, lsn, job, counters>>
  BY DEF ReplayInsert, Replaying, Types, Recovering, disk
<1>2. /\ Committed' = Committed /\ ReplayFrom' = ReplayFrom
      /\ \A k : Cleared(k)' <=> Cleared(k)
      /\ \A vs : RowsOf(vs)' = RowsOf(vs)
  BY <1>1, SameRecords, SameReplay
<1>3. /\ Len(log) \in Nat /\ next \in 1 .. Len(log)
      /\ ReplayFrom \in Nat /\ ReplayFrom <= next
  BY <1>1, WhereReplayStarts DEF Types, ReplayHolds, Recovering
<1>4. Types'
  BY <1>1, <1>3 DEF Types, Steady, Emptying, Recovering, counters
<1>5. EmptyingHolds' /\ ManifestKnown' /\ MemoryHolds' /\ JobHolds'
  BY <1>1 DEF EmptyingHolds, ManifestKnown, MemoryHolds, JobHolds, Emptying, Steady, Recovering
<1>6. DiskHolds' /\ DiskSound'
  BY <1>1, <1>2 DEF DiskHolds, DiskSound, Cleared, counters
<1>7. ReplayHolds'
  <2>1. Cleared(next)' <=> Cleared(next + 1)
    BY <1>1 DEF Cleared
  <2>2. Cleared(next) <=> Cleared(next + 1)
    BY <1>1, <1>3, RecordsOfLog DEF Types
  <2>3. RowsOf(loaded) \subseteq RowsOf(segs)
    BY DEF RowsOf, Types
  <2>4. ~Cleared(next) => /\ Committed = hot \union RowsOf(segs) \union (next .. Len(log))
                          /\ damage = 0 => segs \subseteq loaded
    BY <1>1 DEF ReplayHolds, Recovering
  <2>5. next .. Len(log) = {next} \union (next + 1 .. Len(log))
    BY <1>3
  <2>6. ~Cleared(next) => Committed = hot' \union RowsOf(segs) \union (next + 1 .. Len(log))
    BY <1>1, <2>3, <2>4, <2>5
  <2> QED
    BY <1>1, <1>2, <1>3, <2>1, <2>2, <2>4, <2>6 DEF ReplayHolds, counters
<1> QED
  BY <1>4, <1>5, <1>6, <1>7

\* TRUNCATE and DROP in recovery: what is replayed next is behind the record.
LEMMA ReplayEmptyingKeepsInv ==
    ASSUME StorageInv, ReplayTruncate \/ ReplayDrop
    PROVE  StorageInv'
<1> USE DEF StorageInv
<1>1. /\ pc = "replay" /\ pc' \in {"clearing", "removing"}
      /\ next' = next + 1 /\ next # 0 /\ next <= Len(log) /\ log[next] # "insert"
      /\ hot' = {} /\ segs' = {} /\ loaded' = {}
      /\ lsn' = IF pc' = "removing" THEN 0 ELSE lsn
      /\ UNCHANGED <<log, kept, manifest, files, content, tmp, job, counters>>
  BY DEF ReplayTruncate, ReplayDrop, Replaying, Forget, Types, Recovering, disk
<1>2. /\ Committed' = Committed /\ ReplayFrom' = ReplayFrom
      /\ \A k : Cleared(k)' <=> Cleared(k)
      /\ \A vs : RowsOf(vs)' = RowsOf(vs)
  BY <1>1, SameRecords, SameReplay
<1>3. /\ Len(log) \in Nat /\ next \in 1 .. Len(log) /\ log \in Seq(Operations)
      /\ ReplayFrom \in Nat /\ ReplayFrom <= next
  BY <1>1, WhereReplayStarts DEF Types, ReplayHolds, Recovering
<1>4. Types'
  BY <1>1, <1>3 DEF Types, Steady, Emptying, Recovering, counters
<1>5. EmptyingHolds'
  BY <1>1, <1>2, <1>3 DEF EmptyingHolds, Last
<1>6. ManifestKnown' /\ MemoryHolds' /\ JobHolds'
  BY <1>1 DEF ManifestKnown, MemoryHolds, JobHolds, Emptying, Steady, Recovering
<1>7. DiskHolds' /\ DiskSound'
  BY <1>1, <1>2 DEF DiskHolds, DiskSound, Cleared, counters
<1>8. ReplayHolds'
  <2>1. Cleared(next)' <=> Cleared(next + 1)
    BY <1>1 DEF Cleared
  <2>2. ~Cleared(next + 1) => Committed = next + 1 .. Len(log)
    <3>1. next + 1 \in 1 .. Len(log) + 1 /\ next + 1 > 1 /\ (next + 1) - 1 = next
      BY <1>3
    <3> QED
      BY <1>1, <1>3, <3>1, RecordsOfLog
  <2>3. RowsOf(segs)' = {}
    BY <1>1 DEF RowsOf
  <2> QED
    BY <1>1, <1>2, <1>3, <2>1, <2>2, <2>3 DEF ReplayHolds
<1> QED
  BY <1>4, <1>5, <1>6, <1>7, <1>8

LEMMA RecoveryEndsKeepsInv ==
    ASSUME StorageInv, OpenValidated \/ VolumesMissing \/ ManifestUnreadable
    PROVE  StorageInv'
<1> USE DEF StorageInv
<1>1. /\ pc \in {"replay", "stopped"} /\ pc' \in {"open", "refused"}
      /\ next' = IF pc' = "open" THEN 0 ELSE next
      /\ pc' = "open" => /\ pc = "replay" /\ next > Len(log) /\ segs \subseteq loaded
      /\ UNCHANGED <<disk, hot, segs, loaded, lsn, job, counters>>
  BY DEF OpenValidated, VolumesMissing, ManifestUnreadable, memory
<1>2. /\ Committed' = Committed /\ ReplayFrom' = ReplayFrom
      /\ \A k : Cleared(k)' <=> Cleared(k)
      /\ \A vs : RowsOf(vs)' = RowsOf(vs)
  BY <1>1, SameRecords, SameReplay DEF disk
<1>3. Types'
  BY <1>1 DEF Types, Steady, Emptying, Recovering, disk, counters
<1>4. EmptyingHolds' /\ ManifestKnown' /\ ReplayHolds' /\ JobHolds'
  BY <1>1 DEF EmptyingHolds, ManifestKnown, ReplayHolds, JobHolds,
              Emptying, Steady, Recovering, disk
<1>5. DiskHolds' /\ DiskSound'
  BY <1>1, <1>2 DEF DiskHolds, DiskSound, Cleared, disk, counters
<1>6. MemoryHolds'
  <2>1. pc' = "open" => loaded = segs /\ Committed = hot \union RowsOf(segs)
    <3>1. next > Len(log) /\ next \in Nat => ~Cleared(next) /\ next .. Len(log) = {}
      BY DEF Cleared, Types
    <3>2. pc = "replay" => /\ next \in Nat \ {0}
                           /\ ~Cleared(next) =>
                                Committed = hot \union RowsOf(segs) \union (next .. Len(log))
      BY DEF ReplayHolds, Recovering, Types
    <3> QED
      BY <1>1, <3>1, <3>2 DEF Types
  <2> QED
    BY <1>1, <1>2, <2>1 DEF MemoryHolds, Steady, disk
<1> QED
  BY <1>3, <1>4, <1>5, <1>6

-----------------------------------------------------------------------------
(* The theorems.                                                            *)

LEMMA StorageInvInit == Init => StorageInv
<1> SUFFICES ASSUME Init PROVE StorageInv
  OBVIOUS
<1>1. log = <<>> /\ Len(log) = 0 /\ kept = 1
  BY DEF Init
<1>2. Committed = {} /\ RowsOf({}) = {}
  BY <1>1 DEF Committed, InsertedSince, RowsOf
<1>3. Types
  BY <1>1 DEF Init, Types, NoManifest, Operations, Steady, Emptying, Recovering
<1>4. DiskHolds
  <2>1. ReplayFrom = 1
    BY <1>1 DEF Init, ReplayFrom, NoManifest
  <2>2. manifest.segments = {} /\ 1 .. Len(log) = {}
    BY <1>1 DEF Init, NoManifest
  <2> QED
    BY <1>1, <1>2, <2>1, <2>2 DEF DiskHolds
<1>5. EmptyingHolds /\ ManifestKnown /\ DiskSound /\ MemoryHolds /\ ReplayHolds /\ JobHolds
  BY <1>2 DEF Init, NoManifest, EmptyingHolds, ManifestKnown, DiskSound, MemoryHolds,
              ReplayHolds, JobHolds, Emptying, Steady, Recovering
<1> QED
  BY <1>3, <1>4, <1>5 DEF StorageInv

LEMMA StorageInvStep == StorageInv /\ [Next]_vars => StorageInv'
<1> SUFFICES ASSUME StorageInv, [Next]_vars PROVE StorageInv'
  OBVIOUS
<1>1. CASE Statement
  BY <1>1, StatementKeepsInv
<1>2. CASE StatementStep
  BY <1>2, EmptyingStepKeepsInv, EmptiedKeepsInv DEF StatementStep
<1>3. CASE Seal \/ TruncateWalOnly \/ Compact
  BY <1>3, SealAndCompactKeepInv, TruncateWalKeepsInv
<1>4. CASE MaintenanceStep
  BY <1>4, RenameKeepsInv, PublishKeepsInv, TruncateWalKeepsInv, DeleteInputKeepsInv
  DEF MaintenanceStep
<1>5. CASE Stop \/ Damage
  BY <1>5, StopKeepsInv, DamageKeepsInv
<1>6. CASE RecoveryStep
  BY <1>6, LoadKeepsInv, ReplayInsertKeepsInv, ReplayEmptyingKeepsInv, RecoveryEndsKeepsInv
  DEF RecoveryStep
<1>7. CASE UNCHANGED vars
  <2>1. /\ UNCHANGED <<log, kept, manifest, files, content, tmp>>
        /\ UNCHANGED <<hot, segs, loaded, lsn, job, next, pc, damage>>
    BY <1>7 DEF vars, disk, memory, counters
  <2>2. /\ Committed' = Committed /\ ReplayFrom' = ReplayFrom
        /\ \A k : Cleared(k)' <=> Cleared(k)
        /\ \A vs : RowsOf(vs)' = RowsOf(vs)
    BY <2>1, SameRecords, SameReplay
  <2> QED
    BY <2>1, <2>2
    DEF StorageInv, Types, EmptyingHolds, ManifestKnown, DiskHolds, DiskSound, MemoryHolds,
        ReplayHolds, JobHolds, Last, Cleared
<1> QED
  BY <1>1, <1>2, <1>3, <1>4, <1>5, <1>6, <1>7 DEF Next

\* The invariant behind the theorems below.
THEOREM StorageInvariant == Spec => []StorageInv
BY StorageInvInit, StorageInvStep, PTL DEF Spec

\* The files alone hold the table, whatever was written when the process stopped.
THEOREM FilesAloneHoldTable == Spec => []DiskSuffices
<1>1. StorageInv => DiskSuffices
  <2> SUFFICES ASSUME StorageInv, damage = 0 PROVE
                 /\ Committed = InsertedSince(ReplayFrom) \union
                       (IF Cleared(ReplayFrom) THEN {} ELSE RowsOf(manifest.segments))
                 /\ Cleared(ReplayFrom) \/ \A v \in manifest.segments : files[v] = "sound"
    BY DEF DiskSuffices
  <2>1. /\ Cleared(ReplayFrom) => Committed = InsertedSince(ReplayFrom)
        /\ ~Cleared(ReplayFrom) => InsertedSince(ReplayFrom) = ReplayFrom .. Len(log)
    BY WhereReplayStarts, RecordsOfLog DEF StorageInv, Types
  <2> QED
    BY <2>1 DEF StorageInv, DiskHolds, DiskSound
<1> QED
  BY <1>1, StorageInvariant, PTL

(***************************************************************************)
(* The table implements DurableTable.                                      *)
(***************************************************************************)

\* What an open database shows.
ShowsCommitted == next = 0 => hot \union RowsOf(loaded) = Committed

LEMMA OpenShowsCommitted == StorageInv => ShowsCommitted
<1> SUFFICES ASSUME StorageInv, next = 0 PROVE hot \union RowsOf(loaded) = Committed
  BY DEF ShowsCommitted
<1>1. CASE pc \in Steady
  BY <1>1 DEF StorageInv, MemoryHolds
<1>2. CASE pc \in Emptying
  <2>1. hot = {} /\ loaded = {} /\ Len(log) \in Nat /\ log[Len(log)] # "insert"
    BY <1>2 DEF StorageInv, EmptyingHolds, Last, Types
  <2>2. Committed = {}
    BY <2>1 DEF Committed, InsertedSince
  <2> QED
    BY <2>1, <2>2 DEF RowsOf
<1> QED
  BY <1>1, <1>2 DEF StorageInv, Types

LEMMA OpenShowsCommittedNext == StorageInv' => ShowsCommitted'
BY OpenShowsCommitted, PTL

\* A step that records nothing and opens, stops or refuses nothing is none of
\* the abstract table.
LEMMA InternalStep ==
    ASSUME StorageInv, StorageInv', log' = log, damage' = damage,
           next = 0 <=> next' = 0, pc # "refused", pc' # "refused"
    PROVE  UNCHANGED Table!tableVars
<1>1. Committed' = Committed
  BY SameLog
<1>2. next = 0 => hot' \union RowsOf(loaded)' = hot \union RowsOf(loaded)
  BY <1>1, OpenShowsCommitted, OpenShowsCommittedNext DEF ShowsCommitted
<1> QED
  BY <1>1, <1>2 DEF Table!tableVars

LEMMA TableInit == Init => Table!Init
<1> SUFFICES ASSUME Init PROVE Table!Init
  OBVIOUS
<1>1. Committed = {} /\ RowsOf({}) = {}
  BY DEF Init, Committed, InsertedSince, RowsOf
<1> QED
  BY <1>1 DEF Init, Table!Init

LEMMA TableStatement ==
    ASSUME StorageInv, StorageInv', Statement
    PROVE  Table!Next
<1>1. /\ pc = "open" /\ next = 0 /\ next' = 0 /\ pc' # "refused" /\ damage' = damage
      /\ log \in Seq(Operations) /\ Len(log) < MaxLog
  BY DEF Statement, Insert, Truncate, Drop, Commit, StorageInv, Types, Steady, counters
<1>2. /\ hot \union RowsOf(loaded) = Committed
      /\ hot' \union RowsOf(loaded)' = Committed'
  BY <1>1, OpenShowsCommitted, OpenShowsCommittedNext DEF ShowsCommitted
<1>3. CASE Insert
  <2>1. Committed' = Committed \union {Len(log) + 1}
    BY <1>1, <1>3, RecordAdded DEF Insert, Commit, Operations
  <2>2. Len(log) + 1 \in 1 .. MaxLog
    BY <1>1, StorageAssumption
  <2>3. Table!Insert(Len(log) + 1)
    BY <1>1, <1>2, <2>1 DEF Table!Insert
  <2> QED
    BY <2>2, <2>3 DEF Table!Next
<1>4. CASE Truncate \/ Drop
  <2>1. Committed' = {}
    BY <1>1, <1>4, RecordAdded DEF Truncate, Drop, Commit, Operations
  <2>2. Table!Clear
    BY <1>1, <1>2, <2>1 DEF Table!Clear
  <2> QED
    BY <2>2 DEF Table!Next
<1> QED
  BY <1>3, <1>4 DEF Statement

LEMMA TableStep ==
    ASSUME StorageInv, StorageInv', [Next]_vars
    PROVE  [Table!Next]_Table!tableVars
<1>1. CASE Statement
  BY <1>1, TableStatement
<1>2. CASE StatementStep
  <2>1. /\ log' = log /\ damage' = damage /\ next' = next
        /\ pc # "refused" /\ pc' # "refused"
    BY <1>2
    DEF StatementStep, PersistEmptyManifest, NothingToPersist, DeleteVolume, VolumesDeleted, RemoveFile,
        DirectoryRemoved, Resume, disk, memory, counters
  <2> QED
    BY <2>1, InternalStep
<1>3. CASE Seal \/ TruncateWalOnly \/ Compact
  <2>1. /\ log' = log /\ damage' = damage /\ next' = next
        /\ pc # "refused" /\ pc' # "refused"
    BY <1>3 DEF Seal, TruncateWalOnly, Compact, WriteVolume, memory, counters
  <2> QED
    BY <2>1, InternalStep
<1>4. CASE MaintenanceStep
  <2>1. /\ log' = log /\ damage' = damage /\ next' = next
        /\ pc # "refused" /\ pc' # "refused"
    BY <1>4
    DEF MaintenanceStep, RenameVerified, VerifyFails, Publish, TruncateWal, DeleteInput,
        InputsDeleted, disk, memory, counters
  <2> QED
    BY <2>1, InternalStep
<1>5. CASE Stop
  <2>1. Committed' = Committed
    BY <1>5, SameLog DEF Stop
  <2>2. Table!Stop
    BY <1>5, <2>1 DEF Stop, Table!Stop
  <2> QED
    BY <2>2 DEF Table!Next
<1>6. CASE Damage
  <2>1. pc = "stopped" /\ pc' = pc /\ next # 0 /\ next' = next /\ damage' > 0 /\ log' = log
    BY <1>6 DEF Damage, StorageInv, Types, memory
  <2>2. Committed' = Committed
    BY <2>1, SameLog
  <2>3. Table!Damage
    BY <2>1, <2>2 DEF Table!Damage
  <2> QED
    BY <2>3 DEF Table!Next
<1>7. CASE OpenValidated
  <2>1. /\ pc = "replay" /\ next # 0 /\ pc' = "open" /\ next' = 0
        /\ log' = log /\ damage' = damage
    BY <1>7 DEF OpenValidated, StorageInv, Types, Recovering, disk, counters
  <2>2. Committed' = Committed /\ hot' \union RowsOf(loaded)' = Committed'
    BY <2>1, SameLog, OpenShowsCommittedNext DEF ShowsCommitted
  <2>3. Table!Open
    BY <2>1, <2>2 DEF Table!Open
  <2> QED
    BY <2>3 DEF Table!Next
<1>8. CASE ManifestUnreadable \/ VolumesMissing
  <2>1. /\ pc \in {"stopped", "replay"} /\ next # 0 /\ pc' = "refused" /\ next' = next
        /\ log' = log /\ damage' = damage
    BY <1>8
    DEF ManifestUnreadable, VolumesMissing, StorageInv, Types, Recovering, disk, memory, counters
  <2>2. damage > 0
    <3>1. damage \in Nat
      BY DEF StorageInv, Types
    <3>2. CASE ManifestUnreadable
      BY <3>1, <3>2 DEF ManifestUnreadable, StorageInv, DiskSound
    <3>3. CASE VolumesMissing
      <4>1. ~Cleared(next) /\ pc = "replay"
        BY <3>3 DEF VolumesMissing, Cleared, StorageInv, Types
      <4> QED
        BY <2>1, <3>1, <3>3, <4>1 DEF VolumesMissing, StorageInv, ReplayHolds, Recovering
    <3> QED
      BY <1>8, <3>2, <3>3
  <2>3. Committed' = Committed
    BY <2>1, SameLog
  <2>4. Table!Refuse
    BY <2>1, <2>2, <2>3 DEF Table!Refuse
  <2> QED
    BY <2>4 DEF Table!Next
<1>9. CASE LoadManifest \/ LoadVolumes \/ ReplayInsert \/ ReplayTruncate \/ ReplayDrop
  <2>1. /\ log' = log /\ damage' = damage /\ pc # "refused" /\ pc' # "refused"
    BY <1>9
    DEF LoadManifest, LoadVolumes, ReplayInsert, ReplayTruncate, ReplayDrop, Replaying,
        disk, counters
  <2>2. next # 0 /\ next' # 0
    <3>1. ReplayFrom \in 1 .. Len(log) + 1 /\ Len(log) \in Nat /\ next \in Nat
      BY WhereReplayStarts DEF StorageInv, Types
    <3>2. pc \in Recovering \union {"stopped", "refused"} => next # 0
      BY DEF StorageInv, Types
    <3> QED
      BY <1>9, <3>1, <3>2
      DEF LoadManifest, LoadVolumes, ReplayInsert, ReplayTruncate, ReplayDrop, Replaying, Recovering
  <2> QED
    BY <2>1, <2>2, InternalStep
<1>10. CASE UNCHANGED vars
  <2>1. UNCHANGED <<log, next, pc, hot, loaded, content, damage>>
    BY <1>10 DEF vars, disk, memory, counters
  <2>2. Committed' = Committed /\ RowsOf(loaded)' = RowsOf(loaded)
    BY <2>1, SameRecords DEF RowsOf
  <2> QED
    BY <2>1, <2>2 DEF Table!tableVars
<1> QED
  BY <1>1, <1>2, <1>3, <1>4, <1>5, <1>6, <1>7, <1>8, <1>9, <1>10 DEF Next, RecoveryStep

\* An open database shows exactly the committed rows, and it is refused only if
\* the medium was damaged.
THEOREM TableImplementsDurableTable == Spec => KeepsTable
<1>1. StorageInv /\ StorageInv' /\ [Next]_vars => [Table!Next]_Table!tableVars
  BY TableStep
<1> QED
  BY <1>1, TableInit, StorageInvariant, PTL DEF Spec, KeepsTable, Table!Spec

\* What that comes to for the reader of an open database: its rows are the
\* committed ones, after any stops in any step of a statement, of maintenance or
\* of recovery; and it was refused only if the medium had been damaged.
THEOREM NoRowLostUnnoticed ==
    Spec => [](ShowsCommitted /\ (pc = "refused" => damage > 0))
<1>1. StorageInv => ShowsCommitted
  BY OpenShowsCommitted
<1>2. Table!Init => (next # 0 /\ pc = "refused" => damage > 0)
  BY DEF Table!Init
<1>3. (next # 0 /\ pc = "refused" => damage > 0) /\ [Table!Next]_Table!tableVars
        => (next # 0 /\ pc = "refused" => damage > 0)'
  BY DEF Table!Next, Table!Insert, Table!Clear, Table!Stop, Table!Damage, Table!Open,
         Table!Refuse, Table!tableVars
<1>4. StorageInv => (pc = "refused" => next # 0)
  BY DEF StorageInv, Types
<1> QED
  BY <1>1, <1>2, <1>3, <1>4, StorageInvariant, TableImplementsDurableTable, PTL
     DEF KeepsTable, Table!Spec

=============================================================================
