----------------------------- MODULE UndoIndex -----------------------------
(***************************************************************************)
(* The derived undo index of CommitStore3A (src/src/chainstate/store3a).   *)
(*                                                                         *)
(* undo.dat holds one variable-length record per connected block.  The     *)
(* file UNDOINDEX describes its closed segments, S records each, so that   *)
(* an open need not read the whole log.  In memory the instance keeps the  *)
(* segment directory (undoSegments_), the number of records and a bounded  *)
(* cache of the newest ones (undoRecent_).  None of it is authoritative:   *)
(* MANIFEST.undoSize says how much of the log is committed.  What can go   *)
(* wrong is that the derived state and the log drift apart, over failed    *)
(* commits, disconnects that overwrite the tail, crashes and restarts.     *)
(*                                                                         *)
(* Abstractions.  A record is its offset and its length; a read at an      *)
(* offset finds a record exactly when the header written there is intact.  *)
(* The tree, MANIFEST.bak and ACK are in Store3A; here the manifest is its *)
(* undoSize.  publish() is publishBatch() of one block: with one record    *)
(* publishUndoIndexOnSegmentClose closes what publishUndoIndexCrossings    *)
(* closes.                                                                 *)
(***************************************************************************)
EXTENDS Naturals, FiniteSetsExt, SequencesExt

CONSTANTS
    S,           \* ixSegmentSize_: records in a closed segment
    Window,      \* UNDO_RECENT_CACHE_SEGMENTS
    Lengths,     \* the lengths an encoded record may have
    Absent,      \* no UNDOINDEX
    Torn,        \* an UNDOINDEX whose bytes fail magic, crc or length
    MaxBytes,    \* bound: bytes of undo.dat
    MaxBatch,    \* blocks in a batch
    MaxFaults,   \* bound: failing I/O calls
    MaxCrashes,  \* bound: kills and power failures
    MaxDamage,   \* bound: times UNDOINDEX is damaged on disk
    LateFaults   \* MANIFEST.tmp may fail after the index gained a segment

ASSUME IndexConstants ==
    /\ S \in Nat \ {0} /\ Window \in Nat \ {0}
    /\ Lengths \subseteq Nat \ {0}
    /\ LateFaults \in BOOLEAN

\* An open through the index parses the trailing segments that fill the cache, so an
\* index of another branch is found out when less than a segment and one batch lie
\* between it and the log.  The node's batches are 1000 (-s16store3abatch) and 2000
\* (kReplayBatch) blocks, against (3 - 1) * 4096.
ASSUME BatchFitsCache == MaxBatch \in Nat \ {0} /\ MaxBatch <= (Window - 1) * S

VARIABLES
    \* ---- disk
    log,         \* undo.dat: the records whose header is intact
    manifest,    \* MANIFEST.undoSize
    index,       \* UNDOINDEX: Absent, Torn or the segments it describes
    mayManifest, \* the manifests a power failure may leave
    mayIndex,    \* the indexes a power failure may leave
    \* ---- the instance
    pc,          \* where the current call is
    job,         \* the commit in progress: the record lengths it appends, its undoSize
    segs,        \* undoSegments_
    recent,      \* undoRecent_
    count,       \* undoRecordCount_
    committed,   \* undoCommittedBytes_
    oneShot,     \* freshUndoCreate_ # UndoCreate::Any: no undo write since a fresh open
    \* ---- environment
    faults, crashes, damage

disk == <<log, manifest, index, mayManifest, mayIndex>>
memory == <<segs, recent, count, committed>>
env == <<faults, crashes, damage>>
vars == <<disk, pc, job, memory, oneShot, env>>

NoJob == [call |-> "none", lens |-> << >>, size |-> 0, took |-> FALSE]

---------------------------------------------------------------------------
(* Reading the log.                                                        *)

EndOf(r) == r.off + r.len

\* parseUndoRecords and the header loops: the records from one offset on, as far as the
\* headers are intact and no record crosses the limit; ok when they end exactly there.
Walk(from, limit) ==
    LET w[o \in 0..limit] ==
            IF \E r \in log : r.off = o /\ EndOf(r) <= limit
            THEN LET r == CHOOSE r \in log : r.off = o IN <<r>> \o w[EndOf(r)]
            ELSE << >>
        recs == IF from <= limit THEN w[from] ELSE << >>
    IN  [recs |-> recs, ok |-> limit = (IF recs = << >> THEN from ELSE EndOf(Last(recs)))]

\* recentPush: the newest Window * S records.
Newest(recs) ==
    SubSeq(recs, IF Len(recs) > Window * S THEN Len(recs) - Window * S + 1 ELSE 1, Len(recs))

\* The closed segments of a stream of records.
Closed(recs) ==
    [i \in 1..(Len(recs) \div S) |->
        [start |-> recs[(i - 1) * S + 1].off, end |-> EndOf(recs[i * S])]]

\* committedBytes of an index: where its last closed segment ends.
EndOfSegments(ss) == IF ss = << >> THEN 0 ELSE Last(ss).end

\* UndoIndex::decode: contiguous from offset 0, every byte range positive.
Decodes(ix) ==
    /\ ix # Torn
    /\ \A i \in 1..Len(ix) :
        /\ ix[i].start = (IF i = 1 THEN 0 ELSE ix[i - 1].end)
        /\ ix[i].end > ix[i].start

\* tryLoadCurrentUndoIndex: may this index be used to open at undoSize m?
Usable(ix, m) ==
    /\ ix \notin {Absent, Torn, << >>}
    /\ Decodes(ix)
    /\ EndOfSegments(ix) <= m

Failure == [ok |-> FALSE, segs |-> << >>, recent |-> << >>, count |-> 0]

\* loadUndoForIndexed: the directory is the index; the tail after it and the trailing
\* closed segments that fill the cache are parsed and must have the right counts.
LoadIndexed(ix, m) ==
    LET tail == Walk(EndOfSegments(ix), m)
        cap  == Window * S
        want == IF cap > Len(tail.recs) THEN (cap - Len(tail.recs) + S - 1) \div S ELSE 0
        s0   == IF want >= Len(ix) THEN 0 ELSE Len(ix) - want
        part == [i \in 1..(Len(ix) - s0) |-> Walk(ix[s0 + i].start, ix[s0 + i].end)]
    IN  IF /\ tail.ok /\ Len(tail.recs) < S
           /\ \A i \in DOMAIN part : part[i].ok /\ Len(part[i].recs) = S
        THEN [ok |-> TRUE, segs |-> ix,
              recent |-> Newest(FlattenSeq([i \in DOMAIN part |-> part[i].recs]) \o tail.recs),
              count |-> Len(ix) * S + Len(tail.recs)]
        ELSE Failure

\* The authoritative scan at the end of loadUndoFor.
Scan(m) ==
    LET w == Walk(0, m)
    IN  [ok |-> w.ok, segs |-> Closed(w.recs), recent |-> Newest(w.recs), count |-> Len(w.recs)]

\* Mutant of LoadUndo: an index that is declined ends the open.
LoadUndoDeclined(m) ==
    IF Usable(index, m) THEN LoadIndexed(index, m) ELSE Scan(m)

\* loadUndoFor: through the index when it is usable and checks out, else by scanning.
LoadUndo(m) ==
    IF Usable(index, m) /\ LoadIndexed(index, m).ok THEN LoadIndexed(index, m) ELSE Scan(m)

\* Mutant of Reload: the walk starts where the last closed segment ends.
ReloadFromEnd == Walk(EndOfSegments(segs), committed)

\* reloadRecentFromStream: the walk starts at the segment that holds the newest record.
Reload ==
    LET seg == (count - 1) \div S
        start == IF count = 0 THEN 0
                 ELSE IF seg < Len(segs) THEN segs[seg + 1].start ELSE EndOfSegments(segs)
    IN  Walk(start, committed)

---------------------------------------------------------------------------
(* Opening.                                                                *)

Remember(l) == segs' = l.segs /\ recent' = l.recent /\ count' = l.count

\* tryLoadManifest: the undo state of the committed manifest is loaded.
Load ==
    /\ pc = "closed"
    /\ LET l == LoadUndo(manifest)
       IN  /\ Remember(l)
           /\ pc' = IF l.ok THEN "classify" ELSE "refused"
    /\ committed' = manifest /\ oneShot' = FALSE
    /\ UNCHANGED <<disk, job, env>>

\* classifyAndNormalizeUndoIndex on an index that describes the committed stream, or
\* on no index when no segment is closed.
Current ==
    /\ pc = "classify"
    /\ index = segs \/ (index = Absent /\ segs = << >>)
    /\ pc' = "idle"
    /\ UNCHANGED <<disk, job, memory, oneShot, env>>

\* The same on bytes that do not decode: without authorization the open is refused.
Refuse ==
    /\ pc = "classify"
    /\ index # Absent /\ ~Decodes(index)
    /\ pc' = "refused"
    /\ UNCHANGED <<disk, job, memory, oneShot, env>>

\* openWithOptions(authorizeUndoIndexRecovery): the same load, then the corrupt file is
\* linked aside and unlinked, and classification goes on as if it had been absent.
Recover ==
    /\ pc = "refused"
    /\ index # Absent /\ ~Decodes(index)
    /\ LoadUndo(manifest).ok
    /\ Remember(LoadUndo(manifest))
    /\ index' = Absent /\ mayIndex' = mayIndex \cup {Absent}
    /\ pc' = "classify"
    /\ UNCHANGED <<log, manifest, mayManifest, job, committed, oneShot, env>>

Outdated ==
    /\ pc = "classify"
    /\ index # segs
    /\ index = Absent => segs # << >>
    /\ index # Absent => Decodes(index)

\* An absent, stale or ahead index is rebuilt from the committed stream and the
\* directory is synced.
Normalize ==
    /\ Outdated
    /\ index' = segs /\ mayIndex' = {segs} /\ mayManifest' = {manifest}
    /\ pc' = "idle"
    /\ UNCHANGED <<log, manifest, job, memory, oneShot, env>>

\* The publication fails, or the directory sync after it does: the open fails.
NormalizeFails ==
    /\ Outdated
    /\ faults < MaxFaults /\ faults' = faults + 1
    /\ \/ UNCHANGED <<index, mayIndex>>
       \/ index' = segs /\ mayIndex' = mayIndex \cup {segs}
    /\ pc' = "closed"
    /\ UNCHANGED <<log, manifest, mayManifest, job, memory, oneShot, crashes, damage>>

---------------------------------------------------------------------------
(* Committing.                                                             *)

Total(lens) == FoldLeft(+, 0, lens)

\* The records of a batch, laid out from the committed end.
Laid(lens) ==
    [i \in 1..Len(lens) |-> [off |-> committed + Total(SubSeq(lens, 1, i - 1)), len |-> lens[i]]]

\* publish and publishBatch: the records and the new undoSize are fixed; MANIFEST.bak
\* is replaced and the directory synced (commitBarriers, step 2).
Publish(lens) ==
    /\ pc = "idle"
    /\ committed + Total(lens) <= MaxBytes
    /\ job' = [call |-> "publish", lens |-> lens,
               size |-> committed + Total(lens), took |-> FALSE]
    /\ mayManifest' = {manifest} /\ mayIndex' = {index}
    /\ pc' = "undo"
    /\ UNCHANGED <<log, manifest, index, memory, oneShot, env>>

\* disconnect: the newest record comes from the cache, refilled when it is empty;
\* nothing happens when there is no record that ends at the committed end.  No undo
\* bytes are written.
Disconnect ==
    LET r == IF recent = << >> THEN Newest(Reload.recs) ELSE recent
    IN  /\ pc = "idle"
        /\ recent = << >> => Reload.ok
        /\ r # << >> /\ (recent = << >> => EndOf(Last(r)) = committed)
        /\ recent' = r
        /\ job' = [call |-> "disconnect", lens |-> << >>,
                   size |-> committed - Last(r).len, took |-> FALSE]
        /\ mayManifest' = {manifest} /\ mayIndex' = {index}
        /\ pc' = "manifest"
        /\ UNCHANGED <<log, manifest, index, segs, count, committed, oneShot, env>>

\* The log after bytes were written from the committed end to the new undoSize: the
\* headers that stood there are gone.
Overwritten == {r \in log : r.off < committed \/ r.off >= job.size}

\* Step 3: the undo records are written at the committed end and synced.
WriteUndo ==
    /\ pc = "undo"
    /\ log' = Overwritten \cup ToSet(Laid(job.lens))
    /\ job' = [job EXCEPT !.took = oneShot] /\ oneShot' = FALSE
    /\ pc' = "index"
    /\ UNCHANGED <<manifest, index, mayManifest, mayIndex, memory, env>>

\* publishUndoIndexCrossings: the segments this append closes.
Fresh ==
    LET at == {i \in 1..Len(job.lens) : (count + i) % S = 0}
        ends == [k \in 1..Cardinality(at) |->
                    EndOf(Laid(job.lens)[CHOOSE i \in at : Cardinality({j \in at : j <= i}) = k])]
    IN  [k \in DOMAIN ends |->
            [start |-> IF k = 1 THEN EndOfSegments(segs) ELSE ends[k - 1], end |-> ends[k]]]

\* Mutant of PublishIndex: the directory gains the segments before they are published.
PublishIndexEager ==
    /\ pc = "index"
    /\ segs' = segs \o Fresh
    /\ \/ /\ index' = segs \o Fresh /\ mayIndex' = mayIndex \cup {index'}
          /\ pc' = "manifest"
          /\ UNCHANGED env
       \/ /\ faults < MaxFaults /\ faults' = faults + 1
          /\ pc' = "idle"
          /\ UNCHANGED <<index, mayIndex, crashes, damage>>
    /\ UNCHANGED <<log, manifest, mayManifest, job, recent, count, committed, oneShot>>

\* Mutant of PublishIndex: what is written is the directory before it gains the segments.
PublishIndexStale ==
    /\ pc = "index"
    /\ index' = (IF Fresh = << >> THEN index ELSE segs) /\ mayIndex' = mayIndex \cup {index'}
    /\ segs' = segs \o Fresh
    /\ pc' = "manifest"
    /\ UNCHANGED <<log, manifest, mayManifest, job, recent, count, committed, oneShot, env>>

\* Step 3b: the index is published when the append closes a segment; the directory in
\* memory gains the segments once the publication has landed.
PublishIndex ==
    /\ pc = "index"
    /\ \/ /\ Fresh = << >>
          /\ UNCHANGED <<index, mayIndex, segs>>
       \/ /\ Fresh # << >>
          /\ index' = segs \o Fresh /\ mayIndex' = mayIndex \cup {index'}
          /\ segs' = segs \o Fresh
    /\ pc' = "manifest"
    /\ UNCHANGED <<log, manifest, mayManifest, job, recent, count, committed, oneShot, env>>

\* Steps 4 and 5: MANIFEST.tmp is written and renamed.
RenameManifest ==
    /\ pc = "manifest"
    /\ manifest' = job.size /\ mayManifest' = mayManifest \cup {job.size}
    /\ pc' = "sync"
    /\ UNCHANGED <<log, index, mayIndex, job, memory, oneShot, env>>

\* Mutant of Trim: the directory keeps the segments a disconnect uncovers.
TrimNothing(ss, size) == ss

\* trimUncommittedSegments.
Trim(ss, size) ==
    LET kept == {k \in 1..Len(ss) : ss[k].end <= size}
    IN  IF kept = {} THEN << >> ELSE SubSeq(ss, 1, Max(kept))

\* Step 6 and the acknowledgment, then the caller updates the state in memory.
Finish ==
    /\ pc = "sync"
    /\ mayManifest' = {manifest} /\ mayIndex' = {index}
    /\ committed' = job.size
    /\ \/ /\ job.call = "publish"
          /\ recent' = Newest(recent \o Laid(job.lens))
          /\ count' = count + Len(job.lens)
          /\ UNCHANGED segs
       \/ /\ job.call = "disconnect"
          /\ recent' = Front(recent)
          /\ count' = count - 1
          /\ segs' = Trim(segs, job.size)
    /\ job' = NoJob
    /\ pc' = "idle"
    /\ UNCHANGED <<log, manifest, index, oneShot, env>>

\* An I/O call of the commit fails.  Before the rename the call returns and the instance
\* takes further calls, unless the first undo write of a fresh store was part of it;
\* after the rename the instance requires a reopen.  A failing undo write may leave its
\* bytes in part.
CommitFails ==
    /\ faults < MaxFaults /\ faults' = faults + 1
    /\ \/ /\ pc = "undo"
          /\ pc' = (IF oneShot THEN "reopen" ELSE "idle")
          /\ log' \in {log, Overwritten} /\ oneShot' = FALSE
       \/ /\ \/ pc = "index" /\ Fresh # << >>
             \/ pc = "manifest" /\ (LateFaults \/ Fresh = << >>)
          /\ pc' = (IF job.took THEN "reopen" ELSE "idle")
          /\ UNCHANGED <<log, oneShot>>
       \/ /\ pc = "sync"
          /\ pc' = "reopen"
          /\ UNCHANGED <<log, oneShot>>
    /\ job' = NoJob
    /\ UNCHANGED <<manifest, index, mayManifest, mayIndex, memory, crashes, damage>>

---------------------------------------------------------------------------
(* Stops, crashes and damage.                                              *)

Forget ==
    /\ segs' = << >> /\ recent' = << >> /\ count' = 0 /\ committed' = 0
    /\ job' = NoJob /\ oneShot' = FALSE
    /\ pc' = "closed"

\* close(): the only way on from an instance that requires a reopen.
Close ==
    /\ pc \in {"idle", "reopen"}
    /\ Forget
    /\ UNCHANGED <<disk, env>>

\* The process dies; what it wrote stays.
Kill ==
    /\ pc \notin {"closed", "refused"}
    /\ crashes < MaxCrashes /\ crashes' = crashes + 1
    /\ log' \in (IF pc = "undo" THEN {log, Overwritten} ELSE {log})
    /\ Forget
    /\ UNCHANGED <<manifest, index, mayManifest, mayIndex, faults, damage>>

\* The power fails: each rename since the last directory sync may be lost, the index's
\* without the manifest's too.
PowerFail ==
    /\ crashes < MaxCrashes /\ crashes' = crashes + 1
    /\ log' \in (IF pc = "undo" THEN {log, Overwritten} ELSE {log})
    /\ manifest' \in mayManifest /\ mayManifest' = {manifest'}
    /\ index' \in mayIndex /\ mayIndex' = {index'}
    /\ Forget
    /\ UNCHANGED <<faults, damage>>

\* The file UNDOINDEX is damaged while the store is closed.
Damage ==
    /\ pc = "closed" /\ index # Absent
    /\ damage < MaxDamage /\ damage' = damage + 1
    /\ index' = Torn /\ mayIndex' = {Torn}
    /\ UNCHANGED <<log, manifest, mayManifest, pc, job, memory, oneShot, faults, crashes>>

Batches == UNION {[1..n -> Lengths] : n \in 1..MaxBatch}

\* A store created by this open: generation 0, nothing indexed.
Init ==
    /\ log = {} /\ manifest = 0 /\ index = Absent
    /\ mayManifest = {0} /\ mayIndex = {Absent}
    /\ pc = "idle" /\ job = NoJob
    /\ segs = << >> /\ recent = << >> /\ count = 0 /\ committed = 0
    /\ oneShot = TRUE
    /\ faults = 0 /\ crashes = 0 /\ damage = 0

Next ==
    \/ Load \/ Current \/ Refuse \/ Recover \/ Normalize \/ NormalizeFails
    \/ \E lens \in Batches : Publish(lens)
    \/ WriteUndo \/ PublishIndex \/ RenameManifest \/ Finish
    \/ Disconnect \/ CommitFails
    \/ Close \/ Kill \/ PowerFail \/ Damage

Spec == Init /\ [][Next]_vars

---------------------------------------------------------------------------
(* Properties.                                                             *)

\* The committed stream, read from the log alone.
Stream == Walk(0, committed)

TypeOK ==
    /\ log \subseteq [off : 0..MaxBytes, len : Lengths]
    /\ manifest \in 0..MaxBytes /\ committed \in 0..MaxBytes
    /\ mayManifest \subseteq 0..MaxBytes
    /\ manifest \in mayManifest /\ index \in mayIndex
    /\ pc \in {"closed", "classify", "refused", "idle", "undo", "index",
               "manifest", "sync", "reopen"}
    /\ job.call \in {"none", "publish", "disconnect"}
    /\ count \in Nat /\ oneShot \in BOOLEAN

\* Parity: whenever the instance takes calls, the directory, the count and the cache are
\* what a full scan of the committed log gives, the cache never more than its segments,
\* whether the open went through UNDOINDEX or not and whatever failed, was disconnected or overwritten since (loadUndoForIndexed:
\* "consistent with what the authoritative scan would derive").
Parity ==
    pc = "idle" =>
        /\ Stream.ok
        /\ segs = Closed(Stream.recs)
        /\ count = Len(Stream.recs)
        /\ IsSuffix(recent, Stream.recs) /\ Len(recent) <= Window * S

\* DisconnectServed: as long as a record is committed, disconnect finds the newest one,
\* also when the unwind is deeper than the cache (reloadRecentFromStream).
DisconnectServed ==
    pc = "idle" /\ committed > 0 =>
        LET r == IF recent = << >> THEN Newest(Reload.recs) ELSE recent
        IN  r # << >> /\ Last(r) = Last(Stream.recs)

\* IndexDecodes: no UNDOINDEX the store publishes is one its own decode refuses
\* (publishUndoIndexOnSegmentClose: a segment pushed for a commit that fails would make
\* the retry write "a non-positive byte range").
IndexDecodes == damage = 0 /\ index # Absent => Decodes(index)

\* NotBehind: once a commit has returned, the index on disk covers every closed segment
\* of the log: an open that follows a stop or a kill never finds it stale.
NotBehind ==
    pc = "idle" /\ damage = 0 => EndOfSegments(segs) <= (IF index = Absent THEN 0 ELSE EndOfSegments(index))

\* RefusedOnlyDamaged: after every stop, crash and failed commit the store opens.  Only a
\* damaged UNDOINDEX makes an open refuse, and then the log still loads without it, so
\* that an authorized recovery succeeds (quarantineCorruptUndoIndex).
RefusedOnlyDamaged == pc = "refused" => damage > 0 /\ Scan(manifest).ok /\ ~Decodes(index)

=============================================================================
