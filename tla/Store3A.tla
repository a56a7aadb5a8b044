------------------------------ MODULE Store3A ------------------------------
(***************************************************************************)
(* The commit protocol of CommitStore3A, the crash-consistent coin store   *)
(* of the node (src/src/chainstate/store3a).                               *)
(*                                                                         *)
(* One directory holds tree.dat (copy-on-write pages), undo.dat (one       *)
(* record per connected block), MANIFEST (which root and how much undo is  *)
(* committed), MANIFEST.bak (the previous MANIFEST) and ACK (the last      *)
(* generation reported to the caller).  A mutation goes through the        *)
(* barriers of commitBarriers() in order; the process may die, the power   *)
(* may fail and an I/O call may fail between any two of them.              *)
(*                                                                         *)
(* Abstractions.  A block's delta is the one coin it creates, so the coins *)
(* of a root are the set of blocks applied to it, and a root hash is that  *)
(* set.  A version of the tree is one page (a root leaf).  Undo records    *)
(* have length one.  The file system keeps directory operations in order:  *)
(* a power failure leaves the directory as it was after some prefix of the *)
(* renames made since the last directory fsync.                            *)
(***************************************************************************)
EXTENDS Naturals, Sequences, FiniteSets, Functions

CONSTANTS
    Blocks,               \* block hashes
    Absent,               \* no file / no page / no record
    Torn,                 \* bytes that fail their hash, magic or crc
    MaxPage,              \* bound: last page id of tree.dat
    MaxHeight,            \* bound: undo records
    MaxGen,               \* bound: generations
    MaxBatch,             \* bound: blocks in a batch
    MaxFaults,            \* bound: failing I/O calls
    MaxCrashes,           \* bound: kills and power failures
    MaxDamage,            \* bound: MANIFEST files damaged on disk
    UnwindWithOpenBatch,  \* the caller disconnects while a batch is pending
    ReplayAfterFailure    \* the operator unwinds or replays after a failed batch

Pages == 0..MaxPage
Slots == 1..MaxHeight

\* MANIFEST: generation, undoSize, rootPageId, rootHash, blockHash.
Manifest == [gen : Nat, undo : Nat, root : Pages,
             coins : SUBSET Blocks, tip : {Absent} \cup Blocks]

\* The three names of the directory that carry authority.
Directory == [man : {Absent, Torn} \cup Manifest,
              bak : {Absent, Torn} \cup Manifest,
              ack : {Absent} \cup Nat]

\* A commit in progress: the call it serves, the manifest and the undo records it
\* commits, the root to restore, whether it has used up the one-shot undo creation.
Job == [call : {"none", "publish", "disconnect", "flush", "replay"},
        man : {Absent} \cup Manifest, recs : Seq(Blocks), old : Pages, took : BOOLEAN]

\* generation_, undoCommittedBytes_, blockHash_.
Ram == [gen : Nat, undo : Nat, tip : {Absent} \cup Blocks]

ASSUME BoundsAssumption ==
    /\ MaxPage \in Nat /\ MaxHeight \in Nat /\ MaxGen \in Nat
    /\ MaxBatch \in Nat \ {0}
    /\ MaxFaults \in Nat /\ MaxCrashes \in Nat /\ MaxDamage \in Nat
    /\ UnwindWithOpenBatch \in BOOLEAN /\ ReplayAfterFailure \in BOOLEAN

ASSUME MarkerAssumption ==
    /\ Absent # Torn
    /\ \A x \in {Absent, Torn} :
        /\ x \notin Blocks /\ x \notin Manifest /\ x \notin Nat
        /\ \A c \in SUBSET Blocks : x # c
        /\ x \notin Seq(Blocks)

VARIABLES
    \* ---- disk
    pages,       \* tree.dat as a read sees it now
    synced,      \* tree.dat as of its last fsync
    undo,        \* undo.dat
    dir,         \* the directory as a read sees it now
    may,         \* the directories a power failure may leave
    \* ---- the open instance
    pc,          \* the barrier the current call is at
    job,         \* the open or commit in progress
    ram,         \* the state in memory
    root,        \* rootId_ of the tree
    free,        \* freeList_
    retired,     \* commitRetired_
    needsReopen, \* needsReopen_
    oneShot,     \* freshUndoCreate_ # UndoCreate::Any
    batchOpen,   \* batchOpen_
    batchOld,    \* batchOldRoot_
    overlayAt,   \* the root page the overlay edits; Absent when overlayOn_ is false
    overlay,     \* the coins the overlay adds to that page
    \* ---- the caller
    pend,        \* the blocks applied and not yet published
    batchFailed, \* applyBatchBlock or publishBatch has failed
    \* ---- what the caller has been told
    acked,       \* the last manifest reported as committed and made durable
    doubt,       \* the manifest whose outcome is open: renamed, not yet reported
    \* ---- environment
    faults, crashes, damage

disk     == <<pages, synced, undo, dir, may>>
tree     == <<root, free, retired>>
batch    == <<batchOpen, batchOld, overlayAt, overlay>>
caller   == <<pend, batchFailed>>
told     == <<acked, doubt>>
env      == <<faults, crashes, damage>>
vars == <<disk, pc, job, ram, tree, needsReopen, oneShot, batch, caller, told, env>>

NoJob == [call |-> "none", man |-> Absent, recs |-> << >>, old |-> 0, took |-> FALSE]
\* Generation 0: the empty store.
EmptyManifest == [gen |-> 0, undo |-> 0, root |-> 0, coins |-> {}, tip |-> Absent]

NoRam == [gen |-> 0, undo |-> 0, tip |-> Absent]

RamOf(m) == [gen |-> m.gen, undo |-> m.undo, tip |-> m.tip]

\* Mutant of View: reads go to the pages and miss the overlay.
ViewOfPages == pages[root]

\* The coins a read through the instance returns (readNodeVerified: overlay first).
View == IF overlayAt = root THEN pages[root] \cup overlay ELSE pages[root]

---------------------------------------------------------------------------
(* Files.                                                                  *)

\* rename(): visible at once, durable with the next directory fsync.
Rename(d) == dir' = d /\ may' = may \cup {d}

\* csFsyncDir.
SyncDir == may' = {dir}

\* Mutant of Alloc: a page retired by the commit in progress is reused before its ACK.
AllocRetired(p) == \/ p \in free \cup retired
                   \/ /\ free = {} /\ pages[p] = Absent
                      /\ \A q \in Pages : q < p => pages[q] # Absent

\* BTree::appendPage: a free page if there is one, else the end of the file.
Alloc(p) == \/ p \in free
            \/ /\ free = {} /\ pages[p] = Absent
               /\ \A q \in Pages : q < p => pages[q] # Absent

\* What readNodeVerified and loadUndoFor accept: the root page has the hash the
\* manifest names and every record below undoSize has a header.
Loads(m) == /\ m \in Manifest
            /\ pages[m.root] = m.coins
            /\ \A i \in 1..m.undo : undo[i] \in Blocks

\* One I/O call fails.
Fault == faults < MaxFaults /\ faults' = faults + 1 /\ UNCHANGED <<crashes, damage>>

---------------------------------------------------------------------------
(* Opening.  Every refusal of openWithOptions leaves the disk as it is and *)
(* the instance closed, so it is the absence of an enabled open action.    *)

\* State of an instance that is not open (a new process starts with it).
Fresh ==
    /\ job' = NoJob /\ ram' = NoRam /\ root' = 0 /\ free' = {} /\ retired' = {}
    /\ needsReopen' = FALSE /\ oneShot' = FALSE
    /\ batchOpen' = FALSE /\ batchOld' = 0 /\ overlayAt' = Absent /\ overlay' = {}
    /\ pend' = << >> /\ batchFailed' = FALSE

\* tryLoadManifest: the instance adopts manifest m.
Adopt(m) == job' = [NoJob EXCEPT !.man = m] /\ ram' = RamOf(m) /\ root' = m.root

\* m is committed and durable: nothing else can come back after a crash.
Report(m) == acked' = m /\ doubt' = Absent

\* The primary loads and its generation is the acknowledged one.  Nothing is synced,
\* so a primary that was in doubt stays so until the next directory fsync.
OpenAcked ==
    /\ pc = "closed" /\ Loads(dir.man) /\ dir.ack = dir.man.gen
    /\ Adopt(dir.man) /\ pc' = "idle" /\ acked' = acked
    /\ doubt' = IF dir.man = acked THEN Absent ELSE doubt
    /\ UNCHANGED <<disk, free, retired, needsReopen, oneShot, batch, caller, env>>

\* Mutant of OpenUnacked: a primary that is one generation ahead of ACK is refused.
OpenUnackedRefused ==
    /\ pc = "closed" /\ Loads(dir.man) /\ dir.ack = Absent /\ dir.man.gen = 0
    /\ Adopt(dir.man) /\ pc' = "openack"
    /\ UNCHANGED <<disk, free, retired, needsReopen, oneShot, batch, caller, told, env>>

\* The primary loads and is one generation ahead of ACK, or is generation 0
\* without ACK: the acknowledgment is completed first.
OpenUnacked ==
    /\ pc = "closed" /\ Loads(dir.man)
    /\ IF dir.ack = Absent THEN dir.man.gen = 0 ELSE dir.man.gen = dir.ack + 1
    /\ Adopt(dir.man) /\ pc' = "openack"
    /\ UNCHANGED <<disk, free, retired, needsReopen, oneShot, batch, caller, told, env>>

\* No MANIFEST, no evidence of a prior store: create the empty tree, or take up
\* the one empty page an interrupted creation left.
OpenFresh ==
    /\ pc = "closed"
    /\ dir = [man |-> Absent, bak |-> Absent, ack |-> Absent]
    /\ \A i \in Slots : undo[i] = Absent
    /\ pages[0] \in {Absent, {}} /\ \A p \in Pages \ {0} : pages[p] = Absent
    /\ pages' = [pages EXCEPT ![0] = {}]
    /\ Adopt(EmptyManifest) /\ oneShot' = TRUE /\ pc' = "inittree"
    /\ UNCHANGED <<synced, undo, dir, may, free, retired, needsReopen, batch, caller, told, env>>

\* publishInitialGeneration: page fsync, MANIFEST rename, directory fsync (the
\* acknowledgment of generation 0 is the one of OpenAck).
InitTree ==
    /\ pc = "inittree" /\ synced' = pages /\ pc' = "initman"
    /\ UNCHANGED <<pages, undo, dir, may, job, ram, tree, needsReopen, oneShot, batch, caller, told, env>>

InitManifest ==
    /\ pc = "initman" /\ Rename([dir EXCEPT !.man = job.man]) /\ pc' = "initsync"
    /\ doubt' = job.man
    /\ UNCHANGED <<pages, synced, undo, job, ram, tree, needsReopen, oneShot, batch, caller, acked, env>>

InitSync ==
    /\ pc = "initsync" /\ SyncDir /\ pc' = "openack"
    /\ UNCHANGED <<pages, synced, undo, dir, job, ram, tree, needsReopen, oneShot, batch, caller, told, env>>

\* writeAck on behalf of open: rename, then directory fsync.
OpenAck ==
    /\ pc = "openack" /\ Rename([dir EXCEPT !.ack = job.man.gen]) /\ pc' = "openacksync"
    /\ UNCHANGED <<pages, synced, undo, job, ram, tree, needsReopen, oneShot, batch, caller, told, env>>

OpenAckSync ==
    /\ pc = "openacksync" /\ SyncDir /\ Report(job.man) /\ pc' = "idle"
    /\ UNCHANGED <<pages, synced, undo, dir, job, ram, tree, needsReopen, oneShot, batch, caller, env>>

\* Mutant of OpenBackup: the backup is taken whatever generation was acknowledged.
OpenAnyBackup ==
    /\ pc = "closed" /\ dir.man # Absent /\ ~Loads(dir.man) /\ Loads(dir.bak)
    /\ Adopt(dir.bak) /\ pc' = "repair"
    /\ UNCHANGED <<disk, free, retired, needsReopen, oneShot, batch, caller, told, env>>

\* The primary exists and does not load; the backup loads and is the acknowledged
\* generation: MANIFEST is rewritten in place from it.
OpenBackup ==
    /\ pc = "closed" /\ dir.man # Absent /\ ~Loads(dir.man)
    /\ Loads(dir.bak) /\ dir.ack = dir.bak.gen
    /\ Adopt(dir.bak) /\ pc' = "repair"
    /\ UNCHANGED <<disk, free, retired, needsReopen, oneShot, batch, caller, told, env>>

\* The bytes of the file named MANIFEST change, under every name-to-file binding
\* a power failure may leave it with.
Overwrite(m) ==
    LET put(d) == IF d.man = dir.man THEN [d EXCEPT !.man = m] ELSE d
    IN dir' = put(dir) /\ may' = {put(d) : d \in may}

RepairManifest ==
    /\ pc = "repair" /\ Overwrite(job.man) /\ pc' = "repairsync"
    /\ UNCHANGED <<pages, synced, undo, job, ram, tree, needsReopen, oneShot, batch, caller, told, env>>

RepairSync ==
    /\ pc = "repairsync" /\ SyncDir /\ Report(job.man) /\ pc' = "idle"
    /\ UNCHANGED <<pages, synced, undo, dir, job, ram, tree, needsReopen, oneShot, batch, caller, env>>

\* A write, rename or fsync of open fails: close() and refuse.  A MANIFEST being
\* rewritten in place may be left torn.
OpenFails ==
    /\ pc \in {"inittree", "initman", "initsync", "openack", "openacksync", "repair", "repairsync"}
    /\ Fault /\ Fresh /\ pc' = "closed"
    /\ \/ UNCHANGED <<dir, may>>
       \/ pc = "repair" /\ Overwrite(Torn)
    /\ UNCHANGED <<pages, synced, undo, told>>

---------------------------------------------------------------------------
(* Mutations up to the first barrier: the delta is applied to fresh pages. *)

Ready == pc = "idle" /\ ~needsReopen /\ ram.gen < MaxGen

\* The node stops feeding blocks to the store once a batch call has failed
\* (needsRecovery); the operator's unwind and replay do not look at that flag.
MayGoOn == ~batchFailed \/ ReplayAfterFailure

\* Mutant of WritePage: a reused page stays on the free list.
WritePageKept(p, c) == pages' = [pages EXCEPT ![p] = c] /\ free' = free

\* One page is written through appendPage; it is not durable yet.
WritePage(p, c) == pages' = [pages EXCEPT ![p] = c] /\ free' = free \ {p}

\* The manifest that commits coins c under root p, with n undo records, tip b.
NewManifest(p, c, n, b) ==
    [gen |-> ram.gen + 1, undo |-> n, root |-> p, coins |-> c, tip |-> b]

Start(call, m, recs, old) ==
    /\ job' = [call |-> call, man |-> m, recs |-> recs, old |-> old, took |-> FALSE]
    /\ pc' = "tree"

\* publish(): one block.
Publish(b) ==
    /\ Ready /\ ~batchFailed /\ ~batchOpen /\ pend = << >>
    /\ b \notin View /\ ram.undo < MaxHeight
    /\ \E p \in Pages :
        /\ Alloc(p) /\ WritePage(p, View \cup {b})
        /\ root' = p /\ retired' = {root}
        /\ Start("publish", NewManifest(p, View \cup {b}, ram.undo + 1, b), <<b>>, root)
    /\ UNCHANGED <<synced, undo, dir, may, ram, needsReopen, oneShot, batch, caller, told, env>>

\* disconnect(): the most recent block, undone from its undo record.
Disconnect ==
    /\ Ready /\ MayGoOn
    /\ UnwindWithOpenBatch \/ (~batchOpen /\ pend = << >>)
    /\ ram.undo > 0 /\ undo[ram.undo] = ram.tip
    /\ \E p \in Pages :
        LET c == View \ {ram.tip}
            parent == IF ram.undo = 1 THEN Absent ELSE undo[ram.undo - 1]
        IN /\ Alloc(p) /\ WritePage(p, c)
           /\ root' = p /\ retired' = {root}
           /\ Start("disconnect", NewManifest(p, c, ram.undo - 1, parent), << >>, root)
    /\ UNCHANGED <<synced, undo, dir, may, ram, needsReopen, oneShot, batch, caller, told, env>>

\* applyBatchBlock(): the first call of a batch captures the root and starts the
\* overlay.  The block lands in the overlay, or, when a leaf splits or the overlay
\* is full, the overlay is finalised and the block put through the page path.
ApplyBatchBlock(b) ==
    /\ Ready /\ ~batchFailed
    /\ Len(pend) < MaxBatch /\ b \notin View /\ ram.undo + Len(pend) < MaxHeight
    /\ batchOpen' = TRUE /\ pend' = Append(pend, b)
    /\ batchOld' = IF batchOpen THEN batchOld ELSE root
    /\ LET kept == IF batchOpen THEN retired ELSE {}
           on   == ~batchOpen \/ overlayAt # Absent
       IN \/ /\ on
             /\ overlayAt' = root
             /\ overlay' = (IF overlayAt = root THEN overlay ELSE {}) \cup {b}
             /\ retired' = kept
             /\ UNCHANGED <<pages, root, free>>
          \/ \E p \in Pages :
             /\ Alloc(p) /\ WritePage(p, View \cup {b})
             /\ root' = p /\ retired' = kept \cup {root}
             /\ overlayAt' = (IF on THEN p ELSE Absent) /\ overlay' = {}
    /\ UNCHANGED <<synced, undo, dir, may, pc, job, ram, needsReopen, oneShot, batchFailed, told, env>>

\* publishBatch(bs): when a batch is open its deltas are taken as applied and only
\* the overlay is written out; otherwise the deltas are applied here.
PublishBatch(call, bs) ==
    /\ Ready /\ bs # << >> /\ ram.undo + Len(bs) <= MaxHeight
    /\ LET c   == IF batchOpen THEN View ELSE View \cup Range(bs)
           old == IF batchOpen THEN batchOld ELSE root
           n   == ram.undo + Len(bs)
       IN \/ /\ ~batchOpen \/ (overlayAt = root /\ overlay # {})
             /\ \E p \in Pages :
                 /\ Alloc(p) /\ WritePage(p, c)
                 /\ root' = p /\ retired' = (IF batchOpen THEN retired ELSE {}) \cup {root}
                 /\ Start(call, NewManifest(p, c, n, bs[Len(bs)]), bs, old)
          \/ /\ batchOpen /\ ~(overlayAt = root /\ overlay # {})
             /\ Start(call, NewManifest(root, c, n, bs[Len(bs)]), bs, old)
             /\ UNCHANGED <<pages, tree>>
    /\ overlayAt' = Absent /\ overlay' = {}
    /\ UNCHANGED <<synced, undo, dir, may, ram, needsReopen, oneShot, batchOpen, batchOld, caller, told, env>>

\* FlushPending(): at the batch boundary, before a disconnect and at shutdown.
FlushPending == PublishBatch("flush", pend)

\* The replay of ReconcileStore3AToChain: blocks the caller has not applied.
ReplayBatch(bs) == Ready /\ MayGoOn /\ pend = << >> /\ Range(bs) \cap View = {} /\ PublishBatch("replay", bs)

\* A page write fails while a delta is applied.  A page taken from the free list is
\* lost to it and may be torn.
PageFails ==
    \/ UNCHANGED <<pages, free>>
    \/ \E p \in free : WritePage(p, Torn)

\* publish or disconnect: the root is restored.  applyBatchBlock: the overlay is
\* dropped and the pre-batch root restored.
ApplyFails ==
    /\ Ready /\ MayGoOn /\ Fault /\ PageFails
    /\ \/ /\ ~batchOpen /\ pend = << >> /\ retired' = {root}
          /\ UNCHANGED <<root, batch, batchFailed>>
       \/ /\ batchOpen
          /\ root' = batchOld /\ batchOpen' = FALSE /\ batchFailed' = TRUE
          /\ overlayAt' = Absent /\ overlay' = {}
          /\ UNCHANGED <<retired, batchOld>>
    /\ UNCHANGED <<synced, undo, dir, may, pc, job, ram, needsReopen, oneShot, pend, told>>

\* publishBatch: finalizeOverlay fails, in a flush or in a replay whose first blocks
\* have already been spilled to a page.  The overlay is dropped; the root is not
\* restored to the pre-batch one.
FinalizeFails ==
    /\ Ready /\ Fault
    /\ \/ /\ batchOpen /\ pend # << >> /\ overlayAt = root /\ overlay # {}
          /\ PageFails /\ UNCHANGED <<root, retired>>
       \/ /\ MayGoOn /\ ~batchOpen /\ pend = << >>
          /\ \E p \in Pages, b \in Blocks \ View :
              Alloc(p) /\ WritePage(p, View \cup {b}) /\ root' = p /\ retired' = {root}
    /\ batchOpen' = FALSE /\ overlayAt' = Absent /\ overlay' = {}
    /\ pend' = << >> /\ batchFailed' = TRUE
    /\ UNCHANGED <<synced, undo, dir, may, pc, job, ram, needsReopen, oneShot, batchOld, told>>

---------------------------------------------------------------------------
(* commitBarriers and writeAck, one action per barrier.                    *)

\* Mutant of TreeSync: the pages are not fsynced.
TreeSyncSkipped ==
    /\ pc = "tree" /\ synced' = synced /\ pc' = "bak"
    /\ UNCHANGED <<pages, undo, dir, may, job, ram, tree, needsReopen, oneShot, batch, caller, told, env>>

\* 1) durable tree pages.
TreeSync ==
    /\ pc = "tree" /\ synced' = pages /\ pc' = "bak"
    /\ UNCHANGED <<pages, undo, dir, may, job, ram, tree, needsReopen, oneShot, batch, caller, told, env>>

\* Mutant of PriorUsable: the current MANIFEST is copied to the backup unread.
PriorUnread == TRUE

\* 2) MANIFEST.bak is replaced by the current MANIFEST, if there is one: it must
\*    decode, have its root, and end where the undo records are about to be written.
PriorUsable ==
    dir.man # Absent =>
        /\ dir.man \in Manifest /\ pages[dir.man.root] = dir.man.coins
        /\ job.recs # << >> => dir.man.undo = ram.undo

\* Mutant of BakReplace: the backup is left as the previous commit made it.
BakReplaceSkipped ==
    /\ pc = "bak" /\ PriorUsable /\ pc' = "undo"
    /\ UNCHANGED <<disk, job, ram, tree, needsReopen, oneShot, batch, caller, told, env>>

BakReplace ==
    /\ pc = "bak" /\ PriorUsable
    /\ IF dir.man = Absent THEN pc' = "undo" /\ UNCHANGED <<dir, may>>
       ELSE pc' = "baksync" /\ Rename([dir EXCEPT !.bak = dir.man])
    /\ UNCHANGED <<pages, synced, undo, job, ram, tree, needsReopen, oneShot, batch, caller, told, env>>

BakSync ==
    /\ pc = "baksync" /\ SyncDir /\ pc' = "undo"
    /\ Report(dir.bak)
    /\ UNCHANGED <<pages, synced, undo, dir, job, ram, tree, needsReopen, oneShot, batch, caller, env>>

\* The undo log u after the first n of the records recs have been written at offset off.
Written(u, off, recs, n) ==
    [i \in Slots |-> IF i \in off+1..off+n THEN recs[i - off] ELSE u[i]]

\* 3) the undo records, at the committed offset, durable when the write returns.
UndoWrite ==
    /\ pc = "undo" /\ undo' = Written(undo, ram.undo, job.recs, Len(job.recs))
    /\ oneShot' = (oneShot /\ job.recs = << >>)
    /\ job' = [job EXCEPT !.took = oneShot /\ job.recs # << >>]
    /\ pc' = "man"
    /\ UNCHANGED <<pages, synced, dir, may, ram, tree, needsReopen, batch, caller, told, env>>

\* Mutant of ManifestRename: ACK is renamed before MANIFEST.
ManifestAfterAck ==
    /\ pc = "man" /\ pc' = "sync" /\ doubt' = job.man
    /\ LET first == [dir EXCEPT !.ack = job.man.gen]
           then  == [first EXCEPT !.man = job.man]
       IN dir' = then /\ may' = may \cup {first, then}
    /\ UNCHANGED <<pages, synced, undo, job, ram, tree, needsReopen, oneShot, batch, caller, acked, env>>

\* 4, 5) MANIFEST.tmp is written and renamed: the new generation is visible.
ManifestRename ==
    /\ pc = "man" /\ Rename([dir EXCEPT !.man = job.man]) /\ pc' = "sync"
    /\ doubt' = job.man
    /\ UNCHANGED <<pages, synced, undo, job, ram, tree, needsReopen, oneShot, batch, caller, acked, env>>

\* 6) durable.
DirSync ==
    /\ pc = "sync" /\ SyncDir /\ pc' = "ack"
    /\ UNCHANGED <<pages, synced, undo, dir, job, ram, tree, needsReopen, oneShot, batch, caller, told, env>>

AckRename ==
    /\ pc = "ack" /\ Rename([dir EXCEPT !.ack = job.man.gen]) /\ pc' = "acksync"
    /\ UNCHANGED <<pages, synced, undo, job, ram, tree, needsReopen, oneShot, batch, caller, told, env>>

\* A batch call has returned: FlushPending clears the list either way.
Returned(ok) ==
    /\ pend' = IF job.call = "flush" THEN << >> ELSE pend
    /\ batchFailed' = (batchFailed \/ (~ok /\ job.call \in {"flush", "replay"}))

\* The acknowledgment is durable: the call returns success and the pages it retired
\* become reusable (retireMovedToFree).
AckSync ==
    /\ pc = "acksync" /\ SyncDir /\ Report(job.man) /\ Returned(TRUE)
    /\ ram' = RamOf(job.man) /\ free' = free \cup retired /\ retired' = {}
    /\ batchOpen' = (batchOpen /\ job.call \notin {"flush", "replay"})
    /\ job' = NoJob /\ pc' = "idle"
    /\ UNCHANGED <<pages, synced, undo, dir, root, needsReopen, oneShot, batchOld, overlayAt, overlay, env>>

\* A barrier fails before the rename: the old root is restored.  The undo write
\* may have left any prefix of its records and one torn record.
Abort ==
    /\ \/ pc = "bak" /\ ~PriorUsable /\ UNCHANGED <<env, undo, oneShot, needsReopen>>
       \/ pc \in {"tree", "bak", "baksync"} /\ Fault /\ UNCHANGED <<undo, oneShot, needsReopen>>
       \/ /\ pc = "undo" /\ job.recs # << >> /\ Fault
          /\ \E n \in 0..Len(job.recs) :
              undo' = [i \in Slots |-> IF n < Len(job.recs) /\ i = ram.undo + n + 1 THEN Torn
                                       ELSE Written(undo, ram.undo, job.recs, n)[i]]
          /\ needsReopen' = oneShot /\ oneShot' = FALSE
       \/ pc = "man" /\ Fault /\ needsReopen' = job.took /\ UNCHANGED <<undo, oneShot>>
    /\ root' = job.old /\ Returned(FALSE)
    /\ job' = NoJob /\ pc' = "idle"
    /\ UNCHANGED <<pages, synced, dir, may, ram, free, retired, batch, told>>

\* A barrier fails after the rename: the outcome is in doubt and the instance
\* refuses every further mutation (requireReopen).
InDoubt ==
    /\ pc \in {"sync", "ack", "acksync"} /\ Fault
    /\ needsReopen' = TRUE /\ Returned(FALSE) /\ job' = NoJob /\ pc' = "idle"
    /\ UNCHANGED <<disk, ram, tree, oneShot, batch, told>>

---------------------------------------------------------------------------
(* The environment.                                                        *)

\* The process ends: at any time, or on a clean stop when no call is running.
Exit ==
    /\ pc # "closed" /\ Fresh /\ pc' = "closed"
    /\ \/ pc = "idle" /\ UNCHANGED env
       \/ /\ pc # "idle" /\ crashes < MaxCrashes
          /\ crashes' = crashes + 1 /\ UNCHANGED <<faults, damage>>
    /\ UNCHANGED <<disk, told>>

\* Power failure: a page written since the last fsync is new, old or torn; the
\* directory is one of those it may leave.
PowerLoss ==
    /\ crashes < MaxCrashes /\ crashes' = crashes + 1 /\ UNCHANGED <<faults, damage>>
    /\ LET dirty == {p \in Pages : pages[p] # synced[p]}
       IN \E lost \in SUBSET dirty : \E torn \in SUBSET (dirty \ lost) :
            pages' = [p \in Pages |-> IF p \in lost THEN synced[p]
                                     ELSE IF p \in torn THEN Torn ELSE pages[p]]
    /\ \A p \in Pages, q \in Pages : p < q /\ pages'[p] = Absent => pages'[q] = Absent
    /\ synced' = pages' /\ dir' \in may /\ may' = {dir'}
    /\ Fresh /\ pc' = "closed" /\ UNCHANGED <<undo, told>>

\* The file named MANIFEST is damaged on disk, or removed while the store is closed.
DamageManifest ==
    /\ damage < MaxDamage /\ damage' = damage + 1 /\ UNCHANGED <<faults, crashes>>
    /\ dir.man \in Manifest
    /\ Overwrite(Torn) \/ (pc = "closed" /\ Overwrite(Absent))
    /\ UNCHANGED <<pages, synced, undo, pc, job, ram, tree, needsReopen, oneShot, batch, caller, told>>

---------------------------------------------------------------------------
Init ==
    /\ pages = [p \in Pages |-> Absent] /\ synced = pages
    /\ undo = [i \in Slots |-> Absent]
    /\ dir = [man |-> Absent, bak |-> Absent, ack |-> Absent] /\ may = {dir}
    /\ pc = "closed" /\ job = NoJob /\ ram = NoRam
    /\ root = 0 /\ free = {} /\ retired = {}
    /\ needsReopen = FALSE /\ oneShot = FALSE
    /\ batchOpen = FALSE /\ batchOld = 0 /\ overlayAt = Absent /\ overlay = {}
    /\ pend = << >> /\ batchFailed = FALSE
    /\ acked = Absent /\ doubt = Absent
    /\ faults = 0 /\ crashes = 0 /\ damage = 0

Open == \/ OpenAcked \/ OpenUnacked \/ OpenFresh \/ OpenBackup
        \/ InitTree \/ InitManifest \/ InitSync \/ OpenAck \/ OpenAckSync
        \/ RepairManifest \/ RepairSync

Barrier == \/ TreeSync \/ BakReplace \/ BakSync \/ UndoWrite
           \/ ManifestRename \/ DirSync \/ AckRename \/ AckSync

Call == \/ \E b \in Blocks : Publish(b) \/ ApplyBatchBlock(b)
        \/ FlushPending \/ Disconnect
        \/ \E n \in 1..MaxBatch : \E bs \in [1..n -> Blocks] :
              IsInjective(bs) /\ ReplayBatch(bs)

Failure == OpenFails \/ ApplyFails \/ FinalizeFails \/ Abort \/ InDoubt

Environment == Exit \/ PowerLoss \/ DamageManifest

Next == Open \/ Barrier \/ Call \/ Failure \/ Environment

Spec == Init /\ [][Next]_vars

\* The steps the process takes by itself once it runs: an open and the barriers of
\* a call follow one another without waiting for anyone.
FairSpec == Spec /\ WF_vars(Open \/ Barrier)

---------------------------------------------------------------------------
(* Properties.                                                             *)

PcValues == {"closed", "inittree", "initman", "initsync", "openack", "openacksync",
             "repair", "repairsync", "idle",
             "tree", "bak", "baksync", "undo", "man", "sync", "ack", "acksync"}

PageContent == {Absent, Torn} \cup SUBSET Blocks

\* Every variable has its type.
TypeOK ==
    /\ pages \in [Pages -> PageContent] /\ synced \in [Pages -> PageContent]
    /\ undo \in [Slots -> {Absent, Torn} \cup Blocks]
    /\ dir \in Directory /\ may \subseteq Directory
    /\ pc \in PcValues
    /\ job \in Job /\ ram \in Ram
    /\ root \in Pages /\ free \subseteq Pages /\ retired \subseteq Pages
    /\ needsReopen \in BOOLEAN /\ oneShot \in BOOLEAN
    /\ batchOpen \in BOOLEAN /\ batchOld \in Pages
    /\ overlayAt \in {Absent} \cup Pages /\ overlay \subseteq Blocks
    /\ pend \in Seq(Blocks) /\ batchFailed \in BOOLEAN
    /\ acked \in {Absent} \cup Manifest /\ doubt \in {Absent} \cup Manifest
    /\ faults \in Nat /\ crashes \in Nat /\ damage \in Nat

\* The coins and the tip manifest m names and the undo log u are of one chain of blocks.
Coherent(u, m) ==
    /\ m.undo \in 0..MaxHeight
    /\ \A i \in 1..m.undo : u[i] \in m.coins
    /\ \A b \in m.coins : \E i \in 1..m.undo : u[i] = b
    /\ \A i, j \in 1..m.undo : u[i] = u[j] => i = j
    /\ m.tip = IF m.undo = 0 THEN Absent ELSE u[m.undo]

\* Until the next generation has been reported, the last reported one is whole on
\* disk: its root page is durable and its undo records are those of its coins
\* (page reuse, the undo write offset and the order of the barriers).
CommittedIntact ==
    acked # Absent => synced[acked.root] = acked.coins /\ pages[acked.root] = acked.coins /\ Coherent(undo, acked)

\* In every directory a crash can leave, MANIFEST is the last reported generation or
\* the one whose outcome is in doubt, whole in either case: never a mixture.
OldOrNew ==
    damage = 0 /\ acked # Absent =>
        \A d \in may : /\ d.man \in {acked, doubt} \ {Absent}
                       /\ synced[d.man.root] = d.man.coins /\ Coherent(undo, d.man)

\* Every crash of an undamaged store leaves a directory that open accepts: ACK is
\* the generation of MANIFEST or the one before, or is not there for generation 0.
Restartable ==
    damage = 0 /\ acked # Absent =>
        \A d \in may : /\ d.man \in Manifest
                       /\ IF d.ack = Absent THEN d.man.gen = 0 ELSE d.man.gen \in {d.ack, d.ack + 1}

\* R1 (F0-1): when undo records are about to be written, every manifest a crash may
\* leave, primary or backup, references only records below the write offset.
RetainedBelowWriteOffset ==
    pc = "undo" /\ job.recs # << >> =>
        \A d \in may : \A m \in {d.man, d.bak} \cap Manifest : m.undo <= ram.undo

\* The double fault: if a crash leaves a primary that was never acknowledged and that
\* primary turns out damaged, the backup beside it is the acknowledged generation.
BackupIsAcked ==
    acked # Absent =>
        \A d \in may : d.man \in Manifest /\ d.ack = acked.gen /\ d.man.gen # acked.gen => d.bak = acked

\* A generation is reported only if it was reported before or is the one in doubt:
\* no open rolls an acknowledged generation back, even when it falls back to
\* MANIFEST.bak because the primary is damaged.
NoRollback == [][acked' # acked => acked' = doubt]_vars

\* Reads between the calls see the coins of the blocks in the committed undo log, plus
\* those of the open batch, so block N+1 finds the coins block N created.
ReadsSeeBatch ==
    pc = "idle" /\ ~needsReopen /\ ~batchFailed =>
        View = {undo[i] : i \in 1..ram.undo} \cup Range(pend)

\* A page on the free list is no page that a read or a recovery needs.
FreeUnreferenced ==
    pc # "closed" =>
        /\ root \notin free /\ (batchOpen => batchOld \notin free)
        /\ acked # Absent => acked.root \notin free
        /\ doubt # Absent => doubt.root \notin free

\* The documented contract of a batch and of the operator unwind: a batch commits all
\* of its blocks or none (incstore.h), and after an unwind the coins follow the tip
\* exactly (main.cpp, s16_OperatorUnwindStoreTo).  The coins of the reported
\* generation are those of the blocks in its undo records.
StateFollowsTip == acked # Absent => Coherent(undo, acked)

\* The documented contract of a batch that fails before its first barrier: the root is
\* restored and the store is exactly where it started (incstore.h, applyBatchBlock).
FailedBatchRestores ==
    pc = "idle" /\ ~needsReopen /\ batchFailed /\ ~batchOpen =>
        View = {undo[i] : i \in 1..ram.undo}

\* The blocks whose undo records manifest m commits.
ChainOf(m) == [i \in 1..m.undo |-> undo[i]]

L == INSTANCE Ledger WITH
        None  <- Absent,
        chain <- IF acked = Absent THEN << >> ELSE ChainOf(acked),
        maybe <- IF doubt = Absent \/ doubt = EmptyManifest THEN Absent ELSE ChainOf(doubt)

\* The store implements the ledger: read off the undo records on disk, the durable
\* chain changes by one whole commit at a time, through any failure and crash.
ImplementsLedger == L!Spec

\* Until a MANIFEST is damaged on disk, an open or a commit of a store that was once
\* created always comes to its end, and a closed store is opened again: the process
\* never waits for anyone and a restart after a crash is never refused.
Completes == acked # Absent /\ damage = 0 ~> pc = "idle" \/ damage > 0

=============================================================================
