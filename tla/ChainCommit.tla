---------------------------- MODULE ChainCommit ----------------------------
(***************************************************************************)
(* How a block becomes part of the best chain of a node in authoritative   *)
(* V2 mode, and what a restart makes of what it finds.                     *)
(*                                                                         *)
(* Two stores must agree on the chain: the mutable tip of the block index  *)
(* (tip.meta and its tail, src/src/blockindex_tip.cpp) and the coin store  *)
(* (Store3A).  ConnectBlock and DisconnectBlock change the coin store,     *)
(* AddToBlockIndex publishes the tip afterwards; both may be buffered      *)
(* (-s16store3abatch, -tipcommitbatch).  All of it runs under cs_main, so  *)
(* the only interleaving is with the death of the process.                 *)
(*                                                                         *)
(* Abstractions.  A block is the path that leads to it from the base of    *)
(* the tail, so its parent is the path without the last step, its height   *)
(* the length, and two blocks fork at their longest common prefix.  Each   *)
(* commit of a store is one step (Store3A refines that for the coins).     *)
(* The coins are the blocks applied, in order.                             *)
(***************************************************************************)
EXTENDS Naturals, FiniteSets, SequencesExt

CONSTANTS
    Blocks,       \* the blocks that exist: a set of paths closed under prefixes
    Trust,        \* nChainTrust of each block and of the base
    Bad,          \* the blocks ConnectBlock rejects
    StoreBatch,   \* -s16store3abatch
    TipBatch,     \* -tipcommitbatch
    BatchAlways,  \* -tipcommitbatchalways
    ReplayBatch,  \* kReplayBatch
    MaxCrashes,   \* bound: kills and stops
    MaxSwitches   \* bound: synchronized checkpoints that force a switch

Base == << >>

ASSUME ChainAssumption ==
    /\ \A b \in Blocks : b # Base /\ (Len(b) > 1 => Front(b) \in Blocks)
    /\ Trust \in [Blocks \cup {Base} -> Nat]
    /\ \A b \in Blocks : Trust[b] > Trust[Front(b)]
    /\ Bad \subseteq Blocks

\* The combinations of the two batch sizes a node starts with.
IsTipBatchCompatible == TipBatch <= 1 \/ TipBatch <= StoreBatch

ASSUME BatchAssumption ==
    /\ {StoreBatch, TipBatch, ReplayBatch} \subseteq Nat \ {0}
    /\ {MaxCrashes, MaxSwitches} \subseteq Nat
    /\ BatchAlways \in BOOLEAN
    /\ IsTipBatchCompatible

VARIABLES
    \* ---- disk
    tip,       \* the active chain tip.meta commits
    records,   \* the blocks of the tail, active or side
    coins,     \* Store3A: the blocks applied and the block its MANIFEST names
    \* ---- memory
    best,      \* pindexBest
    resident,  \* mapBlockIndex
    window,    \* pendBlocks and pendHeights: appends not yet committed
    batch,     \* g_chainObserve.pending: blocks applied and not yet published
    recover,   \* g_chainObserve.needsRecovery
    pc,        \* what cs_main is held for
    job,       \* the switch in progress
    \* ---- environment
    crashes, switches

disk == <<tip, records, coins>>
env  == <<crashes, switches>>
vars == <<disk, best, resident, window, batch, recover, pc, job, env>>

Chain == Blocks \cup {Base}

\* A switch of the best chain to block new: what is still to disconnect and to
\* connect, how many connects may not fail, whether the tip is published after it,
\* and where the branch leaves the published tip.
Job == [new : Chain, disc : Seq(Blocks), conn : Seq(Blocks), need : Nat,
        publish : BOOLEAN, fork : Chain]
NoJob == [new |-> Base, disc |-> << >>, conn |-> << >>, need |-> 0,
          publish |-> FALSE, fork |-> Base]

\* The blocks of the chain that ends in b, lowest first; those above height h.
PathAbove(b, h) == [i \in 1..(Len(b) - h) |-> SubSeq(b, 1, h + i)]
PathOf(b) == PathAbove(b, 0)

\* The last common ancestor of a and b.
Fork(a, b) == LongestCommonPrefix({a, b})

\* The coins a read through the open store sees: the pending batch is applied.
View == coins.log \o batch

\* The tip the authority answers with: the window's, or the committed one.
ActiveOf(w) == SelectSeq(w, LAMBDA e : e.active)
LogicalTip == IF ActiveOf(window) = << >> THEN tip ELSE Last(ActiveOf(window)).blk

Known == records \cup {e.blk : e \in Range(window)} \cup resident

Init ==
    /\ tip = Base /\ records = {} /\ coins = [log |-> << >>, tip |-> Base]
    /\ best = Base /\ resident = {} /\ window = << >> /\ batch = << >>
    /\ recover = FALSE /\ pc = "idle" /\ job = NoJob
    /\ crashes = 0 /\ switches = 0

---------------------------------------------------------------------------
(* The mutable tip.                                                        *)

\* AppendBatch of the window w: one commit of tip.meta.
CommitWindow(w) ==
    /\ records' = records \cup {e.blk : e \in Range(w)}
    /\ tip' = IF ActiveOf(w) = << >> THEN tip ELSE Last(ActiveOf(w)).blk

\* FlushPendingAppends.
FlushPendingAppends == CommitWindow(window) /\ window' = << >>

\* The window holds side blocks only: its height is still the initial -1.
NoHeight == window # << >> /\ ActiveOf(window) = << >>

\* Mutant of AppendToWindow: the boundary is one entry late.
AppendToWindowLate(b, active) ==
    LET w == Append(window, [blk |-> b, active |-> active]) IN
    /\ TipBatch > 1
    /\ active => ~NoHeight /\ Front(b) = LogicalTip
    /\ IF Len(w) > TipBatch
       THEN CommitWindow(w) /\ window' = << >>
       ELSE window' = w /\ UNCHANGED <<tip, records>>

\* Append during the initial download: buffered up to -tipcommitbatch entries.
AppendToWindow(b, active) ==
    LET w == Append(window, [blk |-> b, active |-> active]) IN
    /\ TipBatch > 1
    /\ active => ~NoHeight /\ Front(b) = LogicalTip
    /\ IF Len(w) >= TipBatch
       THEN CommitWindow(w) /\ window' = << >>
       ELSE window' = w /\ UNCHANGED <<tip, records>>

\* Append at any other time: committed at once, and only on top of the committed tip.
AppendNow(b, active) ==
    /\ ~(BatchAlways /\ TipBatch > 1)
    /\ active => Front(b) = tip
    /\ CommitWindow(<<[blk |-> b, active |-> active]>>)
    /\ UNCHANGED window

\* Whether the node counts as downloading is a matter of peers and of time.
AppendTip(b, active) == AppendToWindow(b, active) \/ AppendNow(b, active)

---------------------------------------------------------------------------
(* The coin store.                                                         *)

\* FlushPending: the whole batch in one commit.
FlushPending ==
    /\ coins' = [log |-> View, tip |-> Last(batch)]
    /\ batch' = << >>

\* Mutant of Undo: the tip moves and the coins stay.
UndoKeepsCoins(b) == coins' = [log |-> coins.log, tip |-> Front(b)]

\* CommitStore3A::disconnect of block b: its undo record must be the last one.
HasUndo(b) == coins.log # << >> /\ Last(coins.log) = b
Undo(b) == coins' = [log |-> Front(coins.log), tip |-> Front(b)]

\* Mutant of Observe: a full batch is published with the block itself in it.
ObserveOwnFlush(b) ==
    IF Len(batch) + 1 < StoreBatch
    THEN batch' = Append(batch, b) /\ UNCHANGED coins
    ELSE coins' = [log |-> Append(View, b), tip |-> b] /\ batch' = << >>

\* What s16_ObserveConnectBlock does with an accepted block.
Observe(b) ==
    IF StoreBatch > 1
    THEN batch' = Append(batch, b) /\ UNCHANGED coins
    ELSE coins' = [log |-> Append(coins.log, b), tip |-> b] /\ UNCHANGED batch

---------------------------------------------------------------------------
(* SetBestChain.                                                           *)

\* Mutant of SwitchTo: the walk back stops one block before the fork.
SwitchStopsShort(b, publish) ==
    LET lower == {h \in 0..(Len(b) - 1) : Trust[SubSeq(b, 1, h)] <= Trust[best]}
        inter == SubSeq(b, 1, Cardinality(lower))
        f     == IF Front(b) = best THEN best ELSE Fork(best, inter)
    IN [new |-> b, disc |-> Reverse(PathAbove(best, Len(f) + 1)),
        conn |-> PathAbove(b, Len(f)),
        need |-> IF Front(b) = best THEN 1 ELSE Len(inter) - Len(f),
        publish |-> publish, fork |-> Base]

\* The switch from the best chain to block b.  An extension is one connect.  In a
\* reorganization the blocks above the first one that outweighs the best chain are
\* postponed: their failure is not fatal.
SwitchTo(b, publish) ==
    LET lower == {h \in 0..(Len(b) - 1) : Trust[SubSeq(b, 1, h)] <= Trust[best]}
        inter == SubSeq(b, 1, Cardinality(lower))
        f     == IF Front(b) = best THEN best ELSE Fork(best, inter)
    IN [new |-> b, disc |-> Reverse(PathAbove(best, Len(f))),
        conn |-> PathAbove(b, Len(f)),
        need |-> IF Front(b) = best THEN 1 ELSE Len(inter) - Len(f),
        publish |-> publish, fork |-> Base]

\* AcceptBlock and AddToBlockIndex, up to the comparison of trust.
New(b) == pc = "idle" /\ b \notin Known /\ Front(b) \in Known \cup {Base}

\* A block that does not outweigh the best chain is recorded as a side block.
AcceptSide(b) ==
    /\ New(b) /\ Trust[b] <= Trust[best]
    /\ AppendTip(b, FALSE)
    /\ resident' = resident \cup {b}
    /\ UNCHANGED <<coins, best, batch, recover, pc, job, env>>

\* Mutant of AcceptBest: every new block is switched to.
AcceptBestAlways(b) ==
    /\ New(b)
    /\ resident' = resident \cup {b}
    /\ pc' = "switch" /\ job' = SwitchTo(b, TRUE)
    /\ UNCHANGED <<disk, best, window, batch, recover, env>>

AcceptBest(b) ==
    /\ New(b) /\ Trust[b] > Trust[best]
    /\ resident' = resident \cup {b}
    /\ pc' = "switch" /\ job' = SwitchTo(b, TRUE)
    /\ UNCHANGED <<disk, best, window, batch, recover, env>>

\* AuthoritativeSyncCheckpointSwitchChainByValue, for a checkpoint that is known
\* and not on the active chain.
SwitchToCheckpoint(b) ==
    /\ pc = "idle" /\ switches < MaxSwitches
    /\ b \in Known /\ ~IsPrefix(b, LogicalTip)
    /\ switches' = switches + 1
    /\ pc' = "switch" /\ job' = SwitchTo(b, FALSE)
    /\ UNCHANGED <<disk, best, resident, window, batch, recover, crashes>>

\* SetBestChain returns false: AddToBlockIndex forgets the new block.
Abandon ==
    /\ pc' = "idle" /\ job' = NoJob
    /\ resident' = IF job.publish THEN resident \ {job.new} ELSE resident

\* DisconnectBlock: undo starts from the committed tip, so a batch is flushed first.
FlushBeforeUndo ==
    /\ pc = "switch" /\ job.disc # << >> /\ batch # << >>
    /\ FlushPending
    /\ UNCHANGED <<tip, records, best, resident, window, recover, pc, job, env>>

DisconnectBlock ==
    /\ pc = "switch" /\ job.disc # << >> /\ batch = << >>
    /\ HasUndo(Head(job.disc))
    /\ Undo(Head(job.disc))
    /\ job' = [job EXCEPT !.disc = Tail(@)]
    /\ UNCHANGED <<tip, records, best, resident, window, batch, recover, pc, env>>

DisconnectFails ==
    /\ pc = "switch" /\ job.disc # << >> /\ batch = << >>
    /\ ~HasUndo(Head(job.disc))
    /\ recover' = TRUE
    /\ Abandon
    /\ UNCHANGED <<disk, best, window, batch, env>>

Connecting == pc = "switch" /\ job.disc = << >> /\ job.conn # << >>

\* The batch is full: it is published before the next block is applied.
BatchFull == StoreBatch > 1 /\ Len(batch) >= StoreBatch

FlushBeforeConnect ==
    /\ Connecting /\ Head(job.conn) \notin Bad /\ ~recover /\ BatchFull
    /\ FlushPending
    /\ UNCHANGED <<tip, records, best, resident, window, recover, pc, job, env>>

\* Mutant of ConnectBlock: without the gate of the observer.
ConnectUngated ==
    /\ Connecting /\ Head(job.conn) \notin Bad /\ ~BatchFull
    /\ Observe(Head(job.conn))
    /\ job' = [job EXCEPT !.conn = Tail(@), !.need = IF @ = 0 THEN 0 ELSE @ - 1]
    /\ UNCHANGED <<tip, records, best, resident, window, recover, pc, env>>

ConnectBlock ==
    /\ Connecting /\ Head(job.conn) \notin Bad /\ ~recover /\ ~BatchFull
    /\ Observe(Head(job.conn))
    /\ job' = [job EXCEPT !.conn = Tail(@), !.need = IF @ = 0 THEN 0 ELSE @ - 1]
    /\ UNCHANGED <<tip, records, best, resident, window, recover, pc, env>>

\* Mutants of ConnectFails: no failure is fatal; the connect is tried again.
ConnectFailsNotFatal ==
    /\ Connecting
    /\ Head(job.conn) \in Bad \/ recover
    /\ job' = [job EXCEPT !.conn = << >>]
    /\ UNCHANGED <<disk, best, resident, window, batch, recover, pc, env>>

ConnectFailsRetries ==
    /\ Connecting
    /\ Head(job.conn) \in Bad \/ recover
    /\ UNCHANGED vars

\* The block is invalid, or the observer is out of order, or the coins are not those
\* of the block's parent and one that it spends is missing (which the input check
\* reports before the observer, or the observer itself).
ConnectFails ==
    /\ Connecting
    /\ LET misfit == View # PathOf(Front(Head(job.conn))) IN
       /\ Head(job.conn) \in Bad \/ recover \/ misfit
       /\ recover' \in {recover, recover \/ misfit}
    /\ IF job.need > 0
       THEN Abandon
       ELSE job' = [job EXCEPT !.conn = << >>] /\ UNCHANGED <<pc, resident>>
    /\ UNCHANGED <<disk, best, window, batch, env>>

\* The end of SetBestChain.
NewBest ==
    /\ pc = "switch" /\ job.disc = << >> /\ job.conn = << >>
    /\ best' = job.new
    /\ IF job.publish
       THEN pc' = "publish" /\ job' = [job EXCEPT !.fork = Fork(tip, job.new)]
       ELSE pc' = "idle" /\ job' = NoJob
    /\ UNCHANGED <<disk, resident, window, batch, recover, env>>

---------------------------------------------------------------------------
(* AddToBlockIndex, after SetBestChain: the tip is published.              *)

\* Mutant of Extends: the committed tip decides.
ExtendsCommitted == Front(job.new) = tip

Extends == Front(job.new) = LogicalTip

\* Mutant of ForkInRange: the block below the tip is refused too.
ForkBelowTip == job.fork = Base \/ Len(job.fork) + 1 < Len(tip)

\* ReorgActiveTo refuses a fork at the committed tip itself.
ForkInRange == job.fork = Base \/ Len(job.fork) < Len(tip)

PublishActive ==
    /\ pc = "publish" /\ Extends
    /\ AppendTip(job.new, TRUE)
    /\ pc' = "idle" /\ job' = NoJob
    /\ UNCHANGED <<coins, best, resident, batch, recover, env>>

\* PublishAuthoritativeLiveTailCutover works against the committed tip, and needs one;
\* ReorgActiveTo commits the window before the branch.
FlushBeforeCutover ==
    /\ pc = "publish" /\ ~Extends /\ tip # Base /\ window # << >>
    /\ FlushPendingAppends
    /\ UNCHANGED <<coins, best, resident, batch, recover, pc, job, env>>

\* Mutant of Cutover: only the new block is recorded.
CutoverRecordsTip ==
    /\ pc = "publish" /\ ~Extends /\ tip # Base /\ window = << >> /\ ForkInRange
    /\ tip' = job.new
    /\ records' = records \cup {job.new}
    /\ pc' = "idle" /\ job' = NoJob
    /\ UNCHANGED <<coins, best, resident, window, batch, recover, env>>

Cutover ==
    /\ pc = "publish" /\ ~Extends /\ tip # Base /\ window = << >> /\ ForkInRange
    /\ tip' = job.new
    /\ records' = records \cup Range(PathAbove(job.new, Len(job.fork)))
    /\ pc' = "idle" /\ job' = NoJob
    /\ UNCHANGED <<coins, best, resident, window, batch, recover, env>>

\* The block stays the best one in memory although the tip does not name it.
PublishFails ==
    /\ pc = "publish"
    /\ \/ Extends /\ Front(job.new) # tip /\ ~BatchAlways
       \/ Extends /\ NoHeight
       \/ ~Extends /\ tip = Base
       \/ ~Extends /\ window = << >> /\ ~ForkInRange
    /\ pc' = "idle" /\ job' = NoJob
    /\ UNCHANGED <<disk, best, resident, window, batch, recover, env>>

---------------------------------------------------------------------------
(* Stopping, dying and starting.                                           *)

\* Shutdown, like the end of -loadblock, commits the index first, and the coins only if that has succeeded.
ShutdownIndex ==
    /\ pc = "idle" /\ crashes < MaxCrashes
    /\ \/ FlushPendingAppends /\ pc' = "stopping"
       \/ window # << >> /\ pc' = "down" /\ UNCHANGED <<tip, records, window>>
    /\ crashes' = crashes + 1
    /\ UNCHANGED <<coins, best, resident, batch, recover, job, switches>>

ShutdownStore ==
    /\ pc = "stopping"
    /\ IF batch = << >> THEN UNCHANGED <<coins, batch>> ELSE FlushPending
    /\ pc' = "down"
    /\ UNCHANGED <<tip, records, best, resident, window, recover, job, env>>

Crash ==
    /\ pc \notin {"down", "refused"} /\ crashes < MaxCrashes
    /\ crashes' = crashes + 1
    /\ pc' = "down"
    /\ UNCHANGED <<disk, best, resident, window, batch, recover, job, switches>>

\* The best chain is loaded from the committed tip; nothing else survives.
Start ==
    /\ pc = "down"
    /\ pc' = "start" /\ best' = tip
    /\ resident' = {} /\ window' = << >> /\ batch' = << >>
    /\ recover' = FALSE /\ job' = NoJob
    /\ UNCHANGED <<disk, env>>

Reconciling == pc = "start"
Refuse == pc' = "refused" /\ UNCHANGED coins

\* ReconcileStore3AToChain A: the store is ahead, undo its last block.  The index must
\* have a committed tip, and know the block.
Unwind ==
    /\ Reconciling /\ Len(coins.tip) > Len(tip)
    /\ IF tip # Base /\ coins.tip \in records /\ HasUndo(coins.tip)
       THEN Undo(coins.tip) /\ UNCHANGED pc
       ELSE Refuse
    /\ UNCHANGED <<tip, records, best, resident, window, batch, recover, job, env>>

\* Mutant of Replay: an empty store is not replayed.
ReplayNotEmpty ==
    /\ Reconciling /\ Len(coins.tip) < Len(tip)
    /\ LET rest == PathAbove(tip, Len(coins.tip)) IN
       IF coins.tip = Base \/ ~IsPrefix(coins.tip, tip) THEN Refuse
       ELSE coins' = [log |-> coins.log \o rest, tip |-> tip] /\ UNCHANGED pc
    /\ UNCHANGED <<tip, records, best, resident, window, batch, recover, job, env>>

\* B: the store is behind, replay the blocks of the active chain on top of it.
Replay ==
    /\ Reconciling /\ Len(coins.tip) < Len(tip)
    /\ LET rest  == PathAbove(tip, Len(coins.tip))
           chunk == SubSeq(rest, 1, IF Len(rest) < ReplayBatch THEN Len(rest) ELSE ReplayBatch)
           next  == [log |-> coins.log \o chunk, tip |-> Last(chunk)]
       IN IF ~IsPrefix(coins.tip, tip) THEN Refuse
          ELSE \/ coins' = next /\ UNCHANGED pc
               \/ coins.log # PathOf(coins.tip) /\ Refuse
    /\ UNCHANGED <<tip, records, best, resident, window, batch, recover, job, env>>

\* C: the store names the tip of the chain, or the node does not start.
Agree ==
    /\ Reconciling /\ Len(coins.tip) = Len(tip)
    /\ pc' = IF coins.tip = tip THEN "idle" ELSE "refused"
    /\ UNCHANGED <<disk, best, resident, window, batch, recover, job, env>>

SwitchStep ==
    \/ FlushBeforeUndo \/ DisconnectBlock \/ DisconnectFails
    \/ FlushBeforeConnect \/ ConnectBlock \/ ConnectFails \/ NewBest
PublishStep == PublishActive \/ FlushBeforeCutover \/ Cutover \/ PublishFails
StartStep == ShutdownStore \/ Start \/ Unwind \/ Replay \/ Agree

Next ==
    \/ \E b \in Blocks : AcceptSide(b) \/ AcceptBest(b) \/ SwitchToCheckpoint(b)
    \/ SwitchStep \/ PublishStep \/ StartStep
    \/ ShutdownIndex \/ Crash

\* The thread that holds cs_main runs to the end of what it has begun.
Spec == Init /\ [][Next]_vars /\ WF_vars(SwitchStep \/ PublishStep \/ StartStep)

---------------------------------------------------------------------------
(* Properties.                                                             *)

TypeOK ==
    /\ tip \in Chain /\ records \subseteq Blocks
    /\ coins \in [log : Seq(Blocks), tip : Chain]
    /\ best \in Chain /\ resident \subseteq Blocks
    /\ window \in Seq([blk : Blocks, active : BOOLEAN]) /\ batch \in Seq(Blocks)
    /\ recover \in BOOLEAN /\ job \in Job
    /\ pc \in {"idle", "switch", "publish", "stopping", "down", "start", "refused"}
    /\ crashes \in 0..MaxCrashes /\ switches \in 0..MaxSwitches

\* A node that was stopped or killed at any point starts again: the reconciliation
\* of init.cpp ends with the store at the tip of the index.
StartAccepts == pc # "refused"

\* The committed coin store never names a block that the committed index does not have.
StoreWithinIndex == coins.tip \in records \cup {Base}

\* Between two blocks the coins are those of the best chain, unless the observer has
\* raised needsRecovery (and refuses every further block).
CoinsFollowBest == pc = "idle" /\ ~recover => View = PathOf(best)

\* The coins the store has committed are those of the chain that ends in the block its
\* MANIFEST names, so a restart that compares tips compares coins.
TipNamesCoins == coins.log = PathOf(coins.tip)

\* The tip authority follows the best chain: when cs_main is released the tip it
\* answers with is the best block.
TipFollowsBest == pc = "idle" => LogicalTip = best

\* ConnectBlock's verdict binds the coins and the committed chain: a block it rejects is
\* never applied, nor published and replayed by a later start.
RejectedStaysOut == (Range(View) \cup Range(PathOf(tip))) \cap Bad = {}

\* Every block of the committed chain has its record, whichever appends, cutovers and
\* crashes came before: the reconciliation can resolve each height.
TipResolvable == Range(PathOf(tip)) \subseteq records

\* Once the observer has raised needsRecovery no further block reaches the coins.
NoDeltaAfterFailure == [][recover /\ recover' => IsPrefix(View', View)]_vars

\* cs_main is always released: every switch, publication and reconciliation ends.
CallsEnd == pc \in {"switch", "publish", "start"} ~> pc \in {"idle", "down", "refused"}

\* The committed tip never gives up trust, across crashes and reorganizations.
TipGainsTrust == [][Trust[tip'] >= Trust[tip]]_vars

\* Every stop is followed by a start that accepts blocks again.
ComesBack == pc = "down" ~> pc = "idle"

=============================================================================
