--------------------------- MODULE OrderedRefill ---------------------------
(***************************************************************************)
(* Block download from the header graph: the ordered refill of             *)
(* src/src/main.cpp and the block-request owner table of src/src/net.cpp   *)
(* and net.h, during initial block download.                               *)
(*                                                                         *)
(* Two threads.  The message thread takes a snapshot of the peers, lets    *)
(* each one's messages in, opens a scheduling round and then runs          *)
(* SendMessages for each peer: a recovery scan of the part of the window   *)
(* already claimed, one refill walk per round (the first peer to come      *)
(* owns it), and the getdata loop.  The socket thread removes peers at any *)
(* point in between: it takes cs_main only if it is free.                  *)
(*                                                                         *)
(* Abstractions.  The active header path is the heights 1..N, so a branch  *)
(* switch does not occur (PurgeObsoleteOrderedQueuedWork is left out) and  *)
(* a header is known from a peer up to claim[p].  A peer's score is a      *)
(* constant, as is the set of peers that pass the quality gate.  Time is   *)
(* left out: a request may expire, or be old enough to be moved to another *)
(* peer, whenever the fault budget allows.  The global request ceiling is  *)
(* at least the window plus the redundant copies and never binds.          *)
(***************************************************************************)
EXTENDS Integers, FiniteSets

CONSTANTS
    Peers, None,
    Outbound,          \* the peers connected from the start
    Score, MaxScore,   \* IbdHeaderSchedulerPeerScore, and its largest value
    Qualified,         \* the peers that pass IbdPeerQualifiesForHeadPrefix
    N,                 \* headers of the active path
    W,                 \* GetIbdBlockWindow
    HeadPrefix,        \* GetIbdHeaderHeadPrefixHeight
    RedundancyPrefix,  \* GetIbdHeaderRedundancyPrefixHeight
    MaxActive,         \* GetMaxActiveBlockRequestsPerPeer
    Faults,            \* which faults occur: see Fault
    MaxFaults          \* bound on their number

ASSUME RefillConstants ==
    /\ None \notin Peers /\ Outbound \subseteq Peers
    /\ MaxScore \in Nat /\ Score \in [Peers -> 0..MaxScore]
    /\ Qualified \subseteq Peers
    /\ N \in Nat \ {0} /\ W \in Nat \ {0} /\ MaxActive \in Nat \ {0}
    /\ HeadPrefix \in Nat /\ RedundancyPrefix \in Nat
    /\ Faults \subseteq {"close", "timeout", "null", "refuse", "preempt", "lock"}

Blocks == 1..N

VARIABLES
    \* ---- chain and headers
    have,         \* blocks stored: connected, or orphans waiting for their parents
    tip,          \* height of the header graph's active tip
    claim,        \* the highest header each peer announced
    \* ---- peers
    phase,        \* new, up, closing (fDisconnect), cleaned (out of vNodes), gone (deleted)
    \* ---- requests, per peer
    mapAskFor,    \* the queue
    setAskFor,    \* setAskForBlocks
    inFlight,     \* setBlocksInFlight
    wire,         \* requests the peer has not answered yet
    \* ---- mapBlockRequestOwners
    slots,        \* the owners of a block's request
    sent,         \* those in state BLOCK_REQUEST_OWNER_IN_FLIGHT
    lastTimeout,  \* mapBlockLastTimeoutOwner
    \* ---- IbdHeaderSchedulerState
    cursor,
    \* ---- the message thread
    pc, snap, todo, pto, walk,
    faults

chain == <<have, tip, claim>>
queues == <<mapAskFor, setAskFor, inFlight, wire>>
owners == <<slots, sent, lastTimeout>>
thread == <<pc, snap, todo, pto, walk>>
vars == <<chain, phase, queues, owners, cursor, thread, faults>>

Best == CHOOSE n \in 0..N : (1..n) \subseteq have /\ n + 1 \notin have

Fault(kind) == kind \in Faults /\ faults < MaxFaults /\ faults' = faults + 1

\* A walk over heights at..end: by the round's owner over the window (inc: over one
\* entry of it), or by the recovery scan.  next is fullNextIndex as a height, 0 unset.
NoWalk ==
    [at |-> 0, end |-> 0, inc |-> FALSE, next |-> 0, prefix |-> TRUE, resolved |-> FALSE,
     front |-> TRUE, target |-> None, backup |-> FALSE]

---------------------------------------------------------------------------
(* Choosing a peer.                                                        *)

Least(a, b) == IF a < b THEN a ELSE b

\* Mutant of Budget: the queue is not counted.
BudgetOfWire(p) == MaxActive - Cardinality(inFlight[p])

\* GetDeferredBlockRequestBudget.
Budget(p) == MaxActive - Cardinality(setAskFor[p]) - Cardinality(inFlight[p])

\* IbdHeaderSchedulerCandidatePeers: the snapshot's peers with evidence for the block.
Candidates(h) == {p \in snap : phase[p] = "up" /\ claim[p] >= h}

QualifiedFor(h) == IF h - Best <= HeadPrefix THEN Candidates(h) \cap Qualified ELSE {}

Pool(h) == IF QualifiedFor(h) = {} THEN Candidates(h) ELSE QualifiedFor(h)

Top(S) == CHOOSE p \in S : \A q \in S : Score[p] >= Score[q]

\* A block that timed out leaves its last owner while another candidate has budget.
Eligible(h, C) ==
    IF \E q \in C \ {lastTimeout[h]} : Budget(q) > 0 THEN C \ {lastTimeout[h]} ELSE C

\* IbdHeaderSchedulerBestPeerForHash, with and without the budget cache.
BestPeer(h, C) ==
    LET spare == {p \in Eligible(h, C) : Budget(p) > 0}
    IN  Top(IF spare = {} THEN Eligible(h, C) ELSE spare)

BestPeerForRecovery(h, C) == Top(Eligible(h, C))

\* Mutant of Desired: the redundancy prefix is one block too long.
DesiredWide(h) == IF h <= Best + RedundancyPrefix + 1 THEN 2 ELSE 1

\* IbdHeaderSchedulerHashNeedsRedundancy.
Desired(h) == IF h <= Best + RedundancyPrefix THEN 2 ELSE 1

\* AskFor may return ASKFOR_QUEUED.  It also refuses for reasons of its own (a full queue,
\* the cooldown after a failure): the fault "refuse".
Askable(p, h, max) ==
    /\ h \notin inFlight[p] /\ h \notin setAskFor[p]
    /\ Cardinality(slots[h]) < max

Queue(p, h) ==
    /\ mapAskFor' = [mapAskFor EXCEPT ![p] = @ \cup {h}]
    /\ setAskFor' = [setAskFor EXCEPT ![p] = @ \cup {h}]

QueuedOnAny(h) == \E p \in snap : h \in setAskFor[p]

---------------------------------------------------------------------------
(* Peers come and go.                                                      *)

Connect(p) ==
    /\ phase[p] = "new"
    /\ phase' = [phase EXCEPT ![p] = "up"]
    /\ UNCHANGED <<chain, queues, owners, cursor, thread, faults>>

Close(p) ==
    /\ phase[p] = "up"
    /\ Fault("close")
    /\ phase' = [phase EXCEPT ![p] = "closing"]
    /\ UNCHANGED <<chain, queues, owners, cursor, thread>>

\* CNode::Cleanup.  The header source claims go only if cs_main is free; the owner slots
\* go under their own lock, and the cursor is invalidated when a block loses its last.
CleanupNode(p) ==
    LET lost == \E h \in Blocks : slots[h] = {p}
    IN  /\ slots' = [h \in Blocks |-> slots[h] \ {p}]
        /\ sent' = [h \in Blocks |-> sent[h] \ {p}]
        /\ \/ /\ pc \notin {"recover", "gate", "walk", "ask", "commit"}
              /\ claim' = [claim EXCEPT ![p] = 0]
              /\ cursor' = [cursor EXCEPT !.stale = TRUE, !.invalidated = @ \/ lost]
           \/ /\ UNCHANGED claim
              /\ cursor' = [cursor EXCEPT !.invalidated = @ \/ lost]
        /\ setAskFor' = [setAskFor EXCEPT ![p] = {}]
        /\ inFlight' = [inFlight EXCEPT ![p] = {}]
        /\ wire' = [wire EXCEPT ![p] = {}]
        /\ UNCHANGED <<have, tip, lastTimeout, thread, faults>>

\* The socket thread takes a closing peer out of vNodes.
Remove(p) ==
    /\ phase[p] = "closing"
    /\ phase' = [phase EXCEPT ![p] = "cleaned"]
    /\ CleanupNode(p)
    /\ UNCHANGED mapAskFor

\* Mutant of Delete: the destructor does not clean up again.
DeleteOnly(p) ==
    /\ phase[p] = "cleaned" /\ p \notin snap
    /\ phase' = [phase EXCEPT ![p] = "gone"]
    /\ UNCHANGED <<chain, queues, owners, cursor, thread, faults>>

\* The node is deleted once no snapshot refers to it; ~CNode cleans up again.
Delete(p) ==
    /\ phase[p] = "cleaned" /\ p \notin snap
    /\ phase' = [phase EXCEPT ![p] = "gone"]
    /\ CleanupNode(p)
    /\ mapAskFor' = [mapAskFor EXCEPT ![p] = {}]

---------------------------------------------------------------------------
(* Messages in.                                                            *)

\* ReleaseBlockRequestOwnerLocked: a slot goes; the last one of a request that died
\* before delivery arms the recovery scan.
Release(h, p, arm) ==
    /\ slots' = [slots EXCEPT ![h] = @ \ {p}]
    /\ sent' = [sent EXCEPT ![h] = @ \ {p}]
    /\ cursor' = [cursor EXCEPT !.recovery = @ \/ (arm /\ slots[h] = {p})]

Snapshot ==
    /\ pc = "idle"
    /\ snap' = {p \in Peers : phase[p] \in {"up", "closing"}}
    /\ pc' = "recv"
    /\ UNCHANGED <<chain, phase, queues, owners, cursor, todo, pto, walk, faults>>

Headers(p, h) ==
    /\ pc = "recv" /\ p \in snap /\ phase[p] = "up"
    /\ h > claim[p]
    /\ claim' = [claim EXCEPT ![p] = h]
    /\ tip' = IF h > tip THEN h ELSE tip
    /\ UNCHANGED <<have, phase, queues, owners, cursor, thread, faults>>

\* A block arrives, asked of this peer now or before the request expired or moved: the
\* peer's slot goes, the block is accepted and the backup slots go.
Deliver(p, h) ==
    /\ pc = "recv" /\ p \in snap /\ phase[p] = "up"
    /\ h \in wire[p]
    /\ wire' = [wire EXCEPT ![p] = @ \ {h}]
    /\ inFlight' = [inFlight EXCEPT ![p] = @ \ {h}]
    /\ have' = have \cup {h}
    /\ slots' = [slots EXCEPT ![h] = {}]
    /\ sent' = [sent EXCEPT ![h] = {}]
    /\ UNCHANGED <<tip, claim, phase, mapAskFor, setAskFor, lastTimeout, cursor, thread, faults>>

\* A block of the null shape: the peer could not read one of its files.  Everything it
\* has in flight is given up, and its queue entries for the same blocks.
NullBlock(p, h) ==
    /\ pc = "recv" /\ p \in snap /\ phase[p] = "up"
    /\ h \in wire[p]
    /\ Fault("null")
    /\ wire' = [wire EXCEPT ![p] = @ \ {h}]
    /\ mapAskFor' = [mapAskFor EXCEPT ![p] = @ \ inFlight[p]]
    /\ setAskFor' = [setAskFor EXCEPT ![p] = @ \ inFlight[p]]
    /\ slots' = [b \in Blocks |-> IF b \in inFlight[p] THEN slots[b] \ {p} ELSE slots[b]]
    /\ sent' = [b \in Blocks |-> IF b \in inFlight[p] THEN sent[b] \ {p} ELSE sent[b]]
    /\ cursor' = [cursor EXCEPT !.recovery =
                    @ \/ \E b \in inFlight[p] \cap mapAskFor[p] : slots[b] = {p}]
    /\ inFlight' = [inFlight EXCEPT ![p] = {}]
    /\ UNCHANGED <<chain, phase, lastTimeout, thread>>

\* ExpireBlockInFlight.  After a timeout the peer may still answer, or never; a request that
\* did not leave the send buffer is taken back without blame.
Expire(p, h) ==
    /\ p \in snap /\ h \in inFlight[p]
    /\ Fault("timeout")
    /\ inFlight' = [inFlight EXCEPT ![p] = @ \ {h}]
    /\ Release(h, p, TRUE)
    /\ \/ /\ lastTimeout' = [lastTimeout EXCEPT ![h] = p]
          /\ wire' = [wire EXCEPT ![p] = @ \ {h}] \/ UNCHANGED wire
       \/ /\ wire' = [wire EXCEPT ![p] = @ \ {h}]
          /\ UNCHANGED lastTimeout
    /\ UNCHANGED <<chain, phase, mapAskFor, setAskFor, thread>>

\* AdvanceIbdHeaderSchedulerRound; then SendMessages for each peer.
OpenRound ==
    /\ pc = "recv"
    /\ cursor' = [cursor EXCEPT !.round = TRUE]
    /\ todo' = snap
    /\ pc' = "send"
    /\ UNCHANGED <<chain, phase, queues, owners, snap, pto, walk, faults>>

CloseRound ==
    /\ pc = "send" /\ todo = {}
    /\ snap' = {}
    /\ pc' = "idle"
    /\ UNCHANGED <<chain, phase, queues, owners, cursor, todo, pto, walk, faults>>

SkipPeer(p) ==
    /\ pc = "send" /\ p \in todo /\ phase[p] # "up"
    /\ todo' = todo \ {p}
    /\ UNCHANGED <<chain, phase, queues, owners, cursor, pc, snap, pto, walk, faults>>

---------------------------------------------------------------------------
(* SendMessages for one peer, under cs_main: the recovery scan, then the   *)
(* round's walk.                                                           *)

Window == cursor.end - cursor.height      \* cursorWindow.size()

\* fCursorUsable.
Usable ==
    /\ cursor.valid /\ ~cursor.invalidated /\ ~cursor.stale
    /\ cursor.peers = snap

\* RefillOrderedHeaderBlockRequests up to the recovery scan; cs_main may be taken.
BeginSend(p) ==
    LET bound == Least(cursor.next, Window)
    IN  /\ pc = "send" /\ p \in todo /\ phase[p] = "up"
        /\ todo' = todo \ {p}
        /\ pto' = p
        /\ \/ /\ Fault("lock")
              /\ pc' = "getdata"
              /\ UNCHANGED <<cursor, walk>>
           \/ /\ Usable /\ Best = cursor.height /\ cursor.recovery /\ bound > 0
              /\ walk' = [NoWalk EXCEPT !.at = cursor.height + 1, !.end = cursor.height + bound]
              /\ pc' = "recover"
              /\ UNCHANGED <<cursor, faults>>
           \/ /\ ~(Usable /\ Best = cursor.height /\ cursor.recovery /\ bound > 0)
              /\ cursor' = [cursor EXCEPT !.recovery =
                              @ /\ ~(Usable /\ Best = cursor.height)]
              /\ pc' = "gate"
              /\ UNCHANGED <<walk, faults>>
        /\ UNCHANGED <<chain, phase, queues, owners, snap>>

\* The end of the recovery scan.
EndRecovery(unresolved) ==
    /\ cursor' = [cursor EXCEPT !.recovery = unresolved]
    /\ walk' = NoWalk
    /\ pc' = "gate"

NextReleased ==
    IF walk.at = walk.end
    THEN EndRecovery(FALSE)
    ELSE /\ walk' = [walk EXCEPT !.at = @ + 1]
         /\ UNCHANGED <<cursor, pc>>

\* RecoverOrderedReleasedBlocks, one entry of the claimed prefix.  A hole whose best peer
\* is another one is passed over, and does not count as unresolved.
Recover ==
    LET h == walk.at
        hole == slots[h] = {} /\ ~QueuedOnAny(h) /\ h \notin have
        stuck == Budget(pto) <= 0 \/ Candidates(h) = {}
        mine == ~stuck /\ pto = BestPeerForRecovery(h, Pool(h))
    IN  /\ pc = "recover"
        /\ \/ /\ ~hole \/ (~stuck /\ ~mine)
              /\ NextReleased
              /\ UNCHANGED <<mapAskFor, setAskFor>>
           \/ /\ hole /\ (stuck \/ (mine /\ (~Askable(pto, h, 1) \/ "refuse" \in Faults)))
              /\ EndRecovery(TRUE)
              /\ UNCHANGED <<mapAskFor, setAskFor>>
           \/ /\ hole /\ mine /\ Askable(pto, h, 1)
              /\ Queue(pto, h)
              /\ NextReleased
        /\ UNCHANGED <<chain, phase, inFlight, wire, owners, snap, todo, pto, faults>>

FullWalk ==
    [NoWalk EXCEPT !.at = Best + 1, !.end = Least(tip, Best + W)]

\* One entry of the cursor's window, or none of it.
IncrementalWalk(c) ==
    IF c.pending > 0 /\ c.next < c.end - c.height
    THEN [NoWalk EXCEPT !.at = c.height + c.next + 1, !.end = c.height + c.next + 1, !.inc = TRUE]
    ELSE [NoWalk EXCEPT !.inc = TRUE]

\* The window moved up by the blocks connected since.
Shifted ==
    LET d == Best - cursor.height
    IN  [cursor EXCEPT !.height = Best, !.end = Least(tip, @ + d),
                       !.next = IF @ > d THEN @ - d ELSE 0, !.pending = @ + d]

\* Mutant of Exhausted: headers beyond the window's end do not count.
ExhaustedWhateverTip == cursor.next >= Window

\* Every entry of the window is passed and no header has come since.
Exhausted == cursor.next >= Window /\ cursor.tip = tip

\* The round gate, then the choice between nothing, one entry and the whole window.
Gate ==
    LET same == Usable /\ Best = cursor.height /\ cursor.pending > 0
        parked == same /\ Exhausted
        step == same /\ cursor.next < Window
        shift == Usable /\ Best > cursor.height /\ Best - cursor.height <= Window
    IN  /\ pc = "gate"
        /\ \/ /\ ~cursor.round
              /\ pc' = "getdata"
              /\ UNCHANGED <<cursor, walk>>
           \/ /\ cursor.round /\ parked
              /\ pc' = "getdata"
              /\ cursor' = [cursor EXCEPT !.round = FALSE]
              /\ UNCHANGED walk
           \/ /\ cursor.round /\ (step \/ shift)
              /\ cursor' = [(IF shift THEN Shifted ELSE cursor) EXCEPT !.round = FALSE]
              /\ walk' = IncrementalWalk(cursor')
              /\ pc' = IF walk'.at = 0 THEN "commit" ELSE "walk"
           \/ /\ cursor.round /\ ~parked /\ ~step /\ ~shift
              /\ cursor' = [cursor EXCEPT !.round = FALSE, !.valid = @ /\ tip > Best]
              /\ walk' = FullWalk
              /\ pc' = IF tip > Best THEN "walk" ELSE "getdata"
        /\ UNCHANGED <<chain, phase, queues, owners, snap, todo, pto, faults>>

\* On to the next entry, w being the walk's state after this one.
Advance(w) ==
    /\ walk' = [w EXCEPT !.at = IF @ = w.end THEN @ ELSE @ + 1, !.target = None, !.backup = FALSE]
    /\ pc' = IF w.at = w.end THEN "commit" ELSE "walk"

\* Mutant of Parked: the cursor does not stop at an entry nobody could be asked for.
ParkedNowhere(w) == w

\* setFullNextIndexAt.
Parked(w) == [w EXCEPT !.next = IF @ = 0 THEN w.at ELSE @]

\* The qualified peer to hold another copy, if one has budget.
Backups(h, C) == IF QualifiedFor(h) \ C = {} THEN {} ELSE {BestPeer(h, QualifiedFor(h) \ C)}

AskBackup(w, C) ==
    LET h == w.at
        B == {b \in Backups(h, C) : Budget(b) > 0 /\ w.prefix}
    IN  IF B = {}
        THEN Advance(w)
        ELSE /\ \E b \in B : walk' = [w EXCEPT !.target = b, !.backup = TRUE]
             /\ pc' = "ask"

\* An entry that is covered: stored, requested, or queued by the recovery scan.
ExamineCovered ==
    LET h == walk.at
        seen == [walk EXCEPT !.resolved = TRUE, !.front = @ /\ h \in have]
    IN  /\ pc = "walk"
        /\ \/ (h \in have \/ (slots[h] = {} /\ QueuedOnAny(h))) /\ Advance(seen)
           \/ /\ h \notin have /\ slots[h] # {}
              /\ IF Cardinality(slots[h]) < Desired(h)
                 THEN AskBackup(seen, slots[h])
                 ELSE Advance(seen)
        /\ UNCHANGED <<chain, phase, queues, owners, cursor, snap, todo, pto, faults>>

\* Mutant of Preempt: the old owner keeps the block in flight.
PreemptKeepingWire(o) ==
    LET h == walk.at
        targets == {p \in Pool(h) \ {o} : h \notin setAskFor[p] \cup inFlight[p] /\ Budget(p) > 0}
        t == Top(targets)
    IN  /\ pc = "walk" /\ h \notin have /\ walk.front /\ h = Best + 1
        /\ slots[h] = {o} /\ o \in sent[h] /\ h \in inFlight[o]
        /\ o \in snap /\ phase[o] = "up" /\ targets # {}
        /\ Fault("preempt")
        /\ slots' = [slots EXCEPT ![h] = {t}]
        /\ sent' = [sent EXCEPT ![h] = {}]
        /\ Queue(t, h)
        /\ Advance([walk EXCEPT !.resolved = TRUE, !.front = FALSE])
        /\ UNCHANGED <<chain, phase, inFlight, wire, lastTimeout, cursor, snap, todo, pto>>

\* MaybePreemptOrderedHeadSlot and PreemptBlockRequestToPeer: the request of the block
\* after the tip is moved from its only owner to the best other candidate.
Preempt(o) ==
    LET h == walk.at
        targets == {p \in Pool(h) \ {o} : h \notin setAskFor[p] \cup inFlight[p] /\ Budget(p) > 0}
        t == Top(targets)
    IN  /\ pc = "walk" /\ h \notin have /\ walk.front /\ h = Best + 1
        /\ slots[h] = {o} /\ o \in sent[h] /\ h \in inFlight[o]
        /\ o \in snap /\ phase[o] = "up" /\ targets # {}
        /\ Fault("preempt")
        /\ inFlight' = [inFlight EXCEPT ![o] = @ \ {h}]
        /\ slots' = [slots EXCEPT ![h] = {t}]
        /\ sent' = [sent EXCEPT ![h] = {}]
        /\ Queue(t, h)
        /\ Advance([walk EXCEPT !.resolved = TRUE, !.front = FALSE])
        /\ UNCHANGED <<chain, phase, wire, lastTimeout, cursor, snap, todo, pto>>

\* An entry nobody has asked for: no candidate, no budget, a hole before it, or a peer.
ExamineUncovered ==
    LET h == walk.at
        w == [walk EXCEPT !.front = FALSE]
        best == BestPeer(h, Pool(h))
    IN  /\ pc = "walk" /\ h \notin have /\ slots[h] = {} /\ ~QueuedOnAny(h)
        /\ \/ Candidates(h) = {} /\ Advance([Parked(w) EXCEPT !.prefix = FALSE])
           \/ Candidates(h) # {} /\ Budget(best) <= 0 /\ Advance(Parked(w))
           \/ Candidates(h) # {} /\ Budget(best) > 0 /\ ~w.prefix /\ Advance(w)
           \/ /\ Candidates(h) # {} /\ Budget(best) > 0 /\ w.prefix
              /\ walk' = [w EXCEPT !.target = best]
              /\ pc' = "ask"
        /\ UNCHANGED <<chain, phase, queues, owners, cursor, snap, todo, pto, faults>>

\* AskFor and TryAssignBlockRequestOwner on the peer chosen, which may have been closed
\* and cleaned up since.
Ask ==
    LET h == walk.at
        p == walk.target
    IN  /\ pc = "ask"
        /\ Askable(p, h, Desired(h))
        /\ Queue(p, h)
        /\ slots' = [slots EXCEPT ![h] = @ \cup {p}]
        /\ IF walk.backup THEN Advance(walk)
           ELSE IF Desired(h) > 1 THEN AskBackup([walk EXCEPT !.resolved = TRUE], {p})
           ELSE Advance([walk EXCEPT !.resolved = TRUE])
        /\ UNCHANGED <<chain, phase, inFlight, wire, sent, lastTimeout, cursor, snap, todo, pto, faults>>

\* AskFor refuses: a hole the walk does not go past, unless it was for a second copy.
\* (That it never refuses a peer because that peer has the block already, or the block its
\* copies, is the absence of deadlock in Ask.)
AskRefused ==
    /\ pc = "ask"
    /\ Fault("refuse")
    /\ IF walk.backup THEN Advance(walk) ELSE Advance([Parked(walk) EXCEPT !.prefix = FALSE])
    /\ UNCHANGED <<chain, phase, queues, owners, cursor, snap, todo, pto>>

\* The end of the walk: the cursor takes its new position.
Commit ==
    LET base == [cursor EXCEPT !.height = Best, !.tip = tip, !.peers = snap, !.stale = FALSE,
                               !.valid = TRUE, !.invalidated = FALSE]
    IN  /\ pc = "commit"
        /\ cursor' =
             IF ~walk.inc
             THEN [base EXCEPT !.end = walk.end, !.pending = 0,
                               !.next = (IF walk.next = 0 THEN walk.end + 1 ELSE walk.next) - Best - 1]
             ELSE IF walk.at = 0 THEN base
             ELSE IF walk.resolved
             THEN [base EXCEPT !.next = @ + 1, !.pending = @ - 1]
             ELSE [base EXCEPT !.recovery = TRUE]
        /\ walk' = NoWalk
        /\ pc' = "getdata"
        /\ UNCHANGED <<chain, phase, queues, owners, snap, todo, pto, faults>>

---------------------------------------------------------------------------
(* The getdata loop of SendMessages.                                       *)

Unqueue(p, h) ==
    /\ mapAskFor' = [mapAskFor EXCEPT ![p] = @ \ {h}]
    /\ setAskFor' = [setAskFor EXCEPT ![p] = @ \ {h}]

\* An entry already in flight to this peer, or owned by another.
DropEntry(h) ==
    /\ pc = "getdata" /\ h \in mapAskFor[pto]
    /\ \/ h \in inFlight[pto]
       \/ slots[h] # {} /\ pto \notin slots[h] /\ Cardinality(inFlight[pto]) < MaxActive
    /\ Unqueue(pto, h)
    /\ UNCHANGED <<chain, phase, inFlight, wire, owners, cursor, thread, faults>>

\* A block stored since it was queued: its slot is released.  AlreadyHave is asked only if
\* cs_main is free.
SkipEntry(h) ==
    /\ pc = "getdata" /\ h \in mapAskFor[pto] \ inFlight[pto]
    /\ Cardinality(inFlight[pto]) < MaxActive
    /\ slots[h] = {} \/ pto \in slots[h]
    /\ h \in have
    /\ Unqueue(pto, h)
    /\ slots' = [slots EXCEPT ![h] = @ \ {pto}]
    /\ sent' = [sent EXCEPT ![h] = @ \ {pto}]
    /\ cursor' = [cursor EXCEPT !.recovery = @ \/ slots[h] \subseteq {pto}]
    /\ UNCHANGED <<chain, phase, inFlight, wire, lastTimeout, thread, faults>>

\* The request is sent; an entry without an owner claims its slot first.
SendEntry(h) ==
    /\ pc = "getdata" /\ h \in mapAskFor[pto] \ inFlight[pto]
    /\ Cardinality(inFlight[pto]) < MaxActive
    /\ slots[h] = {} \/ pto \in slots[h]
    /\ h \in have => "lock" \in Faults
    /\ Unqueue(pto, h)
    /\ slots' = [slots EXCEPT ![h] = @ \cup {pto}]
    /\ sent' = [sent EXCEPT ![h] = @ \cup {pto}]
    /\ inFlight' = [inFlight EXCEPT ![pto] = @ \cup {h}]
    /\ wire' = [wire EXCEPT ![pto] = @ \cup {h}]
    /\ UNCHANGED <<chain, phase, lastTimeout, cursor, thread, faults>>

\* The rest of the queue is not due yet.
EndSend ==
    /\ pc = "getdata"
    /\ pc' = "send" /\ pto' = None
    /\ UNCHANGED <<chain, phase, queues, owners, cursor, snap, todo, walk, faults>>

---------------------------------------------------------------------------

Init ==
    /\ have = {} /\ tip = 0
    /\ claim = [p \in Peers |-> 0]
    /\ phase = [p \in Peers |-> IF p \in Outbound THEN "up" ELSE "new"]
    /\ mapAskFor = [p \in Peers |-> {}]
    /\ setAskFor = [p \in Peers |-> {}]
    /\ inFlight = [p \in Peers |-> {}]
    /\ wire = [p \in Peers |-> {}]
    /\ slots = [h \in Blocks |-> {}]
    /\ sent = [h \in Blocks |-> {}]
    /\ lastTimeout = [h \in Blocks |-> None]
    /\ cursor = [valid |-> FALSE, invalidated |-> FALSE, recovery |-> FALSE, stale |-> FALSE,
                 round |-> FALSE, height |-> 0, end |-> 0, next |-> 0, pending |-> 0,
                 tip |-> 0, peers |-> {}]
    /\ pc = "idle" /\ snap = {} /\ todo = {} /\ pto = None /\ walk = NoWalk
    /\ faults = 0

Sends == \E h \in Blocks : DropEntry(h) \/ SkipEntry(h) \/ SendEntry(h)

MessageThread ==
    \/ Snapshot \/ OpenRound \/ CloseRound \/ Recover \/ Gate
    \/ ExamineCovered \/ ExamineUncovered \/ Ask \/ AskRefused \/ Commit \/ EndSend
    \/ \E p \in Peers : SkipPeer(p) \/ BeginSend(p) \/ Preempt(p)

SocketThread == \E p \in Peers : Remove(p) \/ Delete(p)

Next ==
    \/ MessageThread
    \/ Sends
    \/ SocketThread
    \/ \E p \in Peers : Connect(p) \/ Close(p)
    \/ \E p \in Peers, h \in Blocks :
          Headers(p, h) \/ Deliver(p, h) \/ NullBlock(p, h) \/ Expire(p, h)

\* Both threads keep running.  A queue entry comes due and a peer that stays up answers,
\* each while its own condition recurs; headers are announced; a peer connects.
Fairness ==
    /\ WF_vars(MessageThread) /\ WF_vars(SocketThread)
    /\ \A p \in Peers : WF_vars(Connect(p)) /\ SF_vars(Headers(p, N))
    /\ \A p \in Peers : SF_vars(pto = p /\ Sends)
    /\ \A h \in Blocks : SF_vars(\E p \in Peers : Deliver(p, h))

Spec == Init /\ [][Next]_vars

FairSpec == Spec /\ Fairness

---------------------------------------------------------------------------
(* Properties.                                                             *)

\* Every variable stays in its domain.
TypeOK ==
    /\ have \subseteq Blocks /\ tip \in 0..N
    /\ claim \in [Peers -> 0..N]
    /\ phase \in [Peers -> {"new", "up", "closing", "cleaned", "gone"}]
    /\ mapAskFor \in [Peers -> SUBSET Blocks] /\ setAskFor \in [Peers -> SUBSET Blocks]
    /\ inFlight \in [Peers -> SUBSET Blocks] /\ wire \in [Peers -> SUBSET Blocks]
    /\ slots \in [Blocks -> SUBSET Peers] /\ sent \in [Blocks -> SUBSET Peers]
    /\ lastTimeout \in [Blocks -> Peers \cup {None}]
    /\ cursor.height <= cursor.end /\ cursor.next \in 0..(W + 1)
    /\ cursor.pending \in 0..N /\ cursor.end - cursor.height <= W
    /\ snap \subseteq Peers /\ todo \subseteq snap /\ pto \in Peers \cup {None}

\* An owner slot is a request somebody is working on: the peer is connected and holds the
\* block in its queue or in flight, as the slot's state says, or the peer is out of vNodes
\* and waits to be deleted (the message thread, which took its snapshot before, can still
\* give it work).  No slot outlives its peer: the refill would never ask again for the block.
SlotsBacked ==
    \A h \in Blocks : \A p \in slots[h] :
        \/ /\ phase[p] \in {"up", "closing"}
           /\ IF p \in sent[h] THEN h \in inFlight[p] ELSE h \in setAskFor[p]
        \/ phase[p] = "cleaned"

\* What is in flight is owned: a missing block on the wire of a connected peer has that
\* peer's slot, so that the refill does not ask for it as if nobody had.
WireOwned ==
    \A p \in Peers : phase[p] \in {"up", "closing"} =>
        \A h \in inFlight[p] \ have : p \in slots[h] /\ p \in sent[h]

\* A block is asked of two peers at once only in the redundancy prefix behind the tip.
CopiesBounded ==
    \A h \in Blocks : Cardinality(slots[h]) <= IF h <= Best + RedundancyPrefix THEN 2 ELSE 1

\* A peer is never given more requests than GetMaxActiveBlockRequestsPerPeer, whatever
\* mix of recovery, refill, backup and preemption fills its queue.
BudgetKept ==
    \A p \in Peers : Cardinality(setAskFor[p]) + Cardinality(inFlight[p]) <= MaxActive

\* The cursor passes only work that is taken care of: when a walk ends, every entry it lets
\* the cursor move past is stored, owned or queued, or something released it meanwhile and
\* said so (the recovery flag, the invalidation, a peer of the snapshot taken away).
PassedCovered ==
    LET passed == IF walk.inc THEN IF walk.resolved THEN {walk.at} ELSE {}
                  ELSE (Best + 1)..(IF walk.next = 0 THEN walk.end ELSE walk.next - 1)
    IN  pc = "commit" =>
            \/ \A h \in passed : h \in have \/ slots[h] # {} \/ QueuedOnAny(h)
            \/ cursor.recovery \/ cursor.invalidated
            \/ \E p \in snap : phase[p] = "cleaned"

\* The blocks of the announced headers are all fetched and connected.
CatchesUp == (\E p \in Peers : phase[p] = "up") ~> Best = N \/ (\A p \in Peers : phase[p] # "up")

====
