------------------------- MODULE OrderedRefillProof -------------------------
(***************************************************************************)
(* The owner table of OrderedRefill, for any peers, window and faults: a   *)
(* slot is backed by a request of its peer and never outlives the peer,    *)
(* and what is in flight is owned.                                         *)
(***************************************************************************)
EXTENDS OrderedRefill, WellFoundedInduction, TLAPS

Live == {"up", "closing"}

Held == {"up", "closing", "cleaned"}

Sending == {"recover", "gate", "walk", "ask", "commit", "getdata"}

\* The domains the proof needs.
Domains ==
    /\ phase \in [Peers -> {"new", "up", "closing", "cleaned", "gone"}]
    /\ DOMAIN setAskFor = Peers
    /\ inFlight \in [Peers -> SUBSET Blocks]
    /\ slots \in [Blocks -> SUBSET Peers] /\ sent \in [Blocks -> SUBSET Peers]
    /\ DOMAIN walk = DOMAIN NoWalk

\* The message thread works on peers its snapshot keeps from being deleted.
ThreadInv ==
    /\ snap \subseteq {p \in Peers : phase[p] \in Held}
    /\ todo \subseteq snap /\ (pc \in {"idle", "recv"} => todo = {})
    /\ pc \in Sending => pto \in snap
    /\ pc = "ask" => walk.target \in snap

\* The owner table agrees with the queues of the peers still connected.
TableInv ==
    /\ \A h \in Blocks : \A p \in slots[h] :
          /\ phase[p] \in Held
          /\ phase[p] \in Live => /\ p \in sent[h] <=> h \in inFlight[p]
                                  /\ p \notin sent[h] => h \in setAskFor[p]
    /\ \A h \in Blocks : sent[h] \subseteq slots[h]
    /\ \A p \in Peers : phase[p] = "new" => inFlight[p] = {}
    /\ \A p \in Peers : phase[p] \in Live =>
          \A h \in inFlight[p] \ have : p \in slots[h]

IInv == Domains /\ ThreadInv /\ TableInv

---------------------------------------------------------------------------
(* Choosing among peers.                                                   *)

LEMMA LeastNat ==
    ASSUME NEW T \in SUBSET Nat, T # {}
    PROVE  \E x \in T : \A y \in T : x <= y
<1> DEFINE R == OpToRel(<, Nat)
<1>1. IsWellFoundedOn(R, Nat)
  BY NatLessThanWellFounded
<1>2. \A x, y \in Nat : <<x, y>> \in R <=> x < y
  BY DEF OpToRel
<1> HIDE DEF R
<1>3. PICK x \in T : \A y \in T : ~(<<y, x>> \in R)
  BY <1>1, WFMin
<1>4. ASSUME NEW y \in T PROVE x <= y
  <2>1. ~(<<y, x>> \in R)
    BY <1>3
  <2>2. x \in Nat /\ y \in Nat
    OBVIOUS
  <2>3. ~(y < x)
    BY <1>2, <2>1, <2>2, Zenon
  <2> QED BY <2>2, <2>3
<1> QED BY <1>4

\* The scores being bounded, some peer of a nonempty set has the largest one.
LEMMA TopIn ==
    ASSUME NEW S \in SUBSET Peers, S # {}
    PROVE  Top(S) \in S
<1> DEFINE T == {MaxScore - Score[p] : p \in S}
<1>1. \A p \in S : Score[p] \in 0..MaxScore
  BY RefillConstants
<1>2. T \in SUBSET Nat /\ T # {}
  BY <1>1, RefillConstants
<1>3. PICK x \in T : \A y \in T : x <= y
  BY <1>2, LeastNat
<1>4. PICK p \in S : x = MaxScore - Score[p]
  OBVIOUS
<1>5. \A q \in S : Score[p] >= Score[q]
  <2> TAKE q \in S
  <2>1. MaxScore - Score[p] <= MaxScore - Score[q]
    BY <1>3, <1>4
  <2> QED BY <2>1, <1>1, RefillConstants
<1> QED BY <1>5 DEF Top

\* The best peer is one of the candidates it is chosen from.
LEMMA BestPeerIn ==
    ASSUME NEW h, NEW C \in SUBSET Peers, C # {}
    PROVE  BestPeer(h, C) \in C
<1>1. Eligible(h, C) \in SUBSET C /\ Eligible(h, C) # {}
  BY DEF Eligible
<1> DEFINE spare == {p \in Eligible(h, C) : Budget(p) > 0}
           E == IF spare = {} THEN Eligible(h, C) ELSE spare
<1>2. E \in SUBSET C /\ E # {}
  BY <1>1
<1>3. Top(E) \in E
  BY <1>2, TopIn
<1> QED BY <1>2, <1>3 DEF BestPeer

LEMMA PoolHeld ==
    ASSUME IInv, NEW h
    PROVE  /\ Pool(h) \subseteq snap /\ QualifiedFor(h) \subseteq snap
           /\ Pool(h) \subseteq Peers /\ QualifiedFor(h) \subseteq Peers
           /\ \A p \in Pool(h) : phase[p] = "up"
           /\ Candidates(h) # {} => Pool(h) # {}
  BY DEF IInv, ThreadInv, Pool, QualifiedFor, Candidates

---------------------------------------------------------------------------
(* One lemma per action or group of actions.                               *)

LEMMA InitIInv == Init => IInv
  BY DEF Init, IInv, Domains, ThreadInv, TableInv, NoWalk, Sending, Blocks

\* Steps that leave the table, the queues and the peers alone.
LEMMA QuietStep ==
    ASSUME IInv, UNCHANGED <<phase, setAskFor, inFlight, slots, sent, have>>,
           DOMAIN walk' = DOMAIN NoWalk, ThreadInv'
    PROVE  IInv'
  BY DEF IInv, Domains, TableInv

LEMMA StutterStep ==
    ASSUME IInv, UNCHANGED vars
    PROVE  IInv'
  BY DEF IInv, Domains, ThreadInv, TableInv, vars, chain, queues, owners, thread

LEMMA ConnectStep ==
    ASSUME IInv, NEW p \in Peers, Connect(p)
    PROVE  IInv'
  BY DEF IInv, Domains, ThreadInv, TableInv, Connect, chain, queues, owners, thread, Held, Live

LEMMA CloseStep ==
    ASSUME IInv, NEW p \in Peers, Close(p)
    PROVE  IInv'
  BY DEF IInv, Domains, ThreadInv, TableInv, Close, chain, queues, owners, thread, Held, Live

LEMMA RemoveStep ==
    ASSUME IInv, NEW p \in Peers, Remove(p)
    PROVE  IInv'
<1> USE DEF IInv, Remove, CleanupNode, thread
<1>1. Domains'
  BY DEF Domains
<1>2. ThreadInv'
  BY DEF ThreadInv, Domains, Held
<1>3. TableInv'
  BY DEF TableInv, Domains, Held, Live
<1> QED BY <1>1, <1>2, <1>3

LEMMA DeleteStep ==
    ASSUME IInv, NEW p \in Peers, Delete(p)
    PROVE  IInv'
<1> USE DEF IInv, Delete, CleanupNode, thread
<1>1. Domains'
  BY DEF Domains
<1>2. ThreadInv'
  BY DEF ThreadInv, Domains, Held
<1>3. TableInv'
  BY DEF TableInv, Domains, Held, Live
<1> QED BY <1>1, <1>2, <1>3

LEMMA SnapshotStep ==
    ASSUME IInv, Snapshot
    PROVE  IInv'
  BY QuietStep DEF IInv, Domains, ThreadInv, Snapshot, chain, queues, owners, Held, Sending

LEMMA HeadersStep ==
    ASSUME IInv, NEW p \in Peers, NEW h \in Blocks, Headers(p, h)
    PROVE  IInv'
  BY QuietStep DEF IInv, Domains, ThreadInv, Headers, queues, owners, thread

LEMMA DeliverStep ==
    ASSUME IInv, NEW p \in Peers, NEW h \in Blocks, Deliver(p, h)
    PROVE  IInv'
<1> USE DEF IInv, Deliver, thread
<1>1. Domains'
  BY DEF Domains
<1>2. ThreadInv'
  BY DEF ThreadInv
<1>3. TableInv'
  BY DEF TableInv, Domains
<1> QED BY <1>1, <1>2, <1>3

LEMMA NullBlockStep ==
    ASSUME IInv, NEW p \in Peers, NEW h \in Blocks, NullBlock(p, h)
    PROVE  IInv'
<1> USE DEF IInv, NullBlock, thread, chain
<1>1. Domains'
  BY DEF Domains
<1>2. ThreadInv'
  BY DEF ThreadInv
<1>3. TableInv'
  BY DEF TableInv, Domains
<1> QED BY <1>1, <1>2, <1>3

LEMMA ExpireStep ==
    ASSUME IInv, NEW p \in Peers, NEW h \in Blocks, Expire(p, h)
    PROVE  IInv'
<1> USE DEF IInv, Expire, Release, thread, chain
<1>1. Domains'
  BY DEF Domains
<1>2. ThreadInv'
  BY DEF ThreadInv
<1>3. TableInv'
  BY DEF TableInv, Domains
<1> QED BY <1>1, <1>2, <1>3

LEMMA RoundStep ==
    ASSUME IInv, OpenRound \/ CloseRound \/ EndSend \/ (\E p \in Peers : SkipPeer(p))
    PROVE  IInv'
<1> USE QuietStep DEF IInv, Domains, ThreadInv, chain, queues, owners, Sending
<1>1. CASE OpenRound
  BY <1>1 DEF OpenRound
<1>2. CASE CloseRound
  BY <1>2 DEF CloseRound
<1>3. CASE EndSend
  BY <1>3 DEF EndSend
<1>4. CASE \E p \in Peers : SkipPeer(p)
  BY <1>4 DEF SkipPeer
<1> QED BY <1>1, <1>2, <1>3, <1>4

LEMMA BeginSendStep ==
    ASSUME IInv, NEW p \in Peers, BeginSend(p)
    PROVE  IInv'
<1>1. DOMAIN walk' = DOMAIN NoWalk
  BY DEF BeginSend, NoWalk, IInv, Domains
<1>2. ThreadInv'
  BY DEF BeginSend, IInv, ThreadInv, Domains, chain, Sending
<1> QED BY <1>1, <1>2, QuietStep DEF BeginSend, chain, queues, owners

LEMMA GateStep ==
    ASSUME IInv, Gate
    PROVE  IInv'
<1>1. DOMAIN walk' = DOMAIN NoWalk
  BY DEF Gate, NoWalk, IInv, Domains, IncrementalWalk, FullWalk
<1>2. ThreadInv'
  BY DEF Gate, IInv, ThreadInv, Domains, chain, Sending
<1> QED BY <1>1, <1>2, QuietStep DEF Gate, chain, queues, owners

LEMMA CommitStep ==
    ASSUME IInv, Commit
    PROVE  IInv'
<1>1. DOMAIN walk' = DOMAIN NoWalk
  BY DEF Commit
<1>2. ThreadInv'
  BY DEF Commit, IInv, ThreadInv, chain, Sending
<1> QED BY <1>1, <1>2, QuietStep DEF Commit, chain, queues, owners

\* A walk that advances keeps its fields, and has no peer chosen.
LEMMA AdvanceWalk ==
    ASSUME NEW w, DOMAIN w = DOMAIN NoWalk, Advance(w)
    PROVE  DOMAIN walk' = DOMAIN NoWalk /\ pc' \in {"walk", "commit"}
  BY DEF Advance

\* A backup is chosen from the snapshot.
LEMMA BackupWalk ==
    ASSUME IInv, NEW w, DOMAIN w = DOMAIN NoWalk, NEW C, AskBackup(w, C)
    PROVE  /\ DOMAIN walk' = DOMAIN NoWalk
           /\ pc' \in {"walk", "commit", "ask"}
           /\ pc' = "ask" => walk'.target \in snap
<1> DEFINE h == w.at
           Q == QualifiedFor(h) \ C
           B == {b \in Backups(h, C) : Budget(b) > 0 /\ w.prefix}
<1>1. CASE B = {}
  BY <1>1, AdvanceWalk DEF AskBackup
<1>2. CASE B # {}
  <2>1. PICK b \in B : walk' = [w EXCEPT !.target = b, !.backup = TRUE]
    BY <1>2 DEF AskBackup
  <2>2. Q # {} /\ b = BestPeer(h, Q)
    BY <2>1 DEF Backups
  <2>3. Q \in SUBSET Peers /\ Q \subseteq snap
    BY PoolHeld
  <2>4. b \in snap
    BY <2>2, <2>3, BestPeerIn
  <2>5. pc' = "ask"
    BY <1>2 DEF AskBackup
  <2>6. "target" \in DOMAIN w
    BY DEF NoWalk
  <2> QED BY <2>1, <2>4, <2>5, <2>6
<1> QED BY <1>1, <1>2

LEMMA ExamineCoveredStep ==
    ASSUME IInv, ExamineCovered
    PROVE  IInv'
<1> DEFINE seen == [walk EXCEPT !.resolved = TRUE, !.front = @ /\ walk.at \in have]
<1>1. DOMAIN seen = DOMAIN NoWalk
  BY DEF IInv, Domains
<1>2. Advance(seen) \/ AskBackup(seen, slots[walk.at])
  BY DEF ExamineCovered
<1> HIDE DEF seen
<1>3. /\ DOMAIN walk' = DOMAIN NoWalk
      /\ pc' \in {"walk", "commit", "ask"}
      /\ pc' = "ask" => walk'.target \in snap
  BY <1>1, <1>2, AdvanceWalk, BackupWalk
<1>4. ThreadInv'
  BY <1>3 DEF ExamineCovered, IInv, ThreadInv, Sending
<1> QED BY <1>3, <1>4, QuietStep DEF ExamineCovered, chain, queues, owners

LEMMA ExamineUncoveredStep ==
    ASSUME IInv, ExamineUncovered
    PROVE  IInv'
<1> DEFINE h == walk.at
           w == [walk EXCEPT !.front = FALSE]
           best == BestPeer(h, Pool(h))
<1>1. DOMAIN w = DOMAIN NoWalk /\ DOMAIN Parked(w) = DOMAIN NoWalk
      /\ DOMAIN [Parked(w) EXCEPT !.prefix = FALSE] = DOMAIN NoWalk
  BY DEF IInv, Domains, Parked
<1>2. \/ Advance([Parked(w) EXCEPT !.prefix = FALSE]) \/ Advance(Parked(w)) \/ Advance(w)
      \/ Candidates(h) # {} /\ walk' = [w EXCEPT !.target = best] /\ pc' = "ask"
  BY DEF ExamineUncovered
<1>3. CASE Candidates(h) # {} /\ walk' = [w EXCEPT !.target = best] /\ pc' = "ask"
  <2>1. best \in snap
    BY <1>3, PoolHeld, BestPeerIn
  <2>2. "target" \in DOMAIN w
    BY <1>1 DEF NoWalk
  <2> HIDE DEF w, best
  <2>3. DOMAIN walk' = DOMAIN NoWalk /\ walk'.target \in snap
    BY <1>1, <1>3, <2>1, <2>2
  <2>4. ThreadInv'
    BY <1>3, <2>3 DEF ExamineUncovered, IInv, ThreadInv, Sending
  <2> QED BY <2>3, <2>4, QuietStep DEF ExamineUncovered, chain, queues, owners
<1>4. CASE Advance([Parked(w) EXCEPT !.prefix = FALSE]) \/ Advance(Parked(w)) \/ Advance(w)
  <2>1. DOMAIN walk' = DOMAIN NoWalk /\ pc' \in {"walk", "commit"}
    BY <1>1, <1>4, AdvanceWalk
  <2>2. ThreadInv'
    BY <2>1 DEF ExamineUncovered, IInv, ThreadInv, Sending
  <2> QED BY <2>1, <2>2, QuietStep DEF ExamineUncovered, chain, queues, owners
<1> QED BY <1>2, <1>3, <1>4

LEMMA AskRefusedStep ==
    ASSUME IInv, AskRefused
    PROVE  IInv'
<1> DEFINE w == [Parked(walk) EXCEPT !.prefix = FALSE]
<1>1. DOMAIN walk = DOMAIN NoWalk /\ DOMAIN w = DOMAIN NoWalk
  BY DEF IInv, Domains, Parked
<1>2. Advance(walk) \/ Advance(w)
  BY DEF AskRefused
<1> HIDE DEF w
<1>3. DOMAIN walk' = DOMAIN NoWalk /\ pc' \in {"walk", "commit"}
  BY <1>1, <1>2, AdvanceWalk
<1>4. ThreadInv'
  BY <1>3 DEF AskRefused, IInv, ThreadInv, Sending
<1> QED BY <1>3, <1>4, QuietStep DEF AskRefused, chain, queues, owners

\* Queueing a request at a peer disturbs no slot.
LEMMA QueueTable ==
    ASSUME IInv, NEW p \in Peers, NEW h, Queue(p, h),
           UNCHANGED <<phase, inFlight, slots, sent, have>>
    PROVE  TableInv' /\ DOMAIN setAskFor' = Peers
  BY DEF IInv, Domains, TableInv, Queue

LEMMA RecoverStep ==
    ASSUME IInv, Recover
    PROVE  IInv'
<1>1. NextReleased \/ EndRecovery(TRUE)
  BY DEF Recover
<1>2. DOMAIN walk' = DOMAIN NoWalk /\ pc' \in {"recover", "gate"}
  BY <1>1 DEF NextReleased, EndRecovery, Recover, IInv, Domains
<1>3. ThreadInv'
  BY <1>2 DEF Recover, IInv, ThreadInv, Sending
<1>4. UNCHANGED <<mapAskFor, setAskFor>> \/ Queue(pto, walk.at)
  BY DEF Recover
<1>5. CASE UNCHANGED <<mapAskFor, setAskFor>>
  BY <1>2, <1>3, <1>5, QuietStep DEF Recover, chain, owners
<1>6. CASE Queue(pto, walk.at)
  <2>1. pto \in Peers
    BY DEF Recover, IInv, ThreadInv, Sending
  <2>2. TableInv' /\ DOMAIN setAskFor' = Peers
    BY <1>6, <2>1, QueueTable DEF Recover, chain, owners
  <2>3. Domains'
    BY <1>2, <2>2 DEF Recover, IInv, Domains, owners
  <2> QED BY <1>3, <2>2, <2>3 DEF IInv
<1> QED BY <1>4, <1>5, <1>6

LEMMA PreemptStep ==
    ASSUME IInv, NEW o \in Peers, Preempt(o)
    PROVE  IInv'
<1> DEFINE h == walk.at
           targets == {p \in Pool(h) \ {o} : h \notin setAskFor[p] \cup inFlight[p] /\ Budget(p) > 0}
           t == Top(targets)
           w == [walk EXCEPT !.resolved = TRUE, !.front = FALSE]
<1>1. targets # {} /\ targets \in SUBSET Peers
  BY PoolHeld DEF Preempt
<1>2. t \in targets
  BY <1>1, TopIn
<1>3. t \in Peers /\ t # o /\ phase[t] = "up" /\ h \notin inFlight[t]
  BY <1>2, PoolHeld
<1>4. /\ inFlight' = [inFlight EXCEPT ![o] = @ \ {h}]
      /\ slots' = [slots EXCEPT ![h] = {t}] /\ sent' = [sent EXCEPT ![h] = {}]
      /\ setAskFor' = [setAskFor EXCEPT ![t] = @ \cup {h}]
      /\ slots[h] = {o}
      /\ UNCHANGED <<have, phase, snap, todo, pto>> /\ pc = "walk"
      /\ Advance(w)
  BY DEF Preempt, Queue, chain
<1>5. DOMAIN walk' = DOMAIN NoWalk /\ pc' \in {"walk", "commit"}
  BY <1>4, AdvanceWalk DEF IInv, Domains
<1> HIDE DEF h, targets, t, w
<1>6. Domains'
  BY <1>3, <1>4, <1>5 DEF IInv, Domains
<1>7. ThreadInv'
  BY <1>4, <1>5 DEF IInv, ThreadInv, Sending
<1>8. TableInv'
  BY <1>3, <1>4 DEF IInv, TableInv, Domains, Held, Live
<1> QED BY <1>6, <1>7, <1>8 DEF IInv

LEMMA AskStep ==
    ASSUME IInv, Ask
    PROVE  IInv'
<1> DEFINE h == walk.at
           p == walk.target
           w == [walk EXCEPT !.resolved = TRUE]
<1>1. p \in Peers /\ p \in snap /\ phase[p] \in Held
  BY DEF Ask, IInv, ThreadInv
<1>2. /\ h \notin inFlight[p]
      /\ setAskFor' = [setAskFor EXCEPT ![p] = @ \cup {h}]
      /\ slots' = [slots EXCEPT ![h] = @ \cup {p}]
      /\ UNCHANGED <<have, phase, inFlight, sent, snap, todo, pto>> /\ pc = "ask"
      /\ Advance(walk) \/ Advance(w) \/ AskBackup(w, {p})
  BY DEF Ask, Askable, Queue, chain
<1>3. DOMAIN walk = DOMAIN NoWalk /\ DOMAIN w = DOMAIN NoWalk
  BY DEF IInv, Domains
<1> HIDE DEF h, p, w
<1>4. /\ DOMAIN walk' = DOMAIN NoWalk
      /\ pc' \in {"walk", "commit", "ask"}
      /\ pc' = "ask" => walk'.target \in snap
  BY <1>2, <1>3, AdvanceWalk, BackupWalk
<1>5. Domains'
  BY <1>1, <1>2, <1>4 DEF IInv, Domains
<1>6. ThreadInv'
  BY <1>2, <1>4 DEF IInv, ThreadInv, Sending
<1>7. TableInv'
  BY <1>1, <1>2 DEF IInv, TableInv, Domains, Held, Live
<1> QED BY <1>5, <1>6, <1>7 DEF IInv

LEMMA EntryStep ==
    ASSUME IInv, NEW h \in Blocks, DropEntry(h) \/ SkipEntry(h) \/ SendEntry(h)
    PROVE  IInv'
<1>1. pto \in Peers /\ pto \in snap /\ phase[pto] \in Held
  BY DEF DropEntry, SkipEntry, SendEntry, IInv, ThreadInv, Sending
<1>2. CASE DropEntry(h)
  <2> USE DEF IInv, DropEntry, Unqueue, chain, owners, thread
  <2>1. Domains' /\ ThreadInv'
    BY <1>2 DEF Domains, ThreadInv
  <2>2. TableInv'
    BY <1>1, <1>2 DEF TableInv, Domains
  <2> QED BY <2>1, <2>2
<1>3. CASE SkipEntry(h)
  <2> USE DEF IInv, SkipEntry, Unqueue, chain, thread
  <2>1. Domains' /\ ThreadInv'
    BY <1>3 DEF Domains, ThreadInv
  <2>2. TableInv'
    BY <1>1, <1>3 DEF TableInv, Domains
  <2> QED BY <2>1, <2>2
<1>4. CASE SendEntry(h)
  <2> USE DEF IInv, SendEntry, Unqueue, chain, thread
  <2>1. Domains' /\ ThreadInv'
    BY <1>1, <1>4 DEF Domains, ThreadInv
  <2>2. TableInv'
    BY <1>1, <1>4 DEF TableInv, Domains, Held, Live
  <2> QED BY <2>1, <2>2
<1> QED BY <1>2, <1>3, <1>4

LEMMA NextIInv == IInv /\ [Next]_vars => IInv'
<1> SUFFICES ASSUME IInv, [Next]_vars PROVE IInv'
  OBVIOUS
<1>1. CASE MessageThread
  BY <1>1, SnapshotStep, RoundStep, RecoverStep, GateStep, ExamineCoveredStep,
     ExamineUncoveredStep, AskStep, AskRefusedStep, CommitStep, BeginSendStep, PreemptStep
     DEF MessageThread
<1>2. CASE Sends
  BY <1>2, EntryStep DEF Sends
<1>3. CASE SocketThread
  BY <1>3, RemoveStep, DeleteStep DEF SocketThread
<1>4. CASE \E p \in Peers : Connect(p) \/ Close(p)
  BY <1>4, ConnectStep, CloseStep
<1>5. CASE \E p \in Peers, h \in Blocks :
             Headers(p, h) \/ Deliver(p, h) \/ NullBlock(p, h) \/ Expire(p, h)
  BY <1>5, HeadersStep, DeliverStep, NullBlockStep, ExpireStep
<1>6. CASE UNCHANGED vars
  BY <1>6, StutterStep
<1> QED BY <1>1, <1>2, <1>3, <1>4, <1>5, <1>6 DEF Next

LEMMA Invariance == Spec => []IInv
  BY InitIInv, NextIInv, PTL DEF Spec

\* For any number of peers and blocks and under any faults, an owner slot is always a
\* request its connected peer holds, or belongs to a peer removed from vNodes that waits to
\* be deleted: no slot outlives its peer.
THEOREM OwnerSafety == Spec => []SlotsBacked
<1>1. IInv => SlotsBacked
  BY DEF IInv, Domains, TableInv, SlotsBacked, Held, Live
<1> QED BY <1>1, Invariance, PTL

\* Likewise a missing block in flight to a connected peer is always owned by it.
THEOREM WireSafety == Spec => []WireOwned
<1>1. IInv => WireOwned
  BY DEF IInv, Domains, TableInv, WireOwned, Live
<1> QED BY <1>1, Invariance, PTL

============================================================================
