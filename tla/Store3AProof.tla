---------------------------- MODULE Store3AProof ----------------------------
(***************************************************************************)
(* Proofs about Store3A for every value of its constants, for a caller that *)
(* keeps the discipline of the node's steady state (Disciplined).  IInv of *)
(* Store3AInv is inductive; the safety properties follow from it.          *)
(***************************************************************************)
EXTENDS Store3AOpenProof, Store3ABarrierProof, Store3ACallProof

---------------------------------------------------------------------------
(* The theorems.                                                           *)

\* The empty directory of a new node satisfies the invariant.
LEMMA InitIInv == Init => IInv
<1> SUFFICES ASSUME Init PROVE IInv
  OBVIOUS
<1> USE JobTypes, EmptyManifestType, Markers DEF Init
<1>1. TypeOK
  <2>1. Absent \in PageContent
    BY DEF PageContent
  <2>2. dir \in Directory
    BY DEF Directory
  <2> QED
    BY <2>1, <2>2 DEF TypeOK, PcValues
<1>2. ToldInv /\ DirInv
  BY DEF ToldInv, DirInv, ManInv, AckInv, BakInv
<1>3. OpenInv /\ RunInv /\ JobInv /\ BatchInv /\ RefInv
  BY DEF OpenInv, Opening, RunInv, AfterRename, JobInv, BeforeRename, BatchInv, RefInv, Pinned
<1> QED
  BY <1>1, <1>2, <1>3 DEF IInv

\* A step that changes nothing keeps the invariant.
LEMMA StutterIInv == IInv /\ UNCHANGED vars => IInv'
<1> SUFFICES ASSUME IInv, UNCHANGED vars PROVE IInv'
  OBVIOUS
<1> USE DEF IInv, vars, disk, tree, batch, caller, told, env
<1>1. TypeOK' /\ ToldInv' /\ DirInv'
  BY DEF TypeOK, ToldInv, DirInv, ManInv, AckInv, BakInv
<1>2. OpenInv' /\ RunInv' /\ JobInv'
  BY DEF OpenInv, RunInv, Visible, JobInv, Cur
<1>3. BatchInv' /\ RefInv'
  BY DEF BatchInv, Cur, View, RefInv, Pinned
<1> QED
  BY <1>1, <1>2, <1>3

\* Every step of a disciplined caller, of the store and of its environment keeps it.
LEMMA NextIInv ==
  ASSUME Disciplined
  PROVE  IInv /\ [Next]_vars => IInv'
<1> SUFFICES ASSUME IInv, [Next]_vars PROVE IInv'
  OBVIOUS
<1>1. CASE Open
  BY <1>1, OpenAckedStep, OpenUnackedStep, OpenFreshStep, OpenBackupStep, InitTreeStep, InitManifestStep,
     InitSyncStep, OpenAckStep, OpenAckSyncStep, RepairManifestStep, RepairSyncStep DEF Open
<1>2. CASE Barrier
  BY <1>2, TreeSyncStep, BakReplaceStep, BakSyncStep, UndoWriteStep, ManifestRenameStep,
     DirSyncStep, AckRenameStep, AckSyncStep DEF Barrier
<1>3. CASE Call
  BY <1>3, PublishStep, ApplyBatchBlockStep, FlushPendingStep, DisconnectStep, ReplayBatchStep DEF Call
<1>4. CASE Failure
  BY <1>4, OpenFailsStep, ApplyFailsStep, FinalizeFailsStep, AbortStep, InDoubtStep DEF Failure
<1>5. CASE Environment
  BY <1>5, ExitStep, PowerLossStep, DamageManifestStep DEF Environment
<1>6. CASE UNCHANGED vars
  BY <1>6, StutterIInv
<1> QED
  BY <1>1, <1>2, <1>3, <1>4, <1>5, <1>6 DEF Next

\* IInv holds throughout, for any numbers of blocks, pages, generations, faults,
\* crashes and damages.
THEOREM Invariance ==
  ASSUME Disciplined
  PROVE  Spec => []IInv
<1>1. Init => IInv
  BY InitIInv
<1>2. IInv /\ [Next]_vars => IInv'
  BY NextIInv
<1> QED
  BY <1>1, <1>2, PTL DEF Spec

\* The safety properties of Store3A follow from the invariant.
LEMMA IInvImplies ==
  IInv => /\ TypeOK /\ CommittedIntact /\ OldOrNew /\ Restartable
          /\ RetainedBelowWriteOffset /\ BackupIsAcked /\ FreeUnreferenced
<1> SUFFICES ASSUME IInv
             PROVE  /\ TypeOK /\ CommittedIntact /\ OldOrNew /\ Restartable
                    /\ RetainedBelowWriteOffset /\ BackupIsAcked /\ FreeUnreferenced
  OBVIOUS
<1> USE DEF IInv
<1>1. TypeOK
  OBVIOUS
<1>2. CommittedIntact
  BY DEF ToldInv, Whole, CommittedIntact
<1>3. OldOrNew
  BY DEF ToldInv, Whole, DirInv, ManInv, OldOrNew
<1>4. Restartable
  BY ManifestFields DEF TypeOK, ToldInv, DirInv, ManInv, AckInv, Restartable
<1>5. RetainedBelowWriteOffset
  <2> SUFFICES ASSUME pc = "undo", NEW d \in may, NEW m \in {d.man, d.bak} \cap Manifest
               PROVE  m.undo <= ram.undo
    BY DEF RetainedBelowWriteOffset
  <2>1. acked # Absent /\ doubt = Absent /\ ram = RamOf(acked) /\ d.bak = acked
    BY DEF RunInv
  <2>2. m = acked
    BY <2>1, Markers DEF DirInv, ManInv
  <2> QED
    <3>1. m \in Manifest /\ ram = RamOf(m)
      BY <2>1, <2>2
    <3>2. ram.undo = m.undo /\ m.undo \in Nat
      BY <3>1, JobTypes, ManifestFields
    <3> QED
      BY <3>2
<1>6. BackupIsAcked
  BY ManifestFields, Markers DEF TypeOK, ToldInv, DirInv, ManInv, BakInv, BackupIsAcked
<1>7. FreeUnreferenced
  BY DEF RefInv, Pinned, FreeUnreferenced
<1> QED
  BY <1>1, <1>2, <1>3, <1>4, <1>5, <1>6, <1>7

\* Between the calls a read sees the blocks of the undo log and those of the open batch.
LEMMA IInvReads == IInv => ReadsSeeBatch
<1> SUFFICES ASSUME IInv, pc = "idle", ~needsReopen, ~batchFailed
             PROVE  View = {undo[i] : i \in 1..ram.undo} \cup Range(pend)
  BY DEF ReadsSeeBatch
<1>1. Cur \in Manifest /\ ram = RamOf(Cur) /\ Whole(synced, pages, undo, Cur)
  BY DEF IInv, RunInv, TypeOK, ToldInv, Cur
<1>2. ram.undo = Cur.undo
  BY <1>1, JobTypes
<1>3. Cur.coins = {undo[i] : i \in 1..ram.undo}
  BY <1>1, <1>2 DEF Whole, Coherent
<1>4. pend \in Seq(Blocks) /\ Range(pend) = {pend[i] : i \in 1..Len(pend)}
  BY DEF IInv, TypeOK, Range
<1>5. CASE batchOpen
  BY <1>3, <1>4, <1>5 DEF IInv, BatchInv, Connected
<1>6. CASE ~batchOpen
  <2>1. pend = << >> /\ root = Cur.root /\ overlayAt = Absent
    BY <1>6 DEF IInv, BatchInv
  <2>2. View = Cur.coins
    BY <1>1, <2>1, Markers, ManifestFields DEF View, Whole
  <2>3. Range(pend) = {}
    BY <1>4, <2>1
  <2> QED
    BY <1>3, <2>2, <2>3
<1> QED
  BY <1>5, <1>6

\* The type invariant of Store3A, for every value of the constants.
THEOREM TypeCorrect ==
  ASSUME Disciplined
  PROVE  Spec => []TypeOK
  BY Invariance, IInvImplies, PTL

\* The last reported generation stays whole on disk until the next one is reported.
THEOREM CommittedSafety ==
  ASSUME Disciplined
  PROVE  Spec => []CommittedIntact
  BY Invariance, IInvImplies, PTL

\* Every directory a crash can leave names the reported generation or the one in doubt.
THEOREM CrashSafety ==
  ASSUME Disciplined
  PROVE  Spec => []OldOrNew
  BY Invariance, IInvImplies, PTL

\* Every directory a crash of an undamaged store can leave is accepted by open.
THEOREM RestartSafety ==
  ASSUME Disciplined
  PROVE  Spec => []Restartable
  BY Invariance, IInvImplies, PTL

\* R1: undo records are written above everything a retained manifest references.
THEOREM UndoSafety ==
  ASSUME Disciplined
  PROVE  Spec => []RetainedBelowWriteOffset
  BY Invariance, IInvImplies, PTL

\* The double fault is covered: beside an unacknowledged primary the backup is the
\* acknowledged generation.
THEOREM BackupSafety ==
  ASSUME Disciplined
  PROVE  Spec => []BackupIsAcked
  BY Invariance, IInvImplies, PTL

\* Page reuse takes no page a read or a recovery needs.
THEOREM ReuseSafety ==
  ASSUME Disciplined
  PROVE  Spec => []FreeUnreferenced
  BY Invariance, IInvImplies, PTL

\* Reads between the calls see exactly the committed blocks and those of the open batch.
THEOREM ReadSafety ==
  ASSUME Disciplined
  PROVE  Spec => []ReadsSeeBatch
  BY Invariance, IInvReads, PTL

\* What the store reports never goes back: the reported generation is only replaced
\* by the one whose outcome was open, whatever is damaged and however often it crashes.
THEOREM NeverRollsBack ==
  ASSUME Disciplined
  PROVE  Spec => NoRollback
<1>1. ASSUME IInv, [Next]_vars PROVE [acked' # acked => acked' = doubt]_vars
  <2> SUFFICES ASSUME Next, acked' # acked PROVE acked' = doubt
    BY <1>1
  <2>1. CASE OpenAckSync
    BY <1>1, <2>1 DEF OpenAckSync, Report, IInv, OpenInv
  <2>2. CASE RepairSync
    BY <1>1, <2>2 DEF RepairSync, Report, IInv, OpenInv
  <2>3. CASE BakSync
    BY <1>1, <2>3 DEF BakSync, Report, IInv, RunInv, Cur
  <2>4. CASE AckSync
    BY <1>1, <2>4 DEF AckSync, Report, IInv, RunInv, AfterRename
  <2>5. CASE Open /\ ~OpenAckSync /\ ~RepairSync
    BY <2>5 DEF Open, OpenAcked, OpenUnacked, OpenFresh, OpenBackup, InitTree, InitManifest, InitSync,
                OpenAck, RepairManifest, told
  <2>6. CASE Barrier /\ ~BakSync /\ ~AckSync
    BY <2>6 DEF Barrier, TreeSync, BakReplace, UndoWrite, ManifestRename, DirSync, AckRename, told
  <2>7. CASE Call
    BY <2>7 DEF Call, Publish, ApplyBatchBlock, FlushPending, Disconnect, ReplayBatch, PublishBatch, told
  <2>8. CASE Failure
    BY <2>8 DEF Failure, OpenFails, ApplyFails, FinalizeFails, Abort, InDoubt, told
  <2>9. CASE Environment
    BY <2>9 DEF Environment, Exit, PowerLoss, DamageManifest, told
  <2> QED
    BY <2>1, <2>2, <2>3, <2>4, <2>5, <2>6, <2>7, <2>8, <2>9 DEF Next
<1> QED
  BY <1>1, Invariance, PTL DEF Spec, NoRollback

=============================================================================
