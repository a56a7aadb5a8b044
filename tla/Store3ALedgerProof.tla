------------------------- MODULE Store3ALedgerProof -------------------------
(***************************************************************************)
(* Store3A implements Ledger, for every value of the constants: under the  *)
(* mapping of ImplementsLedger every step of the store, of its caller and  *)
(* of the environment is a step of the ledger or leaves it alone.          *)
(***************************************************************************)
EXTENDS Store3AProof, SequenceTheorems

---------------------------------------------------------------------------
(* Chains of blocks.                                                       *)

\* The blocks of the first n records of the undo log u.
Prefix(u, n) == [i \in 1..n |-> u[i]]

\* The records a whole manifest names are a sequence of blocks, and not the marker.
LEMMA PrefixType ==
  ASSUME NEW u, NEW m \in Manifest, Coherent(u, m)
  PROVE  /\ Prefix(u, m.undo) \in Seq(Blocks) /\ Len(Prefix(u, m.undo)) = m.undo
         /\ Prefix(u, m.undo) # Absent
<1>1. m.undo \in Nat /\ \A i \in 1..m.undo : u[i] \in Blocks
  BY ManifestFields DEF Coherent
<1>2. Prefix(u, m.undo) \in [1..m.undo -> Blocks]
  BY <1>1 DEF Prefix
<1>3. Prefix(u, m.undo) \in Seq(Blocks) /\ Len(Prefix(u, m.undo)) = m.undo
  BY <1>1, <1>2
<1> QED
  BY <1>3, MarkerAssumption

\* A shorter prefix of the log is the subsequence of a longer one.
LEMMA PrefixSubSeq ==
  ASSUME NEW u, NEW n \in Nat, NEW k \in 0..n, \A i \in 1..n : u[i] \in Blocks
  PROVE  SubSeq(Prefix(u, n), 1, k) = Prefix(u, k)
<1> DEFINE s == SubSeq(Prefix(u, n), 1, k)
           t == Prefix(u, k)
<1>1. \A i \in 1..k : Prefix(u, n)[i] = u[i] /\ u[i] \in Blocks
  BY DEF Prefix
<1>2. s \in Seq(Blocks) /\ Len(s) = k /\ \A i \in 1..k : s[i] = u[i]
  <2>1. /\ s \in Seq(Blocks) /\ Len(s) = (IF 1 <= k THEN k - 1 + 1 ELSE 0)
        /\ \A i \in 1..(k - 1 + 1) : s[i] = Prefix(u, n)[1 + i - 1]
    BY <1>1, SubSeqProperties
  <2> HIDE DEF s
  <2> QED
    BY <1>1, <2>1
<1>3. t \in Seq(Blocks) /\ Len(t) = k /\ \A i \in 1..k : t[i] = u[i]
  <2>1. t \in [1..k -> Blocks]
    BY <1>1 DEF Prefix
  <2> QED
    BY <2>1 DEF Prefix
<1> HIDE DEF s, t
<1>4. s = t
  BY <1>2, <1>3, SeqEqual
<1> QED
  BY <1>4 DEF s, t


---------------------------------------------------------------------------
(* What a step does to the manifests the caller has been told of and to    *)
(* the undo records they name.                                             *)

\* Before a commit writes its undo records, nothing is in doubt and they go above
\* those of the reported generation.
LEMMA WriteOffset ==
  ASSUME IInv, pc = "undo"
  PROVE  acked \in Manifest /\ doubt = Absent /\ ram.undo = acked.undo
<1>1. acked \in Manifest /\ doubt = Absent /\ ram = RamOf(acked)
  BY DEF IInv, RunInv, TypeOK
<1> QED
  BY <1>1, JobTypes

\* No step changes an undo record that the reported generation, or the one in doubt,
\* names.
LEMMA LogKept ==
  ASSUME IInv, [Next]_vars, NEW m \in {acked, doubt} \ {Absent}
  PROVE  \A i \in 1..m.undo : undo'[i] = undo[i]
<1>0. m \in Manifest /\ m.undo \in 0..MaxHeight
  BY DEF IInv, TypeOK, ToldInv, Whole, Coherent
<1>1. CASE UNCHANGED undo
  BY <1>1
<1>2. CASE UndoWrite
  <2>1. m = acked /\ ram.undo = acked.undo /\ acked \in Manifest
    BY <1>2, WriteOffset DEF UndoWrite
  <2> QED
    BY <1>0, <1>2, <2>1, ManifestFields, BoundsAssumption DEF UndoWrite, Written, Slots
<1>3. CASE Abort /\ pc = "undo"
  <2>1. m = acked /\ ram.undo = acked.undo /\ acked \in Manifest
    BY <1>3, WriteOffset
  <2>2. PICK n \in 0..Len(job.recs) :
            undo' = [i \in Slots |-> IF n < Len(job.recs) /\ i = ram.undo + n + 1 THEN Torn
                                     ELSE Written(undo, ram.undo, job.recs, n)[i]]
    BY <1>3 DEF Abort
  <2>3. n \in Nat
    BY DEF IInv, TypeOK, Job
  <2> QED
    BY <1>0, <2>1, <2>2, <2>3, ManifestFields, BoundsAssumption DEF Written, Slots
<1>4. CASE Open
  BY <1>1, <1>4 DEF Open, OpenAcked, OpenUnacked, OpenFresh, OpenBackup, InitTree, InitManifest, InitSync,
              OpenAck, OpenAckSync, RepairManifest, RepairSync, disk
<1>5. CASE Barrier /\ ~UndoWrite
  BY <1>1, <1>5 DEF Barrier, TreeSync, BakReplace, BakSync, ManifestRename, DirSync, AckRename, AckSync, disk
<1>6. CASE Call
  BY <1>1, <1>6 DEF Call, Publish, ApplyBatchBlock, FlushPending, Disconnect, ReplayBatch, PublishBatch
<1>7. CASE Failure /\ ~(Abort /\ pc = "undo")
  BY <1>1, <1>7 DEF Failure, OpenFails, ApplyFails, FinalizeFails, Abort, InDoubt, disk
<1>8. CASE Environment
  BY <1>1, <1>8 DEF Environment, Exit, PowerLoss, DamageManifest, disk
<1>9. CASE UNCHANGED vars
  BY <1>1, <1>9 DEF vars, disk
<1> QED
  BY <1>2, <1>3, <1>4, <1>5, <1>6, <1>7, <1>8, <1>9 DEF Next

\* A step leaves what was told alone, puts a commit in doubt, or settles the doubt.
LEMMA ToldSteps ==
  ASSUME IInv, [Next]_vars
  PROVE  \/ UNCHANGED <<acked, doubt>>
         \/ InitManifest
         \/ ManifestRename
         \/ doubt' = Absent /\ acked' # Absent /\ acked' \in {acked, doubt}
<1>1. CASE OpenAcked
  BY <1>1, Markers DEF OpenAcked, Loads
<1>2. CASE OpenAckSync
  BY <1>2 DEF OpenAckSync, Report, IInv, OpenInv
<1>3. CASE RepairSync
  BY <1>3 DEF RepairSync, Report, IInv, OpenInv
<1>4. CASE BakSync
  BY <1>4 DEF BakSync, Report, IInv, RunInv, Cur
<1>5. CASE AckSync
  BY <1>5 DEF AckSync, Report, IInv, RunInv, AfterRename
<1>6. CASE Open /\ ~OpenAcked /\ ~InitManifest /\ ~OpenAckSync /\ ~RepairSync
  BY <1>6 DEF Open, OpenUnacked, OpenFresh, OpenBackup, InitTree, InitSync, OpenAck, RepairManifest, told
<1>7. CASE Barrier /\ ~BakSync /\ ~AckSync /\ ~ManifestRename
  BY <1>7 DEF Barrier, TreeSync, BakReplace, UndoWrite, DirSync, AckRename, told
<1>8. CASE Call
  BY <1>8 DEF Call, Publish, ApplyBatchBlock, FlushPending, Disconnect, ReplayBatch, PublishBatch, told
<1>9. CASE Failure
  BY <1>9 DEF Failure, OpenFails, ApplyFails, FinalizeFails, Abort, InDoubt, told
<1>10. CASE Environment
  BY <1>10 DEF Environment, Exit, PowerLoss, DamageManifest, told
<1>11. CASE UNCHANGED vars
  BY <1>11 DEF vars, told
<1> QED
  BY <1>1, <1>2, <1>3, <1>4, <1>5, <1>6, <1>7, <1>8, <1>9, <1>10, <1>11 DEF Next, Open, Barrier

---------------------------------------------------------------------------
(* The refinement.                                                         *)

\* The chain and the possible chain of the ledger, read off log u for the manifests
\* a (reported) and d (in doubt).
DurableChain(u, a) == IF a = Absent THEN << >> ELSE Prefix(u, a.undo)
PossibleChain(u, d) == IF d = Absent \/ d = EmptyManifest THEN Absent ELSE Prefix(u, d.undo)

\* The empty store has the empty chain.
LEMMA EmptyPrefix == \A u : Prefix(u, EmptyManifest.undo) = << >>
  BY DEF Prefix, EmptyManifest

\* The chains depend only on the records the manifests name.
LEMMA SamePrefix ==
  ASSUME NEW u, NEW v, NEW n, \A i \in 1..n : v[i] = u[i]
  PROVE  Prefix(v, n) = Prefix(u, n)
  BY DEF Prefix

\* A step that leaves what was told alone leaves the chains alone.
LEMMA ChainsKept ==
  ASSUME IInv, [Next]_vars
  PROVE  /\ DurableChain(undo', acked) = DurableChain(undo, acked)
         /\ PossibleChain(undo', doubt) = PossibleChain(undo, doubt)
<1>1. acked # Absent => Prefix(undo', acked.undo) = Prefix(undo, acked.undo)
  <2> SUFFICES ASSUME acked # Absent PROVE \A i \in 1..acked.undo : undo'[i] = undo[i]
    BY SamePrefix
  <2> QED
    BY LogKept
<1>2. doubt # Absent => Prefix(undo', doubt.undo) = Prefix(undo, doubt.undo)
  <2> SUFFICES ASSUME doubt # Absent PROVE \A i \in 1..doubt.undo : undo'[i] = undo[i]
    BY SamePrefix
  <2> QED
    BY LogKept
<1> QED
  BY <1>1, <1>2 DEF DurableChain, PossibleChain

\* commitBarriers 4, 5 proposes a chain that is one commit away.
LEMMA Proposes ==
  ASSUME IInv, ManifestRename
  PROVE  /\ acked' = acked /\ doubt' = job.man /\ undo' = undo
         /\ PossibleChain(undo, doubt) = Absent
         /\ PossibleChain(undo, job.man) # Absent
         /\ L!OneCommitAway(DurableChain(undo, acked), PossibleChain(undo, job.man))
<1>1. /\ acked \in Manifest /\ acked # Absent /\ doubt = Absent /\ Cur = acked /\ ram.gen = acked.gen
      /\ Coherent(undo, acked)
  <2>1. acked \in Manifest /\ acked # Absent /\ doubt = Absent /\ ram = RamOf(acked) /\ Coherent(undo, acked)
    BY Markers DEF IInv, ManifestRename, RunInv, TypeOK, ToldInv, Whole
  <2> QED
    BY <2>1, JobTypes DEF Cur
<1>2. /\ job.man \in Manifest /\ job.man.gen = acked.gen + 1 /\ Coherent(undo, job.man)
      /\ job.man.undo > acked.undo \/ (acked.undo > 0 /\ job.man.undo = acked.undo - 1)
  BY <1>1 DEF IInv, ManifestRename, JobInv, BeforeRename
<1>3. job.man # EmptyManifest /\ job.man # Absent
  BY <1>1, <1>2, ManifestFields, EmptyManifestType, Markers
<1> DEFINE c == Prefix(undo, acked.undo)
           s == Prefix(undo, job.man.undo)
<1>4. /\ c \in Seq(Blocks) /\ Len(c) = acked.undo /\ s \in Seq(Blocks) /\ Len(s) = job.man.undo
      /\ s # Absent
  BY <1>1, <1>2, PrefixType
<1>5. CASE job.man.undo > acked.undo
  <2>1. /\ acked.undo \in 0..job.man.undo /\ job.man.undo \in Nat
        /\ \A i \in 1..job.man.undo : undo[i] \in Blocks
    BY <1>1, <1>2, <1>5, ManifestFields DEF Coherent
  <2>2. SubSeq(s, 1, Len(c)) = c
    BY <1>4, <2>1, PrefixSubSeq
  <2>3. Len(s) > Len(c)
    BY <1>4, <1>5
  <2> QED
    BY <1>1, <1>3, <1>4, <2>2, <2>3
       DEF L!OneCommitAway, DurableChain, PossibleChain, ManifestRename, Rename
<1>6. CASE acked.undo > 0 /\ job.man.undo = acked.undo - 1
  <2>1. /\ job.man.undo \in 0..acked.undo /\ acked.undo \in Nat
        /\ \A i \in 1..acked.undo : undo[i] \in Blocks
    BY <1>1, <1>2, <1>6, ManifestFields DEF Coherent
  <2>2. SubSeq(c, 1, Len(c) - 1) = s
    BY <1>4, <1>6, <2>1, PrefixSubSeq
  <2>3. Len(c) > 0
    BY <1>4, <1>6
  <2> QED
    BY <1>1, <1>3, <1>4, <2>2, <2>3
       DEF L!OneCommitAway, DurableChain, PossibleChain, ManifestRename, Rename
<1> QED
  BY <1>2, <1>5, <1>6

\* Every step is a step of the ledger or leaves it alone.
LEMMA LedgerStep ==
  ASSUME IInv, [Next]_vars
  PROVE  [L!Next]_L!vars
<1> DEFINE c == DurableChain(undo, acked)
           m == PossibleChain(undo, doubt)
           cc == DurableChain(undo', acked')
           mm == PossibleChain(undo', doubt')
<1>0. /\ DurableChain(undo', acked) = c /\ PossibleChain(undo', doubt) = m
  BY ChainsKept
<1>a. /\ acked \in {Absent} \cup Manifest /\ doubt \in {Absent} \cup Manifest
      /\ doubt # Absent => Coherent(undo, doubt) /\ (acked = Absent => doubt = EmptyManifest)
  BY DEF IInv, TypeOK, ToldInv, Whole
<1>1. \/ cc = c /\ mm = m
      \/ m = Absent /\ mm # Absent /\ L!OneCommitAway(c, mm) /\ cc = c
      \/ m # Absent /\ mm = Absent /\ cc \in {c, m}
  <2>1. CASE UNCHANGED <<acked, doubt>>
    BY <1>0, <2>1
  <2>2. CASE InitManifest
    <3>1. acked = Absent /\ acked' = acked /\ doubt' = EmptyManifest
      BY <2>2 DEF InitManifest, IInv, OpenInv
    <3> QED
      BY <1>0, <1>a, <3>1 DEF PossibleChain
  <2>3. CASE ManifestRename
    BY <2>3, Proposes
  <2>4. CASE doubt' = Absent /\ acked' # Absent /\ acked' \in {acked, doubt}
    <3>1. mm = Absent
      BY <2>4 DEF PossibleChain
    <3>2. CASE acked' = acked
      <4>1. cc = c
        BY <1>0, <3>2
      <4> QED
        BY <3>1, <4>1
    <3>3. CASE acked' = doubt /\ doubt = EmptyManifest /\ acked = Absent
      BY <3>1, <3>3, EmptyPrefix, <1>0 DEF DurableChain, PossibleChain
    <3>4. CASE acked' = doubt /\ doubt # EmptyManifest
      <4>1. m = Prefix(undo, doubt.undo) /\ doubt # Absent /\ m # Absent
        BY <1>a, <2>4, <3>4, PrefixType DEF PossibleChain
      <4>2. cc = Prefix(undo', doubt.undo) /\ Prefix(undo', doubt.undo) = m
        BY <1>0, <3>4, <4>1 DEF DurableChain, PossibleChain
      <4> QED
        BY <3>1, <4>1, <4>2
    <3>5. acked # Absent => doubt # EmptyManifest
      <4> SUFFICES ASSUME acked # Absent, doubt # Absent PROVE doubt # EmptyManifest
        BY <1>a, EmptyManifestType, Markers
      <4>1. acked \in Manifest /\ doubt.gen = acked.gen + 1
        BY <1>a DEF IInv, ToldInv
      <4> QED
        BY <4>1, ManifestFields, EmptyManifestType
    <3> QED
      BY <1>a, <2>4, <3>2, <3>3, <3>4, <3>5
  <2> QED
    BY <2>1, <2>2, <2>3, <2>4, ToldSteps
<1> QED
  BY <1>1 DEF L!Next, L!Propose, L!Settle, L!vars, DurableChain, PossibleChain, Prefix, ChainOf

\* The store implements the ledger: the durable chain changes by whole commits, through
\* any failure, crash and damage of MANIFEST, whatever the numbers of blocks, pages,
\* generations, faults and crashes.
THEOREM Implementation ==
  ASSUME Disciplined
  PROVE  Spec => ImplementsLedger
<1>1. Init => L!Init
  BY DEF Init, L!Init
<1>2. IInv /\ [Next]_vars => [L!Next]_L!vars
  BY LedgerStep
<1> QED
  BY <1>1, <1>2, Invariance, PTL DEF Spec, ImplementsLedger, L!Spec

=============================================================================
