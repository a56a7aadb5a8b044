------------------------ MODULE Store3ABarrierProof -------------------------
(***************************************************************************)
(* The barriers of a commit and their failures keep the inductive invariant *)
(* IInv: one lemma per action.                                             *)
(***************************************************************************)
EXTENDS Store3AData

\* commitBarriers 1: the fsync of tree.dat.
LEMMA TreeSyncStep == IInv /\ TreeSync => IInv'
<1> SUFFICES ASSUME IInv, TreeSync PROVE IInv'
  OBVIOUS
<1> USE DEF IInv, TreeSync, disk, tree, batch, caller, told, env
<1>1. TypeOK'
  BY DEF TypeOK, PcValues
<1>2. ToldInv'
  BY DEF ToldInv, Whole
<1>3. DirInv'
  BY DEF DirInv, ManInv, AckInv, BakInv
<1>4. OpenInv'
  BY DEF OpenInv, Opening
<1>5. RunInv'
  BY DEF RunInv, Cur, Visible, AfterRename
<1>6. JobInv'
  BY DEF JobInv, Cur, BeforeRename, AfterRename
<1>7. BatchInv'
  BY DEF BatchInv, Opening
<1>8. RefInv'
  BY DEF RefInv, Pinned, BeforeRename, AfterRename
<1> QED
  BY <1>1, <1>2, <1>3, <1>4, <1>5, <1>6, <1>7, <1>8

\* commitBarriers 2: the replacement of MANIFEST.bak.
LEMMA BakReplaceStep == IInv /\ BakReplace => IInv'
<1> SUFFICES ASSUME IInv, BakReplace PROVE IInv'
  OBVIOUS
<1>0. /\ dir.man \in Manifest /\ dir \in may /\ dir \in Directory
      /\ dir' = [dir EXCEPT !.bak = dir.man] /\ may' = may \cup {dir'}
      /\ Cur # Absent /\ Visible(Cur) /\ dir.ack = Cur.gen /\ pc' = "baksync"
  <2>1. Cur # Absent /\ Visible(Cur) /\ dir.ack = Cur.gen /\ dir \in may /\ dir \in Directory
    BY DEF IInv, BakReplace, TypeOK, DirInv, RunInv
  <2>2. dir.man # Absent
    BY <2>1, Markers DEF Visible
  <2> QED
    BY <2>1, <2>2 DEF BakReplace, PriorUsable, Rename
<1>a. dir.man = Cur /\ dir'.bak = Cur /\ dir'.man = Cur /\ dir'.ack = Cur.gen /\ dir' \in Directory
  BY <1>0, SetBak, Markers DEF Visible
<1> USE DEF IInv, BakReplace, disk, tree, batch, caller, told, env
<1>1. TypeOK'
  BY <1>0, <1>a DEF TypeOK, PcValues
<1>2. ToldInv'
  BY DEF ToldInv
<1>3. DirInv'
  <2> SUFFICES ASSUME NEW d \in may' PROVE ManInv(d)' /\ AckInv(d)' /\ BakInv(d)'
    BY <1>0 DEF DirInv
  <2>1. CASE d \in may
    BY <2>1, <1>0, <1>a DEF DirInv, ManInv, AckInv, BakInv
  <2>2. CASE d = dir'
    <3>1. ManInv(dir) /\ AckInv(dir)
      BY <1>0 DEF DirInv
    <3> QED
      BY <2>2, <3>1, <1>0, <1>a DEF ManInv, AckInv, BakInv, Cur
  <2> QED
    BY <1>0, <2>1, <2>2
<1>4. OpenInv'
  BY DEF OpenInv, Opening
<1>5. RunInv'
  BY <1>0, <1>a DEF RunInv, Cur, Visible, AfterRename
<1>6. JobInv'
  BY DEF JobInv, Cur, BeforeRename, AfterRename
<1>7. BatchInv'
  BY DEF BatchInv, Opening
<1>8. RefInv'
  BY DEF RefInv, Pinned, BeforeRename, AfterRename
<1> QED
  BY <1>1, <1>2, <1>3, <1>4, <1>5, <1>6, <1>7, <1>8

\* commitBarriers 2: the directory fsync that makes the backup durable.
LEMMA BakSyncStep == IInv /\ BakSync => IInv'
<1> SUFFICES ASSUME IInv, BakSync PROVE IInv'
  OBVIOUS
<1>0. /\ Cur # Absent /\ ram = RamOf(Cur) /\ Visible(Cur) /\ dir.ack = Cur.gen /\ dir.bak = Cur
      /\ Cur \in Manifest /\ dir \in may
  BY DEF IInv, BakSync, RunInv, TypeOK, DirInv, Cur
<1>a. acked' = Cur /\ doubt' = Absent /\ Cur' = Cur /\ may' = {dir}
  BY <1>0 DEF BakSync, SyncDir, Report, Cur
<1>b. Whole(synced, pages, undo, Cur)
  BY <1>0 DEF IInv, ToldInv, Cur
<1> USE DEF IInv, BakSync, SyncDir, Report, disk, tree, batch, caller, told, env
<1>1. TypeOK'
  BY <1>0, <1>a DEF TypeOK, PcValues
<1>2. ToldInv'
  BY <1>0, <1>a, <1>b DEF ToldInv
<1>3. DirInv'
  BY <1>0, <1>a, Markers, ManifestFields DEF DirInv, ManInv, AckInv, BakInv, Visible
<1>4. OpenInv'
  BY DEF OpenInv, Opening
<1>5. RunInv'
  BY <1>0, <1>a DEF RunInv, Visible, AfterRename
<1>6. JobInv'
  BY <1>a DEF JobInv, BeforeRename, AfterRename
<1>7. BatchInv'
  BY DEF BatchInv, Opening
<1>8. RefInv'
  BY <1>0, <1>a DEF RefInv, Pinned, BeforeRename, AfterRename, Cur
<1> QED
  BY <1>1, <1>2, <1>3, <1>4, <1>5, <1>6, <1>7, <1>8

\* Records written at or above the end of m's leave m's chain alone.
LEMMA CoherentAbove ==
  ASSUME NEW u, NEW v, NEW m \in Manifest, Coherent(u, m),
         \A i \in Slots : i <= m.undo => v[i] = u[i]
  PROVE  Coherent(v, m)
<1>1. \A i \in 1..m.undo : i \in Slots /\ v[i] = u[i]
  BY ManifestFields, BoundsAssumption DEF Coherent, Slots
<1>2. m.undo # 0 => v[m.undo] = u[m.undo]
  BY <1>1, ManifestFields
<1> QED
  BY <1>1, <1>2 DEF Coherent

\* The manifest that follows m is coherent once its records are written.
LEMMA CoherentFollows ==
  ASSUME NEW u \in [Slots -> {Absent, Torn} \cup Blocks], NEW m \in Manifest, NEW n \in Manifest,
         NEW recs \in Seq(Blocks), Coherent(u, m), Follows(u, m, n, recs)
  PROVE  Coherent(Written(u, m.undo, recs, Len(recs)), n)
<1> DEFINE v == Written(u, m.undo, recs, Len(recs))
<1> USE ManifestFields, BoundsAssumption
<1>0. m.undo \in 0..MaxHeight /\ Len(recs) \in Nat
  BY DEF Coherent
<1>1. CASE recs # << >>
  <2>1. /\ m.undo + Len(recs) <= MaxHeight /\ n.undo = m.undo + Len(recs) /\ Len(recs) > 0
        /\ n.coins = m.coins \cup {recs[i] : i \in 1..Len(recs)} /\ n.tip = recs[Len(recs)]
        /\ \A i \in 1..Len(recs) : recs[i] \notin m.coins
        /\ \A i, j \in 1..Len(recs) : recs[i] = recs[j] => i = j
    BY <1>1, <1>0 DEF Follows, Fits, Connected
  <2>2. \A i \in 1..m.undo : v[i] = u[i]
    BY <1>0 DEF Written, Slots
  <2>3. \A i \in 1..Len(recs) : m.undo + i \in 1..n.undo /\ v[m.undo + i] = recs[i]
    BY <1>0, <2>1 DEF Written, Slots
  <2>4. \A i \in 1..n.undo : i \in 1..m.undo \/ \E k \in 1..Len(recs) : i = m.undo + k
    <3> TAKE i \in 1..n.undo
    <3>1. CASE i <= m.undo
      BY <3>1, <1>0
    <3>2. CASE ~(i <= m.undo)
      <4>1. i - m.undo \in 1..Len(recs) /\ i = m.undo + (i - m.undo)
        BY <3>2, <2>1, <1>0
      <4> QED
        BY <4>1
    <3> QED
      BY <3>1, <3>2
  <2>5. \A i \in 1..n.undo : v[i] \in n.coins
    <3> TAKE i \in 1..n.undo
    <3>1. CASE i \in 1..m.undo
      BY <3>1, <2>1, <2>2 DEF Coherent
    <3>2. ASSUME NEW k \in 1..Len(recs), i = m.undo + k PROVE v[i] \in n.coins
      BY <3>2, <2>1, <2>3
    <3> QED
      BY <2>4, <3>1, <3>2
  <2>6. \A b \in n.coins : \E i \in 1..n.undo : v[i] = b
    <3> TAKE b \in n.coins
    <3>1. CASE b \in m.coins
      <4>1. PICK i \in 1..m.undo : u[i] = b
        BY <3>1 DEF Coherent
      <4>2. i \in 1..n.undo /\ v[i] = b
        BY <4>1, <2>1, <2>2, <1>0
      <4> QED
        BY <4>2
    <3>2. ASSUME NEW k \in 1..Len(recs), b = recs[k] PROVE \E i \in 1..n.undo : v[i] = b
      BY <3>2, <2>3
    <3> QED
      BY <2>1, <3>1, <3>2
  <2>7. \A i, j \in 1..n.undo : v[i] = v[j] => i = j
    <3> TAKE i, j \in 1..n.undo
    <3> HAVE v[i] = v[j]
    <3>1. CASE i \in 1..m.undo /\ j \in 1..m.undo
      BY <3>1, <2>2 DEF Coherent
    <3>2. ASSUME NEW k \in 1..Len(recs), NEW l \in 1..Len(recs), i = m.undo + k, j = m.undo + l PROVE i = j
      BY <3>2, <2>1, <2>3
    <3>3. ASSUME NEW k \in 1..Len(recs), i = m.undo + k, j \in 1..m.undo PROVE i = j
      BY <3>3, <2>1, <2>2, <2>3 DEF Coherent
    <3>4. ASSUME NEW k \in 1..Len(recs), j = m.undo + k, i \in 1..m.undo PROVE i = j
      BY <3>4, <2>1, <2>2, <2>3 DEF Coherent
    <3> QED
      BY <2>4, <3>1, <3>2, <3>3, <3>4
  <2>8. n.tip = v[n.undo] /\ n.undo \in 1..MaxHeight
    BY <1>0, <2>1, <2>3
  <2> QED
    BY <2>5, <2>6, <2>7, <2>8, <1>0 DEF Coherent
<1>2. CASE recs = << >>
  <2>1. /\ m.undo > 0 /\ n.undo = m.undo - 1 /\ n.coins = m.coins \ {m.tip}
        /\ n.tip = IF m.undo = 1 THEN Absent ELSE u[m.undo - 1]
    BY <1>2 DEF Follows
  <2>2. \A i \in 1..m.undo : v[i] = u[i]
    BY <1>0 DEF Written, Slots
  <2>3. m.tip = u[m.undo]
    BY <2>1, <1>0 DEF Coherent
  <2>4. \A i \in 1..n.undo : i \in 1..m.undo /\ i # m.undo
    BY <2>1, <1>0
  <2>5. \A b \in n.coins : \E i \in 1..n.undo : v[i] = b
    <3> TAKE b \in n.coins
    <3>1. PICK i \in 1..m.undo : u[i] = b
      BY <2>1 DEF Coherent
    <3>2. i \in 1..n.undo /\ v[i] = b
      BY <3>1, <2>1, <2>2, <2>3, <1>0
    <3> QED
      BY <3>2
  <2>6. \A i \in 1..n.undo : v[i] \in n.coins
    BY <2>1, <2>2, <2>3, <2>4, <1>0 DEF Coherent
  <2>7. \A i, j \in 1..n.undo : v[i] = v[j] => i = j
    BY <2>2, <2>4 DEF Coherent
  <2>8. n.undo \in 0..MaxHeight /\ n.tip = IF n.undo = 0 THEN Absent ELSE v[n.undo]
    BY <2>1, <2>2, <1>0
  <2> QED
    BY <2>5, <2>6, <2>7, <2>8 DEF Coherent
<1> QED
  BY <1>1, <1>2

\* commitBarriers 3: the undo records, written above every retained reference.
LEMMA UndoWriteStep == IInv /\ UndoWrite => IInv'
<1> SUFFICES ASSUME IInv, UndoWrite PROVE IInv'
  OBVIOUS
<1>0. /\ acked \in Manifest /\ doubt = Absent /\ Cur = acked /\ ram = RamOf(acked)
      /\ ram.undo = acked.undo /\ Whole(synced, pages, undo, acked)
      /\ job \in Job /\ job.man \in Manifest /\ job.recs \in Seq(Blocks)
      /\ Follows(undo, acked, job.man, job.recs)
      /\ undo \in [Slots -> {Absent, Torn} \cup Blocks]
  BY JobFields, JobTypes DEF IInv, UndoWrite, RunInv, TypeOK, ToldInv, Cur, JobInv, BeforeRename
<1>a. undo' = Written(undo, acked.undo, job.recs, Len(job.recs))
  BY <1>0 DEF UndoWrite
<1>b. \A i \in Slots : i <= acked.undo => undo'[i] = undo[i]
  BY <1>0, <1>a, ManifestFields DEF Written, Slots
<1>c. Coherent(undo', acked)
  BY <1>0, <1>b, CoherentAbove DEF Whole
<1>d. Coherent(undo', job.man)
  BY <1>0, <1>a, CoherentFollows DEF Whole
<1>e. undo' \in [Slots -> {Absent, Torn} \cup Blocks]
  <2> SUFFICES ASSUME NEW i \in Slots, i \in acked.undo + 1 .. acked.undo + Len(job.recs)
               PROVE  job.recs[i - acked.undo] \in Blocks
    BY <1>0, <1>a DEF Written
  <2> QED
    BY <1>0, ManifestFields
<1>f. job' \in Job /\ job'.man = job.man /\ job'.call = job.call /\ job'.old = job.old
  BY <1>0 DEF UndoWrite, Job, IInv, TypeOK
<1> USE DEF IInv, UndoWrite, disk, tree, batch, caller, told, env
<1>1. TypeOK'
  BY <1>e, <1>f DEF TypeOK, PcValues
<1>2. ToldInv'
  BY <1>0, <1>c DEF ToldInv, Whole
<1>3. DirInv'
  BY DEF DirInv, ManInv, AckInv, BakInv
<1>4. OpenInv'
  BY DEF OpenInv, Opening
<1>5. RunInv'
  BY DEF RunInv, Visible, AfterRename
<1>6. JobInv'
  <2>1. job.man.undo > acked.undo \/ (acked.undo > 0 /\ job.man.undo = acked.undo - 1)
    BY <1>0, ManifestFields DEF Follows
  <2>2. Cur' = acked
    BY <1>0 DEF Cur
  <2> QED
    BY <1>d, <1>f, <2>1, <2>2 DEF JobInv, Cur, BeforeRename, AfterRename
<1>7. BatchInv'
  BY DEF BatchInv, Opening
<1>8. RefInv'
  BY <1>f DEF RefInv, Pinned, BeforeRename, AfterRename
<1> QED
  BY <1>1, <1>2, <1>3, <1>4, <1>5, <1>6, <1>7, <1>8

\* commitBarriers 4 and 5: the new generation becomes visible and in doubt.
LEMMA ManifestRenameStep == IInv /\ ManifestRename => IInv'
<1> SUFFICES ASSUME IInv, ManifestRename PROVE IInv'
  OBVIOUS
<1>0. /\ acked \in Manifest /\ doubt = Absent /\ doubt' = job.man /\ job.man \in Manifest
      /\ job.man.gen = acked.gen + 1 /\ Whole(synced, pages, undo, job.man)
      /\ Visible(acked) /\ \A d \in may : d.bak = acked
      /\ dir \in Directory /\ dir \in may
  BY JobTypes DEF IInv, ManifestRename, TypeOK, RunInv, JobInv, BeforeRename, Whole, DirInv
<1>a. /\ dir' \in Directory /\ dir'.man = job.man /\ dir'.bak = acked /\ dir'.ack = dir.ack
      /\ may' = may \cup {dir'}
  BY <1>0, SetMan DEF ManifestRename, Rename
<1>b. \A d \in may' : /\ d.ack = acked.gen /\ d.bak = acked
                      /\ d.man \in {Torn, Absent, acked, job.man}
                      /\ damage = 0 => d.man \in {acked, job.man}
  BY <1>0, <1>a, Markers DEF IInv, DirInv, ManInv, AckInv
<1> USE DEF IInv, ManifestRename, disk, tree, batch, caller, told, env
<1>1. TypeOK'
  BY <1>0, <1>a DEF TypeOK, PcValues
<1>2. ToldInv'
  BY <1>0, Markers DEF ToldInv
<1>3. DirInv'
  BY <1>0, <1>a, <1>b, Markers, ManifestFields DEF DirInv, ManInv, AckInv, BakInv
<1>4. OpenInv'
  BY DEF OpenInv, Opening
<1>5. RunInv'
  BY <1>0, <1>a, Markers DEF RunInv, Visible, AfterRename
<1>6. JobInv'
  BY DEF JobInv, BeforeRename, AfterRename
<1>7. BatchInv'
  BY DEF BatchInv, Opening
<1>8. RefInv'
  BY DEF RefInv, Pinned, BeforeRename, AfterRename
<1> QED
  BY <1>1, <1>2, <1>3, <1>4, <1>5, <1>6, <1>7, <1>8

\* commitBarriers 6: the directory fsync.
LEMMA DirSyncStep == IInv /\ DirSync => IInv'
<1> SUFFICES ASSUME IInv, DirSync PROVE IInv'
  OBVIOUS
<1> USE DEF IInv, DirSync, SyncDir, disk, tree, batch, caller, told, env
<1>1. TypeOK'
  BY DEF TypeOK, PcValues
<1>2. ToldInv'
  BY DEF ToldInv
<1>3. DirInv'
  BY DEF DirInv, ManInv, AckInv, BakInv
<1>4. OpenInv'
  BY DEF OpenInv, Opening
<1>5. RunInv'
  BY DEF RunInv, Visible, AfterRename
<1>6. JobInv'
  BY DEF JobInv, BeforeRename, AfterRename
<1>7. BatchInv'
  BY DEF BatchInv, Opening
<1>8. RefInv'
  BY DEF RefInv, Pinned, BeforeRename, AfterRename
<1> QED
  BY <1>1, <1>2, <1>3, <1>4, <1>5, <1>6, <1>7, <1>8

\* writeAck: the rename of ACK.
LEMMA AckRenameStep == IInv /\ AckRename => IInv'
<1> SUFFICES ASSUME IInv, AckRename PROVE IInv'
  OBVIOUS
<1>0. /\ acked # Absent /\ job.man = doubt /\ doubt \in Manifest /\ Visible(doubt)
      /\ dir \in Directory /\ dir \in may /\ doubt.gen \in Nat
  BY ManifestFields DEF IInv, AckRename, RunInv, AfterRename, TypeOK, DirInv
<1>a. /\ dir' \in Directory /\ dir'.ack = doubt.gen /\ may' = may \cup {dir'}
      /\ dir'.man = dir.man /\ dir'.bak = dir.bak
  BY <1>0, SetAck DEF AckRename, Rename
<1> USE DEF IInv, AckRename, disk, tree, batch, caller, told, env
<1>1. TypeOK'
  BY <1>0, <1>a DEF TypeOK, PcValues
<1>2. ToldInv'
  BY DEF ToldInv
<1>3. DirInv'
  <2> SUFFICES ASSUME NEW d \in may' PROVE ManInv(d)' /\ AckInv(d)' /\ BakInv(d)'
    BY <1>a DEF DirInv
  <2>1. CASE d \in may
    BY <2>1, <1>0, <1>a DEF DirInv, ManInv, AckInv, BakInv
  <2>2. CASE d = dir'
    <3>1. ManInv(dir) /\ BakInv(dir)
      BY <1>0 DEF DirInv
    <3> QED
      BY <2>2, <3>1, <1>0, <1>a, Markers DEF ManInv, AckInv, BakInv, Visible
  <2> QED
    BY <1>a, <2>1, <2>2
<1>4. OpenInv'
  BY DEF OpenInv, Opening
<1>5. RunInv'
  BY <1>0, <1>a DEF RunInv, Visible, AfterRename
<1>6. JobInv'
  BY DEF JobInv, BeforeRename, AfterRename
<1>7. BatchInv'
  BY DEF BatchInv, Opening
<1>8. RefInv'
  BY DEF RefInv, Pinned, BeforeRename, AfterRename
<1> QED
  BY <1>1, <1>2, <1>3, <1>4, <1>5, <1>6, <1>7, <1>8

\* writeAck: the directory fsync, the report and the release of retired pages.
LEMMA AckSyncStep == IInv /\ AckSync => IInv'
<1> SUFFICES ASSUME IInv, AckSync PROVE IInv'
  OBVIOUS
<1>0. /\ job.man = doubt /\ doubt \in Manifest /\ Visible(doubt) /\ dir.ack = doubt.gen
      /\ dir \in may /\ BakInv(dir) /\ root = doubt.root /\ root \notin retired /\ acked \in Manifest
      /\ acked.gen < doubt.gen /\ job.call \in {"publish", "disconnect", "flush", "replay"}
      /\ job.call # "flush" => pend = << >> /\ ~batchOpen
      /\ overlayAt = Absent /\ overlay = {}
  <2>1. pc = "acksync" /\ pc \in AfterRename
    BY DEF AckSync, AfterRename
  <2>2. /\ acked # Absent /\ doubt # Absent /\ job.man = doubt /\ Visible(doubt) /\ dir.ack = doubt.gen
    BY <2>1 DEF IInv, RunInv
  <2>3. acked \in Manifest /\ doubt \in Manifest
    BY <2>2 DEF IInv, TypeOK
  <2>4. acked.gen < doubt.gen
    BY <2>2, <2>3, ManifestFields DEF IInv, ToldInv
  <2>5. dir \in may /\ BakInv(dir)
    BY DEF IInv, DirInv
  <2> QED
    BY <2>1, <2>2, <2>3, <2>4, <2>5 DEF IInv, JobInv
<1>a. /\ acked' = doubt /\ doubt' = Absent /\ Cur' = doubt /\ may' = {dir} /\ ram' = RamOf(doubt)
      /\ free' = free \cup retired /\ retired' = {} /\ job' = NoJob
      /\ pend' = << >> /\ batchOpen' = FALSE /\ batchFailed' = batchFailed
  BY <1>0 DEF AckSync, SyncDir, Report, Cur, Returned, IInv, TypeOK
<1>b. Whole(synced, pages, undo, doubt)
  BY <1>0, Markers DEF IInv, ToldInv
<1> USE DEF IInv, AckSync, disk, tree, batch, caller, told, env
<1>1. TypeOK'
  <2>1. pend' \in Seq(Blocks) /\ job' \in Job /\ ram' \in Ram
    BY <1>0, <1>a, JobTypes
  <2>2. free' \subseteq Pages /\ retired' \subseteq Pages
    BY <1>a DEF TypeOK
  <2> QED
    BY <1>0, <1>a, <2>1, <2>2 DEF TypeOK, PcValues
<1>2. ToldInv'
  BY <1>a, <1>b DEF ToldInv
<1>3. DirInv'
  BY <1>0, <1>a, Markers DEF DirInv, ManInv, AckInv, BakInv, Visible
<1>4. OpenInv'
  BY DEF OpenInv, Opening
<1>5. RunInv'
  BY <1>0, <1>a, Markers DEF RunInv, Visible, AfterRename
<1>6. JobInv'
  BY DEF JobInv, BeforeRename, AfterRename
<1>7. BatchInv'
  <2>1. Fits(<< >>, doubt)
    <3> HIDE DEF IInv, AckSync
    <3> QED
      BY <1>0, <1>b, EmptyFits DEF Whole
  <2> QED
    BY <2>1, <1>0, <1>a DEF BatchInv, Opening
<1>8. RefInv'
  BY <1>0, <1>a, JobTypes DEF RefInv, Pinned, BeforeRename, AfterRename
<1> QED
  BY <1>1, <1>2, <1>3, <1>4, <1>5, <1>6, <1>7, <1>8

\* A failure after the rename leaves the instance refusing mutations.
LEMMA InDoubtStep == IInv /\ InDoubt => IInv'
<1> SUFFICES ASSUME IInv, InDoubt PROVE IInv'
  OBVIOUS
<1>0. job' = NoJob /\ pend' \in Seq(Blocks) /\ batchFailed' \in BOOLEAN /\ needsReopen' = TRUE /\ pc' = "idle"
  BY JobTypes DEF InDoubt, Returned, IInv, TypeOK
<1>a. faults' \in Nat /\ crashes' \in Nat /\ damage' = damage
  BY DEF InDoubt, Fault, IInv, TypeOK
<1>b. UNCHANGED <<disk, ram, tree, oneShot, batch, told>>
  BY DEF InDoubt
<1>c. pc \in AfterRename
  BY DEF InDoubt, AfterRename
<1> USE <1>0, <1>b, <1>c, JobTypes DEF IInv, disk, tree, batch, told
<1>1. TypeOK'
  BY <1>a DEF TypeOK, PcValues
<1>2. ToldInv'
  BY DEF ToldInv
<1>3. DirInv'
  BY <1>a DEF DirInv, ManInv, AckInv, BakInv
<1>4. OpenInv'
  BY DEF OpenInv, Opening
<1>5. RunInv'
  BY DEF RunInv, AfterRename
<1>6. JobInv'
  BY DEF JobInv, BeforeRename, AfterRename
<1>7. BatchInv'
  BY DEF BatchInv, Opening
<1>8. RefInv'
  BY DEF RefInv, Pinned, BeforeRename, AfterRename
<1> QED
  BY <1>1, <1>2, <1>3, <1>4, <1>5, <1>6, <1>7, <1>8

\* A failure before the rename restores the old root.
LEMMA AbortStep == IInv /\ Abort => IInv'
<1> SUFFICES ASSUME IInv, Abort PROVE IInv'
  OBVIOUS
<1>0. pc \in BeforeRename /\ pc' = "idle" /\ job' = NoJob /\ root' = job.old
  BY DEF Abort, BeforeRename
<1>a. UNCHANGED <<pages, synced, dir, may, ram, free, retired, batchOpen, batchOld, overlayAt, overlay, acked, doubt>>
  BY DEF Abort, batch, told
<1>b. /\ Cur \in Manifest /\ ram = RamOf(Cur) /\ ram.undo = Cur.undo /\ Visible(Cur) /\ dir.ack = Cur.gen
      /\ Whole(synced, pages, undo, Cur) /\ job.old = Cur.root
      /\ job.call \in {"publish", "disconnect", "flush", "replay"}
      /\ job.call # "flush" => pend = << >> /\ ~batchOpen
      /\ overlayAt = Absent /\ overlay = {}
  <2>1. Cur # Absent /\ ram = RamOf(Cur) /\ Visible(Cur) /\ dir.ack = Cur.gen
    BY <1>0, Markers DEF IInv, RunInv, BeforeRename, Cur, DirInv, AckInv
  <2>2. Cur \in Manifest
    BY <2>1 DEF IInv, TypeOK, Cur
  <2>3. Whole(synced, pages, undo, Cur)
    BY <2>1 DEF IInv, ToldInv, Cur
  <2> QED
    BY <1>0, <2>1, <2>2, <2>3, JobTypes DEF IInv, JobInv
<1>c. faults' \in Nat /\ crashes' \in Nat /\ damage' = damage
  <2>1. faults \in Nat /\ crashes \in Nat
    BY DEF IInv, TypeOK
  <2>2. UNCHANGED env \/ Fault
    BY DEF Abort
  <2>3. CASE UNCHANGED env
    BY <2>1, <2>3 DEF env
  <2>4. CASE Fault
    BY <2>1, <2>4 DEF Fault
  <2> QED
    BY <2>2, <2>3, <2>4
<1>d. pend' = << >> /\ batchFailed' \in BOOLEAN /\ (job.call = "flush" => batchFailed')
  BY <1>b DEF Abort, Returned, IInv, TypeOK
<1>e. oneShot' \in BOOLEAN /\ needsReopen' \in BOOLEAN
  BY JobFields DEF Abort, IInv, TypeOK
<1>f. undo' \in [Slots -> {Absent, Torn} \cup Blocks]
  <2>1. CASE UNCHANGED undo
    BY <2>1 DEF IInv, TypeOK
  <2>2. ASSUME NEW n \in 0..Len(job.recs),
               undo' = [i \in Slots |-> IF n < Len(job.recs) /\ i = ram.undo + n + 1 THEN Torn
                                        ELSE Written(undo, ram.undo, job.recs, n)[i]]
        PROVE  undo' \in [Slots -> {Absent, Torn} \cup Blocks]
    <3>1. job.recs \in Seq(Blocks) /\ ram.undo \in Nat /\ undo \in [Slots -> {Absent, Torn} \cup Blocks]
      BY JobFields, RamFields DEF IInv, TypeOK
    <3> SUFFICES ASSUME NEW i \in Slots PROVE Written(undo, ram.undo, job.recs, n)[i] \in {Absent, Torn} \cup Blocks
      BY <2>2
    <3>2. CASE i \in ram.undo + 1 .. ram.undo + n
      <4>1. i - ram.undo \in 1..Len(job.recs)
        BY <3>1, <3>2
      <4> QED
        BY <4>1, <3>1, <3>2 DEF Written
    <3>3. CASE i \notin ram.undo + 1 .. ram.undo + n
      BY <3>1, <3>3 DEF Written
    <3> QED
      BY <3>2, <3>3
  <2> QED
    BY <2>1, <2>2 DEF Abort
<1>g. UNCHANGED undo \/ (pc = "undo" /\ \A i \in Slots : i <= ram.undo => undo'[i] = undo[i])
  <2>1. ASSUME NEW n \in 0..Len(job.recs),
               undo' = [i \in Slots |-> IF n < Len(job.recs) /\ i = ram.undo + n + 1 THEN Torn
                                        ELSE Written(undo, ram.undo, job.recs, n)[i]]
        PROVE  \A i \in Slots : i <= ram.undo => undo'[i] = undo[i]
    <3>1. ram.undo \in Nat
      BY RamFields DEF IInv, TypeOK
    <3> SUFFICES ASSUME NEW i \in Slots, i <= ram.undo PROVE undo'[i] = undo[i]
      OBVIOUS
    <3>2. i # ram.undo + n + 1 /\ i \notin ram.undo + 1 .. ram.undo + n
      BY <3>1 DEF Slots
    <3>3. Written(undo, ram.undo, job.recs, n)[i] = undo[i]
      BY <3>2 DEF Written
    <3> QED
      BY <2>1, <3>2, <3>3
  <2> QED
    BY <2>1 DEF Abort
<1>h. acked # Absent => Coherent(undo', acked)
  <2>1. CASE UNCHANGED undo
    BY <2>1 DEF IInv, ToldInv, Whole
  <2>2. CASE pc = "undo" /\ \A i \in Slots : i <= ram.undo => undo'[i] = undo[i]
    <3>1. Cur = acked
      BY <2>2 DEF IInv, RunInv, Cur
    <3> QED
      BY <3>1, <2>2, <1>b, CoherentAbove DEF Whole
  <2> QED
    BY <1>g, <2>1, <2>2
<1>i. doubt # Absent => undo' = undo
  BY <1>g DEF IInv, RunInv
<1> USE DEF IInv
<1>1. TypeOK'
  <2>1. root' \in Pages /\ pend' \in Seq(Blocks) /\ job' \in Job
    BY <1>0, <1>b, <1>d, JobTypes, ManifestFields
  <2> QED
    BY <1>0, <1>a, <1>c, <1>d, <1>e, <1>f, <2>1 DEF TypeOK, PcValues
<1>2. ToldInv'
  BY <1>a, <1>h, <1>i DEF ToldInv, Whole
<1>3. DirInv'
  BY <1>a, <1>c DEF DirInv, ManInv, AckInv, BakInv
<1>4. OpenInv'
  BY <1>0 DEF OpenInv, Opening
<1>5. RunInv'
  BY <1>0, <1>a, <1>b, <1>c, Markers DEF RunInv, AfterRename, Visible, Cur
<1>6. JobInv'
  BY <1>0 DEF JobInv, BeforeRename, AfterRename
<1>7. BatchInv'
  <2>1. Fits(<< >>, Cur) /\ Cur' = Cur
    <3> HIDE DEF IInv
    <3>1. Fits(<< >>, Cur)
      BY <1>b, EmptyFits DEF Whole
    <3>2. Cur' = Cur
      BY <1>a DEF Cur
    <3> QED
      BY <3>1, <3>2
  <2>2. batchOpen' => batchFailed'
    BY <1>a, <1>b, <1>d
  <2>3. pc' = "idle" /\ pend' = << >>
    BY <1>0, <1>d
  <2>4. root' = Cur'.root /\ overlayAt' = Absent /\ overlay' = {}
    BY <1>0, <1>a, <1>b, <2>1
  <2> HIDE DEF IInv
  <2> QED
    BY <2>1, <2>2, <2>3, <2>4 DEF BatchInv, Opening
<1>8. RefInv'
  BY <1>0, <1>a, JobTypes DEF RefInv, Pinned, BeforeRename, AfterRename
<1> QED
  BY <1>1, <1>2, <1>3, <1>4, <1>5, <1>6, <1>7, <1>8

=============================================================================
