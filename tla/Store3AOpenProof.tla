-------------------------- MODULE Store3AOpenProof --------------------------
(***************************************************************************)
(* The steps of an open, of its failures and of the environment (exit, power *)
(* loss, damage) keep the inductive invariant IInv: one lemma per action.  *)
(***************************************************************************)
EXTENDS Store3AData

---------------------------------------------------------------------------
(* The invariant is preserved: one lemma per action.                       *)

\* openWithOptions with an acknowledged primary keeps the invariant.
LEMMA OpenAckedStep == IInv /\ OpenAcked => IInv'
<1> SUFFICES ASSUME IInv, OpenAcked PROVE IInv'
  OBVIOUS
<1>0. /\ dir.man \in Manifest /\ dir \in may /\ dir \in Directory
      /\ acked \in {Absent} \cup Manifest /\ doubt \in {Absent} \cup Manifest
  BY DEF OpenAcked, Loads, IInv, DirInv, TypeOK
<1>a. dir.man = acked \/ (dir.man = doubt /\ doubt # Absent /\ dir.man # acked)
  BY <1>0, Markers DEF IInv, DirInv, ManInv
<1> USE ManifestFields, DirectoryFields, Markers, JobTypes
    DEF IInv, OpenAcked, Adopt, disk, tree, batch, caller, told, env
<1>1. TypeOK'
  BY <1>0 DEF TypeOK, PcValues
<1>2. ToldInv'
  BY DEF ToldInv
<1>3. DirInv'
  <2>1. CASE dir.man = acked
    <3> SUFFICES ASSUME NEW d \in may PROVE ManInv(d)' /\ AckInv(d)' /\ BakInv(d)'
      BY DEF DirInv
    <3>1. ManInv(d) /\ AckInv(d) /\ BakInv(d)
      BY DEF DirInv
    <3> QED
      BY <2>1, <3>1, <1>0 DEF ManInv, AckInv, BakInv, ToldInv
  <2>2. CASE dir.man # acked
    BY <2>2 DEF DirInv, ManInv, AckInv, BakInv
  <2> QED
    BY <2>1, <2>2
<1>4. OpenInv'
  BY DEF OpenInv, Opening
<1>5. RunInv'
  BY <1>0, <1>a DEF RunInv, Cur, Visible, AfterRename, BatchInv
<1>6. JobInv'
  BY DEF JobInv, BeforeRename, AfterRename
<1>7. BatchInv'
  <2>1. Cur' = dir.man
    BY <1>0, <1>a DEF Cur
  <2>2. Whole(synced, pages, undo, dir.man)
    BY <1>0, <1>a DEF ToldInv
  <2>3. Fits(<< >>, dir.man)
    BY <2>2, <1>0 DEF Whole, Coherent, Fits
  <2> QED
    BY <2>1, <2>3 DEF BatchInv, Opening
<1>8. RefInv'
  <2>1. pages[dir.man.root] # Absent
    BY <1>0 DEF Loads
  <2> QED
    BY <2>1, <1>0 DEF RefInv, Pinned, BatchInv, BeforeRename, AfterRename
<1> QED
  BY <1>1, <1>2, <1>3, <1>4, <1>5, <1>6, <1>7, <1>8

\* Taking up a primary whose acknowledgment is still to be written keeps the invariant.
LEMMA OpenUnackedStep == IInv /\ OpenUnacked => IInv'
<1> SUFFICES ASSUME IInv, OpenUnacked PROVE IInv'
  OBVIOUS
<1> USE ManifestFields, DirectoryFields, Markers, JobTypes
    DEF IInv, OpenUnacked, Adopt, disk, tree, batch, caller, told, env
<1>0. /\ dir.man \in Manifest /\ dir \in may /\ dir \in Directory
      /\ acked \in {Absent} \cup Manifest /\ doubt \in {Absent} \cup Manifest
  BY DEF Loads, DirInv, TypeOK
<1>a. dir.man = doubt /\ doubt # Absent
  BY <1>0 DEF DirInv, ManInv, AckInv, ToldInv
<1>1. TypeOK'
  BY <1>0 DEF TypeOK, PcValues
<1>2. ToldInv'
  BY DEF ToldInv
<1>3. DirInv'
  BY DEF DirInv, ManInv, AckInv, BakInv
<1>4. OpenInv'
  BY <1>0, <1>a DEF OpenInv, Opening, Visible
<1>5. RunInv'
  BY DEF RunInv, AfterRename
<1>6. JobInv'
  BY DEF JobInv, BeforeRename, AfterRename
<1>7. BatchInv'
  BY DEF BatchInv, Opening
<1>8. RefInv'
  <2>1. pages[dir.man.root] # Absent
    BY <1>0 DEF Loads
  <2> QED
    BY <2>1, <1>0 DEF RefInv, Pinned, BatchInv, BeforeRename, AfterRename
<1> QED
  BY <1>1, <1>2, <1>3, <1>4, <1>5, <1>6, <1>7, <1>8

\* Creating the empty tree of a new store keeps the invariant.
LEMMA OpenFreshStep == IInv /\ OpenFresh => IInv'
<1> SUFFICES ASSUME IInv, OpenFresh PROVE IInv'
  OBVIOUS
<1> USE ManifestFields, DirectoryFields, Markers, JobTypes, EmptyManifestType
    DEF IInv, OpenFresh, Adopt, disk, tree, batch, caller, told, env
<1>0. /\ dir \in may /\ dir.man = Absent /\ dir.bak = Absent /\ dir.ack = Absent
      /\ acked = Absent /\ pages \in [Pages -> PageContent] /\ {} \in PageContent
  BY DEF DirInv, AckInv, TypeOK, PageContent
<1>1. TypeOK'
  BY <1>0 DEF TypeOK, PcValues
<1>2. ToldInv'
  BY <1>0 DEF ToldInv, Whole
<1>3. DirInv'
  BY DEF DirInv, ManInv, AckInv, BakInv
<1>4. OpenInv'
  BY <1>0 DEF OpenInv, Opening, Visible
<1>5. RunInv'
  BY DEF RunInv, AfterRename
<1>6. JobInv'
  BY DEF JobInv, BeforeRename, AfterRename
<1>7. BatchInv'
  BY DEF BatchInv, Opening
<1>8. RefInv'
  BY <1>0 DEF RefInv, Pinned, BatchInv, BeforeRename, AfterRename
<1> QED
  BY <1>1, <1>2, <1>3, <1>4, <1>5, <1>6, <1>7, <1>8

\* publishInitialGeneration, page fsync.
LEMMA InitTreeStep == IInv /\ InitTree => IInv'
<1> SUFFICES ASSUME IInv, InitTree PROVE IInv'
  OBVIOUS
<1> USE DEF IInv, InitTree, disk, tree, batch, caller, told, env
<1>1. TypeOK'
  BY DEF TypeOK, PcValues
<1>2. ToldInv'
  BY DEF ToldInv, Whole
<1>3. DirInv'
  BY DEF DirInv, ManInv, AckInv, BakInv
<1>4. OpenInv'
  BY DEF OpenInv, Opening
<1>5. RunInv'
  BY DEF RunInv, AfterRename
<1>6. JobInv'
  BY DEF JobInv, BeforeRename, AfterRename
<1>7. BatchInv'
  BY DEF BatchInv, Opening
<1>8. RefInv'
  BY DEF RefInv, Pinned, BeforeRename, AfterRename
<1> QED
  BY <1>1, <1>2, <1>3, <1>4, <1>5, <1>6, <1>7, <1>8

\* publishInitialGeneration, rename of MANIFEST: generation 0 comes into doubt.
LEMMA InitManifestStep == IInv /\ InitManifest => IInv'
<1> SUFFICES ASSUME IInv, InitManifest PROVE IInv'
  OBVIOUS
<1> USE DEF IInv, InitManifest, Rename, disk, tree, batch, caller, told, env
<1>0. /\ acked = Absent /\ doubt' = EmptyManifest /\ job.man = EmptyManifest
      /\ dir \in Directory /\ dir.ack = Absent /\ dir.bak = Absent
      /\ doubt \in {Absent} \cup Manifest
      /\ pages[0] = {} /\ synced[0] = {}
  BY DEF OpenInv, TypeOK
<1>a. dir' \in Directory /\ dir'.man = EmptyManifest /\ dir'.ack = Absent /\ dir'.bak = Absent
  BY <1>0, SetMan, EmptyManifestType
<1> USE ManifestFields, DirectoryFields, Markers, EmptyManifestType
<1>1. TypeOK'
  BY <1>0, <1>a DEF TypeOK, PcValues
<1>2. ToldInv'
  <2>1. Coherent(undo, EmptyManifest)
    OBVIOUS
  <2> QED
    BY <2>1, <1>0 DEF ToldInv, Whole
<1>3. DirInv'
  <2> SUFFICES ASSUME NEW d \in may' PROVE ManInv(d)' /\ AckInv(d)' /\ BakInv(d)'
    BY DEF DirInv
  <2>1. CASE d \in may
    <3>1. ManInv(d) /\ AckInv(d) /\ BakInv(d)
      BY <2>1 DEF DirInv
    <3>2. d.ack = Absent /\ d.bak = Absent /\ d.man \in {Torn, Absent, EmptyManifest}
      BY <3>1, <1>0 DEF ManInv, AckInv, BakInv, ToldInv
    <3> QED
      BY <3>2, <1>0, <1>a DEF ManInv, AckInv, BakInv
  <2>2. CASE d = dir'
    BY <2>2, <1>0, <1>a DEF ManInv, AckInv, BakInv
  <2> QED
    BY <2>1, <2>2
<1>4. OpenInv'
  BY <1>0, <1>a DEF OpenInv, Opening, Visible
<1>5. RunInv'
  BY DEF RunInv, AfterRename
<1>6. JobInv'
  BY DEF JobInv, BeforeRename, AfterRename
<1>7. BatchInv'
  BY DEF BatchInv, Opening
<1>8. RefInv'
  BY <1>0 DEF RefInv, Pinned, BeforeRename, AfterRename
<1> QED
  BY <1>1, <1>2, <1>3, <1>4, <1>5, <1>6, <1>7, <1>8

\* publishInitialGeneration, directory fsync.
LEMMA InitSyncStep == IInv /\ InitSync => IInv'
<1> SUFFICES ASSUME IInv, InitSync PROVE IInv'
  OBVIOUS
<1> USE DEF IInv, InitSync, SyncDir, disk, tree, batch, caller, told, env
<1>1. TypeOK'
  BY DEF TypeOK, PcValues
<1>2. ToldInv'
  BY DEF ToldInv
<1>3. DirInv'
  BY DEF DirInv, ManInv, AckInv, BakInv
<1>4. OpenInv'
  BY DEF OpenInv, Opening, Visible
<1>5. RunInv'
  BY DEF RunInv, AfterRename
<1>6. JobInv'
  BY DEF JobInv, BeforeRename, AfterRename
<1>7. BatchInv'
  BY DEF BatchInv, Opening
<1>8. RefInv'
  BY DEF RefInv, Pinned, BeforeRename, AfterRename
<1> QED
  BY <1>1, <1>2, <1>3, <1>4, <1>5, <1>6, <1>7, <1>8

\* writeAck on behalf of open, rename of ACK.
LEMMA OpenAckStep == IInv /\ OpenAck => IInv'
<1> SUFFICES ASSUME IInv, OpenAck PROVE IInv'
  OBVIOUS
<1> USE DEF IInv, OpenAck, Rename, disk, tree, batch, caller, told, env
<1>a. /\ job.man = doubt /\ doubt \in Manifest /\ Visible(doubt)
      /\ dir \in Directory /\ dir \in may /\ doubt.gen \in Nat
  BY ManifestFields DEF OpenInv, TypeOK, DirInv
<1>b. /\ dir' \in Directory /\ dir'.ack = doubt.gen
      /\ dir'.man = dir.man /\ dir'.bak = dir.bak
  BY <1>a, SetAck
<1>0. /\ job.man = doubt /\ doubt \in Manifest /\ Visible(doubt)
      /\ dir \in may /\ dir' \in Directory /\ dir'.ack = doubt.gen
      /\ dir'.man = dir.man /\ dir'.bak = dir.bak
  BY <1>a, <1>b
<1> USE ManifestFields, Markers
<1>1. TypeOK'
  BY <1>0 DEF TypeOK, PcValues
<1>2. ToldInv'
  BY DEF ToldInv
<1>3. DirInv'
  <2> SUFFICES ASSUME NEW d \in may' PROVE ManInv(d)' /\ AckInv(d)' /\ BakInv(d)'
    BY DEF DirInv
  <2>1. CASE d \in may
    BY <2>1, <1>0 DEF DirInv, ManInv, AckInv, BakInv
  <2>2. CASE d = dir'
    <3>1. ManInv(dir) /\ BakInv(dir)
      BY <1>0 DEF DirInv
    <3> QED
      BY <2>2, <3>1, <1>0 DEF ManInv, AckInv, BakInv, Visible
  <2> QED
    BY <2>1, <2>2
<1>4. OpenInv'
  BY <1>0 DEF OpenInv, Opening, Visible
<1>5. RunInv'
  BY DEF RunInv, AfterRename
<1>6. JobInv'
  BY DEF JobInv, BeforeRename, AfterRename
<1>7. BatchInv'
  BY DEF BatchInv, Opening
<1>8. RefInv'
  BY DEF RefInv, Pinned, BeforeRename, AfterRename
<1> QED
  BY <1>1, <1>2, <1>3, <1>4, <1>5, <1>6, <1>7, <1>8

\* writeAck on behalf of open, directory fsync: the generation is reported.
LEMMA OpenAckSyncStep == IInv /\ OpenAckSync => IInv'
<1> SUFFICES ASSUME IInv, OpenAckSync PROVE IInv'
  OBVIOUS
<1> USE DEF IInv, OpenAckSync, SyncDir, Report, disk, tree, batch, caller, told, env
<1> USE ManifestFields, DirectoryFields, Markers
<1>0. /\ job.man = doubt /\ doubt \in Manifest /\ Visible(doubt) /\ dir.ack = doubt.gen
      /\ dir \in may /\ BakInv(dir) /\ acked \in {Absent} \cup Manifest
      /\ ram = RamOf(doubt) /\ root = doubt.root
      /\ acked' = doubt /\ doubt' = Absent /\ Cur' = doubt
  BY DEF OpenInv, TypeOK, DirInv, Opening, Cur
<1>1. TypeOK'
  BY <1>0 DEF TypeOK, PcValues
<1>2. ToldInv'
  BY <1>0 DEF ToldInv
<1>3. DirInv'
  BY <1>0 DEF DirInv, ManInv, AckInv, BakInv, Visible, ToldInv
<1>4. OpenInv'
  BY DEF OpenInv, Opening
<1>5. RunInv'
  BY <1>0 DEF RunInv, AfterRename, Visible
<1>6. JobInv'
  BY DEF JobInv, BeforeRename, AfterRename
<1>7. BatchInv'
  <2>1. Fits(<< >>, doubt)
    BY <1>0 DEF ToldInv, Whole, Coherent, Fits
  <2> QED
    BY <2>1, <1>0 DEF BatchInv, Opening
<1>8. RefInv'
  BY <1>0 DEF RefInv, Pinned, BeforeRename, AfterRename
<1> QED
  BY <1>1, <1>2, <1>3, <1>4, <1>5, <1>6, <1>7, <1>8

\* Damage to MANIFEST, with the count of damages above zero after the step, keeps
\* the directory invariant.
LEMMA DamagedDirectory ==
  ASSUME TypeOK, DirInv, Overwrite(Torn) \/ Overwrite(Absent),
         UNCHANGED told, damage' # 0
  PROVE  /\ DirInv' /\ dir' \in Directory /\ may' \subseteq Directory
         /\ dir'.man \in {Torn, Absent} /\ dir'.bak = dir.bak /\ dir'.ack = dir.ack
         /\ \A d \in may' : \E e \in may : d.bak = e.bak
<1>0. dir \in Directory /\ may \subseteq Directory /\ dir \in may
  BY DEF TypeOK, DirInv
<1>1. PICK x \in {Torn, Absent} : Overwrite(x)
  OBVIOUS
<1> DEFINE put(d) == IF d.man = dir.man THEN [d EXCEPT !.man = x] ELSE d
<1>2. dir' = put(dir) /\ may' = {put(d) : d \in may}
  BY <1>1 DEF Overwrite
<1>3. dir' \in Directory /\ dir'.man = x /\ dir'.bak = dir.bak /\ dir'.ack = dir.ack
  BY <1>0, <1>2, SetMan
<1>4. ASSUME NEW d \in may'
      PROVE  /\ ManInv(d)' /\ AckInv(d)' /\ BakInv(d)' /\ d \in Directory
             /\ \E e \in may : d.bak = e.bak
  <2>1. PICK e \in may : d = put(e)
    BY <1>2
  <2>2. /\ e \in Directory /\ d \in Directory /\ d.bak = e.bak /\ d.ack = e.ack
        /\ IF e.man = dir.man THEN d.man = x ELSE d.man = e.man
    <3>1. CASE e.man = dir.man
      <4>1. e \in Directory /\ x \in {Absent, Torn} \cup Manifest /\ d = [e EXCEPT !.man = x]
        BY <1>0, <2>1, <3>1
      <4> QED
        BY <3>1, <4>1, SetMan
    <3>2. CASE e.man # dir.man
      BY <1>0, <2>1, <3>2
    <3> QED
      BY <3>1, <3>2
  <2>3. ManInv(e) /\ AckInv(e) /\ BakInv(e)
    BY DEF DirInv
  <2>4. ManInv(d)'
    BY <2>2, <2>3, Markers DEF ManInv, told, TypeOK
  <2>5. AckInv(d)' /\ BakInv(d)'
    BY <2>2, <2>3, <1>3 DEF AckInv, BakInv, told
  <2> QED
    BY <2>2, <2>4, <2>5
<1>5. dir' \in may'
  BY <1>0, <1>2
<1> QED
  BY <1>3, <1>4, <1>5 DEF DirInv

\* Falling back to the acknowledged MANIFEST.bak keeps the invariant.
LEMMA OpenBackupStep == IInv /\ OpenBackup => IInv'
<1> SUFFICES ASSUME IInv, OpenBackup PROVE IInv'
  OBVIOUS
<1>0. /\ dir.bak \in Manifest /\ dir.ack = dir.bak.gen /\ dir.man # Absent
      /\ dir \in may /\ dir \in Directory /\ pages[dir.bak.root] = dir.bak.coins
      /\ acked \in {Absent} \cup Manifest /\ doubt \in {Absent} \cup Manifest
      /\ ManInv(dir) /\ AckInv(dir) /\ BakInv(dir) /\ ~Loads(dir.man)
      /\ undo \in [Slots -> {Absent, Torn} \cup Blocks]
  BY DEF OpenBackup, Loads, IInv, DirInv, TypeOK
<1>a. dir.bak \in {acked, doubt}
  <2>1. acked # Absent => acked \in Manifest /\ acked.gen \in Nat
    BY <1>0, ManifestFields
  <2>2. doubt # Absent => doubt \in Manifest /\ doubt.gen \in Nat
    BY <1>0, ManifestFields
  <2>3. dir.ack # Absent /\ dir.bak # Absent /\ dir.bak.gen \in Nat
    BY <1>0, Markers, ManifestFields
  <2>4. acked # Absent /\ doubt # Absent => doubt.gen = acked.gen + 1
    BY DEF IInv, ToldInv
  <2>5. \/ acked # Absent /\ dir.ack = acked.gen
        \/ doubt # Absent /\ dir.ack = doubt.gen
    BY <1>0, <2>3 DEF AckInv
  <2>6. \/ acked # Absent /\ dir.bak = acked
        \/ acked # Absent /\ dir.bak.gen < acked.gen
        \/ doubt # Absent /\ dir.bak = doubt
    BY <1>0, <2>3 DEF BakInv
  <2>7. acked # Absent /\ doubt # Absent => dir.bak = acked \/ dir.bak = doubt
    BY <1>0 DEF BakInv
  <2> QED
    BY <1>0, <2>1, <2>2, <2>3, <2>4, <2>5, <2>6, <2>7
<1>b. ASSUME NEW m \in Manifest, Whole(synced, pages, undo, m) PROVE Loads(m)
  BY <1>b, ManifestFields DEF Loads, Whole, Coherent
<1>c. dir.man = Torn
  BY <1>0, <1>b, Markers DEF IInv, ToldInv, ManInv
<1>d. damage # 0
  BY <1>0, <1>a, <1>c, Markers DEF IInv, ManInv, ToldInv, AckInv
<1> USE ManifestFields, Markers, JobTypes
    DEF IInv, OpenBackup, Adopt, disk, tree, batch, caller, told, env
<1>1. TypeOK'
  BY <1>0 DEF TypeOK, PcValues
<1>2. ToldInv'
  BY DEF ToldInv
<1>3. DirInv'
  BY DEF DirInv, ManInv, AckInv, BakInv
<1>4. OpenInv'
  BY <1>0, <1>a, <1>c, <1>d DEF OpenInv, Opening
<1>5. RunInv'
  BY DEF RunInv, AfterRename
<1>6. JobInv'
  BY DEF JobInv, BeforeRename, AfterRename
<1>7. BatchInv'
  BY DEF BatchInv, Opening
<1>8. RefInv'
  BY <1>0 DEF RefInv, Pinned, BatchInv, BeforeRename, AfterRename
<1> QED
  BY <1>1, <1>2, <1>3, <1>4, <1>5, <1>6, <1>7, <1>8

\* Rewriting MANIFEST in place from the backup keeps the invariant.
LEMMA RepairManifestStep == IInv /\ RepairManifest => IInv'
<1> SUFFICES ASSUME IInv, RepairManifest PROVE IInv'
  OBVIOUS
<1>0. /\ job.man \in Manifest /\ job.man \in {acked, doubt} /\ dir.man = Torn
      /\ dir.bak = job.man /\ dir.ack = job.man.gen /\ damage # 0
      /\ dir \in may /\ dir \in Directory /\ may \subseteq Directory
      /\ acked \in {Absent} \cup Manifest /\ doubt \in {Absent} \cup Manifest
  BY JobFields DEF RepairManifest, IInv, OpenInv, DirInv, TypeOK
<1> DEFINE put(d) == IF d.man = dir.man THEN [d EXCEPT !.man = job.man] ELSE d
<1>a. dir' = put(dir) /\ may' = {put(d) : d \in may}
  BY DEF RepairManifest, Overwrite
<1>b. /\ dir' \in Directory /\ dir'.man = job.man /\ dir'.bak = dir.bak /\ dir'.ack = dir.ack
  BY <1>0, <1>a, SetMan
<1>c. ASSUME NEW d \in may'
      PROVE  \E e \in may : /\ d \in Directory /\ d.bak = e.bak /\ d.ack = e.ack
                            /\ d.man = IF e.man = Torn THEN job.man ELSE e.man
  <2>1. PICK e \in may : d = put(e)
    BY <1>a
  <2>2. CASE e.man = dir.man
    <3>1. e \in Directory /\ job.man \in {Absent, Torn} \cup Manifest /\ d = [e EXCEPT !.man = job.man]
      BY <1>0, <2>1, <2>2
    <3> QED
      BY <1>0, <2>2, <3>1, SetMan
  <2>3. CASE e.man # dir.man
    BY <1>0, <2>1, <2>3
  <2> QED
    BY <2>2, <2>3
<1>d. dir' \in may'
  BY <1>0, <1>a
<1> HIDE DEF put
<1> USE DEF IInv, RepairManifest, tree, batch, caller, told, env
<1>1. TypeOK'
  BY <1>0, <1>b, <1>c DEF TypeOK, PcValues
<1>2. ToldInv'
  BY DEF ToldInv
<1>3. DirInv'
  <2> SUFFICES ASSUME NEW d \in may' PROVE ManInv(d)' /\ AckInv(d)' /\ BakInv(d)'
    BY <1>d DEF DirInv
  <2>1. PICK e \in may : /\ d.bak = e.bak /\ d.ack = e.ack
                         /\ d.man = IF e.man = Torn THEN job.man ELSE e.man
    BY <1>c
  <2>2. ManInv(e) /\ AckInv(e) /\ BakInv(e)
    BY DEF DirInv
  <2>3. ManInv(d)'
    BY <1>0, <1>b, <2>1, <2>2, Markers DEF ManInv
  <2>4. AckInv(d)' /\ BakInv(d)'
    BY <1>0, <1>b, <2>1, <2>2 DEF AckInv, BakInv
  <2> QED
    BY <2>3, <2>4
<1>4. OpenInv'
  BY <1>0, <1>b DEF OpenInv, Opening
<1>5. RunInv'
  BY DEF RunInv, AfterRename
<1>6. JobInv'
  BY DEF JobInv, BeforeRename, AfterRename
<1>7. BatchInv'
  BY DEF BatchInv, Opening
<1>8. RefInv'
  BY DEF RefInv, Pinned, BeforeRename, AfterRename
<1> QED
  BY <1>1, <1>2, <1>3, <1>4, <1>5, <1>6, <1>7, <1>8

\* The directory fsync of the repair: the backup generation is the reported one.
LEMMA RepairSyncStep == IInv /\ RepairSync => IInv'
<1> SUFFICES ASSUME IInv, RepairSync PROVE IInv'
  OBVIOUS
<1> USE DEF IInv, RepairSync, SyncDir, Report, disk, tree, batch, caller, told, env
<1>0. /\ job.man \in Manifest /\ job.man \in {acked, doubt}
      /\ dir.man \in {job.man, Torn}
      /\ dir.bak = job.man /\ dir.ack = job.man.gen /\ damage # 0
      /\ ram = RamOf(job.man) /\ root = job.man.root
  BY JobFields DEF OpenInv, TypeOK, Opening
<1>a. acked' = job.man /\ doubt' = Absent /\ Cur' = job.man
  BY DEF Cur
<1>b. Whole(synced, pages, undo, job.man)
  BY <1>0, Markers DEF ToldInv
<1> USE ManifestFields, Markers
<1>1. TypeOK'
  BY <1>0 DEF TypeOK, PcValues
<1>2. ToldInv'
  BY <1>b DEF ToldInv
<1>3. DirInv'
  BY <1>0 DEF DirInv, ManInv, AckInv, BakInv
<1>4. OpenInv'
  BY DEF OpenInv, Opening
<1>5. RunInv'
  BY <1>0, <1>a DEF RunInv, AfterRename, Visible
<1>6. JobInv'
  BY DEF JobInv, BeforeRename, AfterRename
<1>7. BatchInv'
  <2>1. Fits(<< >>, job.man)
    BY <1>0, <1>b DEF Whole, Coherent, Fits
  <2> QED
    BY <2>1, <1>0, <1>a DEF BatchInv, Opening
<1>8. RefInv'
  BY <1>0 DEF RefInv, Pinned, BeforeRename, AfterRename
<1> QED
  BY <1>1, <1>2, <1>3, <1>4, <1>5, <1>6, <1>7, <1>8

\* A closed instance satisfies what the invariant says of the instance.
LEMMA ClosedInstance ==
  ASSUME TypeOK, Fresh, pc' = "closed", UNCHANGED told
  PROVE  /\ OpenInv' /\ RunInv' /\ JobInv' /\ BatchInv' /\ RefInv'
         /\ job' \in Job /\ ram' \in Ram /\ root' \in Pages
  BY JobTypes, EmptyManifestType, Markers
     DEF Fresh, OpenInv, Opening, RunInv, AfterRename, JobInv, BeforeRename, BatchInv, RefInv, Pinned, told

\* A closed instance over a well-typed disk is well typed.
LEMMA ClosedTypes ==
  ASSUME TypeOK, Fresh, pc' = "closed", UNCHANGED told,
         pages' \in [Pages -> PageContent], synced' \in [Pages -> PageContent],
         UNCHANGED undo, dir' \in Directory, may' \subseteq Directory,
         faults' \in Nat, crashes' \in Nat, damage' \in Nat
  PROVE  TypeOK'
<1>1. job' \in Job /\ ram' \in Ram /\ root' \in Pages
  BY ClosedInstance
<1>2. /\ free' = {} /\ retired' = {} /\ batchOld' = 0 /\ overlayAt' = Absent /\ overlay' = {}
      /\ pend' = << >>
  BY DEF Fresh
<1>3. /\ needsReopen' \in BOOLEAN /\ oneShot' \in BOOLEAN /\ batchOpen' \in BOOLEAN
      /\ batchFailed' \in BOOLEAN
  BY DEF Fresh
<1>4. pend' \in Seq(Blocks)
  BY <1>2
<1>5. free' \subseteq Pages /\ retired' \subseteq Pages /\ overlay' \subseteq Blocks
  BY <1>2
<1>6. batchOld' \in Pages /\ overlayAt' \in {Absent} \cup Pages
  BY <1>2, EmptyManifestType
<1>7. pc' \in PcValues
  BY DEF PcValues
<1>8. /\ acked' \in {Absent} \cup Manifest /\ doubt' \in {Absent} \cup Manifest
      /\ undo' = undo
  BY DEF TypeOK, told
<1> QED
  BY <1>1, <1>3, <1>4, <1>5, <1>6, <1>7, <1>8 DEF TypeOK

\* An open that fails at any of its writes keeps the invariant.
LEMMA OpenFailsStep == IInv /\ OpenFails => IInv'
<1> SUFFICES ASSUME IInv, OpenFails PROVE IInv'
  OBVIOUS
<1> USE DEF IInv, OpenFails, Fault
<1>0. /\ OpenInv' /\ RunInv' /\ JobInv' /\ BatchInv' /\ RefInv'
      /\ job' \in Job /\ ram' \in Ram /\ root' \in Pages
  BY ClosedInstance
<1>a. DirInv' /\ dir' \in Directory /\ may' \subseteq Directory
  <2>1. CASE UNCHANGED <<dir, may>>
    BY <2>1 DEF DirInv, ManInv, AckInv, BakInv, told, TypeOK
  <2>2. CASE pc = "repair" /\ Overwrite(Torn)
    BY <2>2, DamagedDirectory DEF OpenInv
  <2> QED
    BY <2>1, <2>2
<1>1. TypeOK'
  <2>1. /\ TypeOK /\ Fresh /\ pc' = "closed" /\ UNCHANGED told /\ UNCHANGED <<pages, synced, undo>>
        /\ faults' \in Nat /\ crashes' \in Nat /\ damage' \in Nat
    BY DEF TypeOK
  <2>2. pages' \in [Pages -> PageContent] /\ synced' \in [Pages -> PageContent]
    BY <2>1 DEF TypeOK
  <2> HIDE DEF IInv, OpenFails
  <2> QED
    BY <1>a, <2>1, <2>2, ClosedTypes
<1>2. ToldInv'
  BY DEF ToldInv, told
<1> QED
  BY <1>0, <1>a, <1>1, <1>2

\* The end of the process, between any two steps, keeps the invariant.
LEMMA ExitStep == IInv /\ Exit => IInv'
<1> SUFFICES ASSUME IInv, Exit PROVE IInv'
  OBVIOUS
<1> USE DEF IInv, Exit, disk
<1>0. /\ OpenInv' /\ RunInv' /\ JobInv' /\ BatchInv' /\ RefInv'
      /\ job' \in Job /\ ram' \in Ram /\ root' \in Pages
  BY ClosedInstance
<1>1. TypeOK'
  <2>1. /\ TypeOK /\ Fresh /\ pc' = "closed" /\ UNCHANGED told
        /\ UNCHANGED <<pages, synced, undo, dir, may>>
    BY DEF disk
  <2>2. faults' \in Nat /\ crashes' \in Nat /\ damage' \in Nat
    BY DEF TypeOK, env
  <2>3. /\ pages' \in [Pages -> PageContent] /\ synced' \in [Pages -> PageContent]
        /\ dir' \in Directory /\ may' \subseteq Directory
    BY <2>1 DEF TypeOK
  <2> HIDE DEF IInv, Exit
  <2> QED
    BY <2>1, <2>2, <2>3, ClosedTypes
<1>2. ToldInv'
  BY DEF ToldInv, told
<1>3. DirInv'
  BY DEF DirInv, ManInv, AckInv, BakInv, told, env
<1> QED
  BY <1>0, <1>1, <1>2, <1>3

\* A power failure, whatever it loses or tears, keeps the invariant.
LEMMA PowerLossStep == IInv /\ PowerLoss => IInv'
<1> SUFFICES ASSUME IInv, PowerLoss PROVE IInv'
  OBVIOUS
<1>0. /\ OpenInv' /\ RunInv' /\ JobInv' /\ BatchInv' /\ RefInv'
      /\ job' \in Job /\ ram' \in Ram /\ root' \in Pages
  BY ClosedInstance DEF IInv, PowerLoss
<1>a. pages' \in [Pages -> PageContent] /\ \A p \in Pages : pages[p] = synced[p] => pages'[p] = pages[p]
  <2> DEFINE dirty == {p \in Pages : pages[p] # synced[p]}
  <2>1. PICK lost \in SUBSET dirty : \E torn \in SUBSET (dirty \ lost) :
           pages' = [p \in Pages |-> IF p \in lost THEN synced[p]
                                     ELSE IF p \in torn THEN Torn ELSE pages[p]]
    BY DEF PowerLoss
  <2>2. PICK torn \in SUBSET (dirty \ lost) :
           pages' = [p \in Pages |-> IF p \in lost THEN synced[p]
                                     ELSE IF p \in torn THEN Torn ELSE pages[p]]
    BY <2>1
  <2>3. Torn \in PageContent
    BY DEF PageContent
  <2> QED
    BY <2>2, <2>3 DEF IInv, TypeOK
<1>b. synced' = pages' /\ dir' \in may /\ may' = {dir'} /\ UNCHANGED <<undo, acked, doubt, faults, damage>>
  BY DEF PowerLoss, told
<1>c. \A m \in Manifest : Whole(synced, pages, undo, m) => Whole(synced, pages, undo, m)'
  BY <1>a, <1>b, ManifestFields DEF Whole
<1>1. TypeOK'
  <2>1. dir' \in Directory /\ may' \subseteq Directory
    BY <1>b DEF IInv, TypeOK
  <2>2. crashes' \in Nat
    BY DEF PowerLoss, IInv, TypeOK
  <2> QED
    <3>1. TypeOK /\ Fresh /\ pc' = "closed" /\ UNCHANGED told
      BY DEF IInv, PowerLoss
    <3>2. faults' \in Nat /\ damage' \in Nat
      BY <1>b, <3>1 DEF TypeOK
    <3> QED
      BY <1>a, <1>b, <2>1, <2>2, <3>1, <3>2, ClosedTypes
<1>2. ToldInv'
  BY <1>a, <1>b, ManifestFields, Markers DEF IInv, TypeOK, ToldInv, Whole
<1>3. DirInv'
  BY <1>b DEF IInv, DirInv, ManInv, AckInv, BakInv
<1> QED
  BY <1>0, <1>1, <1>2, <1>3 DEF IInv

\* Damage to the file named MANIFEST keeps the invariant.
LEMMA DamageManifestStep == IInv /\ DamageManifest => IInv'
<1> SUFFICES ASSUME IInv, DamageManifest PROVE IInv'
  OBVIOUS
<1> USE DEF IInv, DamageManifest, tree, batch, caller
<1>0. damage' # 0 /\ damage' \in Nat
  BY DEF TypeOK
<1>a. /\ DirInv' /\ dir' \in Directory /\ may' \subseteq Directory
      /\ dir'.man \in {Torn, Absent} /\ dir'.bak = dir.bak /\ dir'.ack = dir.ack
      /\ \A d \in may' : \E e \in may : d.bak = e.bak
  <2>1. Overwrite(Torn) \/ Overwrite(Absent)
    OBVIOUS
  <2> QED
    BY <1>0, <2>1, DamagedDirectory
<1>e. pc # "closed" => dir'.man = Torn
  <2> SUFFICES ASSUME pc # "closed" PROVE dir'.man = Torn
    OBVIOUS
  <2>1. Overwrite(Torn) /\ dir \in Directory
    BY DEF TypeOK
  <2>2. dir' = [dir EXCEPT !.man = Torn]
    BY <2>1 DEF Overwrite
  <2>3. Torn \in {Absent, Torn} \cup Manifest
    OBVIOUS
  <2> HIDE DEF IInv, DamageManifest
  <2> QED
    BY <2>1, <2>2, <2>3, SetMan
<1>b. UNCHANGED <<acked, doubt, faults, crashes>>
  BY DEF told
<1> HIDE DEF DamageManifest
<1>c. UNCHANGED <<pages, synced, undo, pc, job, ram, root, free, retired, needsReopen, oneShot,
                  batchOpen, batchOld, overlayAt, overlay, pend, batchFailed>>
  BY DEF DamageManifest
<1>d. dir.man \in Manifest
  BY DEF DamageManifest
<1> USE <1>b, <1>c
<1>1. TypeOK'
  BY <1>0, <1>a DEF TypeOK
<1>2. ToldInv'
  BY DEF ToldInv
<1>4. OpenInv'
  BY <1>0, <1>a, <1>d, <1>e, Markers DEF OpenInv, Visible
<1>5. RunInv'
  BY <1>0, <1>a, <1>e DEF RunInv, Cur, Visible, AfterRename
<1>6. JobInv'
  BY DEF JobInv, Cur
<1>7. BatchInv'
  BY DEF BatchInv, Cur, View
<1>8. RefInv'
  BY DEF RefInv, Pinned
<1> QED
  BY <1>a, <1>1, <1>2, <1>4, <1>5, <1>6, <1>7, <1>8

=============================================================================
