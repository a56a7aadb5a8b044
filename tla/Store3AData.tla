---------------------------- MODULE Store3AData -----------------------------
(***************************************************************************)
(* Facts about the records of Store3A that its proofs cite.                *)
(***************************************************************************)
EXTENDS Store3AInv, TLAPS

---------------------------------------------------------------------------
(* Facts about the data.                                                   *)

\* The fields of a manifest have their types.
LEMMA ManifestFields ==
  \A m \in Manifest : /\ m.gen \in Nat /\ m.undo \in Nat /\ m.root \in Pages
                      /\ m.coins \in SUBSET Blocks /\ m.tip \in {Absent} \cup Blocks
  BY DEF Manifest

\* The markers are no manifest, number, page, block or set of coins.
LEMMA Markers ==
  /\ Absent # Torn /\ Absent \notin Manifest /\ Torn \notin Manifest
  /\ Absent \notin Nat /\ Absent \notin Pages /\ Absent \notin Blocks /\ Torn \notin Blocks
  /\ \A c \in SUBSET Blocks : c # Absent /\ c # Torn
  BY MarkerAssumption DEF Pages

\* The empty store is a well-formed generation 0, whatever the undo log holds.
LEMMA EmptyManifestType ==
  /\ EmptyManifest \in Manifest /\ 0 \in Pages
  /\ EmptyManifest.root = 0 /\ EmptyManifest.coins = {} /\ EmptyManifest.gen = 0
  /\ \A u : Coherent(u, EmptyManifest)
  BY BoundsAssumption DEF EmptyManifest, Manifest, Pages, Coherent

\* A directory is its three names.
LEMMA DirectoryFields ==
  \A d \in Directory : /\ d.man \in {Absent, Torn} \cup Manifest
                       /\ d.bak \in {Absent, Torn} \cup Manifest
                       /\ d.ack \in {Absent} \cup Nat
  BY DEF Directory

\* Replacing one name of a directory leaves the others.
LEMMA SetMan ==
  ASSUME NEW d \in Directory, NEW m \in {Absent, Torn} \cup Manifest, NEW e, e = [d EXCEPT !.man = m]
  PROVE  e \in Directory /\ e.man = m /\ e.bak = d.bak /\ e.ack = d.ack
  BY DEF Directory

\* The same for MANIFEST.bak.
LEMMA SetBak ==
  ASSUME NEW d \in Directory, NEW m \in {Absent, Torn} \cup Manifest, NEW e, e = [d EXCEPT !.bak = m]
  PROVE  e \in Directory /\ e.bak = m /\ e.man = d.man /\ e.ack = d.ack
  BY DEF Directory

\* The same for ACK.
LEMMA SetAck ==
  ASSUME NEW d \in Directory, NEW n \in Nat, NEW e, e = [d EXCEPT !.ack = n]
  PROVE  e \in Directory /\ e.ack = n /\ e.man = d.man /\ e.bak = d.bak
  BY DEF Directory

\* The instance's records have their types.
LEMMA JobTypes ==
  /\ NoJob \in Job /\ NoJob.man = Absent /\ NoJob.recs = << >> /\ NoRam \in Ram
  /\ << >> \in Seq(Blocks)
  /\ \A m \in Manifest : /\ RamOf(m) \in Ram /\ RamOf(m).gen = m.gen
                         /\ RamOf(m).undo = m.undo /\ RamOf(m).tip = m.tip
                         /\ [NoJob EXCEPT !.man = m] \in Job
                         /\ [NoJob EXCEPT !.man = m].man = m
<1>1. << >> \in Seq(Blocks)
  OBVIOUS
<1>2. NoJob \in Job /\ NoJob.man = Absent /\ NoJob.recs = << >>
  BY <1>1, EmptyManifestType DEF NoJob, Job
<1>3. NoRam \in Ram
  BY DEF NoRam, Ram
<1>4. ASSUME NEW m \in Manifest
      PROVE  /\ RamOf(m) \in Ram /\ RamOf(m).gen = m.gen
             /\ RamOf(m).undo = m.undo /\ RamOf(m).tip = m.tip
  BY ManifestFields DEF RamOf, Ram
<1>5. ASSUME NEW m \in Manifest
      PROVE  [NoJob EXCEPT !.man = m] \in Job /\ [NoJob EXCEPT !.man = m].man = m
  BY <1>1, EmptyManifestType DEF NoJob, Job
<1> QED
  BY <1>1, <1>2, <1>3, <1>4, <1>5

\* The fields of a job have their types.
LEMMA JobFields ==
  \A j \in Job : /\ j.call \in {"none", "publish", "disconnect", "flush", "replay"}
                 /\ j.man \in {Absent} \cup Manifest /\ j.recs \in Seq(Blocks)
                 /\ j.old \in Pages /\ j.took \in BOOLEAN
  BY DEF Job

\* The fields of the state in memory have their types.
LEMMA RamFields ==
  \A r \in Ram : r.gen \in Nat /\ r.undo \in Nat /\ r.tip \in {Absent} \cup Blocks
  BY DEF Ram

\* An empty list of blocks fits on any coherent manifest.
LEMMA EmptyFits ==
  ASSUME NEW u, NEW m \in Manifest, Coherent(u, m)
  PROVE  Fits(<< >>, m)
<1>1. m.undo \in 0..MaxHeight /\ Len(<< >>) = 0
  BY DEF Coherent
<1> QED
  BY <1>1, BoundsAssumption DEF Fits

=============================================================================
