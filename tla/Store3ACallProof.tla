-------------------------- MODULE Store3ACallProof --------------------------
(***************************************************************************)
(* The calls of the node up to their first barrier, and their failures, keep *)
(* the inductive invariant IInv, for a disciplined caller.                 *)
(***************************************************************************)
EXTENDS Store3AData

---------------------------------------------------------------------------
(* Calls.                                                                  *)

\* Where an instance that takes calls stands.
LEMMA ReadyFacts ==
  ASSUME IInv, Ready
  PROVE  /\ Cur \in Manifest /\ ram = RamOf(Cur) /\ ram.gen = Cur.gen
         /\ ram.undo = Cur.undo /\ ram.tip = Cur.tip
         /\ Whole(synced, pages, undo, Cur) /\ Pinned(Cur.root) /\ Pinned(root)
<1>1. Cur # Absent /\ ram = RamOf(Cur)
  BY DEF IInv, Ready, RunInv
<1>2. Cur \in Manifest /\ Whole(synced, pages, undo, Cur)
  BY <1>1 DEF IInv, TypeOK, ToldInv, Cur
<1>3. Pinned(root) /\ Cur.root \notin free
  BY <1>1 DEF IInv, RefInv, Ready, Cur
<1>4. pages[Cur.root] # Absent
  BY <1>2, ManifestFields, Markers DEF Whole
<1> QED
  BY <1>1, <1>2, <1>3, <1>4, JobTypes DEF Pinned

\* The page a call writes is none that a read or a recovery needs.
LEMMA FreshPage ==
  ASSUME IInv, NEW p \in Pages, Alloc(p), NEW c \in PageContent, c # Absent, WritePage(p, c)
  PROVE  /\ pages' \in [Pages -> PageContent] /\ pages'[p] = c
         /\ free' \subseteq free /\ p \notin free' /\ p \notin retired
         /\ \A q \in Pages : Pinned(q) => q # p /\ pages'[q] = pages[q]
         /\ \A q \in free' \cup retired : pages'[q] # Absent
<1>1. pages \in [Pages -> PageContent] /\ free \subseteq Pages /\ retired \subseteq Pages
  BY DEF IInv, TypeOK
<1>2. \A q \in Pages : Pinned(q) => q # p
  BY DEF Alloc, Pinned
<1>3. p \notin retired /\ \A q \in free \cup retired : pages[q] # Absent
  BY <1>2 DEF IInv, RefInv, Pinned
<1> QED
  BY <1>1, <1>2, <1>3 DEF WritePage

\* A call that has applied its blocks and entered the first barrier keeps the invariant.
LEMMA CommitStarts ==
  ASSUME IInv, Ready,
         NEW call \in {"publish", "disconnect", "flush", "replay"},
         NEW m \in Manifest, NEW recs \in Seq(Blocks),
         Start(call, m, recs, Cur.root),
         m.gen = ram.gen + 1, Follows(undo, Cur, m, recs),
         root' = m.root, pages' \in [Pages -> PageContent], pages'[m.root] = m.coins,
         free' \subseteq free, m.root \notin free', retired' \subseteq Pages, m.root \notin retired',
         \A q \in Pages : Pinned(q) => pages'[q] = pages[q],
         \A q \in free' \cup retired' : pages'[q] # Absent,
         \A q \in retired' : q \notin free',
         overlayAt' = Absent, overlay' = {},
         call # "flush" => pend = << >> /\ ~batchOpen,
         UNCHANGED <<synced, undo, dir, may, ram, needsReopen, oneShot, batchOpen, batchOld, caller, told, env>>
  PROVE  IInv'
<1>0. /\ Cur' = Cur /\ Cur \in Manifest /\ ram = RamOf(Cur) /\ Pinned(Cur.root)
      /\ Whole(synced, pages, undo, Cur)
  BY ReadyFacts DEF Cur, told
<1>a. /\ pc' = "tree" /\ job' \in Job /\ job'.man = m /\ job'.recs = recs
      /\ job'.call = call /\ job'.old = Cur.root
  BY <1>0, ManifestFields DEF Start, Job
<1>b. pc = "idle" /\ ~needsReopen
  BY DEF Ready
<1>c. /\ acked # Absent => Pinned(acked.root) /\ acked.root \in Pages
      /\ doubt # Absent => Pinned(doubt.root) /\ doubt.root \in Pages
  BY ManifestFields, Markers DEF IInv, TypeOK, ToldInv, Whole, RefInv, Pinned
<1> USE DEF IInv, caller, told, env
<1>1. TypeOK'
  BY <1>a, ManifestFields, Markers DEF TypeOK, PcValues
<1>2. ToldInv'
  BY <1>c DEF ToldInv, Whole
<1>3. DirInv'
  BY DEF DirInv, ManInv, AckInv, BakInv
<1>4. OpenInv'
  BY <1>a DEF OpenInv, Opening
<1>5. RunInv'
  BY <1>0, <1>a, <1>b DEF RunInv, AfterRename, Visible
<1>6. JobInv'
  BY <1>0, <1>a, <1>b DEF JobInv, BeforeRename, AfterRename
<1>7. BatchInv'
  BY <1>a DEF BatchInv, Opening
<1>8. RefInv'
  <2>1. batchOpen => batchOld \in Pages /\ Pinned(batchOld)
    BY DEF TypeOK, RefInv
  <2>2. pages'[m.root] # Absent /\ Cur.root \in Pages
    BY <1>0, ManifestFields, Markers
  <2> QED
    BY <1>0, <1>a, <1>c, <2>1, <2>2 DEF RefInv, Pinned
<1> QED
  BY <1>1, <1>2, <1>3, <1>4, <1>5, <1>6, <1>7, <1>8

\* A caller that never unwinds with a batch pending and stops at a failed batch.
Disciplined == ~UnwindWithOpenBatch /\ ~ReplayAfterFailure

\* Without a batch and without a failure, the instance serves the committed coins.
LEMMA CommittedView ==
  ASSUME IInv, Ready, ~batchOpen, batchFailed => pend # << >>
  PROVE  root = Cur.root /\ View = Cur.coins /\ overlayAt = Absent /\ overlay = {}
<1>1. root = Cur.root /\ overlayAt = Absent /\ overlay = {}
  BY DEF IInv, Ready, BatchInv
<1>2. root \in Pages /\ pages[Cur.root] = Cur.coins
  BY ReadyFacts DEF IInv, TypeOK, Whole
<1> QED
  BY <1>1, <1>2, Markers DEF View

\* A subset of the blocks is the content of a page.
LEMMA CoinsContent == \A c \in SUBSET Blocks : c \in PageContent /\ c # Absent
  BY Markers DEF PageContent

\* publish() of a block keeps the invariant.
LEMMA PublishStep ==
  ASSUME Disciplined, IInv, NEW b \in Blocks, Publish(b)
  PROVE  IInv'
<1>0. Ready /\ ~batchFailed /\ ~batchOpen /\ pend = << >> /\ b \notin View /\ ram.undo < MaxHeight
  BY DEF Publish, MayGoOn, Disciplined
<1>1. /\ Cur \in Manifest /\ ram.gen = Cur.gen /\ ram.undo = Cur.undo
      /\ Pinned(Cur.root)
  BY <1>0, ReadyFacts
<1>2. root = Cur.root /\ View = Cur.coins /\ overlayAt = Absent /\ overlay = {}
  BY <1>0, CommittedView
<1>3. PICK p \in Pages :
        /\ Alloc(p) /\ WritePage(p, View \cup {b}) /\ root' = p /\ retired' = {root}
        /\ Start("publish", NewManifest(p, View \cup {b}, ram.undo + 1, b), <<b>>, root)
  BY DEF Publish
<1> DEFINE m == NewManifest(p, View \cup {b}, ram.undo + 1, b)
<1>4. /\ m \in Manifest /\ m.gen = ram.gen + 1 /\ m.root = p /\ m.coins = View \cup {b}
      /\ m.undo = ram.undo + 1 /\ m.tip = b
  BY <1>1, <1>2, ManifestFields DEF NewManifest, Manifest
<1>5. Follows(undo, Cur, m, <<b>>)
  <2>1. Fits(<<b>>, Cur)
    BY <1>0, <1>1, <1>2, ManifestFields, BoundsAssumption DEF Fits
  <2>2. Connected(Cur.coins, <<b>>) = Cur.coins \cup {b}
    BY DEF Connected
  <2> HIDE DEF m
  <2> QED
    BY <2>1, <2>2, <1>1, <1>2, <1>4 DEF Follows
<1> HIDE DEF m
<1>6. /\ pages' \in [Pages -> PageContent] /\ pages'[p] = m.coins
      /\ free' \subseteq free /\ p \notin free'
      /\ \A q \in Pages : Pinned(q) => q # p /\ pages'[q] = pages[q]
      /\ \A q \in free' \cup retired : pages'[q] # Absent
  BY <1>3, <1>4, FreshPage, CoinsContent, ManifestFields
<1>7. root \in Pages /\ Pinned(root) /\ <<b>> \in Seq(Blocks)
  BY <1>1, <1>2, ManifestFields
<1>8. Start("publish", m, <<b>>, Cur.root)
  BY <1>2, <1>3 DEF m
<1>9. UNCHANGED <<synced, undo, dir, may, ram, needsReopen, oneShot, batchOpen, batchOld, overlayAt, overlay, caller, told, env>>
  BY DEF Publish, batch
<1>10. \A q \in retired' : q = root /\ q \notin free' /\ pages'[q] # Absent
  BY <1>3, <1>6, <1>7 DEF Pinned
<1>11. /\ root' = m.root /\ m.root = p /\ retired' = {root} /\ m.gen = ram.gen + 1
  BY <1>2, <1>3, <1>4
<1>12. retired' \subseteq Pages /\ m.root \notin retired' /\ pages'[m.root] = m.coins /\ m.root \notin free'
  BY <1>6, <1>7, <1>11
<1>13. (\A q \in free' \cup retired' : pages'[q] # Absent) /\ (\A q \in retired' : q \notin free')
  BY <1>6, <1>10
<1> QED
  BY <1>0, <1>2, <1>4, <1>5, <1>6, <1>7, <1>8, <1>9, <1>11, <1>12, <1>13, CommitStarts

\* disconnect() of the tip keeps the invariant.
LEMMA DisconnectStep ==
  ASSUME Disciplined, IInv, Disconnect
  PROVE  IInv'
<1>0. Ready /\ ~batchFailed /\ ~batchOpen /\ pend = << >> /\ ram.undo > 0
  BY DEF Disconnect, MayGoOn, Disciplined
<1>1. /\ Cur \in Manifest /\ ram.gen = Cur.gen /\ ram.undo = Cur.undo /\ ram.tip = Cur.tip
      /\ Pinned(Cur.root) /\ Coherent(undo, Cur)
  BY <1>0, ReadyFacts DEF Whole
<1>2. root = Cur.root /\ View = Cur.coins /\ overlayAt = Absent /\ overlay = {}
  BY <1>0, CommittedView
<1> DEFINE c == View \ {ram.tip}
           parent == IF ram.undo = 1 THEN Absent ELSE undo[ram.undo - 1]
<1>3. PICK p \in Pages :
        /\ Alloc(p) /\ WritePage(p, c) /\ root' = p /\ retired' = {root}
        /\ Start("disconnect", NewManifest(p, c, ram.undo - 1, parent), << >>, root)
  BY DEF Disconnect
<1> DEFINE m == NewManifest(p, c, ram.undo - 1, parent)
<1>a. parent \in {Absent} \cup Blocks
  <2>1. ram.undo # 1 => undo[ram.undo - 1] \in Cur.coins
    BY <1>0, <1>1, ManifestFields DEF Coherent
  <2> QED
    BY <2>1, <1>1, ManifestFields
<1>4. /\ m \in Manifest /\ m.gen = ram.gen + 1 /\ m.root = p /\ m.coins = c
      /\ m.undo = ram.undo - 1 /\ m.tip = parent
  <2> HIDE DEF parent
  <2> QED
    BY <1>0, <1>1, <1>2, <1>a, ManifestFields DEF NewManifest, Manifest
<1>5. Follows(undo, Cur, m, << >>)
  <2> HIDE DEF m
  <2> QED
    BY <1>0, <1>1, <1>2, <1>4 DEF Follows
<1>6. /\ pages' \in [Pages -> PageContent] /\ pages'[p] = c
      /\ free' \subseteq free /\ p \notin free'
      /\ \A q \in Pages : Pinned(q) => q # p /\ pages'[q] = pages[q]
      /\ \A q \in free' \cup retired : pages'[q] # Absent
  <2>1. c \in SUBSET Blocks
    BY <1>1, <1>2, ManifestFields
  <2> HIDE DEF c
  <2> QED
    BY <1>3, <2>1, FreshPage, CoinsContent
<1>7. root \in Pages /\ Pinned(root) /\ << >> \in Seq(Blocks)
  BY <1>1, <1>2, ManifestFields, JobTypes
<1>8. Start("disconnect", m, << >>, Cur.root)
  BY <1>2, <1>3
<1>9. UNCHANGED <<synced, undo, dir, may, ram, needsReopen, oneShot, batchOpen, batchOld, overlayAt, overlay, caller, told, env>>
  BY DEF Disconnect, batch
<1>10. \A q \in retired' : q = root /\ q \notin free' /\ pages'[q] # Absent
  BY <1>3, <1>6, <1>7 DEF Pinned
<1> HIDE DEF m, c
<1> QED
  BY <1>0, <1>2, <1>3, <1>4, <1>5, <1>6, <1>7, <1>8, <1>9, <1>10, CommitStarts

\* publishBatch, when its blocks fit and the coins it commits are the right ones.
LEMMA PublishBatchStep ==
  ASSUME IInv, NEW call \in {"flush", "replay"}, NEW bs \in Seq(Blocks), PublishBatch(call, bs),
         Fits(bs, Cur), call # "flush" => pend = << >> /\ ~batchOpen,
         IF batchOpen THEN /\ View = Connected(Cur.coins, bs) /\ batchOld = Cur.root
                           /\ root \notin retired
                           /\ overlayAt \in {Absent, root} /\ (overlayAt = Absent => overlay = {})
                      ELSE View = Cur.coins /\ root = Cur.root
  PROVE  IInv'
<1>0. Ready /\ bs # << >> /\ ram.undo + Len(bs) <= MaxHeight
  BY DEF PublishBatch
<1>1. /\ Cur \in Manifest /\ ram.gen = Cur.gen /\ ram.undo = Cur.undo
      /\ Pinned(Cur.root) /\ Pinned(root) /\ root \in Pages
  BY <1>0, ReadyFacts DEF IInv, TypeOK
<1> DEFINE c == Connected(Cur.coins, bs)
           n == ram.undo + Len(bs)
<1>2. /\ c = (IF batchOpen THEN View ELSE View \cup Range(bs))
      /\ Cur.root = (IF batchOpen THEN batchOld ELSE root)
  BY DEF Connected, Range
<1>3. c \in SUBSET Blocks /\ bs[Len(bs)] \in Blocks /\ n \in Nat
  BY <1>0, <1>1, ManifestFields DEF Connected
<1>4. UNCHANGED <<synced, undo, dir, may, ram, needsReopen, oneShot, batchOpen, batchOld, caller, told, env>>
      /\ overlayAt' = Absent /\ overlay' = {}
  BY DEF PublishBatch
<1> HIDE DEF c
<1>5. ASSUME NEW p \in Pages
      PROVE  LET m == NewManifest(p, c, n, bs[Len(bs)])
             IN /\ m \in Manifest /\ m.gen = ram.gen + 1 /\ m.root = p /\ m.coins = c
                /\ Follows(undo, Cur, m, bs)
  <2> DEFINE m == NewManifest(p, c, n, bs[Len(bs)])
  <2>1. /\ m \in Manifest /\ m.gen = ram.gen + 1 /\ m.root = p /\ m.coins = c
        /\ m.undo = n /\ m.tip = bs[Len(bs)]
    BY <1>1, <1>3, ManifestFields DEF NewManifest, Manifest
  <2> HIDE DEF m
  <2>2. Follows(undo, Cur, m, bs)
    BY <2>1, <1>0, <1>1 DEF Follows, c
  <2> QED
    BY <2>1, <2>2 DEF m
<1>6. ASSUME NEW p \in Pages, Alloc(p), WritePage(p, c), root' = p,
             retired' = (IF batchOpen THEN retired ELSE {}) \cup {root},
             Start(call, NewManifest(p, c, n, bs[Len(bs)]), bs, Cur.root)
      PROVE  IInv'
  <2> DEFINE m == NewManifest(p, c, n, bs[Len(bs)])
  <2>1. /\ m \in Manifest /\ m.gen = ram.gen + 1 /\ m.root = p /\ m.coins = c
        /\ Follows(undo, Cur, m, bs) /\ Start(call, m, bs, Cur.root)
    BY <1>5, <1>6
  <2> HIDE DEF m
  <2>2. /\ pages' \in [Pages -> PageContent] /\ pages'[p] = c
        /\ free' \subseteq free /\ p \notin free' /\ p \notin retired
        /\ \A q \in Pages : Pinned(q) => q # p /\ pages'[q] = pages[q]
        /\ \A q \in free' \cup retired : pages'[q] # Absent
    BY <1>3, <1>6, FreshPage, CoinsContent
  <2>3. retired' \subseteq Pages /\ p \notin retired' /\ \A q \in retired' : q \notin free' /\ pages'[q] # Absent
    <3>1. retired \subseteq Pages /\ \A q \in retired : q \notin free
      BY DEF IInv, TypeOK, RefInv, Pinned
    <3> QED
      BY <3>1, <1>1, <1>6, <2>2 DEF Pinned
  <2> QED
    BY <1>0, <1>4, <1>6, <2>1, <2>2, <2>3, CommitStarts
<1>7. ASSUME batchOpen, ~(overlayAt = root /\ overlay # {}), UNCHANGED <<pages, tree>>,
             Start(call, NewManifest(root, c, n, bs[Len(bs)]), bs, Cur.root)
      PROVE  IInv'
  <2> DEFINE m == NewManifest(root, c, n, bs[Len(bs)])
  <2>1. /\ m \in Manifest /\ m.gen = ram.gen + 1 /\ m.root = root /\ m.coins = c
        /\ Follows(undo, Cur, m, bs) /\ Start(call, m, bs, Cur.root)
    BY <1>1, <1>5, <1>7
  <2> HIDE DEF m
  <2>2. pages[root] = c
    <3>1. c = View
      BY <1>2, <1>7
    <3> QED
      BY <3>1, <1>7 DEF View
  <2>3. /\ pages \in [Pages -> PageContent] /\ free \subseteq Pages /\ retired \subseteq Pages
        /\ \A q \in free \cup retired : pages[q] # Absent
        /\ \A q \in retired : q \notin free
    BY DEF IInv, TypeOK, RefInv, Pinned
  <2>4. pages' = pages /\ root' = root /\ free' = free /\ retired' = retired
    BY <1>7 DEF tree
  <2> QED
    BY <1>0, <1>1, <1>4, <1>7, <2>1, <2>2, <2>3, <2>4, CommitStarts DEF Pinned
<1> QED
  BY <1>2, <1>6, <1>7 DEF PublishBatch

\* The flush of the pending batch keeps the invariant.
LEMMA FlushPendingStep ==
  ASSUME IInv, FlushPending
  PROVE  IInv'
<1>0. Ready /\ pend # << >> /\ PublishBatch("flush", pend)
  BY DEF FlushPending, PublishBatch
<1>1. pend \in Seq(Blocks) /\ Fits(pend, Cur)
  BY <1>0 DEF IInv, TypeOK, Ready, BatchInv
<1>2. CASE batchOpen
  BY <1>0, <1>1, <1>2, PublishBatchStep DEF IInv, BatchInv, Ready
<1>3. CASE ~batchOpen
  <2>1. View = Cur.coins /\ root = Cur.root
    BY <1>0, <1>3, CommittedView
  <2> QED
    BY <1>0, <1>1, <1>3, <2>1, PublishBatchStep
<1> QED
  BY <1>2, <1>3

\* The one-shot batch of the startup replay keeps the invariant.
LEMMA ReplayBatchStep ==
  ASSUME Disciplined, IInv, NEW n \in 1..MaxBatch, NEW bs \in [1..n -> Blocks],
         IsInjective(bs), ReplayBatch(bs)
  PROVE  IInv'
<1>0. /\ Ready /\ ~batchFailed /\ pend = << >> /\ Range(bs) \cap View = {}
      /\ PublishBatch("replay", bs) /\ ram.undo + Len(bs) <= MaxHeight
  BY DEF ReplayBatch, MayGoOn, Disciplined, PublishBatch
<1>1. ~batchOpen
  BY <1>0 DEF IInv, BatchInv, Ready
<1>2. View = Cur.coins /\ root = Cur.root
  BY <1>0, <1>1, CommittedView
<1>3. bs \in Seq(Blocks) /\ Len(bs) = n /\ DOMAIN bs = 1..n
  BY BoundsAssumption
<1>4. Fits(bs, Cur)
  <2>1. Cur \in Manifest /\ ram.undo = Cur.undo
    BY <1>0, ReadyFacts
  <2>2. \A i \in 1..Len(bs) : bs[i] \notin Cur.coins
    BY <1>0, <1>2, <1>3 DEF Range
  <2>3. \A i, j \in 1..Len(bs) : bs[i] = bs[j] => i = j
    BY <1>3 DEF IsInjective
  <2> QED
    BY <2>1, <2>2, <2>3, <1>0 DEF Fits
<1> QED
  BY <1>0, <1>1, <1>2, <1>3, <1>4, PublishBatchStep

\* A further block of a batch: it fits, and its coin joins those of the batch.
LEMMA AppendFits ==
  ASSUME NEW m \in Manifest, NEW bs \in Seq(Blocks), NEW b \in Blocks, Fits(bs, m),
         b \notin Connected(m.coins, bs), m.undo + Len(bs) < MaxHeight
  PROVE  /\ Append(bs, b) \in Seq(Blocks) /\ Append(bs, b) # << >> /\ Fits(Append(bs, b), m)
         /\ Connected(m.coins, Append(bs, b)) = Connected(m.coins, bs) \cup {b}
<1> DEFINE cs == Append(bs, b)
<1>1. /\ cs \in Seq(Blocks) /\ Len(cs) = Len(bs) + 1 /\ Len(bs) \in Nat
      /\ cs[Len(cs)] = b /\ \A i \in 1..Len(bs) : cs[i] = bs[i]
  OBVIOUS
<1>2. \A i \in 1..Len(cs) : i \in 1..Len(bs) \/ i = Len(cs)
  BY <1>1
<1>3. \A i \in 1..Len(bs) : bs[i] # b /\ i \in 1..Len(cs)
  BY <1>1 DEF Connected
<1>4. Len(cs) \in 1..Len(cs) /\ b \notin m.coins
  BY <1>1 DEF Connected
<1> HIDE DEF cs
<1>5. Fits(cs, m)
  BY <1>1, <1>2, <1>3, <1>4, ManifestFields, BoundsAssumption DEF Fits
<1>6. Connected(m.coins, cs) = Connected(m.coins, bs) \cup {b}
  BY <1>1, <1>2, <1>3, <1>4 DEF Connected
<1>7. cs # << >>
  BY <1>1
<1> QED
  BY <1>1, <1>5, <1>6, <1>7 DEF cs

\* Between the calls, a step that leaves the committed state alone and writes no page
\* that is needed keeps everything but what the invariant says of the batch.
LEMMA BatchStep ==
  ASSUME IInv, Ready,
         root' \in Pages, pages' \in [Pages -> PageContent], pages'[root'] # Absent,
         free' \subseteq free, root' \notin free', retired' \subseteq Pages,
         \A q \in Pages : Pinned(q) => pages'[q] = pages[q],
         \A q \in free' \cup retired' : pages'[q] # Absent,
         \A q \in retired' : q \notin free',
         batchOpen' \in BOOLEAN, batchOld' \in Pages,
         batchOpen' => Pinned(batchOld'),
         overlayAt' \in {Absent} \cup Pages, overlay' \subseteq Blocks,
         pend' \in Seq(Blocks), batchFailed' \in BOOLEAN,
         faults' \in Nat, BatchInv',
         UNCHANGED <<synced, undo, dir, may, pc, job, ram, needsReopen, oneShot, told, crashes, damage>>
  PROVE  IInv'
<1>0. pc = "idle" /\ ~needsReopen /\ Cur' = Cur
  BY DEF Ready, Cur, told
<1>c. /\ acked # Absent => Pinned(acked.root) /\ acked.root \in Pages
      /\ doubt # Absent => Pinned(doubt.root) /\ doubt.root \in Pages
  BY ManifestFields, Markers DEF IInv, TypeOK, ToldInv, Whole, RefInv, Pinned
<1> USE DEF IInv, told
<1>1. TypeOK'
  BY DEF TypeOK
<1>2. ToldInv'
  BY <1>c DEF ToldInv, Whole
<1>3. DirInv'
  BY DEF DirInv, ManInv, AckInv, BakInv
<1>4. OpenInv'
  BY <1>0 DEF OpenInv, Opening
<1>5. RunInv'
  BY <1>0 DEF RunInv, AfterRename, Visible
<1>6. JobInv'
  BY <1>0 DEF JobInv, BeforeRename, AfterRename
<1>8. RefInv'
  BY <1>0, <1>c DEF RefInv, Pinned, BeforeRename, AfterRename
<1> QED
  BY <1>1, <1>2, <1>3, <1>4, <1>5, <1>6, <1>8

\* applyBatchBlock, through the overlay or through pages, keeps the invariant.
LEMMA ApplyBatchBlockStep ==
  ASSUME Disciplined, IInv, NEW b \in Blocks, ApplyBatchBlock(b)
  PROVE  IInv'
<1>0. /\ Ready /\ pc = "idle" /\ ~needsReopen /\ ~batchFailed /\ b \notin View
      /\ ram.undo + Len(pend) < MaxHeight
      /\ batchOpen' = TRUE /\ pend' = Append(pend, b)
      /\ batchOld' = IF batchOpen THEN batchOld ELSE root
  BY DEF ApplyBatchBlock, MayGoOn, Disciplined, Ready
<1>1. /\ Cur \in Manifest /\ ram.undo = Cur.undo /\ Pinned(Cur.root) /\ Pinned(root) /\ Cur.root \in Pages
      /\ pend \in Seq(Blocks) /\ Fits(pend, Cur)
  BY <1>0, ReadyFacts, ManifestFields DEF IInv, TypeOK, BatchInv
<1>2. /\ View = Connected(Cur.coins, pend) /\ batchOld' = Cur.root
      /\ batchOpen => /\ root \notin retired /\ overlayAt \in {Absent, root}
                      /\ overlayAt = Absent => overlay = {}
      /\ ~batchOpen => overlayAt = Absent /\ overlay = {}
  <2>1. CASE batchOpen
    BY <2>1, <1>0 DEF IInv, BatchInv
  <2>2. CASE ~batchOpen
    <3>1. root = Cur.root /\ View = Cur.coins /\ overlayAt = Absent /\ overlay = {}
      BY <2>2, <1>0, CommittedView
    <3>2. pend = << >>
      BY <2>2, <1>0 DEF IInv, BatchInv
    <3>3. Connected(Cur.coins, << >>) = Cur.coins
      BY DEF Connected
    <3> QED
      BY <2>2, <3>1, <3>2, <3>3, <1>0
  <2> QED
    BY <2>1, <2>2
<1>3. /\ pend' \in Seq(Blocks) /\ pend' # << >> /\ Fits(pend', Cur)
      /\ Connected(Cur.coins, pend') = View \cup {b}
  BY <1>0, <1>1, <1>2, AppendFits
<1>4. /\ UNCHANGED <<synced, undo, dir, may, pc, job, ram, needsReopen, oneShot, told, crashes, damage>>
      /\ faults' = faults /\ batchFailed' = batchFailed
  BY DEF ApplyBatchBlock, env
<1>5. Cur' = Cur /\ faults' \in Nat /\ root \in Pages /\ retired \subseteq Pages
      /\ overlay \subseteq Blocks /\ View \in SUBSET Blocks
  <2>1. View \in SUBSET Blocks
    BY <1>1, <1>2, ManifestFields DEF Connected
  <2> QED
    BY <1>4, <2>1 DEF Cur, told, IInv, TypeOK
<1>6. ASSUME root' \notin retired', overlayAt' \in {Absent, root'}, overlayAt' = Absent => overlay' = {},
             View' = View \cup {b}
      PROVE  BatchInv'
  BY <1>0, <1>2, <1>3, <1>4, <1>5, <1>6 DEF BatchInv, Opening
<1> DEFINE kept == IF batchOpen THEN retired ELSE {}
           on   == ~batchOpen \/ overlayAt # Absent
<1>7. kept \subseteq retired /\ (batchOpen => root \notin kept) /\ root \notin kept
  BY <1>2
<1>8. /\ pages \in [Pages -> PageContent] /\ free \subseteq Pages
      /\ \A q \in free \cup retired : pages[q] # Absent
      /\ \A q \in retired : q \notin free
  BY DEF IInv, TypeOK, RefInv, Pinned
<1>9. CASE /\ on /\ overlayAt' = root
           /\ overlay' = (IF overlayAt = root THEN overlay ELSE {}) \cup {b}
           /\ retired' = kept /\ UNCHANGED <<pages, root, free>>
  <2>1. View' = View \cup {b}
    <3>1. CASE overlayAt = root
      BY <3>1, <1>9 DEF View
    <3>2. CASE overlayAt # root
      BY <3>2, <1>9 DEF View
    <3> QED
      BY <3>1, <3>2
  <2>2. BatchInv'
    BY <1>6, <1>7, <1>9, <2>1, <1>5, Markers
  <2> QED
    <3>1. /\ root' = root /\ pages' = pages /\ free' = free /\ retired' \subseteq retired
          /\ pages'[root'] # Absent /\ root' \notin free'
      BY <1>1, <1>7, <1>9 DEF Pinned
    <3>2. overlayAt' \in {Absent} \cup Pages /\ overlay' \subseteq Blocks
      BY <1>5, <1>9
    <3>3. batchOpen' \in BOOLEAN /\ batchOld' \in Pages /\ Pinned(batchOld') /\ batchFailed' \in BOOLEAN
      <4>1. batchFailed' \in BOOLEAN /\ batchOpen' \in BOOLEAN
        BY <1>0, <1>4 DEF IInv, TypeOK
      <4>2. batchOld' \in Pages /\ Pinned(batchOld')
        BY <1>1, <1>2 DEF Pinned
      <4> QED
        BY <4>1, <4>2
    <3>4. /\ retired' \subseteq Pages /\ \A q \in retired' : q \notin free'
          /\ \A q \in free' \cup retired' : pages'[q] # Absent
      BY <3>1, <1>5, <1>8
    <3> QED
      BY <1>0, <1>3, <1>4, <1>5, <1>8, <2>2, <3>1, <3>2, <3>3, <3>4, BatchStep
<1>10. ASSUME NEW p \in Pages, Alloc(p), WritePage(p, View \cup {b}), root' = p,
              retired' = kept \cup {root}, overlayAt' = (IF on THEN p ELSE Absent), overlay' = {}
       PROVE  IInv'
  <2>1. /\ pages' \in [Pages -> PageContent] /\ pages'[p] = View \cup {b}
        /\ free' \subseteq free /\ p \notin free' /\ p \notin retired
        /\ \A q \in Pages : Pinned(q) => q # p /\ pages'[q] = pages[q]
        /\ \A q \in free' \cup retired : pages'[q] # Absent
    <3>1. View \cup {b} \in PageContent /\ View \cup {b} # Absent
      BY <1>5, CoinsContent
    <3> QED
      BY <1>10, <3>1, FreshPage
  <2>2. View' = View \cup {b}
    BY <1>10, <2>1 DEF View
  <2>3. root' \notin retired' /\ retired' \subseteq Pages
        /\ \A q \in retired' : q \notin free' /\ pages'[q] # Absent
    BY <1>1, <1>5, <1>7, <1>8, <1>10, <2>1 DEF Pinned
  <2>4. BatchInv'
    BY <1>6, <1>10, <2>2, <2>3
  <2>5. pages'[p] # Absent
    BY <2>1, <1>5, CoinsContent
  <2> QED
    <3>1. /\ root' \in Pages /\ pages'[root'] # Absent /\ root' \notin free'
          /\ \A q \in Pages : Pinned(q) => pages'[q] = pages[q]
      BY <1>10, <2>1, <2>5
    <3>2. overlayAt' \in {Absent} \cup Pages /\ overlay' \subseteq Blocks
      BY <1>10
    <3>3. batchOpen' \in BOOLEAN /\ batchOld' \in Pages /\ Pinned(batchOld') /\ batchFailed' \in BOOLEAN
      <4>1. batchFailed' \in BOOLEAN /\ batchOpen' \in BOOLEAN
        BY <1>0, <1>4 DEF IInv, TypeOK
      <4>2. batchOld' \in Pages /\ Pinned(batchOld')
        BY <1>1, <1>2 DEF Pinned
      <4> QED
        BY <4>1, <4>2
    <3>4. \A q \in free' \cup retired' : pages'[q] # Absent
      BY <2>1, <2>3
    <3> QED
      BY <1>0, <1>3, <1>4, <1>5, <2>1, <2>3, <2>4, <3>1, <3>2, <3>3, <3>4, BatchStep
<1> QED
  BY <1>9, <1>10 DEF ApplyBatchBlock

\* A page write that fails tears at most a page nobody needs.
LEMMA PageFailsFacts ==
  ASSUME IInv, PageFails
  PROVE  /\ pages' \in [Pages -> PageContent] /\ free' \subseteq free
         /\ \A q \in Pages : Pinned(q) => pages'[q] = pages[q]
         /\ \A q \in free' \cup retired : pages'[q] # Absent
<1>1. /\ pages \in [Pages -> PageContent] /\ free \subseteq Pages /\ retired \subseteq Pages
      /\ \A q \in free \cup retired : pages[q] # Absent
  BY DEF IInv, TypeOK, RefInv, Pinned
<1>2. CASE UNCHANGED <<pages, free>>
  BY <1>1, <1>2
<1>3. ASSUME NEW p \in free, WritePage(p, Torn)
      PROVE  /\ pages' = [pages EXCEPT ![p] = Torn] /\ free' = free \ {p}
  BY <1>3 DEF WritePage
<1>4. Torn \in PageContent /\ Torn # Absent
  BY Markers DEF PageContent
<1> QED
  BY <1>1, <1>2, <1>3, <1>4 DEF PageFails, Pinned

\* A page write failing while a delta is applied keeps the invariant.
LEMMA ApplyFailsStep ==
  ASSUME Disciplined, IInv, ApplyFails
  PROVE  IInv'
<1>0. /\ Ready /\ pc = "idle" /\ ~needsReopen /\ ~batchFailed
      /\ UNCHANGED <<synced, undo, dir, may, pc, job, ram, needsReopen, oneShot, pend, told, crashes, damage>>
      /\ faults' \in Nat /\ PageFails
  BY DEF ApplyFails, MayGoOn, Disciplined, Ready, Fault, IInv, TypeOK
<1>1. /\ pages' \in [Pages -> PageContent] /\ free' \subseteq free
      /\ \A q \in Pages : Pinned(q) => pages'[q] = pages[q]
      /\ \A q \in free' \cup retired : pages'[q] # Absent
  BY <1>0, PageFailsFacts
<1>2. /\ Pinned(root) /\ root \in Pages /\ pend \in Seq(Blocks) /\ Cur' = Cur
      /\ batchOld \in Pages /\ retired \subseteq Pages /\ (batchOpen => Pinned(batchOld))
      /\ \A q \in retired : q \notin free
      /\ overlayAt \in {Absent} \cup Pages /\ overlay \subseteq Blocks
  BY <1>0, ReadyFacts DEF IInv, TypeOK, RefInv, Pinned, Cur, told
<1>3. CASE ~batchOpen /\ pend = << >> /\ retired' = {root} /\ UNCHANGED <<root, batch, batchFailed>>
  <2>1. BatchInv'
    BY <1>0, <1>2, <1>3 DEF IInv, BatchInv, Opening, batch
  <2> QED
    <3>1. /\ root' = root /\ pages'[root'] # Absent /\ root' \notin free'
          /\ retired' \subseteq Pages /\ \A q \in retired' : q \notin free'
          /\ \A q \in free' \cup retired' : pages'[q] # Absent
      BY <1>1, <1>2, <1>3 DEF Pinned
    <3>2. /\ batchOpen' = FALSE /\ batchOld' = batchOld /\ overlayAt' = overlayAt
          /\ overlay' = overlay /\ batchFailed' = batchFailed /\ batchFailed \in BOOLEAN
      BY <1>3 DEF batch, IInv, TypeOK
    <3> QED
      BY <1>0, <1>1, <1>2, <2>1, <3>1, <3>2, BatchStep
<1>4. CASE /\ batchOpen
           /\ root' = batchOld /\ batchOpen' = FALSE /\ batchFailed' = TRUE
           /\ overlayAt' = Absent /\ overlay' = {}
           /\ UNCHANGED <<retired, batchOld>>
  <2>1. BatchInv'
    BY <1>0, <1>2, <1>4 DEF IInv, BatchInv, Opening
  <2> QED
    BY <1>0, <1>1, <1>2, <1>4, <2>1, BatchStep DEF Pinned
<1> QED
  BY <1>3, <1>4 DEF ApplyFails

\* finalizeOverlay failing in publishBatch keeps the invariant.
LEMMA FinalizeFailsStep ==
  ASSUME Disciplined, IInv, FinalizeFails
  PROVE  IInv'
<1>0. /\ Ready /\ pc = "idle" /\ ~needsReopen
      /\ UNCHANGED <<synced, undo, dir, may, pc, job, ram, needsReopen, oneShot, batchOld, told, crashes, damage>>
      /\ faults' \in Nat
      /\ batchOpen' = FALSE /\ overlayAt' = Absent /\ overlay' = {}
      /\ pend' = << >> /\ batchFailed' = TRUE
  BY DEF FinalizeFails, Ready, Fault, IInv, TypeOK
<1>1. /\ Pinned(root) /\ root \in Pages /\ Cur' = Cur /\ << >> \in Seq(Blocks)
      /\ batchOld \in Pages /\ retired \subseteq Pages /\ \A q \in retired : q \notin free
  <2>1. Pinned(root) /\ << >> \in Seq(Blocks)
    BY <1>0, ReadyFacts, JobTypes
  <2>2. Cur' = Cur
    BY <1>0 DEF Cur, told
  <2>3. root \in Pages /\ batchOld \in Pages /\ retired \subseteq Pages
    BY DEF IInv, TypeOK
  <2>4. \A q \in retired : q \notin free
    BY DEF IInv, RefInv, Pinned
  <2> QED
    BY <2>1, <2>2, <2>3, <2>4
<1>2. BatchInv'
  <2>1. Fits(<< >>, Cur)
    BY <1>0, ReadyFacts, EmptyFits DEF Whole
  <2> QED
    BY <2>1, <1>0, <1>1 DEF BatchInv, Opening
<1>3. CASE PageFails /\ UNCHANGED <<root, retired>>
  <2>1. /\ pages' \in [Pages -> PageContent] /\ free' \subseteq free
        /\ \A q \in Pages : Pinned(q) => pages'[q] = pages[q]
        /\ \A q \in free' \cup retired : pages'[q] # Absent
    BY <1>3, PageFailsFacts
  <2> QED
    BY <1>0, <1>1, <1>2, <1>3, <2>1, BatchStep DEF Pinned
<1>4. ASSUME NEW p \in Pages, NEW b \in Blocks \ View, Alloc(p), WritePage(p, View \cup {b}),
             root' = p, retired' = {root}, ~batchOpen, ~batchFailed
      PROVE  IInv'
  <2>1. /\ pages' \in [Pages -> PageContent] /\ pages'[p] # Absent
        /\ free' \subseteq free /\ p \notin free'
        /\ \A q \in Pages : Pinned(q) => q # p /\ pages'[q] = pages[q]
        /\ \A q \in free' : pages'[q] # Absent
    <3>1. View \cup {b} \in PageContent /\ View \cup {b} # Absent
      <4>1. Cur \in Manifest /\ View = Cur.coins
        BY <1>0, <1>4, ReadyFacts, CommittedView
      <4> QED
        BY <4>1, CoinsContent, ManifestFields
    <3> QED
      BY <1>4, <3>1, FreshPage
  <2>2. \A q \in retired' : q \in Pages /\ q \notin free' /\ pages'[q] # Absent
    BY <1>1, <1>4, <2>1 DEF Pinned
  <2> QED
    BY <1>0, <1>1, <1>2, <1>4, <2>1, <2>2, BatchStep
<1> QED
  BY <1>3, <1>4 DEF FinalizeFails, MayGoOn, Disciplined

=============================================================================
