----------------------------- MODULE Store3AInv -----------------------------
(***************************************************************************)
(* The inductive invariant of Store3A: what holds between any two steps    *)
(* of an instance whose caller never unwinds with a batch pending and      *)
(* stops at a failed batch (the discipline the node keeps in steady        *)
(* state).  It implies the safety properties of Store3A.                   *)
(***************************************************************************)
EXTENDS Store3A

Opening == {"inittree", "initman", "initsync", "openack", "openacksync", "repair", "repairsync"}
BeforeRename == {"tree", "bak", "baksync", "undo", "man"}
AfterRename == {"sync", "ack", "acksync"}

\* The manifest the open instance works from.
Cur == IF doubt = Absent THEN acked ELSE doubt

\* The root page of m is durable and its undo records are those of its coins.
Whole(s, t, u, m) == s[m.root] = m.coins /\ t[m.root] = m.coins /\ Coherent(u, m)

\* Distinct blocks, none of them connected, that fit on top of those of manifest m.
Fits(bs, m) ==
    /\ m.undo + Len(bs) <= MaxHeight
    /\ \A i \in 1..Len(bs) : bs[i] \notin m.coins
    /\ \A i, j \in 1..Len(bs) : bs[i] = bs[j] => i = j

\* The coins of c with the blocks of bs connected.
Connected(c, bs) == c \cup {bs[i] : i \in 1..Len(bs)}

\* n is the manifest that connects recs on top of m, or undoes the last block of m.
Follows(u, m, n, recs) ==
    IF recs # << >>
    THEN /\ Fits(recs, m)
         /\ n.undo = m.undo + Len(recs)
         /\ n.coins = Connected(m.coins, recs)
         /\ n.tip = recs[Len(recs)]
    ELSE /\ m.undo > 0 /\ n.undo = m.undo - 1
         /\ n.coins = m.coins \ {m.tip}
         /\ n.tip = IF m.undo = 1 THEN Absent ELSE u[m.undo - 1]

\* Both manifests a restart can find are whole, and the one in doubt is the next one.
ToldInv ==
    /\ acked # Absent => Whole(synced, pages, undo, acked)
    /\ doubt # Absent => /\ Whole(synced, pages, undo, doubt)
                         /\ acked = Absent => doubt = EmptyManifest
                         /\ acked # Absent => doubt.gen = acked.gen + 1

ManInv(d) ==
    /\ d.man \in {Torn, Absent, acked, doubt}
    /\ damage = 0 /\ acked # Absent => d.man \in {acked, doubt} \ {Absent}
    /\ doubt # Absent /\ d.man = doubt => dir.man = doubt

AckInv(d) ==
    /\ \/ d.ack = Absent
       \/ acked # Absent /\ d.ack = acked.gen
       \/ doubt # Absent /\ d.ack = doubt.gen
    /\ acked # Absent => d.ack # Absent
    /\ doubt # Absent /\ d.ack = doubt.gen =>
        dir.ack = doubt.gen /\ (damage = 0 => d.man = doubt)

BakInv(d) ==
    /\ \/ d.bak = Absent
       \/ acked # Absent /\ d.bak = acked
       \/ acked # Absent /\ d.bak \in Manifest /\ d.bak.gen < acked.gen
       \/ doubt # Absent /\ d.bak = doubt /\ d.ack = doubt.gen
    /\ acked # Absent /\ doubt # Absent =>
        d.bak = acked \/ (d.bak = doubt /\ d.ack = doubt.gen)

DirInv == dir \in may /\ \A d \in may : ManInv(d) /\ AckInv(d) /\ BakInv(d)

\* MANIFEST as the instance left it, unless it has been damaged since.
Visible(m) == dir.man \in {m, Torn} /\ (damage = 0 => dir.man = m)

\* Where the instance and the disk stand, by the barrier reached.
OpenInv ==
    /\ pc \in {"inittree", "initman"} =>
        /\ acked = Absent /\ dir.man = Absent /\ dir.bak = Absent /\ dir.ack = Absent
        /\ job.man = EmptyManifest /\ pages[0] = {}
        /\ pc = "initman" => synced[0] = {}
    /\ pc \in {"initsync", "openack", "openacksync"} =>
        doubt # Absent /\ job.man = doubt /\ Visible(doubt)
    /\ pc = "openacksync" => dir.ack = job.man.gen
    /\ pc \in {"repair", "repairsync"} =>
        /\ job.man # Absent /\ job.man \in {acked, doubt}
        /\ dir.bak = job.man /\ dir.ack = job.man.gen /\ damage # 0
        /\ pc = "repair" => dir.man = Torn
        /\ pc = "repairsync" => dir.man \in {job.man, Torn}
    /\ pc \in Opening => ram = RamOf(job.man) /\ root = job.man.root

RunInv ==
    /\ (pc = "idle" /\ ~needsReopen) \/ pc \in {"tree", "bak", "baksync"} =>
        Cur # Absent /\ ram = RamOf(Cur) /\ Visible(Cur) /\ dir.ack = Cur.gen
    /\ pc = "baksync" => dir.bak = Cur
    /\ pc \in {"undo", "man"} =>
        /\ acked # Absent /\ doubt = Absent /\ ram = RamOf(acked) /\ Visible(acked)
        /\ \A d \in may : d.bak = acked
    /\ pc \in AfterRename =>
        /\ acked # Absent /\ doubt # Absent /\ job.man = doubt /\ Visible(doubt)
    /\ pc = "acksync" => dir.ack = doubt.gen

JobInv ==
    /\ pc \in BeforeRename =>
        /\ job.man \in Manifest /\ job.man.gen = ram.gen + 1
        /\ pages[job.man.root] = job.man.coins
        /\ pc # "tree" => synced[job.man.root] = job.man.coins
        /\ job.old = Cur.root /\ ~needsReopen
    /\ pc \in BeforeRename \ {"man"} =>
        Follows(undo, Cur, job.man, job.recs)
    /\ pc = "man" =>
        /\ Coherent(undo, job.man)
        /\ job.man.undo > Cur.undo \/ (Cur.undo > 0 /\ job.man.undo = Cur.undo - 1)
    /\ pc \in BeforeRename \cup AfterRename =>
        /\ root = job.man.root /\ root \notin retired
        /\ overlayAt = Absent /\ overlay = {}
        /\ job.call \in {"publish", "disconnect", "flush", "replay"}
        /\ job.call # "flush" => pend = << >> /\ ~batchOpen

BatchInv ==
    /\ pc \in {"closed"} \cup Opening =>
        /\ free = {} /\ retired = {} /\ ~needsReopen /\ ~batchOpen
        /\ overlayAt = Absent /\ overlay = {} /\ pend = << >> /\ ~batchFailed
    /\ pc = "idle" /\ ~needsReopen =>
        /\ Fits(pend, Cur)
        /\ batchFailed /\ pend # << >> => ~batchOpen
        /\ ~batchFailed /\ ~batchOpen => pend = << >>
        /\ ~batchOpen /\ (batchFailed => pend # << >>) =>
            root = Cur.root /\ overlayAt = Absent /\ overlay = {}
        /\ batchOpen /\ ~batchFailed =>
            /\ pend # << >> /\ batchOld = Cur.root /\ root \notin retired
            /\ overlayAt \in {Absent, root} /\ (overlayAt = Absent => overlay = {})
            /\ View = Connected(Cur.coins, pend)

\* Pages that must not be written: none of them is free, all of them have content.
Pinned(p) == p \notin free /\ pages[p] # Absent

RefInv ==
    /\ pc # "closed" => Pinned(root)
    /\ batchOpen => Pinned(batchOld)
    /\ job.man # Absent => job.man.root \notin free
    /\ pc \in BeforeRename \cup AfterRename => Pinned(job.old)
    /\ acked # Absent => acked.root \notin free
    /\ doubt # Absent => doubt.root \notin free
    /\ \A p \in free : pages[p] # Absent
    /\ \A p \in retired : Pinned(p)

IInv == TypeOK /\ ToldInv /\ DirInv /\ OpenInv /\ RunInv /\ JobInv /\ BatchInv /\ RefInv

=============================================================================
