---------------------------- MODULE HeaderGraph ----------------------------
(***************************************************************************)
(* The provisional header graph of the initial block download and the      *)
(* observer that owns it (ibdheaderscheduler.cpp), with the entry points   *)
(* of main.cpp that drive it under cs_main: a headers message, a refill    *)
(* pass or a getheaders request, a peer's end.                             *)
(*                                                                         *)
(* A header is an element of Headers; its hash fixes its parent, so prev   *)
(* is the constant Parent.  The node's own chain is the variable best,     *)
(* which moves by itself (ChainCommit models how); the graph learns of it  *)
(* at the next UpdateAnchor.                                               *)
(*                                                                         *)
(* Left out: permanent quarantine and ActivateBranch (no caller outside    *)
(* the tests, but DeltaIsLegacy covers every tip ActivateBranch accepts),  *)
(* the counters, the classification of block announcements, and the pacing *)
(* of requests (m_outstanding_peers, the lookahead cap, the locator): any  *)
(* headers message may arrive, asked for or not, as the handler allows.    *)
(***************************************************************************)
EXTENDS Integers, FiniteSets, SequencesExt

CONSTANTS
    Headers,        \* the headers peers can send, Root included
    Root,           \* the block the node starts on
    Parent,         \* hashPrevBlock, for every header but Root
    Peers,
    WindowSize,     \* m_window_size, -ibdblockwindow
    BatchSize,      \* bound: the length of a headers message
    MaxMoves,       \* bound: how often best moves
    MaxMessages,    \* bound: how many headers messages arrive
    Nil

ASSUME TreeAssumption ==
    /\ Root \in Headers /\ Nil \notin Headers
    /\ Parent \in [Headers \ {Root} -> Headers]

VARIABLES
    graph,          \* m_nodes, m_anchor_hash, m_anchor_height, m_active_tip
    sources,        \* m_sources
    claim,          \* m_active_source_claims
    best,           \* pindexBest
    moves,
    sent,           \* history: the headers each peer has sent
    early,          \* history: nodes that were stored before their parent
    messages

vars == <<graph, sources, claim, best, moves, sent, early, messages>>

\* hashPrevBlock; Root's parent is a block nobody sends.
Prev(h) == IF h = Root THEN Nil ELSE Parent[h]

\* The steps a walk along prev can take.
Steps == 0..Cardinality(Headers)

\* Block heights, as CBlockIndex has them.
Height[h \in Headers] == IF h = Root THEN 0 ELSE Height[Parent[h]] + 1

\* h and its ancestors.
Lineage[h \in Headers] == IF h = Root THEN {h} ELSE {h} \cup Lineage[Parent[h]]

\* The ancestor k steps below h, Nil below Root.
Chain ==
    [h \in Headers |-> [k \in Steps |->
        IF k > Height[h] THEN Nil ELSE CHOOSE a \in Lineage[h] : Height[a] = Height[h] - k]]

---------------------------------------------------------------------------
(* CIbdHeaderGraph.                                                        *)

NewNode(prev) == [prev |-> prev, height |-> -1, state |-> "quarantined", children |-> {}]

Empty == [node |-> <<>>, anchor |-> Nil, height |-> -1, tip |-> Nil]

Known(g) == DOMAIN g.node

IsUsable(g, h) ==
    h \in Known(g) /\ g.node[h].height >= 0 /\ g.node[h].state # "quarantined"

InState(g, s) == {h \in Known(g) : g.node[h].state = s}

Restate(g, hs, s) ==
    [g EXCEPT !.node = [h \in Known(g) |->
        IF h \in hs THEN [g.node[h] EXCEPT !.state = s] ELSE g.node[h]]]

\* The walk from h along the stored prev, which is hashPrevBlock except for a node that was
\* set as the anchor; Nil once it leaves the graph.
Up(g, h) ==
    LET end == Min({k \in Steps : \/ Chain[h][k] \notin Known(g)
                                  \/ g.node[Chain[h][k]].prev = Nil})
    IN  [k \in Steps |-> IF k <= end THEN Chain[h][k] ELSE Nil]

GetAncestor(g, h, target) ==
    IF h \notin Known(g) \/ target < g.height THEN Nil
    ELSE IF g.node[h].height < 0 \/ target > g.node[h].height THEN Nil
    ELSE LET walk == Up(g, h)
         IN  walk[Min({k \in Steps : walk[k] \notin Known(g)
                                       \/ g.node[walk[k]].height <= target})]

IsDescendantOf(g, h, a) ==
    /\ {h, a} \subseteq Known(g)
    /\ g.node[h].height >= 0 /\ g.node[a].height >= 0
    /\ GetAncestor(g, h, g.node[a].height) = a

\* Mutant: the successor is any usable child.
SuccessorUsable(g, h) ==
    LET usable == {c \in g.node[h].children : IsUsable(g, c)}
    IN  IF Cardinality(usable) = 1 THEN CHOOSE c \in usable : TRUE ELSE Nil

GetActiveSuccessor(g, h) ==
    LET active == g.node[h].children \cap InState(g, "active")
    IN  IF Cardinality(active) = 1 THEN CHOOSE c \in active : TRUE ELSE Nil

GetActiveWindow(g, frontier, size) ==
    LET walk[k \in 0..size] ==
            IF k = 0 THEN frontier
            ELSE IF walk[k - 1] = Nil THEN Nil ELSE GetActiveSuccessor(g, walk[k - 1])
        len == Min({k \in 0..size : k = size \/ walk[k + 1] = Nil})
    IN  IF frontier \in InState(g, "active") \cup InState(g, "anchor")
        THEN [k \in 1..len |-> walk[k]]
        ELSE <<>>

\* Every active mark is taken back, then the walk from the tip is marked; a walk that does
\* not reach the anchor leaves the tip as it was.
MarkActivePathLegacy(g, t) ==
    LET walk == Up(g, t)
        end == Min({k \in Steps : walk[k] = g.anchor \/ ~IsUsable(g, walk[k])})
        cleared == Restate(g, InState(g, "active"), "eligible")
        marked == Restate(cleared, {walk[k] : k \in 0..(end - 1)}, "active")
    IN  IF walk[end] = g.anchor THEN [marked EXCEPT !.tip = t] ELSE marked

\* Mutant: the old path keeps its marks.
MarkKeepingOld(g, t) ==
    LET walk == Up(g, t)
        end == Min({k \in Steps : \/ walk[k] \in InState(g, "active") \cup {g.anchor}
                                  \/ ~IsUsable(g, walk[k])})
    IN  [Restate(g, {walk[k] : k \in 0..(end - 1)}, "active") EXCEPT !.tip = t]

\* Only what differs between the two paths is rewritten: the old path above the fork is
\* demoted, the new one promoted; a surprise on either falls back to the full rewrite.
MarkActivePath(g, t) ==
    LET active == InState(g, "active")
        walk == Up(g, t)
        end == Min({k \in Steps : \/ walk[k] = g.anchor \/ walk[k] \in active
                                  \/ ~IsUsable(g, walk[k])})
        fork == walk[end]
        old == Up(g, g.tip)
        last == Min({k \in Steps : \/ g.tip = g.anchor \/ old[k] = fork
                                   \/ old[k] \notin active})
        demoted == Restate(g, {old[k] : k \in 0..(last - 1)}, "eligible")
    IN  IF t = g.tip THEN g
        ELSE IF fork \notin active \cup {g.anchor} THEN MarkActivePathLegacy(g, t)
        ELSE IF g.tip # g.anchor /\ old[last] # fork THEN MarkActivePathLegacy(g, t)
        ELSE [Restate(demoted, {walk[k] : k \in 0..(end - 1)}, "active") EXCEPT !.tip = t]

ExtendActiveTipIfUnambiguous(g) ==
    LET usable(x) == {c \in x.node[x.tip].children : IsUsable(x, c)}
        grown[k \in Steps] ==
            IF k = 0 THEN g
            ELSE LET x == grown[k - 1]
                 IN  IF Cardinality(usable(x)) = 1
                     THEN MarkActivePath(x, CHOOSE c \in usable(x) : TRUE)
                     ELSE x
    IN  grown[Cardinality(Headers)]

\* h becomes a child of its parent, and takes its height from an anchored one.
Link(g, h) ==
    LET p == g.node[h].prev
    IN  IF p \in Known(g) THEN [g EXCEPT !.node[p].children = @ \cup {h}] ELSE g

Derive(g, h) ==
    LET p == g.node[h].prev
    IN  IF p \in Known(g) /\ g.node[p].height >= 0
        THEN [g EXCEPT !.node[h].height = g.node[p].height + 1,
                       !.node[h].state = "eligible"]
        ELSE g

Store(g, hs) ==
    [g EXCEPT !.node = [h \in Known(g) \cup hs |->
        IF h \in Known(g) THEN g.node[h] ELSE NewNode(Prev(h))]]

\* The children that arrived before h are attached to it, and everything below takes its
\* height from it.
ConnectDescendants(g, h) ==
    LET attached == [g EXCEPT !.node[h].children =
                        @ \cup {c \in Known(g) \ {h} : g.node[c].prev = h}]
        depth(d) == LET walk == Up(attached, d)
                    IN  {k \in Steps \ {0} : walk[k] = h}
        below == {d \in Known(g) \ {h} : depth(d) # {}}
    IN  [attached EXCEPT !.node = [d \in Known(g) |->
            IF d \notin below THEN attached.node[d]
            ELSE IF g.node[h].height < 0
            THEN [attached.node[d] EXCEPT !.height = -1, !.state = "quarantined"]
            ELSE [attached.node[d] EXCEPT !.height = g.node[h].height + Min(depth(d)),
                                          !.state = "eligible"]]]

Insert(g, h) ==
    LET stored == ConnectDescendants(Derive(Link(Store(g, {h}), h), h), h)
    IN  IF h \in Known(g) THEN g
        ELSE IF IsUsable(stored, h) /\ Prev(h) = stored.tip
        THEN ExtendActiveTipIfUnambiguous(MarkActivePath(stored, h))
        ELSE stored

InsertBatch(g, headers) ==
    LET fresh == SelectSeq(headers, LAMBDA h : h \notin Known(g))
        linked == FoldLeft(Link, Store(g, Range(fresh)), fresh)
        derived == FoldLeft(LAMBDA x, h : IF x.node[h].height >= 0 THEN x ELSE Derive(x, h),
                            linked, headers)
        candidate == FoldLeft(LAMBDA t, h : IF IsUsable(derived, h)
                                               /\ IsDescendantOf(derived, h, t)
                                            THEN h ELSE t, derived.tip, fresh)
    IN  IF candidate = derived.tip THEN derived
        ELSE ExtendActiveTipIfUnambiguous(MarkActivePath(derived, candidate))

SetAuthoritativeAnchor(h) ==
    [node |-> [x \in {h} |-> [NewNode(Nil) EXCEPT !.height = Height[h], !.state = "anchor"]],
     anchor |-> h, height |-> Height[h], tip |-> h]

\* Mutant: the next anchor need not be on the active path.
FastAdvanceAnyChild(g, h) ==
    h \in Known(g) /\ g.node[h].height = g.height + 1 /\ g.node[h].prev = g.anchor

\* The anchor moves one block along the active path in place.
FastAdvance(g, h) ==
    /\ h \in InState(g, "active")
    /\ Height[h] = g.height + 1 /\ g.node[h].height = Height[h]
    /\ g.node[h].prev = g.anchor

\* Mutant of Reanchor: a rebuild drops the suffix.
ReanchorBare(g, h) ==
    IF h = g.anchor THEN g ELSE SetAuthoritativeAnchor(h)

Reanchor(g, h) ==
    LET moved == Restate(Restate(g, {g.anchor}, "eligible"), {h}, "anchor")
        suffix == IF IsDescendantOf(g, g.tip, h)
                  THEN GetActiveWindow(g, h, Cardinality(Known(g))) ELSE <<>>
    IN  IF h = g.anchor THEN g
        ELSE IF FastAdvance(g, h) THEN [moved EXCEPT !.anchor = h, !.height = Height[h]]
        ELSE FoldLeft(Insert, SetAuthoritativeAnchor(h), suffix)

---------------------------------------------------------------------------
(* CIbdHeadersObserver.                                                    *)

\* The graph after UpdateAnchor(pindexBest), and whether it was rebuilt.
Updated ==
    IF graph.anchor = Nil THEN SetAuthoritativeAnchor(best) ELSE Reanchor(graph, best)

Rebuilt == graph.anchor \notin {Nil, best} /\ ~FastAdvance(graph, best)

\* A rebuild is the one event that drops nodes: their source records go with them.
KeptSources(g) ==
    IF Rebuilt THEN [h \in Headers |-> IF h \in Known(g) THEN sources[h] ELSE {}]
    ELSE sources

KeptEarly == IF Rebuilt THEN {} ELSE early

\* A refill pass and PrepareIbdHeadersObserverRequest both begin with the anchor.
Refill ==
    /\ graph' = Updated /\ sources' = KeptSources(graph') /\ early' = KeptEarly
    /\ UNCHANGED <<claim, best, moves, sent, messages>>

\* The deepest header of the active path among the peer's claim and this message.
Deepest(g, p, headers) ==
    LET offered == (Range(headers) \cup {claim[p]}) \cap InState(g, "active")
    IN  IF offered = {} THEN Nil
        ELSE CHOOSE h \in offered : \A x \in offered : g.node[x].height <= g.node[h].height

\* The headers message: UpdateAnchor, then ObserveHeaders.
ObserveHeaders(p, headers) ==
    LET anchored == Updated
        kept == KeptSources(anchored)
        g == InsertBatch(anchored, headers)
    IN  /\ messages < MaxMessages
        /\ graph' = g
        /\ sources' = [h \in Headers |-> IF h \in Range(headers) THEN kept[h] \cup {p}
                                         ELSE kept[h]]
        /\ claim' = [claim EXCEPT ![p] = Deepest(g, p, headers)]
        /\ sent' = [sent EXCEPT ![p] = @ \cup Range(headers)]
        /\ early' = KeptEarly \cup {h \in Range(headers) \ Known(anchored) :
                                        g.node[h].prev \notin Known(g)}
        /\ messages' = messages + 1
        /\ UNCHANGED <<best, moves>>

\* Mutant: the claim of a peer outlives it.
RemovePeerKeepingClaim(p) ==
    /\ sources' = [h \in Headers |-> sources[h] \ {p}]
    /\ sent' = [sent EXCEPT ![p] = {}]
    /\ UNCHANGED <<graph, claim, best, moves, early, messages>>

\* IbdHeadersObserverPeerDisconnected: the observer forgets the peer, and its place is free
\* for the next one (when cs_main is not free nothing is forgotten: a peer that sends no more).
RemovePeer(p) ==
    /\ claim' = [claim EXCEPT ![p] = Nil]
    /\ sources' = [h \in Headers |-> sources[h] \ {p}]
    /\ sent' = [sent EXCEPT ![p] = {}]
    /\ UNCHANGED <<graph, best, moves, early, messages>>

\* The chain state moves without the graph: a block is connected, a heavier branch taken,
\* the tip disconnected.
MoveBest(b) ==
    /\ moves < MaxMoves /\ b # best
    /\ Height[b] > Height[best] \/ (best # Root /\ b = Parent[best])
    /\ best' = b /\ moves' = moves + 1
    /\ UNCHANGED <<graph, sources, claim, sent, early, messages>>

\* IbdHeaderSchedulerCandidatePeers: the exact sources of h, and the peers whose deepest
\* claim on the active path is above it.
CandidatePeers(h) ==
    sources[h] \cup
    {p \in Peers : /\ claim[p] \in InState(graph, "active")
                   /\ graph.node[claim[p]].height > graph.node[h].height}

\* What a message carries: a stretch of one chain, at most BatchSize long, from anywhere
\* (an answer continues the locator, an announcement starts at the sender's new tip).
Batches ==
    {s \in UNION {[1..n -> Headers] : n \in 0..BatchSize} :
        \A k \in 1..(Len(s) - 1) : Prev(s[k + 1]) = s[k]}

Init ==
    /\ graph = Empty /\ best = Root
    /\ sources = [h \in Headers |-> {}] /\ claim = [p \in Peers |-> Nil]
    /\ sent = [p \in Peers |-> {}] /\ early = {} /\ moves = 0 /\ messages = 0

Next ==
    \/ Refill
    \/ \E p \in Peers, s \in Batches : ObserveHeaders(p, s)
    \/ \E p \in Peers : RemovePeer(p)
    \/ \E b \in Headers : MoveBest(b)

Spec == Init /\ [][Next]_vars

---------------------------------------------------------------------------
(* Properties.                                                             *)

\* The active path strictly above h, lowest first; empty when h is not on it.
Above(g, h) ==
    LET walk == Up(g, g.tip)
        n == Min({k \in Steps : walk[k] \in {h, Nil}})
    IN  IF walk[n] = h THEN [k \in 1..n |-> walk[n - k]] ELSE <<>>

\* A path up to its first header that was stored before its parent.
Cut(s) ==
    SubSeq(s, 1, Min({k \in 0..Len(s) : k = Len(s) \/ s[k + 1] \in early}))

Take(s, n) == SubSeq(s, 1, Min({n, Len(s)}))

\* Every variable stays in its domain, and the anchor and the tip are nodes of the graph.
TypeOK ==
    /\ Known(graph) \subseteq Headers
    /\ graph.anchor = Nil \/ {graph.anchor, graph.tip} \subseteq Known(graph)
    /\ \A h \in Known(graph) :
           graph.node[h] \in [prev : Headers \cup {Nil}, height : -1..Cardinality(Headers),
                              state : {"anchor", "active", "eligible", "quarantined"},
                              children : SUBSET Headers]
    /\ best \in Headers
    /\ sources \in [Headers -> SUBSET Peers] /\ claim \in [Peers -> Headers \cup {Nil}]

\* The marks form one chain (CheckInvariants): the nodes marked active are exactly those
\* from the tip down to the anchor, the anchor's mark is the only one of its kind, and a
\* node has a height only when it is the block's true height, whichever mixture of
\* batches, single inserts and anchor moves put it there.
OneActiveChain ==
    graph.anchor # Nil =>
        /\ InState(graph, "active") = Range(Above(graph, graph.anchor))
        /\ graph.tip = graph.anchor \/ Above(graph, graph.anchor) # <<>>
        /\ InState(graph, "anchor") = {graph.anchor}
        /\ \A h \in Known(graph) : graph.node[h].height \in {-1, Height[h]}

\* The download window is the active path after the anchor (GetActiveWindow), cut only
\* where a header was stored before its parent: the forward walk over children and the
\* backward walk over prev agree.
WindowFollowsPath ==
    graph.anchor # Nil =>
        GetActiveWindow(graph, graph.anchor, WindowSize)
            = Take(Cut(Above(graph, graph.anchor)), WindowSize)

\* "Enumerate the active path strictly after frontier, capped at windowSize"
\* (GetActiveWindow in ibdheaderscheduler.h): the window is all of it.
WindowIsActivePath ==
    graph.anchor # Nil =>
        GetActiveWindow(graph, graph.anchor, WindowSize)
            = Take(Above(graph, graph.anchor), WindowSize)

\* The incremental marking ends in the state the full rewrite ends in, for every branch
\* that can be made the active one (MarkActivePath: "both paths converge to identical
\* final state").
DeltaIsLegacy ==
    \A t \in Known(graph) :
        IsUsable(graph, t) /\ IsDescendantOf(graph, t, graph.anchor) =>
            MarkActivePath(graph, t) = MarkActivePathLegacy(graph, t)

\* A peer that counts as a source of a block of the window, by an exact record or by its
\* deepest claim, has sent that header or one that descends from it.
SourcesHaveIt ==
    graph.anchor # Nil =>
        \A h \in Range(GetActiveWindow(graph, graph.anchor, WindowSize)) :
            \A p \in CandidatePeers(h) : \E d \in sent[p] : h \in Lineage[d]

\* The active path only grows: while the anchor stays, or moves to a block of the path,
\* what the path held above it stays active in the same order (up to a header stored
\* before its parent when the graph is rebuilt).
PathOnlyGrows ==
    [][graph.anchor # Nil /\ graph'.anchor \in InState(graph, "active") \cup {graph.anchor} =>
          IsPrefix(IF graph'.anchor = graph.anchor THEN Above(graph, graph'.anchor)
                   ELSE Cut(Above(graph, graph'.anchor)),
                   Above(graph', graph'.anchor))]_vars

====
