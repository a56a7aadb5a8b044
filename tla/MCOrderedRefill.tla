-------------------------- MODULE MCOrderedRefill --------------------------
(***************************************************************************)
(* OrderedRefill for TLC: two peers of different scores.                   *)
(***************************************************************************)
EXTENDS OrderedRefill

CONSTANTS p1, p2

TwoPeers == {p1, p2}

MCScore == [p \in TwoPeers |-> IF p = p1 THEN 2 ELSE 1]

=============================================================================
