--------------------------- MODULE MCHeaderGraph ---------------------------
(* A chain b0-b1-b2-b3 with a branch b1-c2, and two peers.                  *)
EXTENDS HeaderGraph, TLC

CONSTANTS b0, b1, b2, b3, c2, p1, p2

Tree == {b0, b1, b2, b3, c2}

TreeParent ==
    b1 :> b0 @@ b2 :> b1 @@ b3 :> b2 @@ c2 :> b1

TwoPeers == {p1, p2}

Interchangeable == Permutations(TwoPeers)

====
