--------------------------- MODULE MCChainCommit ---------------------------
(* Instances of ChainCommit for TLC.                                       *)
EXTENDS ChainCommit

\* A chain of five with branches of one and of two blocks.
Short == {<<1>>, <<1, 1>>, <<1, 1, 1>>, <<1, 1, 1, 1>>, <<1, 1, 1, 1, 1>>,
          <<1, 2>>, <<1, 1, 1, 2>>, <<1, 1, 1, 2, 1>>}
\* Two chains of three.
Long == {<<1>>, <<1, 1>>, <<1, 1, 1>>, <<2>>, <<2, 1>>, <<2, 1, 1>>}
\* ...and a block more on the first.
Longer == Long \cup {<<1, 1, 1, 1>>}
\* One chain.
Line == {<<1>>, <<1, 1>>, <<1, 1, 1>>, <<1, 1, 1, 1>>, <<1, 1, 1, 1, 1>>}

OneBad == {<<2, 1, 1>>}

ByHeight == [b \in Blocks \cup {Base} |-> 2 * Len(b)]
\* As ByHeight; blocks numbered 2 weigh more, so that one replaces another of its height.
Uneven == [b \in Blocks \cup {Base} |->
              2 * Len(b) + Cardinality({i \in 1..Len(b) : b[i] = 2})]
=============================================================================
