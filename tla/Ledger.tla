------------------------------- MODULE Ledger -------------------------------
(***************************************************************************)
(* What CommitStore3A promises its caller: a durable chain of blocks that  *)
(* changes by whole commits.  While a commit runs, a second chain is       *)
(* possible, one commit away from the first; whatever happens then (the    *)
(* commit returns, fails or is cut short and the store is opened again),   *)
(* the durable chain is one of the two.                                    *)
(***************************************************************************)
EXTENDS Naturals, Sequences

CONSTANT None

VARIABLES
    chain,  \* the durable blocks, oldest first
    maybe   \* the chain of a commit whose outcome is open, or None

vars == <<chain, maybe>>

\* s is c with the last block disconnected, or with blocks connected on top.
OneCommitAway(c, s) ==
    \/ Len(c) > 0 /\ s = SubSeq(c, 1, Len(c) - 1)
    \/ Len(s) > Len(c) /\ SubSeq(s, 1, Len(c)) = c

Init == chain = << >> /\ maybe = None

\* A commit reaches the point where a restart may find it.
Propose ==
    /\ maybe = None /\ maybe' # None /\ OneCommitAway(chain, maybe')
    /\ chain' = chain

\* The outcome is known.
Settle ==
    /\ maybe # None /\ maybe' = None
    /\ chain' \in {chain, maybe}

Next == Propose \/ Settle

Spec == Init /\ [][Next]_vars

=============================================================================
