--------------------------- MODULE MCBlockIndexing ---------------------------
(***************************************************************************)
(* One indexer process, whose listener may be followed by the listener of  *)
(* the next epoch while its last call is still running, and one backfill   *)
(* process.  Every process may lose the chain once and open it again.      *)
(***************************************************************************)
EXTENDS BlockIndexing, TLC

MCHome == [c \in Listeners |-> "indexer"] @@ [c \in Fetchers |-> "backfill"]

\* Goroutines of one kind are alike, and so are heights.
MCSymmetry ==
    Permutations(Heights) \union Permutations(Listeners) \union Permutations(Fetchers)
=============================================================================
