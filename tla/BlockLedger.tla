----------------------------- MODULE BlockLedger -----------------------------
(***************************************************************************)
(* What the indexer promises its readers about one chain, without saying   *)
(* who writes, in how many transactions, or what fails on the way: a       *)
(* height is stored once and for all, it is counted in the summaries,      *)
(* recorded in index_progress or announced on the stream only after the    *)
(* data it speaks of is in the tables, and a caller is told "indexed" only *)
(* of a height that is stored.                                             *)
(***************************************************************************)
CONSTANT Heights

VARIABLES
    stored,      \* heights with a row in chain_N.blocks
    summarised,  \* heights with a row in chain_N.block_summaries
    recorded,    \* heights with a row in admin.index_progress
    announced,   \* heights published on the blocks topic
    confirmed    \* heights some call reported as indexed

ledger == <<stored, summarised, recorded, announced, confirmed>>

Init ==
    /\ stored = {}
    /\ summarised = {}
    /\ recorded = {}
    /\ announced = {}
    /\ confirmed = {}

Store(h) ==
    /\ stored' = stored \union {h}
    /\ UNCHANGED <<summarised, recorded, announced, confirmed>>

Summarise(h) ==
    /\ h \in stored
    /\ summarised' = summarised \union {h}
    /\ UNCHANGED <<stored, recorded, announced, confirmed>>

Record(h) ==
    /\ h \in summarised
    /\ recorded' = recorded \union {h}
    /\ UNCHANGED <<stored, summarised, announced, confirmed>>

Announce(h) ==
    /\ h \in summarised
    /\ announced' = announced \union {h}
    /\ UNCHANGED <<stored, summarised, recorded, confirmed>>

Confirm(h) ==
    /\ h \in stored
    /\ confirmed' = confirmed \union {h}
    /\ UNCHANGED <<stored, summarised, recorded, announced>>

Next ==
    \E h \in Heights :
        Store(h) \/ Summarise(h) \/ Record(h) \/ Announce(h) \/ Confirm(h)

Spec == Init /\ [][Next]_ledger
=============================================================================
