-------------------------- MODULE MCCrosschainSync --------------------------
(***************************************************************************)
(* Values for CrosschainSync: the copied table that is first in the order  *)
(* of the set-up and late in that of a write, one that is the other way    *)
(* round, one whose trigger cannot work, and one that is not copied.       *)
(***************************************************************************)
EXTENDS CrosschainSync

OneChain == {1}
MCTables == {"blocks", "accounts", "txs", "dex_prices"}
MCContent == [h \in Heights |-> IF h = 1 THEN {"blocks", "accounts", "dex_prices"}
                                ELSE {"blocks", "accounts", "txs"}]
MCHome == [listener |-> "indexer", fetcher |-> "backfill"]
MCView == [listener |-> "current", fetcher |-> "change"]
=============================================================================
