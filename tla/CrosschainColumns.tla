-------------------------- MODULE CrosschainColumns --------------------------
(***************************************************************************)
(* The tables of chain_N that are copied into the crosschain schema, and   *)
(* what decides whether a row can be: the column definitions of            *)
(* pkg/db/models/indexer, from which the trigger's INSERT is built, the    *)
(* table of chain_N it reads NEW from, and the crosschain table it writes. *)
(* Columns that have the same name and type in all three stand as "rest",  *)
(* those of the primary key as "key".                                      *)
(***************************************************************************)
EXTENDS Sequences, TLC

\* Tables in the order of GetTableConfigs.
SyncOrder ==
    <<"accounts", "validators", "validator_non_signing_info",
      "validator_double_signing_info", "pools", "pool_points_by_holder",
      "orders", "dex_orders", "dex_deposits", "dex_withdrawals", "blocks",
      "block_summaries", "committee_payments", "events", "txs">>

\* Tables in the order writeBlockData fills them.
WriteOrder ==
    <<"blocks", "txs", "events", "accounts", "validators",
      "validator_non_signing_info", "validator_double_signing_info", "pools",
      "orders", "dex_prices", "dex_orders", "dex_deposits", "dex_withdrawals",
      "pool_points_by_holder", "params", "supply", "committees",
      "committee_validators", "committee_payments">>

Elements(order) == {order[i] : i \in DOMAIN order}

SyncTables == Elements(SyncOrder)

All(S, columns) == [t \in S |-> columns]
SameName(columns) == [c \in columns |-> c]

(***************************************************************************)
(* Crosschain column to chain_N column, as the definitions have them.  A   *)
(* column marked CrossChainSkip is in neither list, and chain_id is added  *)
(* by the trigger itself.                                                  *)
(***************************************************************************)
PlainDefs == All(SyncTables, SameName({"key", "rest"}))
PoolDefs == All({"pools"}, SameName({"key", "rest"}) @@ ("pool_chain_id" :> "chain_id"))
PoolPointDefs == All({"pool_points_by_holder"}, SameName({"key", "rest", "pool_amount"}))
OrderDefs == All({"orders"}, SameName({"key", "rest", "status"}))
DexDefs == All({"dex_orders", "dex_deposits", "dex_withdrawals"},
               SameName({"key", "rest", "state"}))
EventDefs == All({"events"}, SameName({"key", "rest"}) @@ ("event_chain_id" :> "chain_id"))
TxDefs == All({"txs"}, SameName({"key", "rest", "time"}) @@ ("tx_chain_id" :> "chain_id"))

ColumnNames ==
    PoolDefs @@ PoolPointDefs @@ OrderDefs @@ DexDefs @@ EventDefs @@ TxDefs @@ PlainDefs

\* The columns of chain_N, each with its type as far as it matters.
Plain == [key |-> "plain", rest |-> "plain"]

ChainBlocks == All({"blocks", "block_summaries"}, Plain)
ChainAccounts == All({"accounts"}, Plain)
ChainValidators ==
    All({"validators", "validator_non_signing_info", "validator_double_signing_info"}, Plain)
ChainPayments == All({"committee_payments"}, Plain)
ChainPools == All({"pools"}, Plain @@ [chain_id |-> "plain"])
              @@ All({"pool_points_by_holder"}, Plain @@ [pool_amount |-> "plain"])
ChainOrders == All({"orders"}, Plain @@ [status |-> "text"])
ChainDex == All({"dex_orders", "dex_deposits", "dex_withdrawals"}, Plain @@ [state |-> "text"])
ChainEvents == All({"events"}, Plain @@ [chain_id |-> "plain"])
ChainTxs == All({"txs"}, Plain @@ [tx_time |-> "plain", chain_id |-> "plain"])

ChainColumns ==
    ChainBlocks @@ ChainAccounts @@ ChainValidators @@ ChainPayments @@ ChainPools
    @@ ChainOrders @@ ChainDex @@ ChainEvents @@ ChainTxs

\* The columns of the crosschain schema, where some states are enums.
CrossBlocks == All({"blocks", "block_summaries"}, Plain)
CrossTxs == All({"txs"}, Plain @@ [tx_time |-> "plain", tx_chain_id |-> "plain"])
CrossEvents == All({"events"}, Plain @@ [event_chain_id |-> "plain"])
CrossStates == All({"accounts", "validators", "validator_non_signing_info",
                    "validator_double_signing_info"}, Plain)
CrossPayments == All({"committee_payments"}, Plain)
CrossPools == All({"pools"}, Plain @@ [pool_chain_id |-> "plain"])
CrossPoolPoints == All({"pool_points_by_holder"}, Plain)
CrossOrders == All({"orders"}, Plain @@ [status |-> "enum"])
CrossDex == All({"dex_orders", "dex_deposits", "dex_withdrawals"}, Plain @@ [state |-> "enum"])

CrossColumns ==
    CrossBlocks @@ CrossTxs @@ CrossEvents @@ CrossStates @@ CrossPayments
    @@ CrossPools @@ CrossPoolPoints @@ CrossOrders @@ CrossDex

(***************************************************************************)
(* The trigger function is only parsed when it is created: a name or a     *)
(* type that does not fit is an error of the INSERT that fires it.  A text *)
(* is not assigned to an enum without a cast.                              *)
(***************************************************************************)
Copies(t, cross) ==
    LET column == ColumnNames[t][cross] IN
    /\ column \in DOMAIN ChainColumns[t]
    /\ cross \in DOMAIN CrossColumns[t]
    /\ ChainColumns[t][column] = CrossColumns[t][cross]

TriggerWorks(t) == \A cross \in DOMAIN ColumnNames[t] : Copies(t, cross)

=============================================================================
