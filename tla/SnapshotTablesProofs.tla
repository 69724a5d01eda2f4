------------------------- MODULE SnapshotTablesProofs -------------------------
(***************************************************************************)
(* Proofs about SnapshotTables, for every set of blobs and any number of   *)
(* heights.                                                                *)
(***************************************************************************)
EXTENDS SnapshotTables, SetsOfNumbers, TLAPS

-----------------------------------------------------------------------------
(* What a conversion yields *)

\* Conv holds one row for each key, all of height h.
OneRowPerKey(rows, h) ==
    /\ \A r \in rows : r.height = h
    /\ \A r, q \in rows : r.key = q.key => r = q

\* The rows show what one blob shows, and all that another one does not.
ShowsChanges(rows, shown, was) ==
    /\ \A r \in rows : r.key \in DOMAIN shown => r.val = shown[r.key]
    /\ \A k \in DOMAIN shown :
        \/ \E r \in rows : r.key = k
        \/ k \in DOMAIN was /\ was[k] = shown[k]

\* Every table gets one row for each key it writes.
LEMMA ConvertedKeys ==
    ASSUME NEW t \in Tables, NEW cur, NEW prev, NEW h
    PROVE  OneRowPerKey(convertToBlockData(cur, prev, h)[t], h)
<1>1. CASE t = "txs"
    BY <1>1 DEF convertToBlockData, Transactions, OneRowPerKey, Row
<1>2. CASE t = "events"
    BY <1>2 DEF convertToBlockData, Events, OneRowPerKey, Row
<1>3. CASE t = "validators"
    BY <1>3 DEF convertToBlockData, Validators, OneRowPerKey, Row
<1>4. CASE t = "committee_validators"
    BY <1>4 DEF convertToBlockData, CommitteeValidators, OneRowPerKey, Row
<1>5. CASE t = "validator_non_signing_info"
    BY <1>5 DEF convertToBlockData, NonSigners, Gone, NewOrChanged, OneRowPerKey, Row
<1>6. CASE t = "validator_double_signing_info"
    BY <1>6 DEF convertToBlockData, DoubleSigners, Gone, OneRowPerKey, Row
<1>7. CASE t = "accounts"
    BY <1>7 DEF convertToBlockData, Accounts, OneRowPerKey, Row
<1>8. CASE t = "pools"
    BY <1>8 DEF convertToBlockData, Pools, OneRowPerKey, Row
<1>9. CASE t = "pool_points_by_holder"
    BY <1>9 DEF convertToBlockData, PoolPoints, OneRowPerKey, Row
<1>10. CASE t = "dex_prices"
    BY <1>10 DEF convertToBlockData, DexPrices, OneRowPerKey, Row
<1>11. CASE t = "orders"
    BY <1>11 DEF convertToBlockData, Orders, OneRowPerKey, Row
<1>12. CASE t = "committees"
    BY <1>12 DEF convertToBlockData, Committees, OneRowPerKey, Row
<1>13. CASE t = "params"
    BY <1>13 DEF convertToBlockData, Params, OneRowPerKey, Row
<1>14. CASE t = "supply"
    BY <1>14 DEF convertToBlockData, Supply, OneRowPerKey, Row
<1> QED
    BY <1>1, <1>2, <1>3, <1>4, <1>5, <1>6, <1>7, <1>8, <1>9, <1>10, <1>11, <1>12,
       <1>13, <1>14 DEF Tables

\* The blob that stands for "no predecessor" shows nothing.
LEMMA NothingShown ==
    ASSUME NEW t \in SnapshotTableNames
    PROVE  DOMAIN Shown(EmptyBlob)[t] = {}
<1>1. CASE t = "validators"
    BY <1>1 DEF Shown, EmptyBlob, NoKeys
<1>2. CASE t = "committee_validators"
    BY <1>2 DEF Shown, EmptyBlob, NoKeys, Seats
<1>3. CASE t = "pools"
    BY <1>3 DEF Shown, EmptyBlob, NoKeys, PoolsOf
<1>4. CASE t = "pool_points_by_holder"
    BY <1>4 DEF Shown, EmptyBlob, NoKeys, PointsOf
<1>5. CASE t = "orders"
    BY <1>5 DEF Shown, EmptyBlob, NoKeys
<1>6. CASE t \in {"params", "supply"}
    BY <1>6 DEF Shown, EmptyBlob, Only
<1>7. CASE t \in {"validator_non_signing_info", "validator_double_signing_info",
                  "accounts", "dex_prices", "committees"}
    BY <1>7 DEF Shown, EmptyBlob, NoKeys
<1> QED
    BY <1>1, <1>2, <1>3, <1>4, <1>5, <1>6, <1>7 DEF SnapshotTableNames, Tables

\* What a blob says of its double signers counts.
HasEvidence(blob) ==
    \A a \in DOMAIN blob.doubleSigners : blob.doubleSigners[a] \in Nat \ {0}

\* A key that is not among those a table writes shows the same in both blobs.
LEMMA Unchanged ==
    ASSUME NEW shown, NEW was, NEW k \in DOMAIN shown, k \notin NewOrChanged(shown, was)
    PROVE  k \in DOMAIN was /\ was[k] = shown[k]
BY DEF NewOrChanged

\* A table whose rows are those of the new and changed keys.
LEMMA PlainTable ==
    ASSUME NEW shown, NEW was, NEW rows,
           \A r \in rows : r.key \in DOMAIN shown => r.val = shown[r.key],
           \A k \in NewOrChanged(shown, was) : \E r \in rows : r.key = k
    PROVE  ShowsChanges(rows, shown, was)
<1>1. ASSUME NEW k \in DOMAIN shown
      PROVE  \/ \E r \in rows : r.key = k
             \/ k \in DOMAIN was /\ was[k] = shown[k]
    <2>1. CASE k \in NewOrChanged(shown, was)
        BY <2>1
    <2>2. CASE k \notin NewOrChanged(shown, was)
        BY <2>2, Unchanged
    <2> QED
        BY <2>1, <2>2
<1> QED
    BY <1>1 DEF ShowsChanges

LEMMA ValidatorRows ==
    ASSUME NEW cur, NEW prev, NEW h
    PROVE  ShowsChanges(Validators(cur, prev, h), Shown(cur).validators, Shown(prev).validators)
<1> DEFINE rows == Validators(cur, prev, h)
<1>1. /\ Shown(cur).validators = [a \in DOMAIN cur.validators |-> ValidatorColumns(cur.validators[a])]
      /\ Shown(prev).validators = [a \in DOMAIN prev.validators |-> ValidatorColumns(prev.validators[a])]
    BY DEF Shown
<1>2. \A r \in rows : /\ r.key \in ChangedValidators(cur, prev)
                      /\ r.val = ValidatorColumns(cur.validators[r.key])
    BY DEF Validators, Row
<1>3. ASSUME NEW a \in ChangedValidators(cur, prev)
      PROVE  \E r \in rows : r.key = a
    <2>1. Row(a, h, ValidatorColumns(cur.validators[a]), None) \in rows
        BY DEF Validators
    <2> QED
        BY <2>1 DEF Row
<1>4. \A a \in DOMAIN cur.validators : a \notin ChangedValidators(cur, prev) =>
        a \in DOMAIN prev.validators /\ cur.validators[a] = prev.validators[a]
    BY DEF ChangedValidators, NewOrChanged
<1> QED
    BY <1>1, <1>2, <1>3, <1>4 DEF ShowsChanges

LEMMA SeatRows ==
    ASSUME NEW cur, NEW prev, NEW h
    PROVE  ShowsChanges(CommitteeValidators(cur, prev, h),
                        Shown(cur).committee_validators, Shown(prev).committee_validators)
<1> DEFINE rows == CommitteeValidators(cur, prev, h)
<1>1. /\ Shown(cur).committee_validators = [s \in Seats(cur) |-> MemberColumns(cur.validators[s[2]])]
      /\ Shown(prev).committee_validators = [s \in Seats(prev) |-> MemberColumns(prev.validators[s[2]])]
    BY DEF Shown
<1>2. \A r \in rows : r.val = MemberColumns(cur.validators[r.key[2]])
    BY DEF CommitteeValidators, Row
<1>3. ASSUME NEW s \in Seats(cur), s[2] \in ChangedValidators(cur, prev)
      PROVE  \E r \in rows : r.key = s
    <2>1. Row(s, h, MemberColumns(cur.validators[s[2]]), s[1] \in cur.subsidized) \in rows
        BY <1>3 DEF CommitteeValidators
    <2> QED
        BY <2>1 DEF Row
<1>4. ASSUME NEW s \in Seats(cur), s[2] \notin ChangedValidators(cur, prev)
      PROVE  s \in Seats(prev) /\ cur.validators[s[2]] = prev.validators[s[2]]
    <2>1. PICK a \in DOMAIN cur.validators : \E c \in cur.validators[a].committees : s = <<c, a>>
        BY DEF Seats
    <2>2. a \in DOMAIN prev.validators /\ cur.validators[a] = prev.validators[a]
        BY <2>1, <1>4 DEF ChangedValidators, NewOrChanged
    <2> QED
        BY <2>1, <2>2 DEF Seats
<1> QED
    BY <1>1, <1>2, <1>3, <1>4 DEF ShowsChanges

LEMMA NonSignerRows ==
    ASSUME NEW cur, NEW prev, NEW h
    PROVE  ShowsChanges(NonSigners(cur, prev, h), cur.nonSigners, prev.nonSigners)
<1> DEFINE rows == NonSigners(cur, prev, h)
<1>1. \A r \in rows : r.key \in DOMAIN cur.nonSigners => r.val = cur.nonSigners[r.key]
    BY DEF NonSigners, Gone, Row
<1>2. ASSUME NEW a \in NewOrChanged(cur.nonSigners, prev.nonSigners)
      PROVE  \E r \in rows : r.key = a
    <2>1. Row(a, h, cur.nonSigners[a], None) \in rows
        BY DEF NonSigners
    <2> QED
        BY <2>1 DEF Row
<1> QED
    BY <1>1, <1>2, PlainTable

LEMMA DoubleSignerRows ==
    ASSUME NEW cur, NEW prev, NEW h, HasEvidence(cur)
    PROVE  ShowsChanges(DoubleSigners(cur, prev, h), cur.doubleSigners, prev.doubleSigners)
<1> DEFINE rows == DoubleSigners(cur, prev, h)
<1>1. \A r \in rows : r.key \in DOMAIN cur.doubleSigners => r.val = cur.doubleSigners[r.key]
    BY DEF DoubleSigners, Gone, Evidence, Row
<1>2. ASSUME NEW a \in NewOrChanged(cur.doubleSigners, prev.doubleSigners)
      PROVE  \E r \in rows : r.key = a
    <2>1. a \in DOMAIN cur.doubleSigners /\ Evidence(cur, a) # Evidence(prev, a)
        BY DEF NewOrChanged, Evidence, HasEvidence
    <2>2. Row(a, h, Evidence(cur, a), None) \in rows
        BY <2>1 DEF DoubleSigners
    <2> QED
        BY <2>2 DEF Row
<1> QED
    BY <1>1, <1>2, PlainTable

LEMMA AccountRows ==
    ASSUME NEW cur, NEW prev, NEW h
    PROVE  ShowsChanges(Accounts(cur, prev, h), cur.accounts, prev.accounts)
<1>1. ASSUME NEW a \in NewOrChanged(cur.accounts, prev.accounts)
      PROVE  \E r \in Accounts(cur, prev, h) : r.key = a
    <2>1. Row(a, h, cur.accounts[a], None) \in Accounts(cur, prev, h)
        BY DEF Accounts
    <2> QED
        BY <2>1 DEF Row
<1> QED
    BY <1>1, PlainTable DEF Accounts, Row

LEMMA PoolRows ==
    ASSUME NEW cur, NEW prev, NEW h
    PROVE  ShowsChanges(Pools(cur, prev, h), PoolsOf(cur), PoolsOf(prev))
<1>1. ASSUME NEW p \in NewOrChanged(PoolsOf(cur), PoolsOf(prev))
      PROVE  \E r \in Pools(cur, prev, h) : r.key = p
    <2>1. Row(p, h, PoolsOf(cur)[p], Delta(AmountsOf(cur), AmountsOf(prev), p))
            \in Pools(cur, prev, h)
        BY DEF Pools
    <2> QED
        BY <2>1 DEF Row
<1>2. \A r \in Pools(cur, prev, h) : r.val = PoolsOf(cur)[r.key]
    BY DEF Pools, Row
<1> QED
    BY <1>1, <1>2, PlainTable

LEMMA PoolPointRows ==
    ASSUME NEW cur, NEW prev, NEW h
    PROVE  ShowsChanges(PoolPoints(cur, prev, h), PointsOf(cur), PointsOf(prev))
<1>1. ASSUME NEW k \in NewOrChanged(PointsOf(cur), PointsOf(prev))
      PROVE  \E r \in PoolPoints(cur, prev, h) : r.key = k
    <2>1. Row(k, h, PointsOf(cur)[k], cur.pools[k[1]].amount) \in PoolPoints(cur, prev, h)
        BY DEF PoolPoints
    <2> QED
        BY <2>1 DEF Row
<1>2. \A r \in PoolPoints(cur, prev, h) : r.val = PointsOf(cur)[r.key]
    BY DEF PoolPoints, Row
<1> QED
    BY <1>1, <1>2, PlainTable

LEMMA DexPriceRows ==
    ASSUME NEW cur, NEW prev, NEW h
    PROVE  ShowsChanges(DexPrices(cur, prev, h), cur.prices, prev.prices)
<1>1. ASSUME NEW k \in NewOrChanged(cur.prices, prev.prices)
      PROVE  \E r \in DexPrices(cur, prev, h) : r.key = k
    <2>1. Row(k, h, cur.prices[k], Delta(cur.prices, prev.prices, k)) \in DexPrices(cur, prev, h)
        BY DEF DexPrices
    <2> QED
        BY <2>1 DEF Row
<1>2. \A r \in DexPrices(cur, prev, h) : r.val = cur.prices[r.key]
    BY DEF DexPrices, Row
<1> QED
    BY <1>1, <1>2, PlainTable

LEMMA OrderRows ==
    ASSUME NEW cur, NEW prev, NEW h
    PROVE  ShowsChanges(Orders(cur, prev, h), Shown(cur).orders, Shown(prev).orders)
<1> DEFINE rows == Orders(cur, prev, h)
<1>1. /\ Shown(cur).orders = [k \in DOMAIN cur.orders |-> OrderColumns(cur.orders[k])]
      /\ Shown(prev).orders = [k \in DOMAIN prev.orders |-> OrderColumns(prev.orders[k])]
    BY DEF Shown
<1>2. \A r \in rows : r.val = OrderColumns(cur.orders[r.key])
    BY DEF Orders, Row
<1>3. ASSUME NEW k \in NewOrChanged(OrdersOf(cur), OrdersOf(prev))
      PROVE  \E r \in rows : r.key = k
    <2>1. Row(k, h, OrderColumns(cur.orders[k]), cur.orders[k].seller) \in rows
        BY DEF Orders
    <2> QED
        BY <2>1 DEF Row
<1>4. ASSUME NEW k \in DOMAIN cur.orders, k \notin NewOrChanged(OrdersOf(cur), OrdersOf(prev))
      PROVE  /\ k \in DOMAIN prev.orders
             /\ OrderTerms(prev.orders[k]) = OrderTerms(cur.orders[k])
    BY <1>4 DEF NewOrChanged, OrdersOf
<1>5. \A o, p : OrderTerms(o) = OrderTerms(p) => OrderColumns(o) = OrderColumns(p)
    BY DEF OrderTerms, OrderColumns, OrderStatus
<1> QED
    BY <1>1, <1>2, <1>3, <1>4, <1>5 DEF ShowsChanges

LEMMA CommitteeRows ==
    ASSUME NEW cur, NEW prev, NEW h
    PROVE  ShowsChanges(Committees(cur, prev, h), cur.committees, prev.committees)
<1>1. ASSUME NEW k \in NewOrChanged(cur.committees, prev.committees)
      PROVE  \E r \in Committees(cur, prev, h) : r.key = k
    <2>1. Row(k, h, cur.committees[k], None) \in Committees(cur, prev, h)
        BY DEF Committees
    <2> QED
        BY <2>1 DEF Row
<1> QED
    BY <1>1, PlainTable DEF Committees, Row

LEMMA ParamsRows ==
    ASSUME NEW cur, NEW prev, NEW h
    PROVE  ShowsChanges(Params(cur, prev, h), Only(cur.params), Only(prev.params))
<1>1. ASSUME NEW k \in NewOrChanged(Only(cur.params), Only(prev.params))
      PROVE  \E r \in Params(cur, prev, h) : r.key = k
    <2>1. Row(k, h, cur.params, None) \in Params(cur, prev, h)
        BY DEF Params
    <2> QED
        BY <2>1 DEF Row
<1>2. \A r \in Params(cur, prev, h) : r.val = cur.params
    BY DEF Params, Row
<1>3. \A k \in DOMAIN Only(cur.params) : Only(cur.params)[k] = cur.params
    BY DEF Only
<1> QED
    BY <1>1, <1>2, <1>3, PlainTable

LEMMA SupplyRows ==
    ASSUME NEW cur, NEW prev, NEW h
    PROVE  ShowsChanges(Supply(cur, prev, h), Only(cur.supply), Only(prev.supply))
<1>1. ASSUME NEW k \in NewOrChanged(Only(cur.supply), Only(prev.supply))
      PROVE  \E r \in Supply(cur, prev, h) : r.key = k
    <2>1. Row(k, h, cur.supply, None) \in Supply(cur, prev, h)
        BY DEF Supply
    <2> QED
        BY <2>1 DEF Row
<1>2. \A r \in Supply(cur, prev, h) : r.val = cur.supply
    BY DEF Supply, Row
<1>3. \A k \in DOMAIN Only(cur.supply) : Only(cur.supply)[k] = cur.supply
    BY DEF Only
<1> QED
    BY <1>1, <1>2, <1>3, PlainTable

\* Change detection keeps what it must: nothing the blob holds goes unsaid,
\* unless the other blob says the same.
LEMMA ConvertedRows ==
    ASSUME NEW t \in SnapshotTableNames, NEW cur, NEW prev, NEW h, HasEvidence(cur)
    PROVE  ShowsChanges(convertToBlockData(cur, prev, h)[t], Shown(cur)[t], Shown(prev)[t])
<1> USE DEF convertToBlockData
<1>1. CASE t = "validators"
    BY <1>1, ValidatorRows
<1>2. CASE t = "committee_validators"
    BY <1>2, SeatRows
<1>3. CASE t = "validator_non_signing_info"
    BY <1>3, NonSignerRows DEF Shown
<1>4. CASE t = "validator_double_signing_info"
    BY <1>4, DoubleSignerRows DEF Shown
<1>5. CASE t = "accounts"
    BY <1>5, AccountRows DEF Shown
<1>6. CASE t = "pools"
    BY <1>6, PoolRows DEF Shown
<1>7. CASE t = "pool_points_by_holder"
    BY <1>7, PoolPointRows DEF Shown
<1>8. CASE t = "dex_prices"
    BY <1>8, DexPriceRows DEF Shown
<1>9. CASE t = "orders"
    BY <1>9, OrderRows
<1>10. CASE t = "committees"
    BY <1>10, CommitteeRows DEF Shown
<1>11. CASE t = "params"
    BY <1>11, ParamsRows DEF Shown
<1>12. CASE t = "supply"
    BY <1>12, SupplyRows DEF Shown
<1> QED
    BY <1>1, <1>2, <1>3, <1>4, <1>5, <1>6, <1>7, <1>8, <1>9, <1>10, <1>11, <1>12
    DEF SnapshotTableNames, Tables

-----------------------------------------------------------------------------
(* The inductive invariant *)

\* Heights are written only once the node has reached them.
Reached ==
    /\ node \in Seq(Blobs) /\ Len(node) <= MaxHeight
    /\ views \in [1 .. MaxHeight -> SUBSET Views]
    /\ \A h \in 1 .. MaxHeight : views[h] # {} => h <= Len(node)

\* One row for each key and height, of a height that was written.
RowsAreKeyed ==
    /\ DOMAIN tables = Tables
    /\ \A t \in Tables : \A r \in tables[t] :
        /\ r.height \in 1 .. Len(node) /\ views[r.height] # {}
        /\ \A q \in tables[t] : r.key = q.key /\ r.height = q.height => r = q

\* What a row shows is what the node has at that height.
RowsAreTrue ==
    \A t \in SnapshotTableNames : \A r \in tables[t] :
        r.key \in DOMAIN Shown(node[r.height])[t] => r.val = Shown(node[r.height])[t][r.key]

RowAt(t, k, h) == \E r \in tables[t] : r.key = k /\ r.height = h

SameBefore(t, k, h) ==
    /\ h > 1
    /\ k \in DOMAIN Shown(node[h - 1])[t]
    /\ Shown(node[h - 1])[t][k] = Shown(node[h])[t][k]

\* A height that was written says everything its predecessor does not.
ChangesHaveRows ==
    \A t \in SnapshotTableNames, h \in 1 .. Len(node) : views[h] # {} =>
        \A k \in DOMAIN Shown(node[h])[t] : RowAt(t, k, h) \/ SameBefore(t, k, h)

IInv == Reached /\ RowsAreKeyed /\ RowsAreTrue /\ ChangesHaveRows

LEMMA InitInv == Init => IInv
<1> SUFFICES ASSUME Init PROVE IInv
    OBVIOUS
<1> USE BlobsAssumption DEF Init
<1>1. Reached
    BY DEF Reached, Views
<1>2. RowsAreKeyed
    BY DEF RowsAreKeyed
<1>3. RowsAreTrue
    BY DEF RowsAreTrue, SnapshotTableNames
<1>4. ChangesHaveRows
    BY DEF ChangesHaveRows
<1> QED
    BY <1>1, <1>2, <1>3, <1>4 DEF IInv

LEMMA AdvanceInv ==
    ASSUME IInv, NEW blob \in Blobs, NodeAdvances(blob)
    PROVE  IInv'
<1> USE BlobsAssumption DEF IInv, NodeAdvances
<1>1. /\ Len(node') = Len(node) + 1 /\ node' \in Seq(Blobs)
      /\ \A h \in 1 .. Len(node) : node'[h] = node[h]
    BY DEF Reached
<1>2. \A h \in 1 .. Len(node') : views[h] # {} => h \in 1 .. Len(node)
    BY <1>1 DEF Reached
<1>3. Reached'
    BY <1>1 DEF Reached
<1>4. RowsAreKeyed'
    BY <1>1 DEF RowsAreKeyed, Reached
<1>5. RowsAreTrue'
    <2> SUFFICES ASSUME NEW t \in SnapshotTableNames, NEW r \in tables[t]
                 PROVE  r.key \in DOMAIN Shown(node'[r.height])[t]
                            => r.val = Shown(node'[r.height])[t][r.key]
        BY DEF RowsAreTrue
    <2>1. r.height \in 1 .. Len(node)
        BY DEF RowsAreKeyed, SnapshotTableNames
    <2>2. node'[r.height] = node[r.height]
        BY <2>1, <1>1
    <2> QED
        BY <2>2 DEF RowsAreTrue
<1>6. ChangesHaveRows'
    <2> SUFFICES ASSUME NEW t \in SnapshotTableNames, NEW h \in 1 .. Len(node'), views[h] # {},
                        NEW k \in DOMAIN Shown(node'[h])[t]
                 PROVE  RowAt(t, k, h) \/ SameBefore(t, k, h)'
        BY DEF ChangesHaveRows, RowAt
    <2>1. h \in 1 .. Len(node) /\ node'[h] = node[h]
        BY <1>1, <1>2
    <2>2. RowAt(t, k, h) \/ SameBefore(t, k, h)
        BY <2>1 DEF ChangesHaveRows
    <2>3. h > 1 => node'[h - 1] = node[h - 1]
        BY <2>1, <1>1 DEF Reached
    <2> QED
        BY <2>1, <2>2, <2>3 DEF SameBefore
<1> QED
    BY <1>3, <1>4, <1>5, <1>6

\* An upsert keeps the rows of other heights and brings in all new ones.
LEMMA UpsertKeeps ==
    ASSUME NEW table, NEW new, NEW h, OneRowPerKey(new, h)
    PROVE  /\ \A r \in Upsert(table, new) : r \in table \/ r \in new
           /\ new \subseteq Upsert(table, new)
           /\ \A r \in table : r.height # h => r \in Upsert(table, new)
           /\ \A r \in Upsert(table, new) : r \in new \/ \A n \in new :
                r.key # n.key \/ r.height # n.height
BY DEF Upsert, OneRowPerKey

LEMMA WriteInv ==
    ASSUME IInv, NEW h \in 1 .. MaxHeight, NEW view \in Views, WriteBlock(h, view)
    PROVE  IInv'
<1> USE BlobsAssumption DEF IInv
<1> DEFINE prev == Previous(h, view)
           new(t) == convertToBlockData(node[h], prev, h)[t]
<1>1. /\ h \in 1 .. Len(node) /\ node[h] \in Blobs /\ Len(node) \in Nat
      /\ node' = node /\ views' = [views EXCEPT ![h] = @ \union {view}]
      /\ \A t \in Tables : tables'[t] = Upsert(tables[t], new(t))
      /\ DOMAIN tables' = Tables
    BY DEF WriteBlock, Reached
<1>2. /\ \A g \in 1 .. MaxHeight : g # h => views'[g] = views[g]
      /\ views'[h] # {}
      /\ views' \in [1 .. MaxHeight -> SUBSET Views]
    BY <1>1 DEF Reached
<1>3. \A t \in Tables : OneRowPerKey(new(t), h)
    BY ConvertedKeys
<1>9. \A t \in Tables :
        /\ \A r \in tables'[t] : r \in tables[t] \/ r \in new(t)
        /\ \A r \in new(t) : r \in tables'[t]
        /\ \A r \in tables[t] : r.height # h => r \in tables'[t]
        /\ \A r \in tables'[t] : r \in new(t) \/ \A n \in new(t) :
                r.key # n.key \/ r.height # n.height
    <2> SUFFICES ASSUME NEW t \in Tables
                 PROVE  /\ \A r \in tables'[t] : r \in tables[t] \/ r \in new(t)
                        /\ \A r \in new(t) : r \in tables'[t]
                        /\ \A r \in tables[t] : r.height # h => r \in tables'[t]
                        /\ \A r \in tables'[t] : r \in new(t) \/ \A n \in new(t) :
                                r.key # n.key \/ r.height # n.height
        OBVIOUS
    <2> DEFINE rows == new(t)
    <2>1. tables'[t] = Upsert(tables[t], rows) /\ OneRowPerKey(rows, h)
        BY <1>1, <1>3
    <2> HIDE DEF rows
    <2>2. /\ \A r \in Upsert(tables[t], rows) : r \in tables[t] \/ r \in rows
          /\ rows \subseteq Upsert(tables[t], rows)
          /\ \A r \in tables[t] : r.height # h => r \in Upsert(tables[t], rows)
          /\ \A r \in Upsert(tables[t], rows) : r \in rows \/ \A n \in rows :
                r.key # n.key \/ r.height # n.height
        BY <2>1, UpsertKeeps
    <2>3. /\ \A r \in tables'[t] : r \in tables[t] \/ r \in rows
          /\ \A r \in rows : r \in tables'[t]
          /\ \A r \in tables[t] : r.height # h => r \in tables'[t]
          /\ \A r \in tables'[t] : r \in rows \/ \A n \in rows :
                r.key # n.key \/ r.height # n.height
        BY <2>1, <2>2
    <2> QED
        BY <2>3 DEF rows
<1>4. \A t \in SnapshotTableNames :
        ShowsChanges(new(t), Shown(node[h])[t], Shown(prev)[t])
    <2>1. HasEvidence(node[h])
        BY <1>1 DEF HasEvidence
    <2> QED
        BY <2>1, ConvertedRows
<1> HIDE DEF new
<1>5. Reached'
    BY <1>1, <1>2 DEF Reached
<1>6. RowsAreKeyed'
    <2> SUFFICES ASSUME NEW t \in Tables, NEW r \in tables'[t]
                 PROVE  /\ r.height \in 1 .. Len(node) /\ views'[r.height] # {}
                        /\ \A q \in tables'[t] :
                            r.key = q.key /\ r.height = q.height => r = q
        BY <1>1 DEF RowsAreKeyed
    <2>1. OneRowPerKey(new(t), h)
        BY <1>3
    <2>2. r \in tables[t] \/ r.height = h
        BY <2>1, <1>9 DEF OneRowPerKey
    <2>3. r.height \in 1 .. Len(node) /\ views'[r.height] # {}
        <3>1. CASE r.height = h
            BY <3>1, <1>1, <1>2
        <3>2. CASE r \in tables[t] /\ r.height # h
            <4>1. r.height \in 1 .. Len(node) /\ views[r.height] # {}
                BY <3>2 DEF RowsAreKeyed
            <4>2. r.height \in 1 .. MaxHeight
                BY <4>1 DEF Reached
            <4> QED
                BY <3>2, <4>1, <4>2, <1>2
        <3> QED
            BY <2>2, <3>1, <3>2
    <2>4. ASSUME NEW q \in tables'[t], r.key = q.key, r.height = q.height
          PROVE  r = q
        <3>1. CASE r \in new(t)
            <4>1. q \in new(t)
                BY <2>1, <2>4, <3>1, <1>9
            <4> QED
                BY <2>1, <2>4, <3>1, <4>1 DEF OneRowPerKey
        <3>2. CASE r \notin new(t)
            <4>1. q \notin new(t)
                BY <2>1, <2>4, <3>2, <1>9
            <4>2. r \in tables[t] /\ q \in tables[t]
                BY <2>1, <2>4, <3>2, <4>1, <1>9
            <4> QED
                BY <2>4, <4>2 DEF RowsAreKeyed
        <3> QED
            BY <3>1, <3>2
    <2> QED
        BY <2>3, <2>4
<1>7. RowsAreTrue'
    <2> SUFFICES ASSUME NEW t \in SnapshotTableNames, NEW r \in tables'[t]
                 PROVE  r.key \in DOMAIN Shown(node[r.height])[t]
                            => r.val = Shown(node[r.height])[t][r.key]
        BY <1>1 DEF RowsAreTrue
    <2>1. t \in Tables
        BY DEF SnapshotTableNames
    <2>2. OneRowPerKey(new(t), h)
        BY <2>1, <1>3
    <2>3. CASE r \in new(t)
        BY <2>2, <2>3, <1>4 DEF OneRowPerKey, ShowsChanges
    <2>4. CASE r \in tables[t]
        BY <2>4 DEF RowsAreTrue
    <2> QED
        BY <2>1, <2>3, <2>4, <1>9
<1>8. ChangesHaveRows'
    <2> SUFFICES ASSUME NEW t \in SnapshotTableNames, NEW g \in 1 .. Len(node), views'[g] # {},
                        NEW k \in DOMAIN Shown(node[g])[t]
                 PROVE  RowAt(t, k, g)' \/ SameBefore(t, k, g)
        <3>1. Len(node') = Len(node) /\ \A t, k, g : SameBefore(t, k, g)' = SameBefore(t, k, g)
            BY <1>1 DEF SameBefore
        <3>2. node' = node
            BY <1>1
        <3> QED
            BY <3>1, <3>2 DEF ChangesHaveRows
    <2>1. t \in Tables
        BY DEF SnapshotTableNames
    <2>2. OneRowPerKey(new(t), h)
        BY <2>1, <1>3
    <2>3. CASE g = h
        <3>1. (\E r \in new(t) : r.key = k)
                \/ (k \in DOMAIN Shown(prev)[t] /\ Shown(prev)[t][k] = Shown(node[h])[t][k])
            BY <2>3, <1>4 DEF ShowsChanges
        <3>2. ASSUME NEW r \in new(t), r.key = k
              PROVE  RowAt(t, k, g)'
            <4>1. r \in tables'[t] /\ r.height = g
                BY <2>1, <2>2, <2>3, <1>9 DEF OneRowPerKey
            <4> QED
                BY <3>2, <4>1 DEF RowAt
        <3>3. ASSUME k \in DOMAIN Shown(prev)[t], Shown(prev)[t][k] = Shown(node[h])[t][k]
              PROVE  SameBefore(t, k, g)
            <4>1. prev # EmptyBlob
                BY <3>3, NothingShown
            <4>2. h > 1 /\ prev = node[h - 1]
                BY <4>1 DEF Previous
            <4> QED
                BY <2>3, <3>3, <4>2 DEF SameBefore
        <3> QED
            BY <3>1, <3>2, <3>3
    <2>4. CASE g # h
        <3>1. views[g] # {}
            <4>1. g \in 1 .. MaxHeight
                BY <1>1 DEF Reached
            <4> QED
                BY <2>4, <4>1, <1>2
        <3>2. RowAt(t, k, g) \/ SameBefore(t, k, g)
            BY <3>1 DEF ChangesHaveRows
        <3>3. RowAt(t, k, g) => RowAt(t, k, g)'
            BY <2>1, <2>4, <1>9 DEF RowAt
        <3> QED
            BY <3>2, <3>3
    <2> QED
        BY <2>3, <2>4
<1> QED
    BY <1>5, <1>6, <1>7, <1>8

LEMMA NextInv == IInv /\ [Next]_vars => IInv'
<1> SUFFICES ASSUME IInv, [Next]_vars PROVE IInv'
    OBVIOUS
<1>1. CASE \E blob \in Blobs : NodeAdvances(blob)
    BY <1>1, AdvanceInv
<1>2. CASE \E h \in 1 .. MaxHeight, view \in Views : WriteBlock(h, view)
    BY <1>2, WriteInv
<1>3. CASE UNCHANGED vars
    <2>1. node' = node /\ views' = views /\ tables' = tables
        BY <1>3 DEF vars
    <2>2. Reached' /\ RowsAreKeyed'
        BY <2>1 DEF IInv, Reached, RowsAreKeyed
    <2>3. RowsAreTrue'
        BY <2>1 DEF IInv, RowsAreTrue
    <2>4. ChangesHaveRows'
        <3>1. \A t, k, h : /\ RowAt(t, k, h)' = RowAt(t, k, h)
                           /\ SameBefore(t, k, h)' = SameBefore(t, k, h)
            BY <2>1 DEF RowAt, SameBefore
        <3> QED
            BY <2>1, <3>1 DEF IInv, ChangesHaveRows
    <2> QED
        BY <2>2, <2>3, <2>4 DEF IInv
<1> QED
    BY <1>1, <1>2, <1>3 DEF Next

THEOREM Invariance == Spec => []IInv
BY InitInv, NextInv, PTL DEF Spec

\* Rows are of heights the node has reached, one for each key and height.
THEOREM TypeCorrect == Spec => []TypeOK
<1>1. IInv => TypeOK
    BY DEF IInv, Reached, RowsAreKeyed, TypeOK
<1> QED
    BY <1>1, Invariance, PTL

-----------------------------------------------------------------------------
(* What a reader finds *)

\* Among rows with heights there is one of the greatest height up to a bound.
LEMMA LatestExists ==
    ASSUME NEW t, NEW k, NEW h \in Nat,
           \A r \in tables[t] : r.height \in Nat,
           \E r \in tables[t] : r.key = k /\ r.height <= h
    PROVE  LatestRows(t, k, h) # {}
<1> DEFINE Distances == {d \in Nat : \E r \in tables[t] : r.key = k /\ r.height <= h /\ d = h - r.height}
<1>1. Distances # {} /\ Distances \in SUBSET Nat
    <2>1. PICK r \in tables[t] : r.key = k /\ r.height <= h
        OBVIOUS
    <2>2. h - r.height \in Distances
        BY <2>1
    <2> QED
        BY <2>2
<1> HIDE DEF Distances
<1>2. PICK d \in Distances : \A e \in Distances : d <= e
    BY <1>1, LeastElement
<1>3. PICK r \in tables[t] : r.key = k /\ r.height <= h /\ d = h - r.height
    BY <1>2 DEF Distances
<1>4. ASSUME NEW q \in tables[t], q.key = k, q.height <= h
      PROVE  q.height <= r.height
    <2>1. h - q.height \in Distances
        BY <1>4 DEF Distances
    <2>2. d <= h - q.height
        BY <2>1, <1>2
    <2> QED
        BY <2>2, <1>3
<1> QED
    BY <1>3, <1>4 DEF LatestRows, Latest, Known

\* A key shows the same from some height on, and there it has a row.
LEMMA LastChange ==
    ASSUME IInv, NEW t \in SnapshotTableNames, NEW h \in Covered,
           NEW k \in DOMAIN Shown(node[h])[t]
    PROVE  \E m \in 1 .. h :
            /\ RowAt(t, k, m)
            /\ \A i \in m .. h : /\ k \in DOMAIN Shown(node[i])[t]
                                 /\ Shown(node[i])[t][k] = Shown(node[h])[t][k]
<1> USE DEF IInv
<1> DEFINE Same(i) == /\ k \in DOMAIN Shown(node[i])[t]
                      /\ Shown(node[i])[t][k] = Shown(node[h])[t][k]
           Since == {g \in Nat : g \in 1 .. h /\ \A i \in g .. h : Same(i)}
<1>1. h \in 1 .. Len(node) /\ Len(node) \in Nat /\ \A g \in 1 .. h : views[g] # {}
    BY DEF Covered, Reached
<1>2. h \in Since /\ Since \in SUBSET Nat
    BY <1>1
<1> HIDE DEF Since
<1>3. PICK m \in Since : \A g \in Since : m <= g
    BY <1>2, LeastElement
<1>4. m \in 1 .. h /\ m \in 1 .. Len(node) /\ \A i \in m .. h : Same(i)
    BY <1>1, <1>3 DEF Since
<1>5. RowAt(t, k, m) \/ SameBefore(t, k, m)
    BY <1>1, <1>4 DEF ChangesHaveRows
<1>6. ~SameBefore(t, k, m)
    <2> SUFFICES ASSUME SameBefore(t, k, m) PROVE FALSE
        OBVIOUS
    <2>1. m - 1 \in 1 .. h /\ Same(m - 1)
        BY <1>1, <1>4 DEF SameBefore
    <2>2. \A i \in m - 1 .. h : Same(i)
        <3>1. \A i \in m - 1 .. h : i = m - 1 \/ i \in m .. h
            BY <1>1, <1>4
        <3> QED
            BY <3>1, <2>1, <1>4
    <2>3. m - 1 \in Since
        BY <2>1, <2>2 DEF Since
    <2> QED
        BY <2>3, <1>3, <1>4
<1> QED
    BY <1>4, <1>5, <1>6

\* The reader's query is exact for every history the node may have, any number
\* of blocks, and every order in which they are stored.
THEOREM HistoryStaysExact == Spec => []HistoryIsExact
<1>1. IInv => HistoryIsExact
    <2> SUFFICES ASSUME IInv, NEW t \in SnapshotTableNames, NEW h \in Covered,
                        NEW k \in DOMAIN Shown(node[h])[t]
                 PROVE  /\ LatestRows(t, k, h) # {}
                        /\ \A r \in LatestRows(t, k, h) : r.val = Shown(node[h])[t][k]
        BY DEF HistoryIsExact
    <2>1. PICK m \in 1 .. h :
            /\ RowAt(t, k, m)
            /\ \A i \in m .. h : /\ k \in DOMAIN Shown(node[i])[t]
                                 /\ Shown(node[i])[t][k] = Shown(node[h])[t][k]
        BY LastChange
    <2>2. h \in Nat /\ m \in Nat /\ \A r \in tables[t] : r.height \in Nat
        BY DEF IInv, Covered, Reached, RowsAreKeyed, SnapshotTableNames
    <2>3. PICK s \in tables[t] : s.key = k /\ s.height = m
        BY <2>1 DEF RowAt
    <2>4. LatestRows(t, k, h) # {}
        BY <2>2, <2>3, LatestExists
    <2>5. ASSUME NEW r \in LatestRows(t, k, h)
          PROVE  r.val = Shown(node[h])[t][k]
        <3>1. r \in tables[t] /\ r.key = k /\ r.height \in m .. h
            BY <2>2, <2>3, <2>5 DEF LatestRows, Latest, Known
        <3>2. k \in DOMAIN Shown(node[r.height])[t]
            BY <3>1, <2>1
        <3>3. r.val = Shown(node[r.height])[t][k]
            BY <3>1, <3>2 DEF IInv, RowsAreTrue
        <3> QED
            BY <3>1, <3>3, <2>1
    <2> QED
        BY <2>4, <2>5
<1> QED
    BY <1>1, Invariance, PTL
-----------------------------------------------------------------------------
(* Signers that are no longer listed *)

\* A row for a signer the blob does not list says zero.
GoneIsZero ==
    \A t \in SignerTables : \A r \in tables[t] :
        r.key \notin DOMAIN Shown(node[r.height])[t] => r.val = 0

\* A height that was compared says who is gone since its predecessor.
GoneHasRow ==
    \A t \in SignerTables, h \in 2 .. Len(node) : "change" \in views[h] =>
        \A k \in DOMAIN Shown(node[h - 1])[t] :
            k \in DOMAIN Shown(node[h])[t] \/ RowAt(t, k, h)

RInv == IInv /\ GoneIsZero /\ GoneHasRow

\* The signers' rows speak of a signer the blob lists or say zero, and all of
\* those that only the other blob lists get one.
LEMMA SignerRows ==
    ASSUME NEW t \in SignerTables, NEW cur, NEW prev, NEW h
    PROVE  LET rows == convertToBlockData(cur, prev, h)[t]
           IN  /\ \A r \in rows : r.key \in DOMAIN Shown(cur)[t] \/ r.val = 0
               /\ \A k \in DOMAIN Shown(prev)[t] :
                    k \in DOMAIN Shown(cur)[t] \/ \E r \in rows : r.key = k
<1>1. ASSUME NEW now, NEW was
      PROVE  /\ \A r \in Gone(now, was, h) : r.val = 0
             /\ \A k \in DOMAIN was : k \in DOMAIN now \/ \E r \in Gone(now, was, h) : r.key = k
    <2>1. \A r \in Gone(now, was, h) : r.val = 0
        BY DEF Gone, Row
    <2>2. ASSUME NEW k \in DOMAIN was, k \notin DOMAIN now
          PROVE  \E r \in Gone(now, was, h) : r.key = k
        <3>1. Row(k, h, 0, None) \in Gone(now, was, h) /\ Row(k, h, 0, None).key = k
            BY <2>2 DEF Gone, Row
        <3> QED
            BY <3>1
    <2> QED
        BY <2>1, <2>2
<1>2. CASE t = "validator_non_signing_info"
    <2>1. convertToBlockData(cur, prev, h)[t] = NonSigners(cur, prev, h)
        BY <1>2 DEF convertToBlockData
    <2>2. Shown(cur)[t] = cur.nonSigners /\ Shown(prev)[t] = prev.nonSigners
        BY <1>2 DEF Shown
    <2>3. \A r \in NonSigners(cur, prev, h) :
            r.key \in DOMAIN cur.nonSigners \/ r \in Gone(cur.nonSigners, prev.nonSigners, h)
        BY DEF NonSigners, NewOrChanged, Row
    <2>4. Gone(cur.nonSigners, prev.nonSigners, h) \subseteq NonSigners(cur, prev, h)
        BY DEF NonSigners
    <2> QED
        BY <2>1, <2>2, <2>3, <2>4, <1>1
<1>3. CASE t = "validator_double_signing_info"
    <2>1. convertToBlockData(cur, prev, h)[t] = DoubleSigners(cur, prev, h)
        BY <1>3 DEF convertToBlockData
    <2>2. Shown(cur)[t] = cur.doubleSigners /\ Shown(prev)[t] = prev.doubleSigners
        BY <1>3 DEF Shown
    <2>3. \A r \in DoubleSigners(cur, prev, h) :
            \/ r.key \in DOMAIN cur.doubleSigners
            \/ r \in Gone(cur.doubleSigners, prev.doubleSigners, h)
        BY DEF DoubleSigners, Row
    <2>4. Gone(cur.doubleSigners, prev.doubleSigners, h) \subseteq DoubleSigners(cur, prev, h)
        BY DEF DoubleSigners
    <2> QED
        BY <2>1, <2>2, <2>3, <2>4, <1>1
<1> QED
    BY <1>2, <1>3 DEF SignerTables

LEMMA SignerTablesAreTables ==
    SignerTables \subseteq Tables /\ SignerTables \subseteq SnapshotTableNames
BY DEF SignerTables, Tables, SnapshotTableNames

LEMMA InitRInv == Init => RInv
<1> SUFFICES ASSUME Init PROVE RInv
    OBVIOUS
<1>1. IInv
    BY InitInv
<1>2. GoneIsZero
    BY SignerTablesAreTables DEF GoneIsZero, Init
<1>3. GoneHasRow
    BY DEF GoneHasRow, Init
<1> QED
    BY <1>1, <1>2, <1>3 DEF RInv

LEMMA AdvanceRInv ==
    ASSUME RInv, NEW blob \in Blobs, NodeAdvances(blob)
    PROVE  GoneIsZero' /\ GoneHasRow'
<1> USE BlobsAssumption, SignerTablesAreTables DEF RInv, IInv, NodeAdvances
<1>1. /\ Len(node') = Len(node) + 1 /\ Len(node) \in Nat
      /\ Len(node') <= MaxHeight
      /\ \A h \in 1 .. Len(node) : node'[h] = node[h]
    BY DEF Reached
<1>2. GoneIsZero'
    <2> SUFFICES ASSUME NEW t \in SignerTables, NEW r \in tables[t],
                        r.key \notin DOMAIN Shown(node'[r.height])[t]
                 PROVE  r.val = 0
        BY DEF GoneIsZero
    <2>1. r.height \in 1 .. Len(node)
        BY DEF RowsAreKeyed
    <2>2. node'[r.height] = node[r.height]
        BY <2>1, <1>1
    <2> QED
        BY <2>2 DEF GoneIsZero
<1>3. GoneHasRow'
    <2> SUFFICES ASSUME NEW t \in SignerTables, NEW h \in 2 .. Len(node'),
                        "change" \in views[h],
                        NEW k \in DOMAIN Shown(node'[h - 1])[t]
                 PROVE  k \in DOMAIN Shown(node'[h])[t] \/ RowAt(t, k, h)
        <3>1. views' = views /\ \A t, k, h : RowAt(t, k, h)' = RowAt(t, k, h)
            BY DEF RowAt
        <3> QED
            BY <3>1 DEF GoneHasRow
    <2>1. h \in 2 .. Len(node)
        BY <1>1 DEF Reached
    <2>2. node'[h] = node[h] /\ node'[h - 1] = node[h - 1]
        BY <2>1, <1>1
    <2> QED
        BY <2>1, <2>2 DEF GoneHasRow
<1> QED
    BY <1>2, <1>3

LEMMA WriteRInv ==
    ASSUME RInv, NEW h \in 1 .. MaxHeight, NEW view \in Views, WriteBlock(h, view)
    PROVE  GoneIsZero' /\ GoneHasRow'
<1> USE BlobsAssumption, SignerTablesAreTables DEF RInv, IInv
<1> DEFINE prev == Previous(h, view)
           new(t) == convertToBlockData(node[h], prev, h)[t]
<1>1. /\ h \in 1 .. Len(node) /\ Len(node) \in Nat /\ Len(node) <= MaxHeight
      /\ node' = node /\ views' = [views EXCEPT ![h] = @ \union {view}]
      /\ \A t \in Tables : tables'[t] = Upsert(tables[t], new(t))
    BY DEF WriteBlock, Reached
<1>2. \A t \in Tables : OneRowPerKey(new(t), h)
    BY ConvertedKeys
<1>3. \A t \in SignerTables :
        /\ \A r \in new(t) : r.key \in DOMAIN Shown(node[h])[t] \/ r.val = 0
        /\ \A k \in DOMAIN Shown(prev)[t] :
            k \in DOMAIN Shown(node[h])[t] \/ \E r \in new(t) : r.key = k
    BY SignerRows
<1> HIDE DEF new
<1>4. \A t \in Tables :
        /\ \A r \in tables'[t] : r \in tables[t] \/ (r \in new(t) /\ r.height = h)
        /\ \A r \in new(t) : r \in tables'[t] /\ r.height = h
        /\ \A r \in tables[t] : \E q \in tables'[t] : q.key = r.key /\ q.height = r.height
    BY <1>1, <1>2 DEF Upsert, OneRowPerKey
<1>5. GoneIsZero'
    <2> SUFFICES ASSUME NEW t \in SignerTables, NEW r \in tables'[t],
                        r.key \notin DOMAIN Shown(node[r.height])[t]
                 PROVE  r.val = 0
        BY <1>1 DEF GoneIsZero
    <2>1. CASE r \in tables[t]
        BY <2>1 DEF GoneIsZero
    <2>2. CASE r \in new(t) /\ r.height = h
        BY <2>2, <1>3
    <2> QED
        BY <2>1, <2>2, <1>4
<1>6. GoneHasRow'
    <2> SUFFICES ASSUME NEW t \in SignerTables, NEW g \in 2 .. Len(node),
                        "change" \in views'[g],
                        NEW k \in DOMAIN Shown(node[g - 1])[t],
                        k \notin DOMAIN Shown(node[g])[t]
                 PROVE  RowAt(t, k, g)'
        BY <1>1 DEF GoneHasRow
    <2>1. CASE "change" \in views[g]
        <3>1. RowAt(t, k, g)
            BY <2>1 DEF GoneHasRow
        <3> QED
            BY <3>1, <1>4 DEF RowAt
    <2>2. CASE "change" \notin views[g]
        <3>1. g \in 1 .. MaxHeight
            BY <1>1
        <3>2. g = h /\ view = "change"
            BY <2>2, <3>1, <1>1 DEF Reached
        <3>3. prev = node[g - 1]
            BY <3>2 DEF Previous
        <3>4. PICK r \in new(t) : r.key = k
            BY <3>2, <3>3, <1>3
        <3> QED
            BY <3>2, <3>4, <1>4 DEF RowAt
    <2> QED
        BY <2>1, <2>2
<1> QED
    BY <1>5, <1>6

LEMMA NextRInv == RInv /\ [Next]_vars => RInv'
<1> SUFFICES ASSUME RInv, [Next]_vars PROVE RInv'
    OBVIOUS
<1>1. IInv'
    BY NextInv DEF RInv
<1>2. CASE \E blob \in Blobs : NodeAdvances(blob)
    <2>1. PICK blob \in Blobs : NodeAdvances(blob)
        BY <1>2
    <2>2. GoneIsZero' /\ GoneHasRow'
        BY <2>1, AdvanceRInv
    <2> QED
        BY <1>1, <2>2 DEF RInv
<1>3. CASE \E h \in 1 .. MaxHeight, view \in Views : WriteBlock(h, view)
    <2>1. PICK h \in 1 .. MaxHeight, view \in Views : WriteBlock(h, view)
        BY <1>3
    <2>2. GoneIsZero' /\ GoneHasRow'
        BY <2>1, WriteRInv
    <2> QED
        BY <1>1, <2>2 DEF RInv
<1>4. CASE UNCHANGED vars
    <2>1. node' = node /\ views' = views /\ tables' = tables
        BY <1>4 DEF vars
    <2>2. GoneIsZero'
        BY <2>1 DEF RInv, GoneIsZero
    <2>3. GoneHasRow'
        <3>1. \A t, k, h : RowAt(t, k, h)' = RowAt(t, k, h)
            BY <2>1 DEF RowAt
        <3> QED
            BY <2>1, <3>1 DEF RInv, GoneHasRow
    <2> QED
        BY <1>1, <2>2, <2>3 DEF RInv
<1> QED
    BY <1>2, <1>3, <1>4 DEF Next

\* Between a height that lists a signer and a later one that does not lies one
\* that says so.
LEMMA ResetExists ==
    ASSUME RInv, NEW t \in SignerTables, NEW h \in Compared, NEW g \in 1 .. h,
           NEW k \in DOMAIN Shown(node[g])[t], k \notin DOMAIN Shown(node[h])[t]
    PROVE  \E m \in g + 1 .. h : RowAt(t, k, m)
<1> DEFINE Absent == {i \in g + 1 .. h : k \notin DOMAIN Shown(node[i])[t]}
<1>1. h \in 1 .. Len(node) /\ Len(node) \in Nat /\ \A i \in 1 .. h : "change" \in views[i]
    BY DEF Compared, RInv, IInv, Reached
<1>2. Absent \subseteq Nat /\ h \in Absent
    <2>1. g # h
        OBVIOUS
    <2> QED
        BY <2>1, <1>1
<1> HIDE DEF Absent
<1>3. PICK m \in Absent : \A i \in Absent : m <= i
    BY <1>2, LeastElement
<1>4. m \in g + 1 .. h /\ k \notin DOMAIN Shown(node[m])[t]
    BY <1>3 DEF Absent
<1>5. k \in DOMAIN Shown(node[m - 1])[t]
    <2>1. CASE m = g + 1
        BY <2>1, <1>1
    <2>2. CASE m - 1 \in g + 1 .. h
        <3>1. m - 1 \notin Absent
            BY <1>1, <1>3, <1>4
        <3> QED
            BY <2>2, <3>1 DEF Absent
    <2> QED
        BY <2>1, <2>2, <1>1, <1>4
<1>6. m \in 2 .. Len(node) /\ "change" \in views[m]
    BY <1>1, <1>4
<1> QED
    BY <1>4, <1>5, <1>6 DEF RInv, GoneHasRow

\* A signer that is gone reads as zero, whatever the order in which the blocks
\* were compared, and however many of them were stored by themselves as well.
THEOREM ResetsStaySeen == Spec => []ResetsAreSeen
<1>1. RInv => ResetsAreSeen
    <2> SUFFICES ASSUME RInv, NEW t \in SignerTables, NEW h \in Compared,
                        NEW r \in tables[t],
                        r.key \notin DOMAIN Shown(node[h])[t],
                        r \in LatestRows(t, r.key, h)
                 PROVE  r.val = 0
        BY DEF ResetsAreSeen
    <2>1. /\ h \in Nat /\ r.height \in 1 .. h
          /\ \A q \in tables[t] : q.height \in Nat
        BY SignerTablesAreTables DEF LatestRows, Latest, Known, Compared, RInv, IInv, Reached, RowsAreKeyed
    <2>2. CASE r.key \notin DOMAIN Shown(node[r.height])[t]
        BY <2>2 DEF RInv, GoneIsZero
    <2>3. CASE r.key \in DOMAIN Shown(node[r.height])[t]
        <3>1. PICK m \in r.height + 1 .. h : RowAt(t, r.key, m)
            BY <2>1, <2>3, ResetExists
        <3>2. PICK q \in tables[t] : q.key = r.key /\ q.height = m
            BY <3>1 DEF RowAt
        <3>3. q.height <= r.height
            BY <2>1, <3>1, <3>2 DEF LatestRows, Latest, Known
        <3> QED
            BY <2>1, <3>1, <3>2, <3>3
    <2> QED
        BY <2>2, <2>3
<1> QED
    BY <1>1, InitRInv, NextRInv, PTL DEF Spec

-----------------------------------------------------------------------------
(* The seats of a validator *)

\* A seat's row is of a height at which the validator holds the seat.
SeatsAreTrue ==
    \A s \in tables["committee_validators"] : s.key \in Seats(node[s.height])

\* Next to a row of a validator stand rows of all seats it holds at that height.
RowsHaveSeats ==
    \A r \in tables["validators"] :
        /\ r.key \in DOMAIN node[r.height].validators
        /\ \A c \in node[r.height].validators[r.key].committees :
            RowAt("committee_validators", <<c, r.key>>, r.height)

SameValidator(a, h) ==
    /\ h > 1
    /\ a \in DOMAIN node[h - 1].validators
    /\ node[h - 1].validators[a] = node[h].validators[a]

\* A height that was written has a row of each validator that is not, in all it
\* says, its predecessor's.  ChangesHaveRows does not give this: the columns a
\* validator's row shows leave its committees out.
ValidatorsHaveRows ==
    \A h \in 1 .. Len(node) : views[h] # {} =>
        \A a \in DOMAIN node[h].validators : RowAt("validators", a, h) \/ SameValidator(a, h)

SInv == IInv /\ SeatsAreTrue /\ RowsHaveSeats /\ ValidatorsHaveRows

LEMMA ValidatorTables ==
    /\ "validators" \in Tables /\ "committee_validators" \in Tables
    /\ "validators" \in SnapshotTableNames
BY DEF Tables, SnapshotTableNames

\* A seat names its committee and a validator that sits in it.
LEMMA SeatsSit ==
    ASSUME NEW blob, NEW c, NEW a
    PROVE  <<c, a>> \in Seats(blob) <=>
                a \in DOMAIN blob.validators /\ c \in blob.validators[a].committees
BY DEF Seats

\* What the rows of validators and of seats of one block say together.
SeatsMatch(rows, seats, cur, prev) ==
    /\ \A s \in seats : s.key \in Seats(cur)
    /\ \A r \in rows :
        /\ r.key \in DOMAIN cur.validators
        /\ \A c \in cur.validators[r.key].committees : \E s \in seats : s.key = <<c, r.key>>
    /\ \A a \in DOMAIN cur.validators :
        \/ \E r \in rows : r.key = a
        \/ a \in DOMAIN prev.validators /\ prev.validators[a] = cur.validators[a]

\* The conversion of validators and that of their seats agree.
LEMMA ConvertedSeats ==
    ASSUME NEW cur, NEW prev, NEW h
    PROVE  SeatsMatch(Validators(cur, prev, h), CommitteeValidators(cur, prev, h), cur, prev)
<1>1. \A s \in CommitteeValidators(cur, prev, h) : s.key \in Seats(cur)
    BY DEF CommitteeValidators, Row
<1>2. ASSUME NEW r \in Validators(cur, prev, h)
      PROVE  /\ r.key \in DOMAIN cur.validators
             /\ \A c \in cur.validators[r.key].committees :
                    \E s \in CommitteeValidators(cur, prev, h) : s.key = <<c, r.key>>
    <2>1. r.key \in ChangedValidators(cur, prev)
        BY DEF Validators, Row
    <2>2. r.key \in DOMAIN cur.validators
        BY <2>1 DEF ChangedValidators, NewOrChanged
    <2>3. ASSUME NEW c \in cur.validators[r.key].committees
          PROVE  \E s \in CommitteeValidators(cur, prev, h) : s.key = <<c, r.key>>
        <3> DEFINE seat == <<c, r.key>>
        <3>1. seat \in Seats(cur) /\ seat[2] = r.key
            BY <2>2, SeatsSit
        <3> HIDE DEF seat
        <3>2. Row(seat, h, MemberColumns(cur.validators[seat[2]]), seat[1] \in cur.subsidized)
                \in CommitteeValidators(cur, prev, h)
            BY <2>1, <3>1 DEF CommitteeValidators
        <3>3. \E s \in CommitteeValidators(cur, prev, h) : s.key = seat
            BY <3>2 DEF Row
        <3> QED
            BY <3>3 DEF seat
    <2> QED
        BY <2>2, <2>3
<1>3. ASSUME NEW a \in DOMAIN cur.validators
      PROVE  \/ \E r \in Validators(cur, prev, h) : r.key = a
             \/ a \in DOMAIN prev.validators /\ prev.validators[a] = cur.validators[a]
    <2>1. CASE a \in ChangedValidators(cur, prev)
        <3>1. Row(a, h, ValidatorColumns(cur.validators[a]), None) \in Validators(cur, prev, h)
            BY <2>1 DEF Validators
        <3> QED
            BY <3>1 DEF Row
    <2>2. CASE a \notin ChangedValidators(cur, prev)
        BY <2>2 DEF ChangedValidators, NewOrChanged
    <2> QED
        BY <2>1, <2>2
<1> QED
    BY <1>1, <1>2, <1>3 DEF SeatsMatch

LEMMA InitSInv == Init => SInv
<1> SUFFICES ASSUME Init PROVE SInv
    OBVIOUS
<1>1. IInv
    BY InitInv
<1>2. SeatsAreTrue /\ RowsHaveSeats
    BY ValidatorTables DEF SeatsAreTrue, RowsHaveSeats, Init
<1>3. ValidatorsHaveRows
    BY DEF ValidatorsHaveRows, Init
<1> QED
    BY <1>1, <1>2, <1>3 DEF SInv

LEMMA AdvanceSInv ==
    ASSUME SInv, NEW blob \in Blobs, NodeAdvances(blob)
    PROVE  SeatsAreTrue' /\ RowsHaveSeats' /\ ValidatorsHaveRows'
<1> USE BlobsAssumption, ValidatorTables DEF SInv, IInv, NodeAdvances
<1>1. /\ Len(node') = Len(node) + 1 /\ Len(node) \in Nat
      /\ Len(node') <= MaxHeight
      /\ \A h \in 1 .. Len(node) : node'[h] = node[h]
    BY DEF Reached
<1>2. \A t \in Tables : \A r \in tables[t] : node'[r.height] = node[r.height]
    BY <1>1 DEF RowsAreKeyed
<1>3. views' = views /\ tables' = tables
    OBVIOUS
<1>4. \A t, k, h : RowAt(t, k, h)' = RowAt(t, k, h)
    BY <1>3 DEF RowAt
<1>5. SeatsAreTrue'
    <2> SUFFICES ASSUME NEW s \in tables["committee_validators"]
                 PROVE  s.key \in Seats(node'[s.height])
        BY <1>3 DEF SeatsAreTrue, Seats
    <2> QED
        BY <1>2 DEF SeatsAreTrue
<1>6. RowsHaveSeats'
    BY <1>2, <1>3, <1>4 DEF RowsHaveSeats
<1>7. ValidatorsHaveRows'
    <2> SUFFICES ASSUME NEW h \in 1 .. Len(node'), views[h] # {},
                        NEW a \in DOMAIN node'[h].validators
                 PROVE  RowAt("validators", a, h) \/ SameValidator(a, h)'
        BY <1>3, <1>4 DEF ValidatorsHaveRows
    <2>1. h \in 1 .. Len(node) /\ node'[h] = node[h]
        BY <1>1 DEF Reached
    <2>2. RowAt("validators", a, h) \/ SameValidator(a, h)
        BY <2>1 DEF ValidatorsHaveRows
    <2>3. h > 1 => node'[h - 1] = node[h - 1]
        BY <2>1, <1>1
    <2> QED
        BY <2>1, <2>2, <2>3 DEF SameValidator
<1> QED
    BY <1>5, <1>6, <1>7

LEMMA WriteSInv ==
    ASSUME SInv, NEW h \in 1 .. MaxHeight, NEW view \in Views, WriteBlock(h, view)
    PROVE  SeatsAreTrue' /\ RowsHaveSeats' /\ ValidatorsHaveRows'
<1> USE BlobsAssumption, ValidatorTables DEF SInv, IInv
<1> DEFINE prev == Previous(h, view)
           new(t) == convertToBlockData(node[h], prev, h)[t]
<1>1. /\ h \in 1 .. Len(node) /\ Len(node) \in Nat /\ Len(node) <= MaxHeight
      /\ node' = node /\ views' = [views EXCEPT ![h] = @ \union {view}]
      /\ \A t \in Tables : tables'[t] = Upsert(tables[t], new(t))
    BY DEF WriteBlock, Reached
<1>2. \A t \in Tables : OneRowPerKey(new(t), h)
    BY ConvertedKeys
<1>3. SeatsMatch(new("validators"), new("committee_validators"), node[h], prev)
    <2>1. /\ new("committee_validators") = CommitteeValidators(node[h], prev, h)
          /\ new("validators") = Validators(node[h], prev, h)
        BY DEF convertToBlockData
    <2>2. SeatsMatch(Validators(node[h], prev, h), CommitteeValidators(node[h], prev, h),
                     node[h], prev)
        BY ConvertedSeats
    <2> HIDE DEF new
    <2> QED
        BY <2>1, <2>2
<1> HIDE DEF new
<1>4. \A t \in Tables :
        /\ \A r \in tables'[t] : r \in tables[t] \/ (r \in new(t) /\ r.height = h)
        /\ \A r \in new(t) : r \in tables'[t] /\ r.height = h
        /\ \A r \in tables[t] : \E q \in tables'[t] : q.key = r.key /\ q.height = r.height
    BY <1>1, <1>2 DEF Upsert, OneRowPerKey
<1>5. \A t \in Tables : \A k, g : RowAt(t, k, g) => RowAt(t, k, g)'
    BY <1>4 DEF RowAt
<1>6. SeatsAreTrue'
    <2> SUFFICES ASSUME NEW s \in tables'["committee_validators"]
                 PROVE  s.key \in Seats(node[s.height])
        BY <1>1 DEF SeatsAreTrue, Seats
    <2> QED
        BY <1>3, <1>4 DEF SeatsAreTrue, SeatsMatch
<1>7. RowsHaveSeats'
    <2> SUFFICES ASSUME NEW r \in tables'["validators"]
                 PROVE  /\ r.key \in DOMAIN node[r.height].validators
                        /\ \A c \in node[r.height].validators[r.key].committees :
                            RowAt("committee_validators", <<c, r.key>>, r.height)'
        BY <1>1 DEF RowsHaveSeats
    <2>1. CASE r \in tables["validators"]
        BY <2>1, <1>5 DEF RowsHaveSeats
    <2>2. CASE r \in new("validators") /\ r.height = h
        <3>1. r.key \in DOMAIN node[r.height].validators
            BY <2>2, <1>3 DEF SeatsMatch
        <3>2. ASSUME NEW c \in node[r.height].validators[r.key].committees
              PROVE  RowAt("committee_validators", <<c, r.key>>, r.height)'
            <4>1. PICK s \in new("committee_validators") : s.key = <<c, r.key>>
                BY <2>2, <3>2, <1>3 DEF SeatsMatch
            <4>2. s \in tables'["committee_validators"] /\ s.height = h
                BY <1>4
            <4> QED
                BY <2>2, <4>1, <4>2 DEF RowAt
        <3> QED
            BY <3>1, <3>2
    <2> QED
        BY <2>1, <2>2, <1>4
<1>8. ValidatorsHaveRows'
    <2> SUFFICES ASSUME NEW g \in 1 .. Len(node), views'[g] # {},
                        NEW a \in DOMAIN node[g].validators
                 PROVE  RowAt("validators", a, g)' \/ SameValidator(a, g)
        <3>1. \A b, i : SameValidator(b, i)' = SameValidator(b, i)
            BY <1>1 DEF SameValidator
        <3> QED
            BY <1>1, <3>1 DEF ValidatorsHaveRows
    <2>1. CASE g = h
        <3>1. ASSUME NEW r \in new("validators"), r.key = a
              PROVE  RowAt("validators", a, g)'
            BY <2>1, <3>1, <1>4 DEF RowAt
        <3>2. ASSUME a \in DOMAIN prev.validators, prev.validators[a] = node[h].validators[a]
              PROVE  SameValidator(a, g)
            <4>1. prev # EmptyBlob
                BY <3>2 DEF EmptyBlob, NoKeys
            <4>2. h > 1 /\ prev = node[h - 1]
                BY <4>1 DEF Previous
            <4> QED
                BY <2>1, <3>2, <4>2 DEF SameValidator
        <3> QED
            BY <2>1, <3>1, <3>2, <1>3 DEF SeatsMatch
    <2>2. CASE g # h
        <3>1. views[g] # {}
            BY <2>2, <1>1 DEF Reached
        <3>2. RowAt("validators", a, g) \/ SameValidator(a, g)
            BY <3>1 DEF ValidatorsHaveRows
        <3> QED
            BY <3>2, <1>5
    <2> QED
        BY <2>1, <2>2
<1> QED
    BY <1>6, <1>7, <1>8

LEMMA NextSInv == SInv /\ [Next]_vars => SInv'
<1> SUFFICES ASSUME SInv, [Next]_vars PROVE SInv'
    OBVIOUS
<1>1. IInv'
    BY NextInv DEF SInv
<1>2. CASE \E blob \in Blobs : NodeAdvances(blob)
    <2>1. SeatsAreTrue' /\ RowsHaveSeats' /\ ValidatorsHaveRows'
        BY <1>2, AdvanceSInv
    <2> QED
        BY <1>1, <2>1 DEF SInv
<1>3. CASE \E h \in 1 .. MaxHeight, view \in Views : WriteBlock(h, view)
    <2>1. SeatsAreTrue' /\ RowsHaveSeats' /\ ValidatorsHaveRows'
        BY <1>3, WriteSInv
    <2> QED
        BY <1>1, <2>1 DEF SInv
<1>4. CASE UNCHANGED vars
    <2>1. node' = node /\ views' = views /\ tables' = tables
        BY <1>4 DEF vars
    <2>2. SeatsAreTrue' /\ RowsHaveSeats'
        BY <2>1 DEF SInv, SeatsAreTrue, Seats, RowsHaveSeats, RowAt
    <2>3. ValidatorsHaveRows'
        BY <2>1 DEF SInv, ValidatorsHaveRows, RowAt, SameValidator
    <2> QED
        BY <1>1, <2>2, <2>3 DEF SInv
<1> QED
    BY <1>2, <1>3, <1>4 DEF Next

\* A validator is the same from some height on, and there it has a row.
LEMMA LastValidatorChange ==
    ASSUME SInv, NEW h \in Covered, NEW a \in DOMAIN node[h].validators
    PROVE  \E m \in 1 .. h :
            /\ RowAt("validators", a, m)
            /\ \A i \in m .. h : /\ a \in DOMAIN node[i].validators
                                 /\ node[i].validators[a] = node[h].validators[a]
<1> USE DEF SInv, IInv
<1> DEFINE Same(i) == /\ a \in DOMAIN node[i].validators
                      /\ node[i].validators[a] = node[h].validators[a]
           Since == {g \in Nat : g \in 1 .. h /\ \A i \in g .. h : Same(i)}
<1>1. h \in 1 .. Len(node) /\ Len(node) \in Nat /\ \A g \in 1 .. h : views[g] # {}
    BY DEF Covered, Reached
<1>2. h \in Since /\ Since \in SUBSET Nat
    BY <1>1
<1> HIDE DEF Since
<1>3. PICK m \in Since : \A g \in Since : m <= g
    BY <1>2, LeastElement
<1>4. m \in 1 .. h /\ m \in 1 .. Len(node) /\ \A i \in m .. h : Same(i)
    BY <1>1, <1>3 DEF Since
<1>5. RowAt("validators", a, m) \/ SameValidator(a, m)
    BY <1>1, <1>4 DEF ValidatorsHaveRows
<1>6. ~SameValidator(a, m)
    <2> SUFFICES ASSUME SameValidator(a, m) PROVE FALSE
        OBVIOUS
    <2>1. m - 1 \in 1 .. h /\ Same(m - 1)
        BY <1>1, <1>4 DEF SameValidator
    <2>2. \A i \in m - 1 .. h : i = m - 1 \/ i \in m .. h
        BY <1>1, <1>4
    <2>3. m - 1 \in Since
        BY <2>1, <2>2, <1>4 DEF Since
    <2> QED
        BY <2>3, <1>3, <1>4
<1> QED
    BY <1>4, <1>5, <1>6

\* The committees of a validator can be read off the rows written together with
\* its latest row, for every history and every order of writing.
THEOREM SeatsStayReadable == Spec => []SeatsByValidatorRow
<1>1. SInv => SeatsByValidatorRow
    <2> SUFFICES ASSUME SInv, NEW h \in Covered, NEW a \in DOMAIN node[h].validators,
                        NEW r \in LatestRows("validators", a, h)
                 PROVE  {s.key[1] : s \in {d \in tables["committee_validators"] :
                                             d.key[2] = a /\ d.height = r.height}}
                            = node[h].validators[a].committees
        BY DEF SeatsByValidatorRow
    <2> DEFINE found == {d \in tables["committee_validators"] :
                            d.key[2] = a /\ d.height = r.height}
    <2>1. PICK m \in 1 .. h :
            /\ RowAt("validators", a, m)
            /\ \A i \in m .. h : /\ a \in DOMAIN node[i].validators
                                 /\ node[i].validators[a] = node[h].validators[a]
        BY LastValidatorChange
    <2>2. h \in Nat /\ m \in Nat /\ \A q \in tables["validators"] : q.height \in Nat
        BY ValidatorTables DEF SInv, IInv, Covered, Reached, RowsAreKeyed
    <2>3. r \in tables["validators"] /\ r.key = a /\ r.height \in m .. h
        <3>1. PICK q \in tables["validators"] : q.key = a /\ q.height = m
            BY <2>1 DEF RowAt
        <3> QED
            BY <2>2, <3>1 DEF LatestRows, Latest, Known
    <2>4. node[r.height].validators[a] = node[h].validators[a]
        BY <2>1, <2>3
    <2>5. ASSUME NEW s \in found
          PROVE  s.key[1] \in node[h].validators[a].committees
        <3>1. s.key \in Seats(node[r.height])
            BY DEF SInv, SeatsAreTrue
        <3>2. s.key[1] \in node[r.height].validators[s.key[2]].committees
            BY <3>1 DEF Seats
        <3> QED
            BY <3>2, <2>4
    <2>6. ASSUME NEW c \in node[h].validators[a].committees
          PROVE  \E s \in found : s.key[1] = c
        <3>1. RowAt("committee_validators", <<c, a>>, r.height)
            BY <2>3, <2>4 DEF SInv, RowsHaveSeats
        <3> QED
            BY <3>1 DEF RowAt
    <2> HIDE DEF found
    <2>7. {s.key[1] : s \in found} = node[h].validators[a].committees
        BY <2>5, <2>6
    <2> QED
        BY <2>7 DEF found
<1> QED
    BY <1>1, InitSInv, NextSInv, PTL DEF Spec

-----------------------------------------------------------------------------
(* The deltas of pools *)

Gained(p, h) == node[h].pools[p].amount - node[h - 1].pools[p].amount

\* The row of a pool at a height that was only compared with its predecessor.
RowsTellDeltas ==
    \A h \in 2 .. Len(node) : views[h] = {"change"} =>
        \A r \in tables["pools"] :
            r.height = h /\ r.key \in DOMAIN node[h].pools /\ r.key \in DOMAIN node[h - 1].pools
                => r.extra = Gained(r.key, h)

DInv == IInv /\ RowsTellDeltas

LEMMA PoolTable == "pools" \in Tables /\ "pools" \in SnapshotTableNames
BY DEF Tables, SnapshotTableNames

\* A pool that was there before is given the difference of its amounts.
LEMMA ConvertedDeltas ==
    ASSUME NEW cur, NEW prev, NEW h, NEW r \in Pools(cur, prev, h),
           r.key \in DOMAIN prev.pools
    PROVE  r.extra = cur.pools[r.key].amount - prev.pools[r.key].amount
<1>1. PICK p \in NewOrChanged(PoolsOf(cur), PoolsOf(prev)) :
        r = Row(p, h, PoolsOf(cur)[p], Delta(AmountsOf(cur), AmountsOf(prev), p))
    BY DEF Pools
<1>2. p \in DOMAIN cur.pools
    BY DEF NewOrChanged, PoolsOf
<1>3. r.key = p /\ r.extra = Delta(AmountsOf(cur), AmountsOf(prev), p)
    BY <1>1 DEF Row
<1> QED
    BY <1>2, <1>3 DEF Delta, AmountsOf

LEMMA InitDInv == Init => DInv
<1>1. Init => RowsTellDeltas
    BY DEF Init, RowsTellDeltas
<1> QED
    BY <1>1, InitInv DEF DInv

LEMMA NextDInv == DInv /\ [Next]_vars => DInv'
<1> SUFFICES ASSUME DInv, [Next]_vars PROVE RowsTellDeltas'
    BY NextInv DEF DInv
<1> USE BlobsAssumption, PoolTable DEF DInv, IInv
<1>1. ASSUME NEW blob \in Blobs, NodeAdvances(blob)
      PROVE  RowsTellDeltas'
    <2>1. /\ Len(node') = Len(node) + 1 /\ Len(node) \in Nat /\ Len(node') <= MaxHeight
          /\ \A h \in 1 .. Len(node) : node'[h] = node[h]
          /\ views' = views /\ tables' = tables
        BY <1>1 DEF NodeAdvances, Reached
    <2> SUFFICES ASSUME NEW h \in 2 .. Len(node'), views[h] = {"change"},
                        NEW r \in tables["pools"], r.height = h,
                        r.key \in DOMAIN node'[h].pools, r.key \in DOMAIN node'[h - 1].pools
                 PROVE  r.extra = Gained(r.key, h)'
        BY <2>1 DEF RowsTellDeltas
    <2>2. h \in 2 .. Len(node)
        <3>1. h \in 1 .. MaxHeight /\ views[h] # {}
            BY <2>1
        <3>2. h <= Len(node)
            BY <3>1 DEF Reached
        <3> QED
            BY <2>1, <3>2
    <2>3. node'[h] = node[h] /\ node'[h - 1] = node[h - 1]
        BY <2>1, <2>2
    <2>4. r.extra = Gained(r.key, h)
        BY <2>2, <2>3 DEF RowsTellDeltas
    <2>5. Gained(r.key, h)' = Gained(r.key, h)
        BY <2>3 DEF Gained
    <2> QED
        BY <2>4, <2>5
<1>2. ASSUME NEW h \in 1 .. MaxHeight, NEW view \in Views, WriteBlock(h, view)
      PROVE  RowsTellDeltas'
    <2> DEFINE prev == Previous(h, view)
               new == Pools(node[h], prev, h)
    <2>1. /\ h \in 1 .. Len(node) /\ Len(node) \in Nat /\ Len(node) <= MaxHeight
          /\ node' = node /\ views' = [views EXCEPT ![h] = @ \union {view}]
          /\ views \in [1 .. MaxHeight -> SUBSET Views]
          /\ tables'["pools"] = Upsert(tables["pools"], new)
        BY <1>2 DEF WriteBlock, Reached, convertToBlockData
    <2>2. \A r \in new : r.height = h
        BY DEF Pools, Row
    <2> SUFFICES ASSUME NEW g \in 2 .. Len(node), views'[g] = {"change"},
                        NEW r \in tables'["pools"], r.height = g,
                        r.key \in DOMAIN node[g].pools, r.key \in DOMAIN node[g - 1].pools
                 PROVE  r.extra = Gained(r.key, g)
        BY <2>1 DEF RowsTellDeltas, Gained
    <2>3. r \in tables["pools"] \/ r \in new
        BY <2>1 DEF Upsert
    <2>4. CASE g = h
        <3>1. view = "change" /\ (views[h] = {} \/ views[h] = {"change"})
          <4>1. views'[h] = views[h] \union {view}
              BY <2>1
          <4> QED
              BY <2>4, <4>1
        <3>2. CASE r \in new
          <4>1. prev = node[g - 1]
              BY <2>4, <3>1 DEF Previous
          <4> HIDE DEF prev
          <4>2. r.extra = node[h].pools[r.key].amount - prev.pools[r.key].amount
              BY <3>2, <4>1, ConvertedDeltas
          <4> QED
              BY <2>4, <4>1, <4>2 DEF Gained
        <3>3. CASE r \in tables["pools"]
          <4>1. views[h] = {"change"}
              BY <2>4, <3>1, <3>3 DEF RowsAreKeyed
          <4> QED
              BY <2>4, <3>3, <4>1 DEF RowsTellDeltas
        <3> QED
            BY <2>3, <3>2, <3>3
    <2>5. CASE g # h
        <3>1. r \in tables["pools"]
            BY <2>2, <2>3, <2>5
        <3>2. views[g] = {"change"}
            BY <2>1, <2>5
        <3> QED
            BY <3>1, <3>2 DEF RowsTellDeltas
    <2> QED
        BY <2>4, <2>5
<1>3. CASE UNCHANGED vars
    BY <1>3 DEF vars, RowsTellDeltas, Gained
<1> QED
    BY <1>1, <1>2, <1>3 DEF Next

\* What one block adds to the sum of a pool's deltas: the difference of its
\* amounts, in a row, or nothing, where the amount has stayed.
DeltasAreDifferences ==
    \A h \in 2 .. Len(node) : views[h] = {"change"} =>
        \A p \in DOMAIN node[h].pools \intersect DOMAIN node[h - 1].pools :
            LET rows == {r \in tables["pools"] : r.key = p /\ r.height = h}
            IN  \/ \E r \in rows : rows = {r} /\ r.extra = Gained(p, h)
                \/ rows = {} /\ node[h].pools[p].amount = node[h - 1].pools[p].amount

\* Each term of the sum DeltasAddUp speaks of is right, for every history and
\* every order of writing, as long as the block was not also written by itself.
THEOREM DeltasStayDifferences == Spec => []DeltasAreDifferences
<1>1. DInv => DeltasAreDifferences
    <2> SUFFICES ASSUME DInv, NEW h \in 2 .. Len(node), views[h] = {"change"},
                        NEW p \in DOMAIN node[h].pools \intersect DOMAIN node[h - 1].pools
                 PROVE  LET rows == {r \in tables["pools"] : r.key = p /\ r.height = h}
                        IN  \/ \E r \in rows : rows = {r} /\ r.extra = Gained(p, h)
                            \/ /\ rows = {}
                               /\ node[h].pools[p].amount = node[h - 1].pools[p].amount
        BY DEF DeltasAreDifferences
    <2> DEFINE rows == {r \in tables["pools"] : r.key = p /\ r.height = h}
    <2> USE PoolTable DEF DInv, IInv
    <2>1. CASE \E r \in tables["pools"] : r.key = p /\ r.height = h
        <3>1. PICK r \in tables["pools"] : r.key = p /\ r.height = h
            BY <2>1
        <3>2. r \in rows /\ rows = {r}
            BY <3>1 DEF RowsAreKeyed
        <3>3. r.extra = Gained(p, h)
            BY <3>1 DEF RowsTellDeltas
        <3> QED
            BY <3>2, <3>3
    <2>2. CASE ~ \E r \in tables["pools"] : r.key = p /\ r.height = h
        <3>1. /\ Shown(node[h])["pools"] = PoolsOf(node[h])
              /\ Shown(node[h - 1])["pools"] = PoolsOf(node[h - 1])
            BY DEF Shown
        <3>2. p \in DOMAIN Shown(node[h])["pools"]
            BY <3>1 DEF PoolsOf
        <3>3. ~ RowAt("pools", p, h)
            BY <2>2 DEF RowAt
        <3>4. h \in 1 .. Len(node) /\ views[h] # {}
            BY DEF Reached
        <3>5. SameBefore("pools", p, h)
            BY <3>2, <3>3, <3>4 DEF ChangesHaveRows
        <3>6. PoolColumns(node[h - 1].pools[p]) = PoolColumns(node[h].pools[p])
            BY <3>1, <3>5 DEF SameBefore, PoolsOf
        <3>7. node[h].pools[p].amount = node[h - 1].pools[p].amount
            BY <3>6 DEF PoolColumns
        <3> QED
            BY <2>2, <3>7
    <2> QED
        BY <2>1, <2>2
<1> QED
    BY <1>1, InitDInv, NextDInv, PTL DEF Spec

\* The sums of the subsets of a set of rows.
Fold(rows) ==
    CHOOSE F : F = [s \in SUBSET rows |-> IF s = {} THEN 0 ELSE Pick(s).extra + F[s \ {Pick(s)}]]

Extras(rows) == [r \in rows |-> r.extra]

\* SumOfDeltas is a sum in the sense of SetsOfNumbers.
LEMMA SumOfRows ==
    ASSUME NEW rows, IsFiniteSet(rows)
    PROVE  /\ SumOfDeltas(rows) = Fold(rows)[rows]
           /\ IsSum(Fold(rows), Extras(rows), rows)
<1>1. SumOfDeltas(rows) = Fold(rows)[rows]
    BY DEF SumOfDeltas, MapThenSumSet, MapThenFoldSet, Fold, Pick
<1>2. ASSUME NEW F
      PROVE  IsSum(F, Extras(rows), rows) <=>
                F = [s \in SUBSET rows |->
                        IF s = {} THEN 0 ELSE Pick(s).extra + F[s \ {Pick(s)}]]
    <2>1. \A s \in SUBSET rows : s # {} => Extras(rows)[Pick(s)] = Pick(s).extra
        BY PickIn DEF Extras
    <2> QED
        BY <2>1 DEF IsSum
<1>3. \E F : IsSum(F, Extras(rows), rows)
    BY SumExists
<1> QED
    BY <1>1, <1>2, <1>3 DEF Fold

LEMMA SumOfNone == SumOfDeltas({}) = 0
<1>1. IsFiniteSet({})
    BY FS_EmptySet
<1>2. /\ SumOfDeltas({}) = Fold({})[{}]
      /\ IsSum(Fold({}), Extras({}), {})
    BY <1>1, SumOfRows
<1>3. {} \in SUBSET {}
    OBVIOUS
<1>4. Fold({})[{}] = 0
    BY <1>2, <1>3, SumAt
<1> QED
    BY <1>2, <1>4

\* A further row adds its delta.
LEMMA SumAdds ==
    ASSUME NEW rows, IsFiniteSet(rows), NEW r, r \notin rows,
           r.extra \in Int, \A q \in rows : q.extra \in Int
    PROVE  /\ IsFiniteSet(rows \union {r})
           /\ SumOfDeltas(rows \union {r}) = SumOfDeltas(rows) + r.extra
           /\ SumOfDeltas(rows) \in Int
<1> DEFINE more == rows \union {r}
<1>1. IsFiniteSet(more)
    BY FS_AddElement
<1>2. /\ SumOfDeltas(rows) = Fold(rows)[rows] /\ IsSum(Fold(rows), Extras(rows), rows)
      /\ SumOfDeltas(more) = Fold(more)[more] /\ IsSum(Fold(more), Extras(more), more)
    BY <1>1, SumOfRows
<1>3. /\ \A q \in more : Extras(more)[q] \in Int
      /\ \A q \in rows : Extras(rows)[q] \in Int /\ Extras(more)[q] = Extras(rows)[q]
      /\ Extras(more)[r] = r.extra
    BY DEF Extras
<1>4. rows \in SUBSET more /\ more \in SUBSET more /\ r \in more /\ more \ {r} = rows
    OBVIOUS
<1> HIDE DEF more
<1>5. Fold(more)[more] = r.extra + Fold(more)[rows]
    BY <1>1, <1>2, <1>3, <1>4, SumTakesAny
<1>6. Fold(more)[rows] = Fold(rows)[rows]
    BY <1>1, <1>2, <1>3, <1>4, SumsAgree
<1>7. Fold(rows)[rows] \in Int
    BY <1>2, <1>3, SumIsInt
<1> QED
    BY <1>1, <1>2, <1>5, <1>6, <1>7 DEF more

\* The deltas of a pool add up, over any range of blocks that were only compared
\* with their predecessors and throughout which the pool existed.
THEOREM DeltasKeepAddingUp == Spec => []DeltasAddUp
<1>1. ASSUME DInv, DeltasAreDifferences
      PROVE  DeltasAddUp
    <2> SUFFICES ASSUME NEW h \in 1 .. Len(node), NEW g \in 1 .. Len(node), g < h,
                        \A i \in g + 1 .. h : views[i] = {"change"},
                        NEW p \in DOMAIN node[g].pools,
                        \A i \in g .. h : p \in DOMAIN node[i].pools
                 PROVE  SumOfDeltas({r \in tables["pools"] :
                                       r.key = p /\ r.height \in g + 1 .. h})
                            = node[h].pools[p].amount - node[g].pools[p].amount
        BY DEF DeltasAddUp
    <2> DEFINE rows(i) == {r \in tables["pools"] : r.key = p /\ r.height \in g + 1 .. i}
               amount(i) == node[i].pools[p].amount
               Right(i) == /\ IsFiniteSet(rows(i)) /\ \A r \in rows(i) : r.extra \in Int
                           /\ SumOfDeltas(rows(i)) = amount(i) - amount(g)
               Wrong == {i \in g .. h : ~ Right(i)}
    <2>1. Len(node) \in Nat /\ h \in Nat /\ g \in Nat /\ node \in Seq(Blobs)
        BY <1>1 DEF DInv, IInv, Reached
    <2>2. \A i \in g .. h : i \in 1 .. Len(node) /\ node[i] \in Blobs /\ amount(i) \in Nat
        BY <2>1, BlobsAssumption
    <2>3. \A r \in tables["pools"] : r.height \in Nat
        BY <1>1, <2>1, PoolTable DEF DInv, IInv, RowsAreKeyed
    <2>4. Right(g)
        <3>1. rows(g) = {}
            BY <2>1, <2>3
        <3>2. IsFiniteSet({})
            BY FS_EmptySet
        <3>3. amount(g) - amount(g) = 0
            BY <2>1, <2>2
        <3> QED
            BY <3>1, <3>2, <3>3, SumOfNone
    <2>5. ASSUME NEW i \in g + 1 .. h, Right(i - 1)
          PROVE  Right(i)
        <3> DEFINE found == {r \in tables["pools"] : r.key = p /\ r.height = i}
        <3>1. /\ i \in 2 .. Len(node) /\ views[i] = {"change"} /\ i \in g .. h /\ i - 1 \in g .. h
              /\ p \in DOMAIN node[i].pools \intersect DOMAIN node[i - 1].pools
            BY <2>1
        <3>2. \/ \E r \in found : found = {r} /\ r.extra = Gained(p, i)
              \/ found = {} /\ amount(i) = amount(i - 1)
            BY <3>1, <1>1 DEF DeltasAreDifferences
        <3>3. rows(i) = rows(i - 1) \union found /\ \A r \in found : r \notin rows(i - 1)
            BY <2>1, <2>3
        <3>4. amount(i) \in Nat /\ amount(i - 1) \in Nat /\ amount(g) \in Nat
            BY <2>1, <2>2, <3>1
        <3>5. Gained(p, i) = amount(i) - amount(i - 1)
            BY DEF Gained
        <3> HIDE DEF rows, amount
        <3>6. CASE found = {} /\ amount(i) = amount(i - 1)
            <4>1. rows(i) = rows(i - 1)
                BY <3>3, <3>6
            <4> QED
                BY <2>5, <3>6, <4>1
        <3>7. ASSUME NEW r \in found, found = {r}, r.extra = Gained(p, i)
              PROVE  Right(i)
            <4>1. rows(i) = rows(i - 1) \union {r} /\ r \notin rows(i - 1)
                BY <3>3, <3>7
            <4>2. r.extra = amount(i) - amount(i - 1) /\ r.extra \in Int
                BY <3>4, <3>5, <3>7
            <4>3. /\ IsFiniteSet(rows(i))
                  /\ SumOfDeltas(rows(i)) = SumOfDeltas(rows(i - 1)) + r.extra
                BY <2>5, <4>1, <4>2, SumAdds
            <4>4. SumOfDeltas(rows(i)) = amount(i) - amount(g)
                BY <2>5, <3>4, <4>2, <4>3
            <4>5. \A q \in rows(i) : q.extra \in Int
                BY <2>5, <4>1, <4>2
            <4> QED
                BY <4>3, <4>4, <4>5
        <3> QED
            BY <3>2, <3>6, <3>7
    <2> HIDE DEF Right
    <2>6. Wrong = {}
        <3> SUFFICES ASSUME Wrong # {} PROVE FALSE
            OBVIOUS
        <3>1. Wrong \subseteq Nat
            BY <2>1
        <3> HIDE DEF Wrong
        <3>2. PICK m \in Wrong : \A i \in Wrong : m <= i
            BY <3>1, LeastElement
        <3>3. m \in g .. h /\ ~ Right(m)
            BY <3>2 DEF Wrong
        <3>4. m # g
            BY <3>3, <2>4
        <3>5. m \in g + 1 .. h /\ m - 1 \in g .. h /\ m - 1 < m
            BY <2>1, <3>3, <3>4
        <3>6. Right(m - 1)
            <4>1. m - 1 \notin Wrong
                BY <2>1, <3>2, <3>5
            <4> QED
                BY <3>5, <4>1 DEF Wrong
        <3> QED
            BY <3>3, <3>5, <3>6, <2>5
    <2>7. Right(h)
        <3>1. h \in g .. h
            BY <2>1
        <3> QED
            BY <3>1, <2>6
    <2> QED
        BY <2>7 DEF Right
<1> QED
    BY <1>1, InitDInv, NextDInv, DeltasStayDifferences, PTL DEF Spec
=============================================================================
