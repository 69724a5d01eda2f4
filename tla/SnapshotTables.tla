---------------------------- MODULE SnapshotTables ----------------------------
(***************************************************************************)
(* The rows of chain_N: what convertToBlockData (internal/indexer) makes   *)
(* of a block, and what a reader later finds.  Most tables hold a row only *)
(* where a block changed something, and a reader takes, for each key, the  *)
(* row of the greatest height up to the one it asks about.                 *)
(*                                                                         *)
(* A block is converted either as a "change", against its predecessor, or  *)
(* as the "current" blob alone, against nothing (BlockIndexing says who    *)
(* does which).  Heights are written in any order, and a height may be     *)
(* written in both ways, in either order.                                  *)
(***************************************************************************)
EXTENDS SnapshotRows, Sequences, FiniteSetsExt

CONSTANTS
    Blobs,      \* the states of the node that blobs may describe
    MaxHeight,  \* bound: blocks the node produces
    None        \* "no value", "no address"

\* Who is listed as a double signer has evidence against it, and what a pool
\* holds is a number.
ASSUME BlobsAssumption ==
    /\ \A b \in Blobs : \A a \in DOMAIN b.doubleSigners : b.doubleSigners[a] \in Nat \ {0}
    /\ \A b \in Blobs : \A p \in DOMAIN b.pools : b.pools[p].amount \in Nat
    /\ MaxHeight \in Nat

VARIABLES
    node,    \* the blob of every height the node has reached
    views,   \* the ways each height has been written
    tables   \* the rows of chain_N, by table

vars == <<node, views, tables>>

(***************************************************************************)
(* A blob.  Collections are functions from keys to what is kept of an      *)
(* entity; amounts that always travel together are one number.             *)
(***************************************************************************)
NoKeys == [k \in {} |-> None]

EmptyBlob == [
    txs           |-> <<>>,   \* message types, in order
    events        |-> {},     \* [type, address]
    accounts      |-> NoKeys, \* address -> amount
    validators    |-> NoKeys, \* address -> [stake, paused, unstaking, profile, committees]
    subsidized    |-> {},     \* committees
    nonSigners    |-> NoKeys, \* address -> missed blocks
    doubleSigners |-> NoKeys, \* address -> number of evidence heights, at least 1
    pools         |-> NoKeys, \* id -> [amount, total, points: address -> points]
    orders        |-> NoKeys, \* id -> [terms, send, receive, seller]
    prices        |-> NoKeys, \* pair of chains -> price and pool amounts
    committees    |-> NoKeys, \* id -> what certificates update
    params        |-> None,
    supply        |-> None]

-----------------------------------------------------------------------------
(* Tables without change detection *)

\* Neither the hash nor the index of a transaction is converted, and the key
\* of txs is (height, tx_hash): the last one of the batch stays.
Transactions(cur, h) ==
    IF cur.txs = <<>> THEN {} ELSE {Row(None, h, None, cur.txs[Len(cur.txs)])}

\* Only the type is converted, the rest of the key of events is zero.
Events(cur, h) == {Row(e.type, h, None, None) : e \in cur.events}

-----------------------------------------------------------------------------
(* Validators *)

LifecycleTypes == {"automatic-pause", "automatic-begin-unstaking", "slash", "reward"}

LifecycleEvents(cur) ==
    {e.address : e \in {d \in cur.events : d.type \in LifecycleTypes}} \ {None}

Status(v) == IF v.unstaking > 0 THEN "unstaking"
             ELSE IF v.paused > 0 THEN "paused" ELSE "active"

\* A lifecycle event makes a row even if no field of the validator moved.
ChangedValidators(cur, prev) ==
    NewOrChanged(cur.validators, prev.validators)
        \union (LifecycleEvents(cur) \intersect DOMAIN cur.validators)

ValidatorColumns(v) == [stake |-> v.stake, paused |-> v.paused,
                        unstaking |-> v.unstaking, profile |-> v.profile,
                        status |-> Status(v)]

Validators(cur, prev, h) ==
    {Row(a, h, ValidatorColumns(cur.validators[a]), None) :
        a \in ChangedValidators(cur, prev)}

\* The seats of a blob: who sits in which committee.
Seats(blob) ==
    UNION {{<<c, a>> : c \in blob.validators[a].committees} : a \in DOMAIN blob.validators}

MemberColumns(v) == [stake |-> v.stake, profile |-> v.profile, status |-> Status(v)]

\* Mutant: a row only for the seats a validator has taken.
CommitteeValidatorsTaken(cur, prev, h) ==
    {Row(s, h, MemberColumns(cur.validators[s[2]]), s[1] \in cur.subsidized) :
        s \in Seats(cur) \ Seats(prev)}

\* A changed validator gets a row for each of its seats.
CommitteeValidators(cur, prev, h) ==
    {Row(s, h, MemberColumns(cur.validators[s[2]]), s[1] \in cur.subsidized) :
        s \in {d \in Seats(cur) : d[2] \in ChangedValidators(cur, prev)}}

-----------------------------------------------------------------------------
(* Signing.  These two tables are the only ones that say when a key is gone *)

Gone(cur, prev, h) == {Row(k, h, 0, None) : k \in DOMAIN prev \ DOMAIN cur}

\* Mutant: no second phase.
NonSignersGrow(cur, prev, h) ==
    {Row(a, h, cur.nonSigners[a], None) : a \in NewOrChanged(cur.nonSigners, prev.nonSigners)}

NonSigners(cur, prev, h) ==
    {Row(a, h, cur.nonSigners[a], None) : a \in NewOrChanged(cur.nonSigners, prev.nonSigners)}
        \union Gone(cur.nonSigners, prev.nonSigners, h)

Evidence(blob, a) ==
    IF a \in DOMAIN blob.doubleSigners THEN blob.doubleSigners[a] ELSE 0

\* A signer unknown before counts as one without evidence.
DoubleSigners(cur, prev, h) ==
    {Row(a, h, Evidence(cur, a), None) :
        a \in {d \in DOMAIN cur.doubleSigners : Evidence(cur, d) # Evidence(prev, d)}}
        \union Gone(cur.doubleSigners, prev.doubleSigners, h)

-----------------------------------------------------------------------------
(* Accounts, pools and prices *)

Accounts(cur, prev, h) ==
    {Row(a, h, cur.accounts[a], None) : a \in NewOrChanged(cur.accounts, prev.accounts)}

PoolColumns(pool) == [amount |-> pool.amount, total |-> pool.total,
                      holders |-> Cardinality(DOMAIN pool.points)]

PoolsOf(blob) == [p \in DOMAIN blob.pools |-> PoolColumns(blob.pools[p])]

\* Mutant: the operands swapped.
DeltaSwapped(cur, prev, k) == IF k \in DOMAIN prev THEN prev[k] - cur[k] ELSE 0

\* What a pool or a price that did not exist before gains is not a delta.
Delta(cur, prev, k) == IF k \in DOMAIN prev THEN cur[k] - prev[k] ELSE 0

AmountsOf(blob) == [p \in DOMAIN blob.pools |-> blob.pools[p].amount]

Pools(cur, prev, h) ==
    {Row(p, h, PoolsOf(cur)[p], Delta(AmountsOf(cur), AmountsOf(prev), p)) :
        p \in NewOrChanged(PoolsOf(cur), PoolsOf(prev))}

\* The holders of points, each with the total of its pool.
PointsOf(blob) ==
    [k \in UNION {{<<p, a>> : a \in DOMAIN blob.pools[p].points} : p \in DOMAIN blob.pools} |->
        [points |-> blob.pools[k[1]].points[k[2]], total |-> blob.pools[k[1]].total]]

\* A holder that left its pool gets no row.
PoolPoints(cur, prev, h) ==
    {Row(k, h, PointsOf(cur)[k], cur.pools[k[1]].amount) :
        k \in NewOrChanged(PointsOf(cur), PointsOf(prev))}

DexPrices(cur, prev, h) ==
    {Row(k, h, cur.prices[k], Delta(cur.prices, prev.prices, k)) :
        k \in NewOrChanged(cur.prices, prev.prices)}

-----------------------------------------------------------------------------
(* Orders, committees, params and supply *)

OrderStatus(o) == IF o.send # None /\ o.receive # None THEN "locked" ELSE "open"

\* The columns that are compared; the seller's addresses are not.
OrderTerms(o) == [terms |-> o.terms, send |-> o.send, receive |-> o.receive]

OrdersOf(blob) == [k \in DOMAIN blob.orders |-> OrderTerms(blob.orders[k])]

OrderColumns(o) == [terms |-> OrderTerms(o), status |-> OrderStatus(o)]

Orders(cur, prev, h) ==
    {Row(k, h, OrderColumns(cur.orders[k]), cur.orders[k].seller) :
        k \in NewOrChanged(OrdersOf(cur), OrdersOf(prev))}

Committees(cur, prev, h) ==
    {Row(k, h, cur.committees[k], None) : k \in NewOrChanged(cur.committees, prev.committees)}

Only(x) == [k \in {"chain"} \ {c \in {"chain"} : x = None} |-> x]

Params(cur, prev, h) ==
    {Row(k, h, cur.params, None) : k \in NewOrChanged(Only(cur.params), Only(prev.params))}

Supply(cur, prev, h) ==
    {Row(k, h, cur.supply, None) : k \in NewOrChanged(Only(cur.supply), Only(prev.supply))}

-----------------------------------------------------------------------------
(* Writing a block *)

Tables == {"txs", "events", "validators", "committee_validators",
           "validator_non_signing_info", "validator_double_signing_info",
           "accounts", "pools", "pool_points_by_holder", "dex_prices",
           "orders", "committees", "params", "supply"}

convertToBlockData(cur, prev, h) == [
    txs                           |-> Transactions(cur, h),
    events                        |-> Events(cur, h),
    validators                    |-> Validators(cur, prev, h),
    committee_validators          |-> CommitteeValidators(cur, prev, h),
    validator_non_signing_info    |-> NonSigners(cur, prev, h),
    validator_double_signing_info |-> DoubleSigners(cur, prev, h),
    accounts                      |-> Accounts(cur, prev, h),
    pools                         |-> Pools(cur, prev, h),
    pool_points_by_holder         |-> PoolPoints(cur, prev, h),
    dex_prices                    |-> DexPrices(cur, prev, h),
    orders                        |-> Orders(cur, prev, h),
    committees                    |-> Committees(cur, prev, h),
    params                        |-> Params(cur, prev, h),
    supply                        |-> Supply(cur, prev, h)]

\* Mutant: a pair of blobs that are two heights apart.
PreviousPrevious(h, view) == IF view = "change" /\ h > 2 THEN node[h - 2] ELSE EmptyBlob

\* The other blob of the pair: the first height has none.
Previous(h, view) == IF view = "change" /\ h > 1 THEN node[h - 1] ELSE EmptyBlob

Views == {"current", "change"}

Init ==
    /\ node = <<>>
    /\ views = [h \in 1 .. MaxHeight |-> {}]
    /\ tables = [t \in Tables |-> {}]

\* The node reaches its next height.
NodeAdvances(blob) ==
    /\ Len(node) < MaxHeight
    /\ node' = Append(node, blob)
    /\ UNCHANGED <<views, tables>>

\* writeBlockData: one transaction.
WriteBlock(h, view) ==
    LET data == convertToBlockData(node[h], Previous(h, view), h)
    IN  /\ h <= Len(node)
        /\ views' = [views EXCEPT ![h] = @ \union {view}]
        /\ tables' = [t \in Tables |-> Upsert(tables[t], data[t])]
        /\ UNCHANGED node

Next ==
    \/ \E blob \in Blobs : NodeAdvances(blob)
    \/ \E h \in 1 .. MaxHeight, view \in Views : WriteBlock(h, view)

Spec == Init /\ [][Next]_vars

-----------------------------------------------------------------------------
(* What a reader finds *)

\* Heights up to which every block is stored, in whatever way.
Covered == {h \in 1 .. Len(node) : \A g \in 1 .. h : views[g] # {}}

\* Heights up to which every block has been compared with its predecessor.
Compared == {h \in 1 .. Len(node) : \A g \in 1 .. h : "change" \in views[g]}

\* ORDER BY height DESC LIMIT 1, up to h.
LatestRows(t, k, h) == Latest(tables[t], k, h)

\* What the tables would show if they held every height in full.
Shown(blob) == [
    validators |-> [a \in DOMAIN blob.validators |-> ValidatorColumns(blob.validators[a])],
    committee_validators |-> [s \in Seats(blob) |-> MemberColumns(blob.validators[s[2]])],
    validator_non_signing_info    |-> blob.nonSigners,
    validator_double_signing_info |-> blob.doubleSigners,
    accounts                      |-> blob.accounts,
    pools                         |-> PoolsOf(blob),
    pool_points_by_holder         |-> PointsOf(blob),
    dex_prices                    |-> blob.prices,
    orders     |-> [k \in DOMAIN blob.orders |-> OrderColumns(blob.orders[k])],
    committees                    |-> blob.committees,
    params                        |-> Only(blob.params),
    supply                        |-> Only(blob.supply)]

SnapshotTableNames == Tables \ {"txs", "events"}
SignerTables == {"validator_non_signing_info", "validator_double_signing_info"}

-----------------------------------------------------------------------------
(* Properties *)

\* Rows are of heights the node has reached, one for each key and height.
TypeOK ==
    /\ node \in Seq(Blobs) /\ Len(node) <= MaxHeight
    /\ views \in [1 .. MaxHeight -> SUBSET Views]
    /\ DOMAIN tables = Tables
    /\ \A t \in Tables : \A r, q \in tables[t] :
        /\ r.height \in 1 .. Len(node) /\ views[r.height] # {}
        /\ r.key = q.key /\ r.height = q.height => r = q

\* "What was alice's balance at height 5000?" (account.go): once every block up
\* to a height is stored, in any order and in either way, the latest row of
\* each key the node has there shows what the node has there.
HistoryIsExact ==
    \A t \in SnapshotTableNames, h \in Covered :
        \A k \in DOMAIN Shown(node[h])[t] :
            /\ LatestRows(t, k, h) # {}
            /\ \A r \in LatestRows(t, k, h) : r.val = Shown(node[h])[t][k]

\* A signer the node no longer lists reads as zero, or has never had a row:
\* this needs every block to have been compared with its predecessor.
ResetsAreSeen ==
    \A t \in SignerTables, h \in Compared :
        \A r \in tables[t] :
            r.key \notin DOMAIN Shown(node[h])[t] /\ r \in LatestRows(t, r.key, h) => r.val = 0

\* Which seats a validator holds cannot be read off the latest row of a seat,
\* as a seat that is left gets none; it can off the rows written together with
\* the validator's latest row.
SeatsByValidatorRow ==
    \A h \in Covered : \A a \in DOMAIN node[h].validators :
        \A r \in LatestRows("validators", a, h) :
            {s.key[1] : s \in {d \in tables["committee_validators"] :
                                 d.key[2] = a /\ d.height = r.height}}
                = node[h].validators[a].committees

SumOfDeltas(rows) == MapThenSumSet(LAMBDA r : r.extra, rows)

\* The deltas of a pool that existed throughout add up to the difference of its
\* amounts, if no height in between was written by itself.
DeltasAddUp ==
    \A h \in 1 .. Len(node), g \in 1 .. Len(node) :
        g < h /\ (\A i \in g + 1 .. h : views[i] = {"change"}) =>
            \A p \in DOMAIN node[g].pools :
                (\A i \in g .. h : p \in DOMAIN node[i].pools) =>
                    SumOfDeltas({r \in tables["pools"] :
                                   r.key = p /\ r.height \in g + 1 .. h})
                        = node[h].pools[p].amount - node[g].pools[p].amount

\* Refuted.  "Non-Signers: Snapshot if counter changed; detect resets (existed
\* at H-1, gone at H)" (ARCH.md): the same, if blocks are merely stored.
ResetsAreSeenLive ==
    \A t \in SignerTables, h \in Covered :
        \A r \in tables[t] :
            r.key \notin DOMAIN Shown(node[h])[t] /\ r \in LatestRows(t, r.key, h) => r.val = 0
=============================================================================
