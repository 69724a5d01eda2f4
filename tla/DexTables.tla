------------------------------ MODULE DexTables ------------------------------
(***************************************************************************)
(* DEX orders, deposits and withdrawals: the rows of dex_orders,           *)
(* dex_deposits and dex_withdrawals against the batches of the node.       *)
(*                                                                         *)
(* An item joins the next batch of its committee ("pending"), becomes part *)
(* of the current one when the batches rotate ("locked"), and is settled   *)
(* when they rotate again, by an event that carries the result             *)
(* ("complete").  From then on no blob mentions it: that it is complete    *)
(* can be told only from the event and the batch of the block before.  An  *)
(* event whose message does not come through the converter's JSON is       *)
(* passed over, and its item stays as it was.                              *)
(* As in SnapshotTables, heights are written in any order, each against    *)
(* its predecessor ("change"), by itself ("current"), or in both ways.     *)
(***************************************************************************)
EXTENDS SnapshotRows, Sequences, FiniteSets

CONSTANTS
    Items,        \* ids of orders, deposits and withdrawals
    KindOf,       \* the kind of each item
    Committees,   \* each has a batch of its own
    CommitteeOf,  \* the committee of each item
    Terms,        \* the address and the amounts of an item
    Results,      \* what the event of an item may report
    Readable,     \* the items whose events the converter can parse
    MaxHeight,    \* bound: blocks the node produces
    None          \* "no result", "no height"

Kinds == {"orders", "deposits", "withdrawals"}

ASSUME ConstantsAssumption ==
    /\ KindOf \in [Items -> Kinds]
    /\ CommitteeOf \in [Items -> Committees]
    /\ Readable \subseteq Items
    /\ MaxHeight \in Nat
    /\ None \notin Results

VARIABLES
    node,       \* the batches and events of every height the node has reached
    views,      \* the ways each height has been written
    tables      \* the rows of each kind

vars == <<node, views, tables>>

-----------------------------------------------------------------------------
(* The node *)

NoItems == [i \in {} |-> None]

(***************************************************************************)
(* next and locked: the terms of the items in the batches; lockedAt: the   *)
(* heights at which the current batches were locked; events: the results   *)
(* of items settled by the block.                                          *)
(***************************************************************************)
NoBatches == [next |-> NoItems, locked |-> NoItems,
              lockedAt |-> [c \in Committees |-> 0], events |-> NoItems]

Tip == IF node = <<>> THEN NoBatches ELSE node[Len(node)]

Entered == UNION {DOMAIN node[h].next \union DOMAIN node[h].locked : h \in 1 .. Len(node)}

Merge(f, g) == [i \in DOMAIN f \union DOMAIN g |-> IF i \in DOMAIN g THEN g[i] ELSE f[i]]

Only(f, S) == [i \in DOMAIN f \intersect S |-> f[i]]

Batched == DOMAIN Tip.next \union DOMAIN Tip.locked

\* A block: the batches of some committees rotate, which settles what was
\* locked, and new items join.
NodeAdvances(rotating, joining, results) ==
    LET of == {i \in Items : CommitteeOf[i] \in rotating}
    IN  /\ Len(node) < MaxHeight
        /\ node' = Append(node, [
               next     |-> Merge(Only(Tip.next, Items \ of), joining),
               locked   |-> Merge(Only(Tip.locked, Items \ of), Only(Tip.next, of)),
               lockedAt |-> [c \in Committees |->
                               IF c \in rotating THEN Len(node) + 1 ELSE Tip.lockedAt[c]],
               events   |-> results])
        /\ UNCHANGED <<views, tables>>

-----------------------------------------------------------------------------
(* The converters *)

Of(kind, f) == Only(f, {i \in Items : KindOf[i] = kind})

Columns(state, terms, result) == [state |-> state, terms |-> terms, result |-> result]

(***************************************************************************)
(* The converter marshals the message of an event and parses the outcome   *)
(* as another type; what gives an error or no order id is passed over in   *)
(* silence.  Which events come through is up to the library of the node.   *)
(***************************************************************************)
parseDexEventsFromSlice(events) == Only(events, Readable)

\* Only orders have a column for the height at which they were locked.
LockedHeight(kind, batches, i) ==
    IF kind = "orders" THEN batches.lockedAt[CommitteeOf[i]] ELSE 0

\* Mutant: completion looked for in the batch of the block itself.
CompletedNow(kind, cur, prev, h) ==
    {Row(i, h, Columns("complete", cur.locked[i], cur.events[i]), LockedHeight(kind, cur, i)) :
        i \in DOMAIN Of(kind, cur.locked) \intersect DOMAIN cur.events}

\* Mutant: no look at the events.
CompletedUnseen(kind, cur, prev, h) ==
    {Row(i, h, Columns("complete", prev.locked[i], None), LockedHeight(kind, prev, i)) :
        i \in DOMAIN Of(kind, prev.locked)}

\* Items of the previous block's current batch that the block's events settle.
Completed(kind, cur, prev, h) ==
    LET events == parseDexEventsFromSlice(cur.events)
    IN  {Row(i, h, Columns("complete", prev.locked[i], events[i]), LockedHeight(kind, prev, i)) :
            i \in DOMAIN Of(kind, prev.locked) \intersect DOMAIN events}

\* Mutant: compared with the next batches of the previous block.
LockedSincePending(kind, cur, prev, h) ==
    {Row(i, h, Columns("locked", cur.locked[i], None), LockedHeight(kind, cur, i)) :
        i \in NewOrChanged(Of(kind, cur.locked), Of(kind, prev.next))}

Locked(kind, cur, prev, h) ==
    {Row(i, h, Columns("locked", cur.locked[i], None), LockedHeight(kind, cur, i)) :
        i \in NewOrChanged(Of(kind, cur.locked), Of(kind, prev.locked))}

Pending(kind, cur, prev, h) ==
    {Row(i, h, Columns("pending", cur.next[i], None), 0) :
        i \in NewOrChanged(Of(kind, cur.next), Of(kind, prev.next))}

\* The three parts, in the order in which they are inserted.
ConvertDexOrders(cur, prev, h) ==
    <<Completed("orders", cur, prev, h), Locked("orders", cur, prev, h),
      Pending("orders", cur, prev, h)>>

\* Mutant: the orders of the batches once more.
ConvertDexDepositsOfOrders(cur, prev, h) == ConvertDexOrders(cur, prev, h)

ConvertDexDeposits(cur, prev, h) ==
    <<Completed("deposits", cur, prev, h), Locked("deposits", cur, prev, h),
      Pending("deposits", cur, prev, h)>>

ConvertDexWithdrawals(cur, prev, h) ==
    <<Completed("withdrawals", cur, prev, h), Locked("withdrawals", cur, prev, h),
      Pending("withdrawals", cur, prev, h)>>

convertToBlockData(cur, prev, h) == [
    orders      |-> ConvertDexOrders(cur, prev, h),
    deposits    |-> ConvertDexDeposits(cur, prev, h),
    withdrawals |-> ConvertDexWithdrawals(cur, prev, h)]

-----------------------------------------------------------------------------
(* Writing a block *)

Views == {"current", "change"}

Previous(h, view) == IF view = "change" /\ h > 1 THEN node[h - 1] ELSE NoBatches

\* The parts of a conversion are one batch of statements.
UpsertParts(table, parts) == Upsert(Upsert(Upsert(table, parts[1]), parts[2]), parts[3])

Init ==
    /\ node = <<>>
    /\ views = [h \in 1 .. MaxHeight |-> {}]
    /\ tables = [k \in Kinds |-> {}]

\* writeBlockData: the rows of the three tables.
WriteBlock(h, view) ==
    LET data == convertToBlockData(node[h], Previous(h, view), h)
    IN  /\ h <= Len(node)
        /\ views' = [views EXCEPT ![h] = @ \union {view}]
        /\ tables' = [k \in Kinds |-> UpsertParts(tables[k], data[k])]
        /\ UNCHANGED node

Next ==
    \/ \E rotating \in SUBSET {CommitteeOf[i] : i \in Batched},
          S \in SUBSET (Items \ Entered) :
        \E joining \in [S -> Terms],
           results \in [{i \in DOMAIN Tip.locked : CommitteeOf[i] \in rotating} -> Results] :
            NodeAdvances(rotating, joining, results)
    \/ \E h \in 1 .. MaxHeight, view \in Views : WriteBlock(h, view)

Spec == Init /\ [][Next]_vars

-----------------------------------------------------------------------------
(* What became of an item *)

Covered == {h \in 1 .. Len(node) : \A g \in 1 .. h : views[g] # {}}

Compared == {h \in 1 .. Len(node) : \A g \in 1 .. h : "change" \in views[g]}

\* The heights up to h at which an item was settled: one at most.
SettledAt(i, h) == {g \in 1 .. h : i \in DOMAIN node[g].events}

\* What the latest row of an item can say at a height: a settlement of which
\* the event cannot be read goes unnoticed.
Truth(i, h) ==
    IF i \in DOMAIN node[h].next THEN {Columns("pending", node[h].next[i], None)}
    ELSE IF i \in DOMAIN node[h].locked THEN {Columns("locked", node[h].locked[i], None)}
    ELSE {IF i \in Readable THEN Columns("complete", node[g - 1].locked[i], node[g].events[i])
                            ELSE Columns("locked", node[g - 1].locked[i], None) :
             g \in SettledAt(i, h)}

Rows(i) == {r \in tables[KindOf[i]] : r.key = i}

LatestColumns(i, h) == {r.val : r \in Latest(Rows(i), i, h)}

Rank == [pending |-> 1, locked |-> 2, complete |-> 3]

-----------------------------------------------------------------------------
(* Properties *)

\* Rows of an item are in the table of its kind, one for each height.
TypeOK ==
    /\ Len(node) <= MaxHeight
    /\ views \in [1 .. MaxHeight -> SUBSET Views]
    /\ DOMAIN tables = Kinds
    /\ \A k \in Kinds : \A r, q \in tables[k] :
        /\ r.key \in Items /\ KindOf[r.key] = k
        /\ r.height \in 1 .. Len(node) /\ views[r.height] # {}
        /\ r.val.state \in DOMAIN Rank
        /\ r.key = q.key /\ r.height = q.height => r = q

\* "The snapshot-on-change pattern works correctly with parallel/unordered
\* indexing" (dex_order.go): what is in a batch has a latest row that says in
\* which one, and on which terms, once every block is stored in any way.
BatchesAreShown ==
    \A h \in Covered : \A i \in DOMAIN node[h].next \union DOMAIN node[h].locked :
        LatestColumns(i, h) = Truth(i, h)

\* Where every block was compared with its predecessor, the latest row of any
\* item says what became of it: of a settled one the result, if its event could
\* be parsed, and else that it is locked, for good; of others there is none.
LifecycleIsShown ==
    \A h \in Compared, i \in Items : LatestColumns(i, h) = Truth(i, h)

\* From row to row an item only moves on, whatever is missing and in whatever
\* order and way the blocks were written; nothing comes after "complete".  And
\* the "Height when order was locked" (dex_order.go) is one at which its row says
\* so, with the same terms, if that block is stored.
LifecycleMovesOn ==
    \A i \in Items : \A r, q \in Rows(i) :
        /\ r.height < q.height =>
              /\ Rank[r.val.state] <= Rank[q.val.state]
              /\ r.val.state # "complete"
        /\ r.extra > 0 /\ views[r.extra] # {} =>
              \E l \in Rows(i) : /\ l.height = r.extra /\ l.extra = r.extra
                                 /\ l.val = Columns("locked", r.val.terms, None)
=============================================================================
