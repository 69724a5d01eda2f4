----------------------------- MODULE SnapshotRows -----------------------------
(***************************************************************************)
(* Rows of the tables that are written only where a block changed          *)
(* something: what makes a row, how it is upserted, and which of them a    *)
(* reader takes.                                                           *)
(***************************************************************************)
EXTENDS Integers

(***************************************************************************)
(* A row: "val" holds the columns change detection looks after, "extra"    *)
(* those that speak of the row's own height alone.                         *)
(***************************************************************************)
Row(k, h, val, extra) == [key |-> k, height |-> h, val |-> val, extra |-> extra]

NewOrChanged(cur, prev) ==
    {k \in DOMAIN cur : k \notin DOMAIN prev \/ cur[k] # prev[k]}

\* Mutant: a plain INSERT.
UpsertAppends(table, new) == table \union new

\* INSERT ... ON CONFLICT (key, height) DO UPDATE.
Upsert(table, new) ==
    {r \in table : \A n \in new : r.key # n.key \/ r.height # n.height} \union new

\* The rows of a key up to a height, and the latest of them.
Known(table, k, h) == {r \in table : r.key = k /\ r.height <= h}

Latest(table, k, h) ==
    {r \in Known(table, k, h) : \A q \in Known(table, k, h) : q.height <= r.height}
=============================================================================
