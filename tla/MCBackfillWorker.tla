-------------------------- MODULE MCBackfillWorker --------------------------
(* Batches of one height by a flag that overrides the environment: the gap *)
(* of a new chain takes two batches.                                       *)
EXTENDS BackfillWorker

MCFlags == [start |-> 0, end |-> 0, batch |-> 1, concurrency |-> 0]
MCEnv == [start |-> 0, end |-> 0, batch |-> 2, concurrency |-> 1]

=============================================================================
