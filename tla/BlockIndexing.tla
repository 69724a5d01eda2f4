---------------------------- MODULE BlockIndexing ----------------------------
(***************************************************************************)
(* The write path of one chain: IndexBlock and IndexBlockWithData of       *)
(* internal/indexer/indexer.go, run at once by every goroutine that may    *)
(* call them, against the life of the chain's connection pool.             *)
(*                                                                         *)
(* Processes are the operating-system processes that hold an Indexer for   *)
(* the chain: cmd/indexer, whose blob listeners hand over the current      *)
(* block alone, and cmd/backfill, whose goroutines fetch the current and   *)
(* the previous block.  All of them write the same schema chain_N.  A call *)
(* makes its statements one at a time; between any two of them another     *)
(* call may run, the chain may be removed, or the process may die.         *)
(***************************************************************************)
EXTENDS Naturals

CONSTANTS
    Heights,     \* the block heights in play
    Refused,     \* those whose block the database may refuse each time
    Processes,   \* processes with an Indexer for the chain
    Publishing,  \* those whose Indexer has a publisher
    Removing,    \* those that rediscover, hence may remove the chain
    Listeners,   \* goroutines in BlobListener.listen
    Fetchers,    \* goroutines of a backfill batch
    Home,        \* the process of each goroutine
    None,        \* "no row", "no height"
    MaxEpoch     \* bound: how often a process may open the chain

Callers == Listeners \union Fetchers

ASSUME ConstantsAssumption ==
    /\ Refused \subseteq Heights
    /\ Publishing \subseteq Processes
    /\ Removing \subseteq Processes
    /\ Home \in [Callers -> Processes]
    /\ Listeners \intersect Fetchers = {}
    /\ None \notin Heights
    /\ None \notin {"current", "change"}
    /\ MaxEpoch \in Nat

(***************************************************************************)
(* A blob without its predecessor converts to other rows than a pair: with *)
(* nothing to compare with, everything counts as new and nothing as gone.  *)
(***************************************************************************)
Views == {"current", "change"}

View(c) == IF c \in Listeners THEN "current" ELSE "change"

Steps == {"idle", "fetch", "lookup", "check", "begin", "tx",
          "summary", "record", "publish", "done"}

VARIABLES
    pool,      \* idx.chains[chainID] of each process, and its pgx pool
    epoch,     \* how many times each process has opened the chain
    call,      \* the call each goroutine is making
    rows,      \* the conversions committed to chain_N, by height
    summary,   \* the conversion chain_N.block_summaries counts, by height
    progress,  \* admin.index_progress
    published, \* heights on the blocks topic
    acked      \* heights a call returned nil for

vars == <<pool, epoch, call, rows, summary, progress, published, acked>>

NoCall == [pc |-> "idle", height |-> None, epoch |-> 0]

TypeOK ==
    /\ pool \in [Processes -> {"none", "open", "closing"}]
    /\ epoch \in [Processes -> 0 .. MaxEpoch]
    /\ call \in [Callers -> [pc : Steps, height : Heights \union {None},
                             epoch : 0 .. MaxEpoch]]
    /\ rows \in [Heights -> SUBSET Views]
    /\ summary \in [Heights -> Views \union {None}]
    /\ progress \subseteq Heights
    /\ published \subseteq Heights
    /\ acked \subseteq Heights

Init ==
    /\ pool = [p \in Processes |-> "none"]
    /\ epoch = [p \in Processes |-> 0]
    /\ call = [c \in Callers |-> NoCall]
    /\ rows = [h \in Heights |-> {}]
    /\ summary = [h \in Heights |-> None]
    /\ progress = {}
    /\ published = {}
    /\ acked = {}

Stored == {h \in Heights : rows[h] # {}}
Summarised == {h \in Heights : summary[h] # None}

-----------------------------------------------------------------------------
(* Control of a call *)

At(c, step) == call[c].pc = step

Goto(c, step) == call' = [call EXCEPT ![c].pc = step]

Return(c) == call' = [call EXCEPT ![c] = NoCall]

tables == <<rows, summary, progress, published>>
chain == <<pool, epoch>>

(***************************************************************************)
(* A statement on the chain's pool needs the pool the call looked up to be *)
(* open still.  A listener's statements also need its context, which ends  *)
(* with the epoch that started the listener, so its epoch is that one.     *)
(***************************************************************************)
PoolUsable(c) ==
    /\ pool[Home[c]] = "open"
    /\ call[c].epoch = epoch[Home[c]]

\* The context of the call: only a listener's dies with its chain.
ContextAlive(c) ==
    c \in Listeners =>
        /\ pool[Home[c]] # "none"
        /\ call[c].epoch = epoch[Home[c]]

-----------------------------------------------------------------------------
(* The calls *)

\* The node pushes a blob: one listener goroutine per epoch, one blob at a time.
BlobArrives(c, h) ==
    /\ c \in Listeners
    /\ At(c, "idle")
    /\ pool[Home[c]] # "none"
    /\ \A d \in Listeners \ {c} :
           Home[d] = Home[c] /\ ~At(d, "idle") => call[d].epoch # epoch[Home[c]]
    /\ call' = [call EXCEPT ![c] = [pc |-> "lookup", height |-> h,
                                    epoch |-> epoch[Home[c]]]]
    /\ UNCHANGED <<chain, tables, acked>>

\* A backfill goroutine starts on a height of its batch: whichever the gap
\* query names, missing here or not.
StartFetch(c, h) ==
    /\ c \in Fetchers
    /\ At(c, "idle")
    /\ pool[Home[c]] # "none"
    /\ call' = [call EXCEPT ![c] = [pc |-> "fetch", height |-> h, epoch |-> 0]]
    /\ UNCHANGED <<chain, tables, acked>>

FetchBlob(c) ==
    /\ At(c, "fetch")
    /\ Goto(c, "lookup")
    /\ UNCHANGED <<chain, tables, acked>>

\* The RPC or the decoding fails.
FetchFails(c) ==
    /\ At(c, "fetch")
    /\ Return(c)
    /\ UNCHANGED <<chain, tables, acked>>

\* Mutant: backfill keeps the handle of the chain's first opening.
LookupFirstOpening(c) ==
    /\ At(c, "lookup")
    /\ pool[Home[c]] = "open"
    /\ call' = [call EXCEPT ![c].pc = "check",
                            ![c].epoch = IF c \in Listeners THEN @ ELSE 1]
    /\ UNCHANGED <<chain, tables, acked>>

\* idx.chains under idx.mu.RLock: waits while a removal holds the lock.
LookupChain(c) ==
    /\ At(c, "lookup")
    /\ pool[Home[c]] = "open"
    /\ call' = [call EXCEPT ![c].pc = "check",
                            ![c].epoch = IF c \in Listeners
                                           THEN @ ELSE epoch[Home[c]]]
    /\ UNCHANGED <<chain, tables, acked>>

ChainNotConfigured(c) ==
    /\ At(c, "lookup")
    /\ pool[Home[c]] = "none"
    /\ Return(c)
    /\ UNCHANGED <<chain, tables, acked>>

\* HasBlock decides between skipping the height and writing it.
HasBlock(c) ==
    /\ At(c, "check")
    /\ PoolUsable(c)
    /\ Goto(c, IF rows[call[c].height] # {} THEN "done" ELSE "begin")
    /\ UNCHANGED <<chain, tables, acked>>

BeginTx(c) ==
    /\ At(c, "begin")
    /\ PoolUsable(c)
    /\ Goto(c, "tx")
    /\ UNCHANGED <<chain, tables, acked>>

\* HasBlock or Begin fails: a database error, a closed pool, a dead context.
StatementFails(c) ==
    /\ At(c, "check") \/ At(c, "begin")
    /\ Return(c)
    /\ UNCHANGED <<chain, tables, acked>>

\* The tables of chain_N after c's transaction, all of it upserts.
RowsWritten(c) == [rows EXCEPT ![call[c].height] = @ \union {View(c)}]

\* Mutant: the progress is recorded before the summary is built.
CommitThenRecord(c) ==
    /\ At(c, "tx")
    /\ rows' = RowsWritten(c)
    /\ Goto(c, "record")
    /\ UNCHANGED <<chain, summary, progress, published, acked>>

Commit(c) ==
    /\ At(c, "tx")
    /\ rows' = RowsWritten(c)
    /\ Goto(c, "summary")
    /\ UNCHANGED <<chain, summary, progress, published, acked>>

\* Mutant: the error of writeBlockData is dropped.
RollbackUnnoticed(c) ==
    /\ At(c, "tx")
    /\ Goto(c, "summary")
    /\ UNCHANGED <<chain, tables, acked>>

Rollback(c) ==
    /\ At(c, "tx")
    /\ Return(c)
    /\ UNCHANGED <<chain, tables, acked>>

\* The server commits and the connection dies before it says so.
CommitUnanswered(c) ==
    /\ At(c, "tx")
    /\ rows' = RowsWritten(c)
    /\ Return(c)
    /\ UNCHANGED <<chain, summary, progress, published, acked>>

SummaryWritten(c) == [summary EXCEPT ![call[c].height] = View(c)]

\* buildBlockSummary is a statement of its own, after the commit.
BuildBlockSummary(c) ==
    /\ At(c, "summary")
    /\ PoolUsable(c)
    /\ summary' = SummaryWritten(c)
    /\ Goto(c, "record")
    /\ UNCHANGED <<chain, rows, progress, published, acked>>

\* It fails, with or without having reached the table; the call reports it.
BuildBlockSummaryFails(c) ==
    /\ At(c, "summary")
    /\ \/ UNCHANGED summary
       \/ PoolUsable(c) /\ summary' = SummaryWritten(c)
    /\ Return(c)
    /\ UNCHANGED <<chain, rows, progress, published, acked>>

AfterRecord(c) == IF Home[c] \in Publishing THEN "publish" ELSE "done"

UpdateProgress(c) ==
    /\ At(c, "record")
    /\ ContextAlive(c)
    /\ progress' = progress \union {call[c].height}
    /\ Goto(c, AfterRecord(c))
    /\ UNCHANGED <<chain, rows, summary, published, acked>>

\* A failure to record is logged, and the call goes on.
UpdateProgressFails(c) ==
    /\ At(c, "record")
    /\ Goto(c, AfterRecord(c))
    /\ UNCHANGED <<chain, tables, acked>>

\* Publishing does not look at the context.
PublishBlock(c) ==
    /\ At(c, "publish")
    /\ published' = published \union {call[c].height}
    /\ Goto(c, "done")
    /\ UNCHANGED <<chain, rows, summary, progress, acked>>

\* A failure to publish is logged, and the call succeeds all the same.
PublishBlockFails(c) ==
    /\ At(c, "publish")
    /\ Goto(c, "done")
    /\ UNCHANGED <<chain, tables, acked>>

\* Mutant: the height is read after the call's state has been cleared.
ReturnNilCleared(c) ==
    /\ At(c, "done")
    /\ Return(c)
    /\ acked' = acked \union {call'[c].height}
    /\ UNCHANGED <<chain, tables>>

ReturnNil(c) ==
    /\ At(c, "done")
    /\ acked' = acked \union {call[c].height}
    /\ Return(c)
    /\ UNCHANGED <<chain, tables>>

-----------------------------------------------------------------------------
(* The chain in a process *)

\* AddChain and addChainLocked: a new pool, and with it a new listener.
AddChain(p) ==
    /\ pool[p] = "none"
    /\ epoch[p] < MaxEpoch
    /\ pool' = [pool EXCEPT ![p] = "open"]
    /\ epoch' = [epoch EXCEPT ![p] = @ + 1]
    /\ UNCHANGED <<call, tables, acked>>

\* db.Close() inside removeChainLocked: no new acquire, idx.mu stays locked.
RemoveChainBegin(p) ==
    /\ p \in Removing
    /\ pool[p] = "open"
    /\ epoch[p] < MaxEpoch
    /\ pool' = [pool EXCEPT ![p] = "closing"]
    /\ UNCHANGED <<epoch, call, tables, acked>>

\* Mutant: the maps are cleared without waiting for the connections.
RemoveChainEndAtOnce(p) ==
    /\ pool[p] = "closing"
    /\ pool' = [pool EXCEPT ![p] = "none"]
    /\ UNCHANGED <<epoch, call, tables, acked>>

\* Mutant: the removal waits for whole calls, which may wait for idx.mu.
RemoveChainEndAfterCalls(p) ==
    /\ pool[p] = "closing"
    /\ \A c \in Callers : Home[c] = p => At(c, "idle")
    /\ pool' = [pool EXCEPT ![p] = "none"]
    /\ UNCHANGED <<epoch, call, tables, acked>>

\* It returns once every connection is back; the maps and contexts go next.
RemoveChainEnd(p) ==
    /\ pool[p] = "closing"
    /\ \A c \in Callers : Home[c] = p => ~At(c, "tx")
    /\ pool' = [pool EXCEPT ![p] = "none"]
    /\ UNCHANGED <<epoch, call, tables, acked>>

\* The process dies: its calls end where they are, open transactions roll back.
Crash(p) ==
    /\ pool[p] # "none"
    /\ epoch[p] < MaxEpoch
    /\ pool' = [pool EXCEPT ![p] = "none"]
    /\ call' = [c \in Callers |-> IF Home[c] = p THEN NoCall ELSE call[c]]
    /\ UNCHANGED <<epoch, tables, acked>>

-----------------------------------------------------------------------------
Step(c) ==
    \/ \E h \in Heights : BlobArrives(c, h) \/ StartFetch(c, h)
    \/ FetchBlob(c) \/ FetchFails(c)
    \/ LookupChain(c) \/ ChainNotConfigured(c)
    \/ HasBlock(c) \/ BeginTx(c) \/ StatementFails(c)
    \/ Commit(c) \/ Rollback(c) \/ CommitUnanswered(c)
    \/ BuildBlockSummary(c) \/ BuildBlockSummaryFails(c)
    \/ UpdateProgress(c) \/ UpdateProgressFails(c)
    \/ PublishBlock(c) \/ PublishBlockFails(c)
    \/ ReturnNil(c)

Lifecycle(p) ==
    AddChain(p) \/ RemoveChainBegin(p) \/ RemoveChainEnd(p) \/ Crash(p)

Next ==
    \/ \E c \in Callers : Step(c)
    \/ \E p \in Processes : Lifecycle(p)

Spec == Init /\ [][Next]_vars

-----------------------------------------------------------------------------
(* Properties *)

\* A call answers nil only for a height whose block is in chain_N.blocks: a
\* backfill that counts a success, or a worker that acknowledges, loses nothing.
AckedIsStored == acked \subseteq Stored

\* A summary row never runs ahead of the rows it counts: its conversion has
\* been committed at that height.
SummaryCountsStoredRows == \A h \in Summarised : summary[h] \in rows[h]

\* index_progress and the blocks topic speak only of heights a reader can
\* query in full: whoever follows them finds both the block and its summary.
AnnouncedIsReadable == progress \union published \subseteq Stored \intersect Summarised

\* No transaction outlives the pool it runs on: removing a chain waits for the
\* writers it finds, and a writer of an earlier epoch never writes again.
TxHoldsItsPool ==
    \A c \in Callers : At(c, "tx") =>
        /\ pool[Home[c]] # "none"
        /\ call[c].epoch = epoch[Home[c]]

\* The write path keeps the promise of BlockLedger.
Ledger == INSTANCE BlockLedger WITH
    stored <- Stored, summarised <- Summarised, recorded <- progress,
    announced <- published, confirmed <- acked

ImplementsLedger == Ledger!Spec

(***************************************************************************)
(* Fairness.  A goroutine that can take a step takes one, and a fault does *)
(* not repeat for ever on the same height, but for those whose block the   *)
(* database refuses each time: what is retried without end succeeds in the *)
(* end.  Nothing is said of which heights are asked for.                   *)
(***************************************************************************)
Reaches(c, h) == call[c].height = h

Retries(c, h) ==
    /\ SF_vars(Reaches(c, h) /\ FetchBlob(c))
    /\ SF_vars(Reaches(c, h) /\ HasBlock(c))
    /\ SF_vars(Reaches(c, h) /\ BeginTx(c))
    /\ SF_vars(Reaches(c, h) /\ Commit(c))
    /\ SF_vars(Reaches(c, h) /\ BuildBlockSummary(c))

Fairness ==
    /\ \A c \in Callers : WF_vars(Step(c) /\ ~At(c, "idle"))
    /\ \A c \in Fetchers, h \in Heights \ Refused : Retries(c, h)
    /\ \A p \in Processes : WF_vars(AddChain(p)) /\ WF_vars(RemoveChainEnd(p))

FairSpec == Spec /\ Fairness

\* Whatever the listeners lose, whatever is skipped on the way, and however
\* often the chain is removed or a process dies: a height that backfill asks
\* for over and over is stored in the end, unless its block is refused.
AskedFor(h) == \E c \in Fetchers : Reaches(c, h)

EveryHeightIsStored ==
    \A h \in Heights \ Refused : []<>AskedFor(h) => <>[](rows[h] # {})

\* Removing a chain ends: db.Close() waits for writers while idx.mu is held,
\* and no writer needs idx.mu before it gives its connection back.
RemovalEnds == \A p \in Processes : []<>(pool[p] # "closing")

\* Refuted.  "All database writes execute in a single atomic transaction. Any
\* failure causes full rollback (NACK)" (ARCH.md): a stored block has its
\* summary sooner or later, as the retry would write both.
StoredGetsSummarised == \A h \in Heights : rows[h] # {} ~> summary[h] # None
=============================================================================
