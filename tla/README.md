# A TLA+ model of the Canopy indexer

The indexer copies the blocks of Canopy chains from their nodes into PostgreSQL.
This directory holds TLA+ modules that model it, configurations by which TLC
checks them on small instances, and proofs that TLAPS checks for all instances.
Paths are relative to the repository; `indexer.go` is
`internal/indexer/indexer.go`, `conversions.go` its neighbour.

## 1. The system

Two programs share one database.

* `cmd/indexer` keeps an `Indexer` with a connection pool, an RPC client and a
  blob listener for every active chain of `admin.chains`. A listener receives
  the blob of each new block over a websocket and hands it to
  `IndexBlockWithData`. Every few minutes `Rediscover` adds and removes chains.
* `cmd/backfill` looks for heights that are missing in a chain's tables and
  fetches them over RPC, several at a time. It fetches a block together with
  its predecessor; the listener hands over a block alone.

Both write schema `chain_N`, from which triggers copy rows into `crosschain`.
After a block's rows are committed its summary, a row of `index_progress`
and, in `cmd/indexer`, a message on the `blocks` topic follow, each separately.

Nearly all tables are *snapshots on change*: a block leaves a row only for an
entity it changed, and a reader takes the latest row of a key up to a height.

### Components

| Component | State | Operations | Interacts by | What is hard | What makes it correct |
|---|---|---|---|---|---|
| Write path (`indexer.go`) | `idx.chains`, `idx.rpcClients` under `idx.mu`; rows of `chain_N` | `IndexBlock`, `IndexBlockWithData`, `AddChain`, `removeChainLocked` | called by listeners and backfill goroutines; SQL | four separate writes; races of listener and backfill; removal of a chain in use; crashes | nothing is reported or announced that is not readable; every height gets in |
| Chain lifecycle (`indexer.go`, `admin/chain.go`) | the chain maps against `admin.chains` | `Rediscover`, `Close` | reads the rows the HTTP API writes | the list is stale when applied; steps fail half way | the maps converge to the active chains |
| Change detection (`conversions.go`, `pkg/transform`) | none; the rows it leaves | one converter per table | reads a pair of blobs | unordered writes, absent predecessor, vanishing keys | latest rows are the node's state |
| Blob decoding (`pkg/blob`) | none | `Decode`, `DecodeBlob` | between source and converters | which fields a lone blob yields | a pair is two adjacent blocks |
| Chain store (`pkg/db/postgres/chain`) | tables of `chain_N` | `HasBlock`, inserts, summary | SQL | upserts whose keys collide | one row per key and height |
| Admin store (`pkg/db/postgres/admin`) | `chains`, `index_progress`, `rpc_endpoints`, `reindex_requests` | CRUD, `RecordIndexed` | HTTP API, both programs | whole-row upserts | recorded heights are stored |
| Cross-chain store (`pkg/db/postgres/crosschain`) | triggers, tables of `crosschain` | `SetupChainSync`, `RemoveChainSync`, `Resync*` | fires inside the writers' transactions | rows before the trigger; updates; partly failed set-up | the copy equals the originals |
| Blob listener (`internal/listener/blob.go`) | connection, statistics, retry budget | `Run`, `listen`, `Close` | node; the write path | Close against dial and read; the budget after a disconnect | it reconnects or reports; nothing leaks |
| RPC client (`pkg/rpc`) | circuit breaker, token bucket, cache of lists | `doJSON`, `Blob` | backfill, validation of endpoints | shared by concurrent goroutines | no answer without a request; bounded rate |
| Backfill (`internal/backfill`) | the batch in progress | `Run`, `RunContinuous` | RPC client, write path | partial failure of a batch; a gap query without a schema | every missing height is retried |
| Programs (`cmd`) | worker mode's map of running backfills | start, poll, stop | wires the above | restart of a chain's backfill | one backfill per active chain |
| HTTP API (`internal/api`) | `admin.chains` | create, replace, patch, delete | admin store | read-modify-write without a transaction | the indexer follows whatever row is left |
| Publisher, stream worker, configuration, schema | | | | | |

`PROJECT.json` lists every component with its sources and status, and every
hazard at the line where it bites. The few hazards without a property say why;
section 7 takes them up.

## 2. Modules

| Module | What it is |
|---|---|
| `BlockLedger` | abstract: what readers of one chain are promised |
| `BlockIndexing` | the write path of one chain, statement by statement; implements `BlockLedger` |
| `SnapshotRows` | rows, upserts and latest rows, shared by the next two |
| `SnapshotTables` | twelve snapshot tables plus `txs` and `events`: every converter, blocks written in any order |
| `DexTables` | orders, deposits and withdrawals of the DEX: the three state machines |
| `CrosschainColumns` | the columns a trigger names, reads and writes, table by table |
| `CrosschainSync` | set-up, removal and firing of the triggers, as transactions that lock tables; implements `CrosschainSerial` |
| `CrosschainSerial` | abstract: the same transactions, each in a single step |
| `BlobListener` | one listener: its dials, reads and hand-overs, and `Close` |
| `ChainLifecycle` | the registry, the HTTP API that edits it, `Rediscover` and `Close` with a pool, a listener and triggers per chain |
| `RpcClient` | bucket, breakers, failover and paged lists under concurrent calls, goroutines of failed lists included |
| `BackfillWorker` | `cmd/backfill`: the worker and the one-time mode, and the passes they run |
| `*Proofs` | the theorems of the module whose name comes before; the listener, the columns, the rows and the two abstract modules have none |
| `SetsOfNumbers` | lemmas the proofs share: least and greatest elements, and sums over finite sets |
| `MC*` | constants for TLC |

The modules meet at what one takes from another as an assumption. The write of
a block is many statements in `BlockIndexing`, many locks in `CrosschainSync`,
and one step in the modules about rows and in `BackfillWorker`, because
`BlockIndexing` shows it to be all or nothing. `BackfillWorker` takes from
`RpcClient` that a head of 0 may come without an error, and `BlockIndexing` from
`ChainLifecycle` that several listeners of one chain may exist, of which the
cancelled ones write nothing new. `ChainLifecycle` gives `BlobListener` its
turns: the listener's operators yield the records a step may lead to.

`BlockIndexing` takes the conversion of a block as one of two values, "change"
(made from a pair of blobs) and "current" (from a lone one), and is about who
writes when. `SnapshotTables` and `DexTables` take a write as one step, as it is
one transaction, and are about what the rows say. The write path gives them
their assumption: any height may be written in either way, and again, in the
same way or the other, if two calls pass `HasBlock` together; in any order.

### BlockIndexing

| Variable | In the code |
|---|---|
| `pool[p]` | `idx.chains[chainID]` in process p: absent, open, or inside `db.Close()` with `idx.mu` held |
| `epoch[p]` | not stored in the code: tells one pool, and the listener started with it, from the next |
| `call[c]` | program counter, height and captured pool of goroutine c |
| `rows[h]` | the conversions committed for h |
| `summary[h]` | `block_summaries`: the conversion its row counts |
| `progress`, `published` | `admin.index_progress`, the `blocks` topic |
| `acked` | history: heights for which a call has returned nil |

Each statement of `IndexBlockWithData` is an action, with one for its failure:
`LookupChain`, `HasBlock`, `BeginTx`, `Commit`/`Rollback`/`CommitUnanswered`,
`BuildBlockSummary`, `UpdateProgress`, `PublishBlock`, `ReturnNil`. `BlobArrives`
is a listener's read loop, `StartFetch` and `FetchBlob` a backfill goroutine,
`FetchFails` any error of RPC or decoding. `AddChain`, `RemoveChainBegin`,
`RemoveChainEnd` and `Crash` are the life of the chain in a process. `Crash` has
no code: any process may die between two statements.

A pool that is closed lets no new statement begin (`PoolUsable`), and closing
waits for transactions in progress (`RemoveChainEnd`). A listener's context ends
with its epoch (`ContextAlive`). A listener reads one blob at a time; after a
removal and a new `AddChain` the listener of the old epoch may still be inside
its last call, hence two of them in the runs.

### SnapshotRows and SnapshotTables

A blob is a record of collections, each a function from keys to the columns
change detection looks at. A row has a key, a height, `val` (columns that are
compared, and what is derived from them) and `extra` (columns that speak of the
row's own height: a delta, a seller, the pool's amount). `convertToBlockData`
has one field per table and each field one operator, named after the table.
`Upsert` is `INSERT ... ON CONFLICT DO UPDATE` with the keys of
`migrations` and `inserts.go`; `Previous` is the other blob of the pair.
`NodeAdvances` lets the node produce any blob; `WriteBlock` is `writeBlockData`.

### DexTables

`node` has, for each height, the next and the locked batches of the committees,
the heights at which they were locked, and the events that settle items.
`NodeAdvances` is the node (external to this repository): batches of some
committees rotate, what was locked is settled by an event of the same block, and
new items join. An id is used once. `Completed`, `Locked` and `Pending` are the
three parts of each of `ConvertDexOrders/Deposits/WithdrawalsWithStateMachine`,
upserted in that order.

An event does not always come through. `parseDexEventsFromSlice`
(`conversions.go:749`) marshals the wrapper of the message and parses the
outcome as the message itself; an error or an empty order id is passed over in
silence. Which events survive that is decided by the node's library, which is
not in the repository, so the constant `Readable` is any set of items, and an
item outside it stays "locked" for good. Only orders have a column for the
height at which they were locked (`LockedHeight`). A deposit or withdrawal in
the current batch is "locked", as the code writes it, though the models'
comments call it "pending" (`dex_deposit.go:30,57`, `dex_withdrawal.go:31,58`;
a finding).

### CrosschainColumns and CrosschainSync

`GetTableConfigs` builds the text of each trigger from the columns of a model
struct. `ColumnNames` are those names, `ChainColumns` and `CrossColumns` the two
tables' own; `TriggerWorks` says whether the three fit. What is alike in all of
them stands as "key" and "rest".

| Variable | In the code |
|---|---|
| `rows`, `copy` | `chain_N` and `crosschain`: per table and height, the conversion last written |
| `triggers` | the triggers that exist |
| `has[p]` | the chains in `idx.chains` of process p |
| `session[s]` | the transaction of a goroutine: the statements left, each with its place, the tables locked, the changes to commit |
| `missed`, `rewritten`, `contended` | history: why a row and its copy differ, and which chains were set up and removed at the same time |

`StartWrite`, `Insert`/`InsertRefused`, `CommitWrite` are `writeBlockData`;
`StartSetup`, `CreateTrigger`, `CommitSetup` are `SetupChainSync`;
`StartRemoval`, `DropTrigger`, `DropFunction`, `DeleteCopies`, `CommitRemoval`
are `RemoveChainSync`, and `Refused`, `CommitBroken` its way of logging an error
and going on. Locks, deadlock detection, aborted transactions and the effect of
a trigger at the moment it fires are PostgreSQL's, taken from how the code uses
them.

`CrosschainSerial` has the committed tables alone, `rows`, `copy`, `triggers`,
and of the history `contended`, which it calls `clashed`. `Write`, `SetUp` and
`Remove` are what the three transactions come to when nobody waits and nothing
fails. The rows a `Write` copies are those whose trigger exists when it commits;
a `Remove` of a chain that another process has just added may leave what that
one has made (`Spared`). Rollbacks, crashes and statements before a commit are
stutters, so the mapping is the identity on these variables.

### BlobListener and ChainLifecycle

A listener is a record with its program counter, its loop's `attempt`, `held`
(`l.conn` is not nil), `socket` (the connection itself) and the pool its handler
has found. `Round`, `DialAnswered`/`DialFailed`, `Wait`, `Store` are `Run`;
`Check`, `Read`, `Receive`, `Disconnect` are `listen`, with the unlocked read of
`l.conn` in a step of its own (`ReadsNil` is the nil pointer). `Cancelled` and
`Closed` are what a removal does to it.

| Variable | In the code |
|---|---|
| `admin`, `request` | the rows of `admin.chains`; the row an API request has read and not yet written back |
| `chains`, `closed` | `idx.chains` with the epoch of each chain; the pools that are closed or closing |
| `lis` | the listener of each epoch |
| `walk` | the goroutine that rediscovers or closes: where it is, the list it has read |
| `triggers` | chains with cross-chain triggers |

`ListChains`, `RemoveCloses`, `RemoveForgets`, `RemoveDisconnects`,
`RemoveUnsyncs`, `Add` and `Unlock` are `Rediscover`, in the order of the code
and with `idx.mu` held in between; `CloseCancels` to `Exit` are `Close`. `Load`,
`SavePatch`, `SaveDelete` and `Upsert` are the handlers. An epoch number is used
again when nothing of its epoch is left.

### RpcClient

A thread is one call of `doJSON`: of a caller, or of a page of a list. Pages
belong to the call that asked for them, `<<n, page>>`, because `listPaged`
(`httpclient.go:621`) returns on the first error and leaves the goroutines of
the other pages where they are, in `acquire` or in a request. They go on by
themselves while the caller may be at its next list; what they bring is read by
nobody (`Discard`). Tokens are an integer because the code's counter can go
below zero, and `peak` is a history variable: the most goroutines that were in
`acquire` at once. Time is two facts, `due` (a token may be added) and a
cooldown that is over (`CoolDown`). `Skip`/`Choose` are `isOpen`;
`RefillChecks`, `RefillAdds`, `AcquireLooks`, `AcquireTakes` are the four atomic
steps of `acquire`; `Answered`, `Refused`, `Failed` are what comes back, the
last with `noteFailure`. `CallList`, `FirstPage`, `Collect`, `ListFails`,
`ReturnList` are a paged list, whose pages come in any order.

No program of the repository asks for a list on a client that it keeps: the
backfill calls `ChainHead` and `Blob`, and the API's validation
(`internal/rpc/validation.go:32`) calls `BlockByHeight` on a client it throws
away. The lists are modelled as the package offers them, because the bucket and
the breakers are shared with them; the cache of lists is not.

### BackfillWorker

| Variable | In the code |
|---|---|
| `main`, `exit` | the goroutine `main` with the list it works on; the exit code |
| `added`, `active` | the indexer's chains; `activeBackfills`, per chain the backfill its entry cancels |
| `run[r]` | one goroutine of `startBackfill` or `runOnceMode`: the pass of `Backfiller.Run` it is in |
| `rows`, `head`, `blocks` | the active rows of `admin.chains`, the node's height, the heights with a row in `chain_N.blocks` |
| `copied` | the heights with a row in `crosschain.blocks` for the chain |
| `onPath` | whether `crosschain` is on the search path of the program's connections |

`ListsChains`, `AddsChain`, `Chooses` are the start of `main`; `SpawnsRun` and
`Summarises` are `runOnceMode`; `LooksForEntry`, `StartsBackfill`, `StopsRemoved`,
`Rediscovers`, `WorkerReturns` are `runWorkerMode`. `FindsGaps` and `Ends` are
`RunContinuous` and the deferred function around it. `Begins`, `ListsBatch`,
`StartsBlock`, `IndexesBlock`, `BlockFails`, `EndsBatch`, `Stops`, `RunFails` are
`Run`. `Config` is how flags, environment and defaults combine.

The gap queries (`gaps.go:26`) name a table `blocks` without a schema, with a
column `chain_id`. `chain_N.blocks` has no such column; `crosschain.blocks` has
it. So they read the copies if the connection's search path has `crosschain`,
and fail otherwise, and no code of the repository sets a search path. `Missing`
subtracts `copied`, not `blocks`; without `onPath`, `FindsGaps` and `Begins`
never happen and `RunFails` always may. A stored block may have no copy
(`Stores`), and copies go when the indexer removes the chain (`LosesCopies`):
then the backfill asks again for what it has. `Refused` are heights whose block
the database refuses each time, as a trigger does with a block that has
transactions. Of `run`,
`orphan` is a history variable: it marks a backfill whose entry another one has
removed.

## 3. What the runs check

| Run | Result | What it shows |
|---|---|---|
| `block_indexing` | passes | A summary counts committed rows. No transaction outlives its pool. `BlockIndexing` implements `BlockLedger`, so a nil answer means the block is stored, and what is recorded or announced has block and summary. |
| `block_indexing_live` | passes | A height that backfill asks for over and over is stored in the end, and every removal that waits for writers returns. |
| `stored_without_summary` | violation | A summary that fails once is never written. |
| `snapshot_tables` | passes | Once all blocks up to a height are stored, the latest rows show the node at that height, whatever the order and the ways of writing. With every block compared, signers that are gone read as zero. A validator's seats are the rows beside its latest row. Deltas of compared blocks add up. |
| `live_view_resets` | violation | The reset of a signer is lost if the block came over the websocket. |
| `dex_tables` | passes | What is in a batch is shown in its state and terms; with every block compared so is what was settled, if its event could be read, and else the item stays locked. The rows of an item only move on, and the locked height of an order's row names the block whose row says "locked". |
| `crosschain_sync` | passes | A row and its copy agree but for the rows inserted without a trigger and the rows written twice. A chain has all its triggers or none, unless one process adds it while another removes it. Without triggers there are no copies. What is committed is what transactions in single steps would leave (`CrosschainSerial`). |
| `triggers_refuse` | violation | A block with a transaction is refused while the triggers exist. |
| `chain_lifecycle` | passes | The chains at hand become the active ones, and the listeners of removed chains end. No listener of a former epoch writes. A chain has one listener that goes on, or one that gave up after its dials. An open connection is one that `Close` would find or one just dialled, except at the end of a listener that was cancelled in its dial. Triggers follow the chains while nothing fails. |
| `rpc_client` | passes | By how much the bucket can be overdrawn or overfull, with what failed lists leave behind. The breaker agrees with its counter. A nil error without an answer means nobody was asked. Every call returns, and so does every goroutine left behind. |
| `nil_answers` | violation | With every endpoint open a call returns no answer and no error. |
| `backfill_worker` | passes | Entries of `activeBackfills` are for backfills that run, and a backfill not told to stop has its entry. A pass leaves out no height, and each of its steps leaves less to do. Exit code 0 means what was missing is stored, but for passes that ended in an error. Gaps close but for refused blocks, if the gap query can read the copies at all. Cancelled backfills end. |

Findings are what the code does against a line of its own documentation; all are
in `PROJECT.json`. A run shows the first four. The others were met while
modelling, and the model has the behaviour.

1. `indexer.go:188` builds the summary after the commit, in a statement of its
   own. If it fails, the retry sees the block and returns nil: no summary, no
   progress row, no message. `ARCH.md:38` promises one transaction.
2. `indexer.go:388` decodes a live blob without a predecessor. Whatever only a
   comparison can tell is lost at that height, and `HasBlock` stops every later
   attempt: resets of signers (against `ARCH.md:110`; the run), and completions
   of DEX orders (`conversions.go:446`, against `dex_order.go:43`).
3. `crosschain/sync.go:65`: the triggers of `txs`, `pool_points_by_holder`,
   `orders` and the DEX tables name columns that do not exist or assign text to
   an enum; a block with such a row is rolled back as long as they exist.
4. `httpclient.go:280`: with every breaker open `doJSON` asks nobody and returns
   nil. The head is 0, and a list is short.
5. `crosschain/sync.go:275`: a removal that loses a deadlock commits nothing,
   logs a warning, and the chain keeps its triggers and copies.
   `sync.go:157`: `ResyncTable` selects crosschain names from `chain_N`.
   `types.go:27` lists 15 of the 20 tables. `client.go:172` never fills its
   destination.
6. `blob.go:166` may read a nil connection during a removal; `blob.go:105` leaves
   one dial less after a connection; `indexer.go:336` never passes on an edited
   endpoint; `chain.go:240` takes "paused" from a patch that does not have it.
7. `cmd/backfill/main.go:320` may remove the entry of a later backfill, which
   then cannot be cancelled (against `PLAN.md:12`); `main.go:176` looks at
   `-stats` after the mode has run.
8. `conversions.go:366` gives no row for a holder that is gone;
   `conversions.go:885` leaves the transaction hash, a part of the key of `txs`,
   empty; `indexer.go:657` counts a state no converter writes;
   `httpclient.go:136` keeps more heights than its comments say.
9. `backfill/gaps.go:26` cannot read the table it is about: it fails, or reads
   the copies (against `README.md:85`, "detects and fills gaps").
   `conversions.go:749` passes over events it cannot parse, without a word.
   `conversions.go:594` writes "locked" where the models say "pending".

## 4. Bounds

* `block_indexing`: two heights, two processes, two listeners, one backfill
  goroutine, two epochs per process; 1.3 million states. Two writers of one
  height are what the races need; the second height shows that heights do not
  disturb one another; the second epoch is needed for a listener that outlives
  its chain. Heights and listeners are symmetric. The liveness run has one
  height, which is not a refused one, and no symmetry.
* `snapshot_tables`: three blocks over five blobs, ten thousand states. Each blob
  moves all collections at once and differently, so that between them they
  take a key through appearing, changing, staying, leaving and returning; with
  three blocks a key changes and changes back, and the one in between comes
  first, last or never. The proofs need no bound.
* `dex_tables`: one order and one deposit of two committees over four blocks,
  98 thousand states: a life takes three blocks, and one more lets it begin
  late or end early. Two results, one set of terms. The order's event can be
  read, the deposit's cannot. Withdrawals have no
  item in this instance; they are converted by the operators of the other two.
* `crosschain_sync`: one chain, four tables, two heights, one writer per process.
  The tables are one that comes first in the order of the set-up and late in
  that of a write, one the other way round, one whose trigger cannot work, and
  one that is not copied: these make the circles of locks. Tables of one sort
  behave alike. `triggers_refuse` is the same without faults.
* `chain_lifecycle`: one chain, two endpoints of which one is another chain's,
  two epochs, one API request besides the upserts, three edits, one failed call,
  one stop or crash, two dials. Three edits are a registration, a removal and a
  return; two epochs are a listener that outlives its chain beside its successor.
  The proofs cover several chains.
* `rpc_client`: a caller and a lister with three pages, one endpoint, a bucket of
  one, a threshold of two, two calls; 249 thousand states. A bucket of one makes
  every race for the last token happen, between goroutines of the list at hand,
  of one that has failed and of the other caller. Two calls are two lists, the
  second begun while pages of the first are still in `acquire`, or a list
  beside a call. `nil_answers` has two endpoints and four calls, for the
  failover; the proofs hold for any number of each.
* `backfill_worker`: one chain of up to two heights, batches of one, one block at
  a time, two goroutines, two edits of the table, one failing call besides the
  refused height 2, with and without the copies in reach; 404 thousand states.
  Two edits are a pause and a return, by which two backfills of one chain are
  alive; a third is never started. Two heights are two batches, of which the
  first or the second fails. Larger batches, several blocks at once and several
  chains are left to the proofs.
* `MaxHeight` and `MaxEpoch` bound how far the node and a process go, and `MaxEdits`,
  `MaxFaults`, `MaxStops`, `MaxCalls` how often the environment acts. Deadlock is checked in
  `BlockIndexing` and the modules about rows. The others may come to a rest,
  when the calls are used up or the processes have exited; that no goroutine
  waits for ever in them is what their liveness properties say.

## 5. Fairness

The modules about rows and `CrosschainSync` state no liveness and no fairness.

`FairSpec` of `BlockIndexing` assumes:

* weak fairness of every goroutine inside a call: Go runs goroutines that can
  run. Waking up idle listeners is not assumed, so the node may send nothing;
* weak fairness of `AddChain` and `RemoveChainEnd`: `Rediscover` and process
  restarts come again, and `Pool.Close` returns when its connections are back;
* strong fairness of the success of a backfill goroutine's statements on each
  height outside `Refused`: no fault repeats for ever on such a height. Nothing
  is assumed of the heights that are asked for; `EveryHeightIsStored` is about
  those asked for again and again (`AskedFor`), because what the gap query
  finds is not the tables of the chain (finding 9, and `BackfillWorker`). Blocks
  that the triggers refuse every time (finding 3) are what `Refused` is for.

Removals, crashes and errors stay possible throughout, limited by `MaxEpoch`
only in how often a chain opens.

`ChainLifecycle`: weak fairness of the rediscovering goroutine (the ticker comes
again), of `Close`, of each listener's own steps and of the nil pointer's panic.
The look-up of a handler has strong fairness: it waits for `idx.mu` as a reader,
and a `sync.RWMutex` lets the readers that wait in when a writer is done. The
node, the operators and the signal owe nothing: a blob may never come, a process
that is down may stay down. A pool that waits for a connection in use gets it
back because the handler's write ends.

`RpcClient`: weak fairness of every goroutine (a request is answered or times
out) and of time's `TokenDue`. Cooldowns need not end. Calls are bounded, and
`CallsReturn` says that each returns, not that callers go on.

`BackfillWorker`: weak fairness of `main` and of each backfill, tickers
included. Edits, and calls that fail other than on a refused height, are bounded,
so `GapsAreFilled` says what happens when they stop; it promises nothing of
refused heights, nor if the gap query fails (`onPath`). Blocks arrive, copies go
and signals come as they like.

## 6. What is proved

All theorems hold for every value of the constants that meets the `ASSUME`s.

`BlockIndexingProofs`

| Theorem | States |
|---|---|
| `TypeCorrect` | `[]TypeOK` |
| `AckedStaysStored` | `[]AckedIsStored` |
| `SummariesCountStoredRows` | `[]SummaryCountsStoredRows` |
| `AnnouncementsAreReadable` | `[]AnnouncedIsReadable` |
| `TransactionsHoldTheirPool` | `[]TxHoldsItsPool` |
| `Implements` | `Spec => ImplementsLedger` |

The inductive invariant joins what is to be proved with what a call may rely on
at each program counter: past the commit its height is stored, past the summary
it is summarised, and with a transaction open its pool is the one of its epoch.
The first two survive other calls since rows and summaries only grow; the third
survives a removal because `RemoveChainEnd` waits. What the second and the
fourth theorem state follows from `ImplementsLedger` as well, so no run checks
`AckedIsStored` and `AnnouncedIsReadable` separately.

`SnapshotTablesProofs`

| Theorem | States |
|---|---|
| `TypeCorrect` | `[]TypeOK` |
| `HistoryStaysExact` | `[]HistoryIsExact` |
| `ResetsStaySeen` | `[]ResetsAreSeen` |
| `SeatsStayReadable` | `[]SeatsByValidatorRow` |
| `DeltasKeepAddingUp` | `[]DeltasAddUp` |

`HistoryIsExact` is not inductive: it says nothing of heights above the first
gap. The invariant `IInv` speaks of single heights instead. `Reached`: only
heights the node has reached are written. `RowsAreKeyed`: one row per key and
height, at written heights. `RowsAreTrue`: a row shows what the node had at its
own height. `ChangesHaveRows`: where a written height differs from its
predecessor in a key the node has, the key has a row. These do not depend on
the order of writes. History then follows without time: take the least height
from which the key has kept its value up to h (`LeastElement`, from the
library's well-founded induction). There it changed, so it has a row; after it,
every row is true and so shows the same value.

The other three repeat the argument with an invariant of their own. For signers
`RInv` adds `GoneIsZero` and `GoneHasRow`, which only compared heights have, and
"absent" takes the place of the value. For seats `SInv` adds `RowsHaveSeats` and
`ValidatorsHaveRows`: the columns a validator's row shows leave its committees
out, but the comparison behind the row does not. For deltas `RowsTellDeltas`
makes each term of the sum right (`DeltasAreDifferences`), and the sum follows
by taking the least height up to which it would be wrong. What a sum over a set
is, `MapThenSumSet` says by a recursive function that takes elements away in
an order CHOOSE fixes; `SetsOfNumbers` shows that it exists (`SumExists`), does
not depend on the order (`SumTakesAny`) nor on the set it was made for
(`SumsAgree`), each from a smallest subset that would say otherwise. The
assumption on blobs is that a listed double signer has evidence and that what a
pool holds is a number.

`DexTablesProofs`

| Theorem | States |
|---|---|
| `TypeCorrect` | `[]TypeOK` |
| `BatchesStayShown` | `[]BatchesAreShown` |
| `LifecycleStaysShown` | `[]LifecycleIsShown` |
| `LifecycleOnlyMovesOn` | `[]LifecycleMovesOn` |

They hold whichever events can be parsed. All an item goes through is fixed by three heights: it enters the next batch, is
locked, is settled. `ItemsLive` says that every item has such a life, with
heights the node has not reached for "some day or never", and that each block
fits it; this is what rotating batches and fresh ids come to. `RowsAreTrue` says
that each row is one of the three the block of its height may leave, and
`NewsHaveRows` that what a block is the first to say has a row. The properties
are arithmetic on the three heights.

`CrosschainSyncProofs`

| Theorem | States |
|---|---|
| `TypeCorrect` | `[]TypeOK` |
| `CopiesTrue` | `[]CopyTellsInsertedRows` |
| `AllTriggersOrNone` | `[]TriggersTogether` |
| `NothingLeftBehind` | `[]NoOrphanCopies` |
| `ActsAsOneStep` | `Spec => ActsSerially` |
| `AloneAllOrNothing` | `[]` of "all triggers or none" for every chain, with one process |

What a transaction does appears at its commit, so what it found when it executed
a statement must still be so then. `WriteKnows`: the triggers that fired are
still there, and the rows it inserted are still new. `RemovalKnows`: the copies
it will delete are all there are of the tables it has dealt with. Both rest on
the locks: `Sound` says that a transaction keeps the lock of every table it has
inserted into or dropped a trigger of, and `LocksApart` that no two conflict, so
a trigger can neither come nor go under an insert, nor an insert under a drop.
`NothingLeftBehind` needs besides that every trigger is dropped before the first
copy is deleted (`DropsComeFirst`), whatever other statements are in between.
`TriggersTogether` sets aside chains that one process adds while another removes
them, as the runs do. `AloneAllOrNothing` drops that exception for the indexer without a
backfill, where there is nobody to contend with.

`ActsAsOneStep` compares what a transaction has gathered, statement by
statement, with the tables at its commit. A write's `new` and `fired` must be
the rows that are new, and those that have a trigger, *then*; the first half is
`WriteKnows`, the other (`UnfiredKnows`) says that a row inserted without its
trigger would be so still: a set-up keeps the lock of each table it has
made a trigger for until it commits (`SetupHolds`), and no insert of a table
can be pending beside it. `FiredWork` is the guard of the abstract step: a
trigger that cannot work fails its insert, so the block never commits. A
removal that reaches its commit has dropped and deleted all it found
(`RemovalKnows`), which is all there is unless the chain is contended. Every
other step leaves the tables alone.

The assumptions: the synced and written tables are among those of the code's lists, a writer belongs to a process and is none, and "no
value" is no height.

`RpcClientProofs`

| Theorem | States |
|---|---|
| `TypeCorrect` | `[]TypeOK` |
| `BreakerStaysTrue` | `[]BreakerFollowsFailures` |
| `SilenceIsNoFailure` | `[]SilentOnlyIfNobodyAsked` |
| `BucketHolds` | `[]BucketIsBounded` |

The breaker is nearly inductive: a failure that comes in late, when the breaker
is open already, leaves both sides as they are, and closing it resets the counter
in one step under the client's lock. The second needs that a thread that has
asked somebody knows an answer or an error (`AskedIsKnown`).

The bucket's bound counts goroutines. One that has read a token may take it
after others have, so what stays bounded is the number of tokens less the
goroutines about to take one, and with those about to add one (`BucketCounts`).
Both are in `acquire`, of which `peak` remembers the most at once: only
`Choose` brings a goroutine there (`DoJSONPeaks`), and every step in it trades a
token against a goroutine that leaves its place. How many lists have been left
behind does not matter. The bound is on the model's `peak` and not on a number
known beforehand, because the code has none: whoever calls failing lists in a
row piles up goroutines. Types need a count as well: a counter of failures
passes its threshold only by those that were past the breaker when it opened
(`FailuresAreLate`). Assumed: callers and pages are finitely many.

`ChainLifecycleProofs`

| Theorem | States |
|---|---|
| `TypeCorrect` | `[]TypeOK` |
| `FormerListenersWriteNothing` | `[]OldListenersWriteNothing` |
| `ListenersAreTheChains` | `[]OneListenerPerChain` |
| `ConnectionsAreFound` | `[]SocketsAreHeld` |
| `GivingUpIsEarned` | `[]GivesUpAfterRetries` |
| `TriggersMatch` | `[]TriggersFollowChains` |

`LisOk` is about one listener: between two connections the two counters of
failed dials differ by at most one, no connection is open, and with one it is in
`l.conn` unless the listener was cancelled; each step of `BlobListener` has a
lemma that it keeps this. `Core` is about all: chains have epochs of their own
(`Apart`), a listener that may go on is one of a chain at hand (`Former`), and
the listeners of the chains at hand are cancelled exactly from `CloseCancels` on
(`Stopped`). That former listeners write nothing rests on `Pools`: a handler may
find the pool of a later life of its chain, but then, by `Former`, its listener
was cancelled, since under the lock a chain at hand has its own listener. The
triggers need `Synced`, which says what `removeChainLocked` owes between
forgetting a chain and dropping its triggers.

`BackfillWorkerProofs`

| Theorem | States |
|---|---|
| `TypeCorrect` | `[]TypeOK` |
| `PassesSkipNothing` | `[]PassSkipsNothing` |
| `EntriesAreTrue` | `[]BackfillsAreStoppable` |
| `ExitCodeTellsFailures` | `[]ExitCodeIsTrue` |
| `PassesEnd` | `Spec => PassesRunDown` |

`PassOk` says how far a pass has come: what it tried and what is left of its
batch lies below its field `from`, and whatever it found missing below `from`
was tried, is in the batch or has its block. A batch keeps this because it is
the lowest part of what is missing (`LowestIsPrefix`) and `from` goes behind its
greatest height (`MaxOf`), and other processes only add blocks (`PassGrows`).
What is missing is missing among the copies, and each copy is of a stored block
(`CopiesHold`), so a height with a copy has its block.
`Entries` adds to `BackfillsAreStoppable` what `startBackfill` relies on between
its two locks: the chain it is about to start has no entry (`NextHasNoEntry`),
since only `main` makes entries. The property sets aside the backfills that
lost their entry (`orphan`); that these exist is a finding.

`Outcome` follows what the exit code is made from. A height a pass has tried is
under way, failed or has its block (`Accounted`), nothing is under way when the
pass is over, every chain of the list has a goroutine or still waits for one
(`AllServed`), and code 0 is given only if no pass that came to its end has
failures (`CodeIsSum`). With `PassOk`, that a pass leaves out no height it found
missing, this is the property.

`PassesRunDown` is what the ends of passes rest on, said without fairness. `Left`
counts a height once for each of the stages it has still to go through: to be
listed, to start, to end. Listing a batch puts at most as many heights into
`todo` as it takes from the interval above `from` (`ListingLessens`, with
`IntervalSize`), because `from` goes behind the greatest of them; that a failed
height stays missing does not matter, since nothing below `from` is asked for
again. Counting needs the blocks under way to be finitely many (`BusyFinite`).

Only model-checked: liveness (`EveryHeightIsStored`, `RemovalEnds`,
`RegistryWins`, `CallsReturn`, `GapsAreFilled`, `StoppedBackfillsEnd`), as the
prover has no rules for fairness. Every other property of the passing runs is a
theorem.

## 7. Not modelled

* Encodings (protobuf, hex, columns), the text of queries, views and SQL
  functions that only read, statistics and logging, configuration but for that
  of the backfill.
* `internal/worker` and `listener/websocket.go`, which no program starts. What
  becomes of a message the worker refuses is the message library's affair.
* `DeleteAllAtHeight`, `DropChainSchema`, `ResyncTable`, `ResyncChain`, reindex
  requests and endpoint probes, which nothing calls or acts on.
* The columns of `block_summaries`: the summary of a height is the conversion it
  counts. `num_dex_orders_future` is a finding from the code.
* The single-chain mode of `cmd/indexer` (`main.go:118`, without
  auto-subscription): one blob listener for a configured chain, which nothing
  removes or restarts; it calls `IndexBlockWithData` as the others do.
* The cache of lists by height (`setCache`), which no program reads from twice.
* Lists of several endpoints: a row has its first one, which is what listener
  and registration use; `RpcClient` has several.
* What should win when two requests edit a chain at once: the race is in
  `ChainLifecycle`, but no document says which edit should be left.
* That an edited endpoint is kept: `Rediscover` compares chains by presence, and
  `RegistryWins` is about presence (a finding).
* Keys that leave the state without a row: what the code does in most tables
  (a finding for holders).

Worth proving next: for the other liveness properties, too, what they rest on and
can be said without fairness, such as that whoever waits for `idx.mu` waits for
a goroutine that can move; and an abstract specification of the tables, one
full state per height, that `SnapshotTables` implements once heights are
complete.

## 8. Running

    tlc -config BlockIndexing.cfg MCBlockIndexing
    tlc -config ChainLifecycle.cfg MCChainLifecycle
    tlc -config RpcClient.cfg RpcClient
    tlc -config BackfillWorker.cfg MCBackfillWorker
    tlapm BackfillWorkerProofs.tla

`PROJECT.json` names the module and the configuration of each run, the mutant
of the code by which each property is seen to fail, and the source lines of
each definition. Operators with a comment "Mutant" are used by nothing else.
