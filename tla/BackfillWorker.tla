--------------------------- MODULE BackfillWorker ---------------------------
(***************************************************************************)
(* The backfill program: one backfill per chain looks for the heights that *)
(* have no block below the head and indexes them in batches.  As a worker  *)
(* it looks at intervals, and follows the table of chains: it starts the   *)
(* backfill of a chain that appears and cancels that of a chain that goes. *)
(* In its one-time mode every chain gets one pass and the exit code tells  *)
(* whether blocks failed.                                                  *)
(*                                                                         *)
(* A backfill is a goroutine with a context of its own.  Blocks are stored *)
(* whole or not at all (BlockIndexing shows how), by it and by the indexer *)
(* that listens to the same chain.                                         *)
(*                                                                         *)
(* The gap queries name a table blocks with a chain_id, and no schema.  A  *)
(* chain's own table has no such column: they find the copies in crosschain*)
(* if the connection has that schema on its search path, and fail if not,  *)
(* which is what every setting in the repository leads to.  Not every      *)
(* block has its copy (CrosschainSync), and every copy is of a block.      *)
(***************************************************************************)
EXTENDS Integers, FiniteSets, FiniteSetsExt

CONSTANTS
    Chains,     \* chains of the network
    Picked,     \* those the flag -chain allows
    Backfills,  \* goroutines, as many as can be alive at once
    Flags,      \* the program's flags, 0 where one is not given
    Env,        \* its environment variables, likewise
    Refused,    \* heights whose blocks the database may refuse each time
    MaxHead,    \* bound on the heights
    MaxEdits,   \* bound on the edits of the table of chains
    MaxFaults,  \* bound on the other calls that fail
    None

Default == [start |-> 1, end |-> 0, batch |-> 1000, concurrency |-> 10]

ASSUME BackfillAssumption ==
    /\ Picked \subseteq Chains /\ None \notin Chains \cup Backfills
    /\ None \notin {0, 1}
    /\ Flags \in [DOMAIN Default -> Nat] /\ Env \in [DOMAIN Default -> Nat]
    /\ MaxHead \in Nat \ {0} /\ Refused \subseteq Nat

VARIABLES
    once,    \* the flag -once
    dryRun,  \* the flag -dry-run
    onPath,  \* crosschain is on the search path of its connections
    rows,    \* the chains of admin.chains that are neither deleted nor paused
    head,    \* per chain: the height its node answers
    blocks,  \* per chain: the heights with a block
    copied,  \* per chain: those with a copy in crosschain
    main,    \* the goroutine main: where it is, the list it works on
    added,   \* the chains of the indexer
    active,  \* activeBackfills: per chain, the backfill its entry cancels
    run,     \* per goroutine: its backfill
    exit,    \* the exit code, None while the program runs
    signal,  \* the program was told to stop
    edits,   \* edits so far
    faults   \* calls that failed so far

program == <<main, added, active, run, exit>>
world == <<rows, head, blocks, copied>>
vars == <<once, dryRun, onPath, rows, head, blocks, copied, main, added, active, run, exit,
          signal, edits, faults>>

\* A flag overrides the environment, and either the default.
Config == [k \in DOMAIN Default |->
    IF Flags[k] > 0 THEN Flags[k] ELSE IF Env[k] > 0 THEN Env[k] ELSE Default[k]]

EndHeight(answer) == IF Config.end > 0 THEN Config.end ELSE answer

\* FindMissingHeights without its limit, and what GetGapStats counts, if
\* the query finds its table.
Missing(c, from, to) == (from..to) \ copied[c]

\* The write, and its triggers if the chain has them.
Stores(c, h) ==
    /\ blocks' = [blocks EXCEPT ![c] = @ \cup {h}]
    /\ copied' \in {copied, [copied EXCEPT ![c] = @ \cup {h}]}

\* ORDER BY height LIMIT n.
Lowest(n, S) == {h \in S : Cardinality({k \in S : k <= h}) <= n}

\* missing, tried and failed belong to the pass: what Run found missing at
\* its start, started to index and could not index.  orphan, a history
\* variable: another backfill removed the entry of this one.
Idle == [pc |-> "gone", chain |-> None, cancelled |-> FALSE, orphan |-> FALSE,
         from |-> 0, to |-> 0, todo |-> {}, busy |-> {},
         missing |-> {}, tried |-> {}, failed |-> {}, result |-> "none"]

Alive(r) == run[r].pc # "gone"

Init ==
    /\ once \in BOOLEAN /\ dryRun \in BOOLEAN /\ onPath \in BOOLEAN
    /\ rows \in SUBSET Chains
    /\ head \in [Chains -> 1..MaxHead]
    /\ blocks = [c \in Chains |-> {}] /\ copied = [c \in Chains |-> {}]
    /\ main = [pc |-> "boot", list |-> {}, todo |-> {}, chain |-> None]
    /\ added = {}
    /\ active = [c \in Chains |-> None]
    /\ run = [r \in Backfills |-> Idle]
    /\ exit = None
    /\ signal = FALSE
    /\ edits = 0 /\ faults = 0

Fault == faults < MaxFaults /\ faults' = faults + 1
Calm == UNCHANGED <<once, dryRun, onPath, world, signal, edits>>
Running == exit = None

\* os.Exit, or main's return: no goroutine outlives it.
Exits(code) ==
    /\ exit' = code
    /\ run' = [r \in Backfills |-> Idle]
    /\ active' = [c \in Chains |-> None]
    /\ main' = [main EXCEPT !.pc = "exited", !.todo = {}, !.chain = None]

Spawned(c) == [Idle EXCEPT !.chain = c, !.pc = IF once THEN "run" ELSE "ticker"]

----------------------------------------------------------------------------
(* main: start-up.                                                         *)

\* ListChain, filtered: no active chain, or none that -chain names, is an error.
ListsChains ==
    /\ Running /\ main.pc = "boot"
    /\ LET list == rows \cap Picked
       IN \/ /\ list # {}
             /\ main' = [main EXCEPT !.pc = "add", !.list = list, !.todo = list]
             /\ UNCHANGED <<added, active, run, exit, faults>>
          \/ /\ list = {} /\ Exits(1)
             /\ UNCHANGED <<added, faults>>
    /\ Calm

\* AddChain for every chain, and the program ends at the first that fails.
AddsChain ==
    /\ Running /\ main.pc = "add"
    /\ \E c \in main.todo :
        \/ /\ added' = added \cup {c}
           /\ main' = [main EXCEPT !.todo = @ \ {c}]
           /\ UNCHANGED <<active, run, exit, faults>>
        \/ /\ IF signal THEN UNCHANGED faults ELSE Fault
           /\ Exits(1) /\ UNCHANGED added
    /\ Calm

\* All are added: the mode takes the list.
Chooses ==
    /\ Running /\ main.pc = "add" /\ main.todo = {}
    /\ main' = [main EXCEPT !.pc = IF once THEN "spawn" ELSE "start", !.todo = main.list]
    /\ UNCHANGED <<added, active, run, exit, faults>> /\ Calm

\* A goroutine without a backfill.
Free(r) == ~Alive(r) /\ r = CHOOSE q \in Backfills : ~Alive(q)

\* runOnceMode starts a goroutine per chain, and waits for all of them.
SpawnsRun ==
    /\ Running /\ main.pc = "spawn"
    /\ \/ \E c \in main.todo, r \in Backfills :
            /\ Free(r)
            /\ run' = [run EXCEPT ![r] = Spawned(c)]
            /\ main' = [main EXCEPT !.todo = @ \ {c}]
       \/ /\ main.todo = {}
          /\ main' = [main EXCEPT !.pc = "join"]
          /\ UNCHANGED run
    /\ UNCHANGED <<added, active, exit, faults>> /\ Calm

----------------------------------------------------------------------------
(* runWorkerMode.                                                          *)

\* Mutant: the entries are not looked at.
LooksAlways ==
    /\ Running /\ main.pc = "start" /\ main.chain = None
    /\ \E c \in main.todo : main' = [main EXCEPT !.todo = @ \ {c}, !.chain = c]
    /\ added' = added \cup main.todo
    /\ UNCHANGED <<active, run, exit, faults>> /\ Calm

\* startBackfill up to the check's unlock and AddChain: a chain with an
\* entry is passed over, and one the indexer does not know is added first.
LooksForEntry ==
    /\ Running /\ main.pc = "start" /\ main.chain = None
    /\ \E c \in main.todo :
        \/ /\ active[c] # None \/ (c \notin added /\ signal)
           /\ main' = [main EXCEPT !.todo = @ \ {c}]
           /\ UNCHANGED <<added, faults>>
        \/ /\ active[c] = None /\ c \notin added /\ Fault
           /\ main' = [main EXCEPT !.todo = @ \ {c}]
           /\ UNCHANGED added
        \/ /\ active[c] = None
           /\ main' = [main EXCEPT !.todo = @ \ {c}, !.chain = c]
           /\ added' = added \cup {c}
           /\ UNCHANGED faults
    /\ UNCHANGED <<active, run, exit>> /\ Calm

\* startBackfill from the second lock on: the entry and the goroutine.
StartsBackfill ==
    /\ Running /\ main.chain # None
    /\ \E r \in Backfills :
        /\ Free(r)
        /\ active' = [active EXCEPT ![main.chain] = r]
        /\ run' = [run EXCEPT ![r] = Spawned(main.chain)]
    /\ main' = [main EXCEPT !.chain = None]
    /\ UNCHANGED <<added, exit, faults>> /\ Calm

\* Under the lock: the backfills of chains that are not in the list.  After
\* the first list there is none.
StopsRemoved ==
    /\ Running /\ main.pc = "start" /\ main.chain = None /\ main.todo = {}
    /\ LET gone == {c \in Chains \ main.list : active[c] # None}
       IN /\ run' = [r \in Backfills |->
                IF \E c \in gone : active[c] = r
                THEN [run[r] EXCEPT !.cancelled = TRUE] ELSE run[r]]
          /\ active' = [c \in Chains |-> IF c \in gone THEN None ELSE active[c]]
    /\ main' = [main EXCEPT !.pc = "wait"]
    /\ UNCHANGED <<added, exit, faults>> /\ Calm

\* The ticker and DiscoverActiveChains; a query that fails changes nothing.
Rediscovers ==
    /\ Running /\ main.pc = "wait" /\ ~signal
    /\ main' = [main EXCEPT !.pc = "start", !.list = rows \cap Picked, !.todo = rows \cap Picked]
    /\ UNCHANGED <<added, active, run, exit, faults>> /\ Calm

\* The loop ends when the signal came, without waiting for the backfills;
\* what main does after it finds its context cancelled and exits with 0.
WorkerReturns ==
    /\ Running /\ main.pc = "wait" /\ signal
    /\ Exits(0)
    /\ UNCHANGED <<added, faults>> /\ Calm

\* Mutant: the exit code is the number of failed blocks.
SummarisesCount ==
    /\ Running /\ main.pc = "join"
    /\ \A r \in Backfills : run[r].pc \in {"gone", "ended"}
    /\ exit' = Cardinality(UNION {run[r].failed : r \in Backfills})
    /\ main' = [main EXCEPT !.pc = "exited"]
    /\ UNCHANGED <<added, active, run, faults>> /\ Calm

\* runOnceMode after wg.Wait: the results that were kept are summed up.
Summarises ==
    /\ Running /\ main.pc = "join"
    /\ \A r \in Backfills : run[r].pc \in {"gone", "ended"}
    /\ exit' = IF \E r \in Backfills : run[r].result # "none" /\ run[r].failed # {} THEN 1 ELSE 0
    /\ main' = [main EXCEPT !.pc = "exited"]
    /\ UNCHANGED <<added, active, run, faults>> /\ Calm

Main == ListsChains \/ AddsChain \/ Chooses \/ SpawnsRun \/ LooksForEntry
        \/ StartsBackfill \/ StopsRemoved \/ Rediscovers \/ WorkerReturns \/ Summarises

----------------------------------------------------------------------------
(* A backfill.                                                             *)

\* Mutant: the goroutine is given the program's context for its own.
DoneAtSignal(r) == signal

Done(r) == run[r].cancelled \/ signal
At(r, pc) == Running /\ run[r].pc = pc
Others == UNCHANGED <<main, added, active, exit>> /\ Calm

\* The end of Run: the worker waits for the next tick, the one-time mode
\* keeps the result, or drops it with an error that is not the context's.
Finished(r, result) ==
    IF once THEN [run[r] EXCEPT !.pc = "ended", !.result = result]
    ELSE [Idle EXCEPT !.chain = run[r].chain, !.pc = "ticker",
                      !.cancelled = run[r].cancelled, !.orphan = run[r].orphan]

\* RunContinuous: CheckHealth found gaps.  A check that fails, or finds
\* none, waits for the next tick.
FindsGaps(r) ==
    /\ At(r, "ticker") /\ ~Done(r) /\ onPath
    /\ Missing(run[r].chain, Config.start, head[run[r].chain]) # {}
    /\ run' = [run EXCEPT ![r].pc = "run"]
    /\ UNCHANGED faults /\ Others

\* Mutant: the head is taken for the first height that is not there yet.
BeginsBelowHead(r) ==
    /\ At(r, "run") /\ ~Done(r) /\ onPath
    /\ LET to == EndHeight(head[run[r].chain]) - 1
           missing == Missing(run[r].chain, Config.start, to)
       IN run' = [run EXCEPT ![r] =
            IF missing = {} \/ dryRun THEN Finished(r, "whole")
            ELSE [@ EXCEPT !.pc = "loop", !.from = Config.start, !.to = to, !.missing = missing]]
    /\ UNCHANGED faults /\ Others

\* Run up to its loop.  An answer of 0 is what the client gives for the
\* head when it asked nobody (SilentOnlyIfNobodyAsked in RpcClient).
Begins(r) ==
    /\ At(r, "run") /\ ~Done(r) /\ onPath
    /\ \E answer \in {0, head[run[r].chain]} :
        LET to == EndHeight(answer)
            missing == Missing(run[r].chain, Config.start, to)
        IN /\ IF answer = 0 THEN Fault ELSE UNCHANGED faults
           /\ run' = [run EXCEPT ![r] =
                IF missing = {} \/ dryRun THEN Finished(r, "whole")
                ELSE [@ EXCEPT !.pc = "loop", !.from = Config.start, !.to = to, !.missing = missing]]
    /\ Others

\* A call of Run fails, as its queries do without their table: the result
\* goes with it.
RunFails(r) ==
    /\ At(r, "run") \/ At(r, "loop")
    /\ IF Done(r) \/ ~onPath THEN UNCHANGED faults ELSE Fault
    /\ run' = [run EXCEPT ![r] = Finished(r, "none")]
    /\ Others

\* The context is looked at once per batch, and the result is kept.
Stops(r) ==
    /\ At(r, "loop") /\ Done(r)
    /\ run' = [run EXCEPT ![r] = Finished(r, "part")]
    /\ UNCHANGED faults /\ Others

\* Mutant: the next batch starts a batch further, not after its last height.
ListsNextRange(r) ==
    /\ At(r, "loop") /\ ~Done(r)
    /\ LET heights == Lowest(Config.batch, Missing(run[r].chain, run[r].from, run[r].to))
       IN run' = [run EXCEPT ![r] =
            IF heights = {} THEN Finished(r, "whole")
            ELSE [@ EXCEPT !.pc = "batch", !.todo = heights, !.from = @ + Config.batch]]
    /\ UNCHANGED faults /\ Others

\* Mutant: the next batch starts at its last height, not after it.
ListsFromLast(r) ==
    /\ At(r, "loop") /\ ~Done(r)
    /\ LET heights == Lowest(Config.batch, Missing(run[r].chain, run[r].from, run[r].to))
       IN run' = [run EXCEPT ![r] =
            IF heights = {} THEN Finished(r, "whole")
            ELSE [@ EXCEPT !.pc = "batch", !.todo = heights, !.from = Max(heights)]]
    /\ UNCHANGED faults /\ Others

\* The next batch, or the end of the loop.
ListsBatch(r) ==
    /\ At(r, "loop") /\ ~Done(r)
    /\ LET heights == Lowest(Config.batch, Missing(run[r].chain, run[r].from, run[r].to))
       IN run' = [run EXCEPT ![r] =
            IF heights = {} THEN Finished(r, "whole")
            ELSE [@ EXCEPT !.pc = "batch", !.todo = heights, !.from = Max(heights) + 1]]
    /\ UNCHANGED faults /\ Others

\* g.Go: it waits while as many blocks are under way as the limit allows.
\* With its context cancelled a block fails at its first call.
StartsBlock(r) ==
    /\ At(r, "batch") /\ run[r].todo # {}
    /\ Cardinality(run[r].busy) < Config.concurrency
    /\ LET h == Min(run[r].todo)
       IN run' = [run EXCEPT ![r].todo = @ \ {h}, ![r].tried = @ \cup {h},
                    ![r].busy = IF Done(r) THEN @ ELSE @ \cup {h},
                    ![r].failed = IF Done(r) THEN @ \cup {h} ELSE @]
    /\ UNCHANGED faults /\ Others

\* The indexer may have stored the block in the meantime: the same rows again.
IndexesBlock(r) ==
    /\ At(r, "batch")
    /\ \E h \in run[r].busy :
        /\ run' = [run EXCEPT ![r].busy = @ \ {h}]
        /\ Stores(run[r].chain, h)
    /\ UNCHANGED <<once, dryRun, onPath, rows, head, main, added, active, exit, signal, edits, faults>>

\* Mutant: the error is logged and not counted.
BlockFailsUncounted(r) ==
    /\ At(r, "batch")
    /\ \E h \in run[r].busy :
        /\ IF Done(r) \/ h \in Refused THEN UNCHANGED faults ELSE Fault
        /\ run' = [run EXCEPT ![r].busy = @ \ {h}]
    /\ Others

\* A trigger refuses a block with transactions every time.
BlockFails(r) ==
    /\ At(r, "batch")
    /\ \E h \in run[r].busy :
        /\ IF Done(r) \/ h \in Refused THEN UNCHANGED faults ELSE Fault
        /\ run' = [run EXCEPT ![r].busy = @ \ {h}, ![r].failed = @ \cup {h}]
    /\ Others

EndsBatch(r) ==
    /\ At(r, "batch") /\ run[r].todo = {} /\ run[r].busy = {}
    /\ run' = [run EXCEPT ![r].pc = "loop"]
    /\ UNCHANGED faults /\ Others

\* RunContinuous returns, and the deferred function removes the entry of
\* the chain, whichever backfill it is for by now.
Ends(r) ==
    /\ At(r, "ticker") /\ Done(r)
    /\ LET c == run[r].chain
       IN /\ active' = [active EXCEPT ![c] = None]
          /\ run' = [q \in Backfills |->
                IF q = r THEN Idle
                ELSE [run[q] EXCEPT !.orphan = @ \/ active[c] = q]]
    /\ UNCHANGED <<main, added, exit, faults>> /\ Calm

Backfill(r) ==
    \/ FindsGaps(r) \/ Begins(r) \/ RunFails(r) \/ Stops(r) \/ ListsBatch(r)
    \/ StartsBlock(r) \/ IndexesBlock(r) \/ BlockFails(r) \/ EndsBatch(r) \/ Ends(r)

----------------------------------------------------------------------------
(* The chains, their table and the signal.                                 *)

\* A new block: the listener's indexer stores it, or misses it.
Grows(c) ==
    /\ head[c] < MaxHead
    /\ head' = [head EXCEPT ![c] = @ + 1]
    /\ Stores(c, head[c] + 1) \/ UNCHANGED <<blocks, copied>>
    /\ UNCHANGED <<once, dryRun, onPath, rows, program, signal, edits, faults>>

\* The indexer removes the chain, by a list that may be an old one: the
\* copies are deleted, and a later set-up does not bring them back.
LosesCopies(c) ==
    /\ copied' = [copied EXCEPT ![c] = {}]
    /\ UNCHANGED <<once, dryRun, onPath, rows, head, blocks, program, signal, edits, faults>>

\* A chain is paused or deleted, added or resumed.
Edits(c) ==
    /\ edits < MaxEdits /\ edits' = edits + 1
    /\ rows' = (rows \ {c}) \cup ({c} \ rows)
    /\ UNCHANGED <<once, dryRun, onPath, head, blocks, copied, program, signal, faults>>

Signals ==
    /\ Running /\ ~signal /\ signal' = TRUE
    /\ UNCHANGED <<once, dryRun, onPath, world, program, edits, faults>>

Next ==
    \/ Main \/ Signals
    \/ \E r \in Backfills : Backfill(r)
    \/ \E c \in Chains : Grows(c) \/ LosesCopies(c) \/ Edits(c)

\* The loop of main and every goroutine move on, tickers included; nodes,
\* operators and the signal owe nothing.
Spec == Init /\ [][Next]_vars /\ WF_vars(Main) /\ \A r \in Backfills : WF_vars(Backfill(r))

----------------------------------------------------------------------------

TypeOK ==
    /\ once \in BOOLEAN /\ dryRun \in BOOLEAN /\ onPath \in BOOLEAN /\ signal \in BOOLEAN
    /\ rows \subseteq Chains /\ added \subseteq Picked
    /\ head \in [Chains -> 1..MaxHead]
    /\ blocks \in [Chains -> SUBSET Nat] /\ copied \in [Chains -> SUBSET Nat]
    /\ main \in [pc : {"boot", "add", "spawn", "join", "start", "wait", "exited"},
                 list : SUBSET Picked, todo : SUBSET Picked, chain : Picked \cup {None}]
    /\ active \in [Chains -> Backfills \cup {None}]
    /\ run \in [Backfills -> [pc : {"gone", "ticker", "run", "loop", "batch", "ended"},
            chain : Chains \cup {None}, cancelled : BOOLEAN, orphan : BOOLEAN,
            from : Nat, to : Nat, todo : SUBSET Nat, busy : SUBSET Nat,
            missing : SUBSET Nat, tried : SUBSET Nat, failed : SUBSET Nat,
            result : {"none", "part", "whole"}]]
    /\ exit \in {None, 0, 1}
    /\ edits \in Nat /\ faults \in Nat

(* activeBackfills is what a chain's backfill is stopped by: the entry of  *)
(* a chain is for a backfill of it that runs, and a backfill that runs and *)
(* was not told to stop has the entry, so there is one per chain.  But for *)
(* one whose entry was removed by an earlier backfill that ended late.     *)
BackfillsAreStoppable ==
    Running /\ ~once =>
        /\ \A r \in Backfills : Alive(r) /\ ~run[r].cancelled /\ ~run[r].orphan =>
              active[run[r].chain] = r
        /\ \A c \in Chains : active[c] # None =>
              run[active[c]].chain = c /\ ~run[active[c]].cancelled
        /\ main.pc = "wait" => {c \in Chains : active[c] # None} \subseteq main.list

(* A pass of Run leaves out no height: each one that was missing when it   *)
(* began, and that it has gone past, was tried once or is there, although  *)
(* the missing heights are asked for anew with every batch.                *)
PassSkipsNothing ==
    \A r \in Backfills :
        /\ run[r].todo \cap run[r].tried = {}
        /\ run[r].pc = "loop" =>
              {h \in run[r].missing : h < run[r].from} \subseteq run[r].tried \cup blocks[run[r].chain]
        /\ run[r].result = "whole" =>
              run[r].missing \subseteq run[r].tried \cup blocks[run[r].chain]

\* A height a pass has yet to ask for is listed in a batch, starts and ends.
Left(pass) ==
    4 * Cardinality(pass.from .. pass.to) + 2 * Cardinality(pass.todo)
        + Cardinality(pass.busy) + (IF pass.pc = "batch" THEN 1 ELSE 0)

InPass(pass) == pass.pc \in {"loop", "batch"}

Marked(pass) == {[pass EXCEPT !.cancelled = TRUE], [pass EXCEPT !.orphan = TRUE]}

(* A pass of Run comes to its end, whichever blocks fail and whatever      *)
(* others store: each of its steps leaves less to do, and from its start   *)
(* on nothing is added, neither the heights that have failed, which stay   *)
(* missing, nor those above the head it was given.                         *)
PassesRunDown ==
    [][\A r \in Backfills :
          InPass(run[r]) /\ run'[r] # run[r] =>
              ~InPass(run'[r]) \/ run'[r] \in Marked(run[r]) \/ Left(run'[r]) < Left(run[r])]_vars

(* The one-time mode ends with 0 only if every chain it listed got a pass  *)
(* and every height the passes found missing has its block: unless it was  *)
(* told to stop, or a pass ended in an error, which is not counted.        *)
ExitCodeIsTrue ==
    exit = 0 /\ once /\ ~dryRun /\ ~signal =>
        /\ \A c \in main.list : \E r \in Backfills : run[r].chain = c
        /\ \A r \in Backfills : run[r].result = "whole" => run[r].missing \subseteq blocks[run[r].chain]

(* The worker closes the gaps of a chain that stays in the table, whatever *)
(* failed, was paused or ended late on the way, and although it looks for  *)
(* them among the copies: if it can read these at all, and but for blocks  *)
(* that are refused.                                                       *)
GapsAreFilled ==
    \A c \in Picked :
        <>[](c \in rows /\ Running /\ ~signal /\ onPath /\ ~once /\ ~dryRun) =>
            <>[]((Config.start .. EndHeight(head[c])) \ Refused \subseteq blocks[c])

(* A backfill that is cancelled ends, with which its goroutine is free for *)
(* another: no goroutine stays cancelled for ever.                         *)
StoppedBackfillsEnd == \A r \in Backfills : []<>(~run[r].cancelled)

=============================================================================
