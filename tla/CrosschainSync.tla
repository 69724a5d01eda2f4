--------------------------- MODULE CrosschainSync ---------------------------
(***************************************************************************)
(* The copy of chain_N into the crosschain schema: SetupChainSync,         *)
(* RemoveChainSync and the trigger functions of                            *)
(* pkg/db/postgres/crosschain/sync.go, against writeBlockData.             *)
(*                                                                         *)
(* Each of the three is one transaction of many statements, and each       *)
(* statement takes a lock on one table of chain_N that its transaction     *)
(* keeps.  The transactions go through the tables in different orders, so  *)
(* they may wait for each other in a circle; the server then fails one of  *)
(* them.  The indexer adds and removes chains, the backfill only adds.     *)
(***************************************************************************)
EXTENDS Naturals, CrosschainColumns

CONSTANTS
    Chains,
    Heights,
    Tables,        \* the tables of chain_N that rows are written to
    Content,       \* the tables each height has rows for
    Processes,     \* cmd/indexer and cmd/backfill
    Rediscovering, \* the processes that remove chains
    Writers,       \* goroutines in writeBlockData
    Home,          \* the process of each writer
    View,          \* the conversion it writes: of the block alone, or of the pair
    None,
    Faults         \* may a statement fail by itself, or a process die?

ASSUME ConstantsAssumption ==
    /\ Tables \subseteq Elements(WriteOrder)
    /\ Content \in [Heights -> SUBSET Tables]
    /\ Rediscovering \subseteq Processes
    /\ Home \in [Writers -> Processes]
    /\ Writers \intersect Processes = {}
    /\ None \notin Heights
    /\ None \notin {View[w] : w \in Writers}
    /\ Faults \in BOOLEAN

Views == {View[w] : w \in Writers}

\* The goroutine of a process that adds and removes chains stands for it.
Sessions == Writers \union Processes

VARIABLES
    rows,      \* chain_N: what each table says of each height
    copy,      \* crosschain: the same rows, by chain
    triggers,  \* the tables that have their trigger
    has,       \* idx.chains of each process
    session,   \* the transaction each goroutine is in
    missed,    \* history: rows inserted, or left behind, without a copy
    rewritten, \* history: rows updated after they were inserted
    contended  \* history: chains set up and removed at the same time

vars == <<rows, copy, triggers, has, session, missed, rewritten, contended>>

Idle == [op |-> "idle", chain |-> None, height |-> None, view |-> None,
         todo |-> {}, locked |-> {}, new |-> {}, fired |-> {},
         deleted |-> {}, broken |-> FALSE]

Synced == Tables \intersect SyncTables

Init ==
    /\ rows = [c \in Chains |-> [t \in Tables |-> [h \in Heights |-> None]]]
    /\ copy = rows
    /\ triggers = {}
    /\ has = [p \in Processes |-> {}]
    /\ session = [s \in Sessions |-> Idle]
    /\ missed = {}
    /\ rewritten = {}
    /\ contended = {}

\* A statement on a table, and its place in the transaction.
Statement(kind, t, at) == [kind |-> kind, table |-> t, at |-> at]

Position(order, t) == CHOOSE i \in DOMAIN order : order[i] = t

StatementsOfWrite(h) ==
    {Statement("insert", t, Position(WriteOrder, t)) : t \in Content[h]}

StatementsOfSetup == {Statement("create", t, Position(SyncOrder, t)) : t \in Synced}

\* Mutant: the rows are deleted before the triggers are dropped.
StatementsOfRemovalDeleteFirst ==
    {Statement("delete", t, Position(SyncOrder, t)) : t \in Synced} \union
    {Statement("drop", t, Len(SyncOrder) + Position(SyncOrder, t)) : t \in Synced}

\* Each trigger and its function, then the rows.
DropAt(t) == 2 * Position(SyncOrder, t)
DeleteAt(t) == 2 * (Len(SyncOrder) + 1) + Position(SyncOrder, t)

StatementsOfRemoval ==
    {Statement("drop", t, DropAt(t)) : t \in Synced} \union
    {Statement("function", t, DropAt(t) + 1) : t \in Synced} \union
    {Statement("delete", t, DeleteAt(t)) : t \in Synced}

\* A set-up or removal of a chain that meets one of another process.
Contend(op, c) ==
    contended' = IF \E p \in Processes : session[p].op = op /\ session[p].chain = c
                 THEN contended \union {c} ELSE contended

-----------------------------------------------------------------------------
(* Transactions and locks *)

Busy(s) == session[s].op # "idle"

Following(s) == CHOOSE x \in session[s].todo : \A y \in session[s].todo : x.at <= y.at
Remaining(s) == session[s].todo \ {Following(s)}

At(s, kind) ==
    /\ session[s].todo # {}
    /\ Following(s).kind = kind
    /\ ~session[s].broken

(***************************************************************************)
(* An INSERT shares its table with other INSERTs; creating a trigger and   *)
(* dropping one that exists take the table for themselves.  The DELETE is  *)
(* on the crosschain table, where no other row of the chain is touched     *)
(* once the triggers are locked.                                           *)
(***************************************************************************)
Lock(s) ==
    LET c == session[s].chain
        t == Following(s).table
    IN  IF \/ At(s, "insert") \/ At(s, "create")
           \/ (At(s, "drop") /\ <<c, t>> \in triggers)
        THEN {[chain |-> c, table |-> t, shared |-> At(s, "insert")]}
        ELSE {}

Conflict(a, b) ==
    /\ a.chain = b.chain
    /\ a.table = b.table
    /\ ~(a.shared /\ b.shared)

\* Two INSERTs of one row: the second waits for the first to commit.
SameRow(s, u) ==
    /\ At(s, "insert")
    /\ session[u].op = "write"
    /\ session[u].chain = session[s].chain
    /\ session[u].height = session[s].height
    /\ \E l \in session[u].locked : l.table = Following(s).table

WaitsFor(s, u) ==
    /\ u # s
    /\ \/ \E a \in Lock(s) : \E b \in session[u].locked : Conflict(a, b)
       \/ SameRow(s, u)

Ready(s) == \A u \in Sessions : ~WaitsFor(s, u)

\* The transaction after its next statement, whose lock it takes.
Advanced(s) == [session[s] EXCEPT !.todo = Remaining(s), !.locked = @ \union Lock(s)]

Execute(s, after) == Ready(s) /\ session' = [session EXCEPT ![s] = after]

\* A chain is in idx.chains before its triggers are created, and stays there.
End(s) ==
    /\ session' = [session EXCEPT ![s] = Idle]
    /\ has' = IF session[s].op = "setup"
              THEN [has EXCEPT ![s] = @ \union {session[s].chain}]
              ELSE has

tables == <<rows, copy, triggers, missed, rewritten, contended>>

Rollback(s) == End(s) /\ UNCHANGED tables

-----------------------------------------------------------------------------
(* writeBlockData *)

\* The call needs idx.mu, which Rediscover and AddChain hold.
StartWrite(w, c, h) ==
    /\ c \in has[Home[w]]
    /\ ~Busy(Home[w])
    /\ ~Busy(w)
    /\ session' = [session EXCEPT ![w] =
                     [Idle EXCEPT !.op = "write", !.chain = c, !.height = h,
                                  !.view = View[w], !.todo = StatementsOfWrite(h)]]
    /\ UNCHANGED <<tables, has>>

IsNew(s, t) == rows[session[s].chain][t][session[s].height] = None

\* Mutant: the trigger fires after an UPDATE too.
FiresOnUpdate(s, t) == <<session[s].chain, t>> \in triggers

Fires(s, t) == IsNew(s, t) /\ <<session[s].chain, t>> \in triggers

\* The trigger is not there, has nothing to do, or does it.
Accepted(s, t) == Fires(s, t) => TriggerWorks(t)

Insert(s) ==
    /\ At(s, "insert")
    /\ LET t == Following(s).table IN
       /\ Accepted(s, t)
       /\ Execute(s,
            [Advanced(s) EXCEPT !.new = IF IsNew(s, t) THEN @ \union {t} ELSE @,
                      !.fired = IF Fires(s, t) THEN @ \union {t} ELSE @])
    /\ UNCHANGED <<tables, has>>

\* The trigger's own INSERT fails, and with it the block.
InsertRefused(s) ==
    /\ At(s, "insert")
    /\ Ready(s)
    /\ ~Accepted(s, Following(s).table)
    /\ Rollback(s)

Put(table, x, S) ==
    [table EXCEPT ![x.chain] =
       [t \in Tables |-> IF t \in S THEN [@[t] EXCEPT ![x.height] = x.view] ELSE @[t]]]

CommitWrite(s) ==
    /\ session[s].op = "write"
    /\ session[s].todo = {}
    /\ LET x == session[s]
           written == Content[x.height]
       IN  /\ rows' = Put(rows, x, written)
           /\ copy' = Put(copy, x, x.fired)
           /\ missed' = missed \union
                {<<x.chain, t, x.height>> : t \in x.new \ x.fired}
           /\ rewritten' = rewritten \union
                {<<x.chain, t, x.height>> : t \in written \ x.new}
    /\ End(s)
    /\ UNCHANGED <<triggers, contended>>

-----------------------------------------------------------------------------
(* SetupChainSync *)

StartSetup(p, c) ==
    /\ c \notin has[p]
    /\ ~Busy(p)
    /\ session' = [session EXCEPT ![p] =
                     [Idle EXCEPT !.op = "setup", !.chain = c,
                                  !.todo = StatementsOfSetup]]
    /\ Contend("remove", c)
    /\ UNCHANGED <<rows, copy, triggers, has, missed, rewritten>>

\* Mutant: the statement is executed on the pool, not in the transaction.
CreateTriggerAtOnce(s) ==
    /\ At(s, "create")
    /\ Execute(s, Advanced(s))
    /\ triggers' = triggers \union {<<session[s].chain, Following(s).table>>}
    /\ UNCHANGED <<rows, copy, has, missed, rewritten, contended>>

CreateTrigger(s) ==
    /\ At(s, "create")
    /\ Execute(s, Advanced(s))
    /\ UNCHANGED <<tables, has>>

CommitSetup(s) ==
    /\ session[s].op = "setup"
    /\ session[s].todo = {}
    /\ triggers' = triggers \union ({session[s].chain} \X Synced)
    /\ End(s)
    /\ UNCHANGED <<rows, copy, missed, rewritten, contended>>

-----------------------------------------------------------------------------
(* RemoveChainSync *)

\* db.Close has waited for the connections of the process's own writers.
StartRemoval(p, c) ==
    /\ p \in Rediscovering
    /\ c \in has[p]
    /\ \A w \in Writers : Home[w] = p => session[w].chain # c
    /\ ~Busy(p)
    /\ session' = [session EXCEPT ![p] =
                     [Idle EXCEPT !.op = "remove", !.chain = c,
                                  !.todo = StatementsOfRemoval]]
    /\ has' = [has EXCEPT ![p] = @ \ {c}]
    /\ Contend("setup", c)
    /\ UNCHANGED <<rows, copy, triggers, missed, rewritten>>

Dropped(s) == {l.table : l \in session[s].locked}

\* A trigger that is not there is no error; then its function is dropped too.
DropTrigger(s) ==
    /\ At(s, "drop")
    /\ Execute(s, Advanced(s))
    /\ UNCHANGED <<tables, has>>

\* The function of a trigger that was created since this removal looked for it.
InUse(s) == LET t == Following(s).table
            IN  <<session[s].chain, t>> \in triggers /\ t \notin Dropped(s)

DropFunction(s) ==
    /\ At(s, "function")
    /\ ~InUse(s)
    /\ Execute(s, Advanced(s))
    /\ UNCHANGED <<tables, has>>

\* The rows that are committed when the statement runs.
DeleteCopies(s) ==
    /\ At(s, "delete")
    /\ LET c == session[s].chain
           t == Following(s).table
       IN  Execute(s, [Advanced(s) EXCEPT !.deleted = @ \union
             {<<c, t, h>> : h \in {g \in Heights : copy[c][t][g] # None}}])
    /\ UNCHANGED <<tables, has>>

\* After an error the server refuses every statement; each is only logged.
Refused(s) ==
    /\ session[s].broken
    /\ session[s].todo # {}
    /\ session' = [session EXCEPT ![s].todo = Remaining(s)]
    /\ UNCHANGED <<tables, has>>

CommitRemoval(s) ==
    /\ session[s].op = "remove"
    /\ session[s].todo = {}
    /\ ~session[s].broken
    /\ copy' = [c \in Chains |-> [t \in Tables |-> [h \in Heights |->
                  IF <<c, t, h>> \in session[s].deleted THEN None ELSE copy[c][t][h]]]]
    /\ missed' = missed \union session[s].deleted
    /\ triggers' = triggers \ ({session[s].chain} \X Dropped(s))
    /\ End(s)
    /\ UNCHANGED <<rows, rewritten, contended>>

\* The commit of a transaction that had an error rolls it back.
CommitBroken(s) ==
    /\ session[s].broken
    /\ session[s].todo = {}
    /\ Rollback(s)

-----------------------------------------------------------------------------
(* Failures *)

\* Mutant: an insert that fails is only logged, as a removal's statement is.
FailStatementLogged(s) ==
    /\ session' = [session EXCEPT ![s].broken = TRUE, ![s].todo = Remaining(s),
                                  ![s].locked = {}]
    /\ UNCHANGED <<tables, has>>

\* Mutant: the triggers are created outside of a transaction.
FailStatementKeepsTriggers(s) ==
    /\ triggers' = IF session[s].op = "setup"
                   THEN triggers \union {<<l.chain, l.table>> : l \in session[s].locked}
                   ELSE triggers
    /\ End(s)
    /\ UNCHANGED <<rows, copy, missed, rewritten, contended>>

\* A failed INSERT or CREATE ends its transaction, a failed removal goes on.
FailStatement(s) ==
    IF session[s].op = "remove"
    THEN /\ session' = [session EXCEPT ![s].broken = TRUE, ![s].todo = Remaining(s),
                                       ![s].locked = {}]
         /\ UNCHANGED <<tables, has>>
    ELSE Rollback(s)

\* Sessions that all wait for one of themselves, and no fewer do.
Circle(S) ==
    /\ S # {}
    /\ \A s \in S : \E u \in S : WaitsFor(s, u)

BreakDeadlock(s) ==
    /\ \E S \in SUBSET Sessions :
          /\ s \in S
          /\ Circle(S)
          /\ \A T \in SUBSET S : Circle(T) => T = S
    /\ FailStatement(s)

FunctionInUse(s) ==
    /\ At(s, "function")
    /\ InUse(s)
    /\ FailStatement(s)

StatementFails(s) ==
    /\ Faults
    /\ session[s].todo # {}
    /\ ~session[s].broken
    /\ FailStatement(s)

\* A process dies: its transactions are rolled back and it forgets its chains.
Crash(p) ==
    /\ Faults
    /\ session' = [s \in Sessions |->
         IF s = p \/ (s \in Writers /\ Home[s] = p) THEN Idle ELSE session[s]]
    /\ has' = [has EXCEPT ![p] = {}]
    /\ UNCHANGED tables

-----------------------------------------------------------------------------
Step(s) ==
    \/ Insert(s) \/ InsertRefused(s) \/ CommitWrite(s)
    \/ CreateTrigger(s) \/ CommitSetup(s)
    \/ DropTrigger(s) \/ DropFunction(s) \/ DeleteCopies(s)
    \/ FunctionInUse(s) \/ Refused(s)
    \/ CommitRemoval(s) \/ CommitBroken(s)
    \/ BreakDeadlock(s)

Next ==
    \/ \E w \in Writers, c \in Chains, h \in Heights : StartWrite(w, c, h)
    \/ \E p \in Processes, c \in Chains : StartSetup(p, c) \/ StartRemoval(p, c)
    \/ \E s \in Sessions : Step(s) \/ StatementFails(s)
    \/ \E p \in Processes : Crash(p)

Spec == Init /\ [][Next]_vars

-----------------------------------------------------------------------------
TypeOK ==
    /\ rows \in [Chains -> [Tables -> [Heights -> Views \union {None}]]]
    /\ copy \in [Chains -> [Tables -> [Heights -> Views \union {None}]]]
    /\ triggers \subseteq Chains \X Synced
    /\ has \in [Processes -> SUBSET Chains]
    /\ \A s \in Sessions :
          /\ session[s].op \in {"idle", "write", "setup", "remove"}
          /\ session[s].op = "write" <=> session[s].height # None
          /\ session[s].broken => session[s].op = "remove"
    /\ contended \subseteq Chains
    /\ missed \union rewritten \subseteq Chains \X Tables \X Heights

(***************************************************************************)
(* A row of chain_N and its copy say the same, but for the rows that were  *)
(* inserted while the table had no trigger or whose copy was removed since *)
(* (they have no copy), and those written again, from another view of the  *)
(* block: an update fires no trigger and the copy keeps what was inserted. *)
(***************************************************************************)
CopyTellsInsertedRows ==
    \A c \in Chains, t \in Tables, h \in Heights :
        IF <<c, t, h>> \in missed
        THEN rows[c][t][h] # None /\ copy[c][t][h] = None
        ELSE IF <<c, t, h>> \in rewritten
        THEN rows[c][t][h] # None /\ copy[c][t][h] # None
        ELSE copy[c][t][h] = rows[c][t][h]

(***************************************************************************)
(* Set-up and removal are all or nothing, whatever they wait for and       *)
(* whoever dies: a chain has the triggers of all its tables or of none.    *)
(* Only where one process removes a chain while another adds it may the    *)
(* removal find the triggers of some tables and not yet those of others.   *)
(***************************************************************************)
TriggersTogether ==
    \A c \in Chains \ contended : \A t, u \in Synced :
        <<c, t>> \in triggers <=> <<c, u>> \in triggers

(***************************************************************************)
(* A chain without triggers has nothing in the crosschain tables: a block  *)
(* in flight when its chain is removed leaves no row behind, because the   *)
(* triggers are dropped, and the tables locked, before the rows are        *)
(* deleted.                                                                *)
(***************************************************************************)
NoOrphanCopies ==
    \A c \in Chains, t \in Synced :
        <<c, t>> \notin triggers => \A h \in Heights : copy[c][t][h] = None

(***************************************************************************)
(* The three transactions are as good as single steps, taken when they     *)
(* commit: what the triggers did while a block was inserted is what they   *)
(* would do at its commit, and a removal leaves nothing of what it found   *)
(* or what came since, but of a chain that is added at the same time.  The *)
(* locks are taken statement by statement, in different orders, and this   *)
(* is what they have to add up to.                                         *)
(***************************************************************************)
Serial == INSTANCE CrosschainSerial WITH
    Works <- {t \in Synced : TriggerWorks(t)}, clashed <- contended

ActsSerially == Serial!Spec

(***************************************************************************)
(* sync.go:14: the triggers "automatically sync to crosschain tables".     *)
(* They never make chain_N refuse a row.                                   *)
(***************************************************************************)
TriggersRefuseNothing ==
    \A s \in Sessions : At(s, "insert") => Accepted(s, Following(s).table)

=============================================================================
