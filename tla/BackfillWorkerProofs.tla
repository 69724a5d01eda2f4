------------------------ MODULE BackfillWorkerProofs ------------------------
(***************************************************************************)
(* Theorems of BackfillWorker, for any chains, heights, batch sizes and    *)
(* number of goroutines: its type invariant, that a pass of Run skips no   *)
(* height, and what the entries of activeBackfills stand for.              *)
(***************************************************************************)
EXTENDS BackfillWorker, SetsOfNumbers

----------------------------------------------------------------------------
(* Numbers and the settings.                                               *)

(* Min finds the least height of a set ...                                 *)
LEMMA MinOf ==
    ASSUME NEW S, S \subseteq Nat, S # {}
    PROVE  Min(S) \in S /\ \A k \in S : Min(S) <= k
BY LeastElement DEF Min

(* ... and Max the greatest, if there is a bound.                          *)
LEMMA MaxOf ==
    ASSUME NEW S, NEW bound \in Nat, S \subseteq 0..bound, S # {}
    PROVE  Max(S) \in S /\ \A k \in S : k <= Max(S)
<1>1. S \subseteq Int /\ bound \in Int /\ \A k \in S : k <= bound
    OBVIOUS
<1>2. PICK m \in S : \A k \in S : k <= m
    BY <1>1, GreatestElement
<1>3. \E x \in S : \A y \in S : x >= y
    BY <1>1, <1>2
<1> QED
    BY <1>1, <1>3 DEF Max

(* Every setting is a number, and the size of a batch is not zero.         *)
LEMMA ConfigTyped ==
    /\ Config.start \in Nat /\ Config.end \in Nat
    /\ Config.batch \in Nat \ {0} /\ Config.concurrency \in Nat \ {0}
<1>1. /\ DOMAIN Default = {"start", "end", "batch", "concurrency"}
      /\ Default.start = 1 /\ Default.end = 0 /\ Default.batch = 1000 /\ Default.concurrency = 10
    BY DEF Default
<1>2. \A k \in DOMAIN Default : Flags[k] \in Nat /\ Env[k] \in Nat
    BY BackfillAssumption
<1>3. \A k \in DOMAIN Default : Config[k] =
          IF Flags[k] > 0 THEN Flags[k] ELSE IF Env[k] > 0 THEN Env[k] ELSE Default[k]
    BY DEF Config
<1> QED BY <1>1, <1>2, <1>3

(* The missing heights of a range are finitely many.                       *)
LEMMA MissingFinite ==
    ASSUME NEW c \in Chains, NEW from \in Nat, NEW to \in Nat
    PROVE  /\ IsFiniteSet(Missing(c, from, to))
           /\ Missing(c, from, to) \subseteq from..to
           /\ Missing(c, from, to) \subseteq 0..to
<1>1. IsFiniteSet(from..to)
    BY FS_Interval
<1>2. Missing(c, from, to) \subseteq from..to
    BY DEF Missing
<1>3. from..to \subseteq 0..to
    OBVIOUS
<1> QED BY <1>1, <1>2, <1>3, FS_Subset

(* LIMIT: a batch is a part of what is missing, it is not empty unless     *)
(* nothing is, and it has every missing height below its last.             *)
LEMMA LowestIsPrefix ==
    ASSUME NEW n \in Nat \ {0}, NEW S, IsFiniteSet(S), S \subseteq Nat
    PROVE  /\ Lowest(n, S) \subseteq S
           /\ S # {} => Lowest(n, S) # {}
           /\ \A m \in Lowest(n, S), h \in S : h <= m => h \in Lowest(n, S)
<1> DEFINE Below(h) == {k \in S : k <= h}
<1>1. \A h : IsFiniteSet(Below(h)) /\ Cardinality(Below(h)) \in Nat
    BY FS_Subset, FS_CardinalityType
<1>2. ASSUME S # {} PROVE Lowest(n, S) # {}
  <2>1. Min(S) \in S /\ \A k \in S : Min(S) <= k
      BY <1>2, MinOf
  <2>2. Below(Min(S)) = {Min(S)}
    <3>1. ASSUME NEW k \in S, k <= Min(S) PROVE k = Min(S)
      <4>1. k \in Nat /\ Min(S) \in Nat /\ Min(S) <= k
          BY <2>1
      <4> QED BY <3>1, <4>1
    <3>2. Min(S) <= Min(S)
      <4>1. Min(S) \in Nat
          BY <2>1
      <4> QED BY <4>1
    <3> QED BY <2>1, <3>1, <3>2
  <2>3. Cardinality(Below(Min(S))) = 1
      BY <2>2, FS_Singleton
  <2> QED BY <2>1, <2>3 DEF Lowest
<1>3. ASSUME NEW m \in Lowest(n, S), NEW h \in S, h <= m PROVE h \in Lowest(n, S)
  <2>1. m \in S /\ Cardinality(Below(m)) <= n
      BY DEF Lowest
  <2>2. Below(h) \subseteq Below(m)
    <3>1. ASSUME NEW k \in S, k <= h PROVE k <= m
      <4>1. k \in Nat /\ h \in Nat /\ m \in Nat
          BY <2>1
      <4> QED BY <1>3, <3>1, <4>1
    <3> QED BY <3>1
  <2>3. Cardinality(Below(h)) <= Cardinality(Below(m))
      BY <1>1, <2>2, FS_Subset
  <2>4. Cardinality(Below(h)) <= n
      BY <1>1, <2>1, <2>3
  <2> QED BY <2>4 DEF Lowest
<1> QED BY <1>2, <1>3 DEF Lowest

----------------------------------------------------------------------------
(* The invariant of a pass.                                                *)

RunType == [pc : {"gone", "ticker", "run", "loop", "batch", "ended"},
            chain : Chains \cup {None}, cancelled : BOOLEAN, orphan : BOOLEAN,
            from : Nat, to : Nat, todo : SUBSET Nat, busy : SUBSET Nat,
            missing : SUBSET Nat, tried : SUBSET Nat, failed : SUBSET Nat,
            result : {"none", "part", "whole"}]

(***************************************************************************)
(* A pass has come as far as its field from says: what it tried, and what  *)
(* is left of its batch, lies below, and of what it found missing below    *)
(* nothing is left but that.                                               *)
(***************************************************************************)
Passed(rec, bl) ==
    {h \in rec.missing : h < rec.from} \subseteq rec.tried \cup rec.todo \cup bl[rec.chain]

PassOk(rec, bl) ==
    /\ rec.pc # "gone" => rec.chain \in Picked
    /\ rec.todo \cap rec.tried = {}
    /\ \A h \in rec.todo \cup rec.tried : h < rec.from
    /\ rec.pc # "batch" => rec.todo = {}
    /\ rec.pc \in {"gone", "ticker", "run"} => rec.tried = {} /\ rec.missing = {}
    /\ rec.pc # "ended" => rec.result = "none"
    /\ rec.pc \in {"loop", "batch"} => rec.missing \subseteq 0..rec.to /\ Passed(rec, bl)
    /\ rec.result = "whole" => rec.missing \subseteq rec.tried \cup bl[rec.chain]

PassesOk == \A r \in Backfills : PassOk(run[r], blocks)

Grown == \A c \in Chains : blocks[c] \subseteq blocks'[c]

(* Blocks that are added leave a pass as it is.                            *)
LEMMA PassGrows ==
    ASSUME Grown, NEW rec \in RunType, PassOk(rec, blocks)
    PROVE  PassOk(rec, blocks')
<1>1. CASE rec.pc = "gone"
  <2>1. rec.result # "whole"
      BY <1>1 DEF PassOk
  <2> QED BY <1>1, <2>1 DEF PassOk
<1>2. CASE rec.pc # "gone"
  <2>1. blocks[rec.chain] \subseteq blocks'[rec.chain]
      BY <1>2, BackfillAssumption DEF PassOk, Grown
  <2> QED BY <2>1 DEF PassOk, Passed
<1> QED BY <1>1, <1>2

(* Neither do the marks that others set.                                   *)
LEMMA MarksAreOk ==
    ASSUME NEW rec \in RunType, NEW bl, PassOk(rec, bl), NEW mark \in BOOLEAN
    PROVE  /\ [rec EXCEPT !.cancelled = mark] \in RunType
           /\ [rec EXCEPT !.orphan = mark] \in RunType
           /\ PassOk([rec EXCEPT !.cancelled = mark], bl)
           /\ PassOk([rec EXCEPT !.orphan = mark], bl)
BY DEF RunType, PassOk, Passed

(* A goroutine that is gone, or has just begun, has no pass yet.           *)
LEMMA IdleIsOk ==
    /\ Idle \in RunType /\ Idle.pc = "gone" /\ Idle.chain = None
    /\ ~Idle.cancelled /\ ~Idle.orphan
    /\ \A bl : PassOk(Idle, bl)
BY DEF Idle, RunType, PassOk, Passed

(* The goroutine of a chain begins with the pass, or with the ticker.      *)
LEMMA SpawnedIsOk ==
    ASSUME once \in BOOLEAN, NEW c \in Picked
    PROVE  /\ Spawned(c) \in RunType
           /\ Spawned(c).pc = IF once THEN "run" ELSE "ticker"
           /\ Spawned(c).chain = c /\ ~Spawned(c).cancelled /\ ~Spawned(c).orphan
           /\ \A bl : PassOk(Spawned(c), bl)
<1>1. c \in Chains
    BY BackfillAssumption
<1> DEFINE known == [Idle EXCEPT !.chain = c]
<1>2. /\ known \in RunType /\ known.pc = "gone" /\ known.chain = c
      /\ ~known.cancelled /\ ~known.orphan /\ known.result = "none"
      /\ known.todo = {} /\ known.tried = {} /\ known.missing = {}
    BY <1>1 DEF Idle, RunType
<1>3. Spawned(c) = [known EXCEPT !.pc = IF once THEN "run" ELSE "ticker"]
    BY DEF Spawned
<1> HIDE DEF known
<1>4. CASE once
    BY <1>2, <1>3, <1>4 DEF RunType, PassOk, Passed
<1>5. CASE ~once
    BY <1>2, <1>3, <1>5 DEF RunType, PassOk, Passed
<1> QED BY <1>4, <1>5

(* Run returns.                                                            *)
LEMMA FinishedIsOk ==
    ASSUME once \in BOOLEAN, NEW r \in Backfills, run[r] \in RunType, PassOk(run[r], blocks),
           run[r].pc \in {"run", "loop"}, NEW result \in {"none", "part", "whole"},
           result = "whole" => run[r].missing \subseteq run[r].tried \cup blocks[run[r].chain]
    PROVE  Finished(r, result) \in RunType /\ PassOk(Finished(r, result), blocks)
<1>1. CASE once
    BY <1>1 DEF Finished, RunType, PassOk, Passed
<1>2. CASE ~once
  <2>1. Finished(r, result) = [pc |-> "ticker", chain |-> run[r].chain,
            cancelled |-> run[r].cancelled, orphan |-> run[r].orphan,
            from |-> 0, to |-> 0, todo |-> {}, busy |-> {},
            missing |-> {}, tried |-> {}, failed |-> {}, result |-> "none"]
      BY <1>2 DEF Finished, Idle
  <2> QED BY <2>1 DEF RunType, PassOk, Passed
<1> QED BY <1>1, <1>2

(* A step that puts one record in the place of another.                    *)
LEMMA OneRunStep ==
    ASSUME run \in [Backfills -> RunType], PassesOk, Grown, NEW r \in Backfills,
           NEW rec \in RunType, PassOk(rec, blocks), run' = [run EXCEPT ![r] = rec]
    PROVE  run' \in [Backfills -> RunType] /\ PassesOk'
<1>1. run' \in [Backfills -> RunType]
    OBVIOUS
<1>2. ASSUME NEW q \in Backfills PROVE PassOk(run'[q], blocks')
  <2>1. run'[q] \in RunType /\ PassOk(run'[q], blocks)
      BY DEF PassesOk
  <2> QED BY <2>1, PassGrows
<1> QED BY <1>1, <1>2 DEF PassesOk

(* A step that leaves the goroutines alone.                                *)
LEMMA NoRunStep ==
    ASSUME run \in [Backfills -> RunType], PassesOk, Grown, UNCHANGED run
    PROVE  run' \in [Backfills -> RunType] /\ PassesOk'
<1>1. ASSUME NEW q \in Backfills PROVE PassOk(run'[q], blocks')
    BY PassGrows DEF PassesOk
<1> QED BY <1>1 DEF PassesOk

(* The program exits.                                                      *)
LEMMA ExitsStep ==
    ASSUME NEW code, Exits(code)
    PROVE  run' \in [Backfills -> RunType] /\ PassesOk'
BY IdleIsOk DEF Exits, PassesOk

----------------------------------------------------------------------------
(* The actions.                                                            *)

MainType == [pc : {"boot", "add", "spawn", "join", "start", "wait", "exited"},
             list : SUBSET Picked, todo : SUBSET Picked, chain : Picked \cup {None}]

Typed == TypeOK /\ PassesOk

(* A copy is of a stored block: the heights that the gap queries leave out *)
(* have their block.                                                       *)
CopiesOfBlocks ==
    /\ DOMAIN blocks = Chains /\ DOMAIN copied = Chains
    /\ \A c \in Chains : copied[c] \subseteq blocks[c]

(* A step that stores nothing and loses no copy.                           *)
LEMMA CopiesLeftAlone ==
    ASSUME CopiesOfBlocks, UNCHANGED <<blocks, copied>>
    PROVE  CopiesOfBlocks'
BY DEF CopiesOfBlocks

(* Every step keeps it.                                                    *)
LEMMA NextCopies == CopiesOfBlocks /\ [Next]_vars => CopiesOfBlocks'
<1> SUFFICES ASSUME CopiesOfBlocks, [Next]_vars PROVE CopiesOfBlocks'
    OBVIOUS
<1>1. ASSUME NEW c, NEW h, Stores(c, h) PROVE CopiesOfBlocks'
  <2>1. copied' = copied \/ copied' = [copied EXCEPT ![c] = copied[c] \cup {h}]
      BY <1>1 DEF Stores
  <2>2. blocks' = [blocks EXCEPT ![c] = blocks[c] \cup {h}]
      BY <1>1 DEF Stores
  <2> QED BY <2>1, <2>2 DEF CopiesOfBlocks
<1>2. CASE Main
  <2>1. UNCHANGED <<blocks, copied>>
      BY <1>2 DEF Main, ListsChains, AddsChain, Chooses, SpawnsRun, LooksForEntry,
                  StartsBackfill, StopsRemoved, Rediscovers, WorkerReturns, Summarises, Calm, world
  <2> QED BY <2>1, CopiesLeftAlone
<1>3. ASSUME NEW r \in Backfills, Backfill(r), ~IndexesBlock(r) PROVE CopiesOfBlocks'
  <2>1. Calm
      BY <1>3 DEF Backfill, FindsGaps, Begins, RunFails, Stops, ListsBatch, StartsBlock,
                  BlockFails, EndsBatch, Ends, Others
  <2> QED BY <2>1, CopiesLeftAlone DEF Calm, world
<1>4. ASSUME NEW r \in Backfills, IndexesBlock(r) PROVE CopiesOfBlocks'
    BY <1>1, <1>4 DEF IndexesBlock
<1>5. ASSUME NEW c \in Chains, Grows(c) PROVE CopiesOfBlocks'
  <2>1. Stores(c, head[c] + 1) \/ UNCHANGED <<blocks, copied>>
      BY <1>5 DEF Grows
  <2> QED BY <1>1, <2>1, CopiesLeftAlone
<1>6. ASSUME NEW c \in Chains, LosesCopies(c) PROVE CopiesOfBlocks'
    BY <1>6 DEF LosesCopies, CopiesOfBlocks
<1>7. CASE (\E c \in Chains : Edits(c)) \/ Signals \/ UNCHANGED vars
    BY <1>7, CopiesLeftAlone DEF Edits, Signals, vars, world
<1> QED BY <1>2, <1>3, <1>4, <1>5, <1>6, <1>7 DEF Next

(* In every reachable state what the gap queries leave out has its block.  *)
THEOREM CopiesHold == Spec => []CopiesOfBlocks
<1>1. Init => CopiesOfBlocks
    BY DEF Init, CopiesOfBlocks
<1> QED BY <1>1, NextCopies, PTL DEF Spec

(* TypeOK in the words of this module.                                     *)
LEMMA TypeOKMeans ==
    TypeOK <=>
        /\ once \in BOOLEAN /\ dryRun \in BOOLEAN /\ onPath \in BOOLEAN /\ signal \in BOOLEAN
        /\ rows \subseteq Chains /\ added \subseteq Picked
        /\ head \in [Chains -> 1..MaxHead]
        /\ blocks \in [Chains -> SUBSET Nat] /\ copied \in [Chains -> SUBSET Nat]
        /\ main \in MainType
        /\ active \in [Chains -> Backfills \cup {None}]
        /\ run \in [Backfills -> RunType]
        /\ exit \in {None, 0, 1}
        /\ edits \in Nat /\ faults \in Nat
BY DEF TypeOK, MainType, RunType

(* The initial states.                                                     *)
LEMMA InitTyped == Init => Typed
<1> SUFFICES ASSUME Init PROVE Typed
    OBVIOUS
<1>1. run \in [Backfills -> RunType] /\ PassesOk
    BY IdleIsOk DEF Init, PassesOk
<1>2. main \in MainType
    BY DEF Init, MainType
<1>3. /\ blocks \in [Chains -> SUBSET Nat] /\ copied \in [Chains -> SUBSET Nat]
      /\ active \in [Chains -> Backfills \cup {None}]
    BY DEF Init
<1> QED BY <1>1, <1>2, <1>3, TypeOKMeans DEF Init, Typed

(* A main that exits.                                                      *)
LEMMA ExitsTyped ==
    ASSUME TypeOK, NEW code \in {0, 1}, Exits(code)
    PROVE  /\ main' \in MainType /\ exit' \in {None, 0, 1}
           /\ active' \in [Chains -> Backfills \cup {None}]
           /\ main'.pc = "exited" /\ main'.chain = None
BY TypeOKMeans DEF Exits, MainType

(* A step of main that changes no table.                                   *)
LEMMA MainStep ==
    ASSUME Typed, Calm, main' \in MainType, exit' \in {None, 0, 1},
           active' \in [Chains -> Backfills \cup {None}],
           run' \in [Backfills -> RunType], PassesOk',
           added' \subseteq Picked, faults' \in Nat
    PROVE  Typed'
BY TypeOKMeans DEF Typed, TypeOK, Calm, world, MainType, RunType

(* The world stands still.                                                 *)
LEMMA CalmGrows == Calm => Grown
BY DEF Calm, world, Grown

(* main up to the choice of its mode.                                      *)
LEMMA StartUpTyped ==
    ASSUME Typed, ListsChains \/ AddsChain \/ Chooses
    PROVE  Typed'
<1> USE TypeOKMeans DEF Typed
<1>0. Calm /\ Grown
    BY CalmGrows DEF ListsChains, AddsChain, Chooses
<1>1. CASE ListsChains
  <2> DEFINE list == rows \cap Picked
  <2>1. CASE main' = [main EXCEPT !.pc = "add", !.list = list, !.todo = list] /\ UNCHANGED <<added, active, run, exit, faults>>
    <3>1. main' \in MainType
        BY <2>1 DEF MainType
    <3> QED BY <1>0, <2>1, <3>1, NoRunStep, MainStep
  <2>2. CASE Exits(1) /\ UNCHANGED <<added, faults>>
      BY <1>0, <2>2, ExitsTyped, ExitsStep, MainStep
  <2> QED BY <1>1, <2>1, <2>2 DEF ListsChains
<1>2. CASE AddsChain
  <2> PICK c \in main.todo :
        \/ /\ added' = added \cup {c}
           /\ main' = [main EXCEPT !.todo = @ \ {c}]
           /\ UNCHANGED <<active, run, exit, faults>>
        \/ /\ IF signal THEN UNCHANGED faults ELSE Fault
           /\ Exits(1) /\ UNCHANGED added
      BY <1>2 DEF AddsChain
  <2>1. c \in Picked
      BY DEF MainType
  <2>2. CASE added' = added \cup {c} /\ main' = [main EXCEPT !.todo = @ \ {c}] /\ UNCHANGED <<active, run, exit, faults>>
    <3>1. main' \in MainType
        BY <2>2 DEF MainType
    <3> QED BY <1>0, <2>1, <2>2, <3>1, NoRunStep, MainStep
  <2>3. CASE (IF signal THEN UNCHANGED faults ELSE Fault) /\ Exits(1) /\ UNCHANGED added
    <3>1. faults' \in Nat
        BY <2>3 DEF Fault
    <3> QED BY <1>0, <2>3, <3>1, ExitsTyped, ExitsStep, MainStep
  <2> QED BY <2>2, <2>3
<1>3. CASE Chooses
  <2>1. CASE once
    <3>1. main' = [main EXCEPT !.pc = "spawn", !.todo = main.list]
        BY <1>3, <2>1 DEF Chooses
    <3>2. main' \in MainType
        BY <3>1 DEF MainType
    <3> QED BY <1>0, <1>3, <3>2, NoRunStep, MainStep DEF Chooses
  <2>2. CASE ~once
    <3>1. main' = [main EXCEPT !.pc = "start", !.todo = main.list]
        BY <1>3, <2>2 DEF Chooses
    <3>2. main' \in MainType
        BY <3>1 DEF MainType
    <3> QED BY <1>0, <1>3, <3>2, NoRunStep, MainStep DEF Chooses
  <2> QED BY <2>1, <2>2
<1> QED BY <1>1, <1>2, <1>3

(* Goroutines begin.                                                       *)
LEMMA SpawnsTyped ==
    ASSUME Typed, SpawnsRun \/ StartsBackfill
    PROVE  Typed'
<1> USE TypeOKMeans DEF Typed
<1>0. Calm /\ Grown
    BY CalmGrows DEF SpawnsRun, StartsBackfill
<1>1. CASE SpawnsRun
  <2>1. UNCHANGED <<added, active, exit, faults>>
      BY <1>1 DEF SpawnsRun
  <2>2. ASSUME NEW c \in main.todo, NEW r \in Backfills,
               run' = [run EXCEPT ![r] = Spawned(c)], main' = [main EXCEPT !.todo = @ \ {c}]
        PROVE  Typed'
    <3>1. main' \in MainType /\ c \in Picked
        BY <2>2 DEF MainType
    <3>2. Spawned(c) \in RunType /\ PassOk(Spawned(c), blocks)
        BY <3>1, SpawnedIsOk
    <3>3. run' \in [Backfills -> RunType] /\ PassesOk'
        BY <1>0, <2>2, <3>2, OneRunStep
    <3> QED BY <1>0, <2>1, <3>1, <3>3, MainStep
  <2>3. CASE main' = [main EXCEPT !.pc = "join"] /\ UNCHANGED run
    <3>1. main' \in MainType
        BY <2>3 DEF MainType
    <3> QED BY <1>0, <2>1, <2>3, <3>1, NoRunStep, MainStep
  <2> QED BY <1>1, <2>2, <2>3 DEF SpawnsRun
<1>2. CASE StartsBackfill
  <2>1. PICK r \in Backfills : active' = [active EXCEPT ![main.chain] = r]
                               /\ run' = [run EXCEPT ![r] = Spawned(main.chain)]
      BY <1>2 DEF StartsBackfill
  <2>2. main.chain \in Picked
      BY <1>2 DEF StartsBackfill, MainType
  <2>3. Spawned(main.chain) \in RunType /\ PassOk(Spawned(main.chain), blocks)
      BY <2>2, SpawnedIsOk
  <2>4. run' \in [Backfills -> RunType] /\ PassesOk'
      BY <1>0, <2>1, <2>3, OneRunStep
  <2>5. main' \in MainType
      BY <1>2 DEF StartsBackfill, MainType
  <2>6. active' \in [Chains -> Backfills \cup {None}]
      BY <2>1
  <2> QED BY <1>0, <1>2, <2>4, <2>5, <2>6, MainStep DEF StartsBackfill
<1> QED BY <1>1, <1>2

(* startBackfill up to the entry, and the lists of chains.                 *)
LEMMA ListTyped ==
    ASSUME Typed, LooksForEntry \/ StopsRemoved \/ Rediscovers
    PROVE  Typed'
<1> USE TypeOKMeans DEF Typed
<1>0. Calm /\ Grown
    BY CalmGrows DEF LooksForEntry, StopsRemoved, Rediscovers
<1>1. CASE LooksForEntry
  <2>1. UNCHANGED <<active, run, exit>>
      BY <1>1 DEF LooksForEntry
  <2>2. PICK c \in main.todo :
        /\ main' = [main EXCEPT !.todo = @ \ {c}] \/ main' = [main EXCEPT !.todo = @ \ {c}, !.chain = c]
        /\ added' = added \/ added' = added \cup {c}
        /\ faults' = faults \/ faults' = faults + 1
      BY <1>1 DEF LooksForEntry, Fault
  <2>3. c \in Picked
      BY DEF MainType
  <2>4. main' \in MainType
      BY <2>2, <2>3, ZenonT(40) DEF MainType
  <2>5. added' \subseteq Picked /\ faults' \in Nat
      BY <2>2, <2>3
  <2> QED BY <1>0, <2>1, <2>4, <2>5, NoRunStep, MainStep
<1>2. CASE StopsRemoved
  <2> DEFINE gone == {c \in Chains \ main.list : active[c] # None}
  <2>1. /\ run' = [r \in Backfills |->
                IF \E c \in gone : active[c] = r
                THEN [run[r] EXCEPT !.cancelled = TRUE] ELSE run[r]]
        /\ active' = [c \in Chains |-> IF c \in gone THEN None ELSE active[c]]
        /\ main' = [main EXCEPT !.pc = "wait"]
        /\ UNCHANGED <<added, exit, faults>>
      BY <1>2 DEF StopsRemoved
  <2> HIDE DEF gone
  <2>2. ASSUME NEW q \in Backfills PROVE run'[q] \in RunType /\ PassOk(run'[q], blocks')
    <3>1. run[q] \in RunType /\ PassOk(run[q], blocks')
        BY <1>0, PassGrows DEF PassesOk
    <3>2. [run[q] EXCEPT !.cancelled = TRUE] \in RunType
          /\ PassOk([run[q] EXCEPT !.cancelled = TRUE], blocks')
        BY <3>1, MarksAreOk
    <3>3. run'[q] = [run[q] EXCEPT !.cancelled = TRUE] \/ run'[q] = run[q]
        BY <2>1
    <3> QED BY <3>1, <3>2, <3>3
  <2>3. run' \in [Backfills -> RunType] /\ PassesOk'
      BY <2>1, <2>2 DEF PassesOk
  <2>4. main' \in MainType /\ active' \in [Chains -> Backfills \cup {None}]
      BY <2>1 DEF MainType
  <2> QED BY <1>0, <2>1, <2>3, <2>4, MainStep
<1>3. CASE Rediscovers
  <2>1. main' \in MainType
      BY <1>3 DEF Rediscovers, MainType
  <2> QED BY <1>0, <1>3, <2>1, NoRunStep, MainStep DEF Rediscovers
<1> QED BY <1>1, <1>2, <1>3

(* main ends.                                                              *)
LEMMA EndTyped ==
    ASSUME Typed, WorkerReturns \/ Summarises
    PROVE  Typed'
<1> USE TypeOKMeans DEF Typed
<1>0. Calm /\ Grown
    BY CalmGrows DEF WorkerReturns, Summarises
<1>1. CASE WorkerReturns
    BY <1>0, <1>1, ExitsTyped, ExitsStep, MainStep DEF WorkerReturns
<1>2. CASE Summarises
  <2>1. main' \in MainType
      BY <1>2 DEF Summarises, MainType
  <2>2. exit' \in {None, 0, 1}
      BY <1>2 DEF Summarises
  <2> QED BY <1>0, <1>2, <2>1, <2>2, NoRunStep, MainStep DEF Summarises
<1> QED BY <1>1, <1>2

----------------------------------------------------------------------------

(* A step of one goroutine that stores nothing.                            *)
LEMMA OneTyped ==
    ASSUME Typed, Others, NEW r \in Backfills, NEW rec \in RunType, PassOk(rec, blocks),
           run' = [run EXCEPT ![r] = rec], faults' \in Nat
    PROVE  Typed'
<1>1. Calm /\ Grown /\ UNCHANGED <<main, added, active, exit>>
    BY CalmGrows DEF Others
<1>2. run' \in [Backfills -> RunType] /\ PassesOk'
    BY <1>1, OneRunStep, TypeOKMeans DEF Typed
<1> QED BY <1>1, <1>2, MainStep, TypeOKMeans DEF Typed

(* Faults are counted.                                                     *)
LEMMA FaultTyped ==
    ASSUME TypeOK, NEW b \in BOOLEAN, IF b THEN UNCHANGED faults ELSE Fault
    PROVE  faults' \in Nat
BY TypeOKMeans DEF Fault

(* The heights a pass begins with.                                         *)
LEMMA BeginsTyped ==
    ASSUME Typed, NEW r \in Backfills, Begins(r)
    PROVE  Typed'
<1>1. run[r] \in RunType /\ PassOk(run[r], blocks) /\ run[r].pc = "run" /\ once \in BOOLEAN
    BY TypeOKMeans DEF Typed, PassesOk, Begins, At
<1>2. run[r].chain \in Picked /\ run[r].chain \in Chains
    BY <1>1, BackfillAssumption DEF PassOk
<1>3. head[run[r].chain] \in Nat
    BY <1>2, TypeOKMeans, BackfillAssumption DEF Typed
<1>4. PICK answer \in {0, head[run[r].chain]} :
        LET to == EndHeight(answer)
            missing == Missing(run[r].chain, Config.start, to)
        IN /\ IF answer = 0 THEN Fault ELSE UNCHANGED faults
           /\ run' = [run EXCEPT ![r] =
                IF missing = {} \/ dryRun THEN Finished(r, "whole")
                ELSE [run[r] EXCEPT !.pc = "loop", !.from = Config.start, !.to = to, !.missing = missing]]
    BY DEF Begins
<1> DEFINE to == EndHeight(answer)
           missing == Missing(run[r].chain, Config.start, to)
           begun == [run[r] EXCEPT !.pc = "loop", !.from = Config.start, !.to = to, !.missing = missing]
<1>5. faults' \in Nat
    BY <1>4, TypeOKMeans DEF Typed, Fault
<1>6. to \in Nat /\ Config.start \in Nat
    BY <1>3, ConfigTyped DEF EndHeight
<1>7. missing \subseteq Config.start..to /\ missing \subseteq 0..to
    BY <1>2, <1>6, MissingFinite
<1>8. run' = [run EXCEPT ![r] = IF missing = {} \/ dryRun THEN Finished(r, "whole") ELSE begun]
    BY <1>4
<1>9. Others
    BY DEF Begins
<1> HIDE DEF to, missing
<1>10. CASE missing = {} \/ dryRun
  <2>1. Finished(r, "whole") \in RunType /\ PassOk(Finished(r, "whole"), blocks)
      BY <1>1, FinishedIsOk DEF PassOk
  <2>2. run' = [run EXCEPT ![r] = Finished(r, "whole")]
      BY <1>8, <1>10
  <2> QED BY <1>5, <1>9, <2>1, <2>2, OneTyped
<1>11. CASE ~(missing = {} \/ dryRun)
  <2>1. run' = [run EXCEPT ![r] = begun]
      BY <1>8, <1>11
  <2>2. missing \in SUBSET Nat
      BY <1>6, <1>7
  <2>3. begun \in RunType
      BY <1>1, <1>6, <2>2 DEF RunType
  <2>4. {h \in missing : h < Config.start} = {}
    <3>1. ASSUME NEW h \in missing PROVE ~(h < Config.start)
        BY <1>6, <1>7
    <3> QED BY <3>1
  <2>5. /\ begun.pc = "loop" /\ begun.chain = run[r].chain /\ begun.todo = run[r].todo
        /\ begun.tried = run[r].tried /\ begun.missing = missing /\ begun.from = Config.start
        /\ begun.to = to /\ begun.result = run[r].result
      BY <1>1 DEF RunType
  <2> HIDE DEF begun
  <2>6. PassOk(begun, blocks)
      BY <1>1, <1>2, <1>7, <2>4, <2>5 DEF PassOk, Passed
  <2> QED BY <1>5, <1>9, <2>1, <2>3, <2>6, OneTyped
<1> QED BY <1>10, <1>11

(* The steps around the loop that take no heights.                         *)
LEMMA PassEndsTyped ==
    ASSUME Typed, NEW r \in Backfills, FindsGaps(r) \/ RunFails(r) \/ Stops(r) \/ EndsBatch(r)
    PROVE  Typed'
<1>1. run[r] \in RunType /\ PassOk(run[r], blocks) /\ once \in BOOLEAN /\ faults \in Nat /\ Others
    BY TypeOKMeans DEF Typed, PassesOk, FindsGaps, RunFails, Stops, EndsBatch
<1>2. CASE FindsGaps(r)
  <2> DEFINE rec == [run[r] EXCEPT !.pc = "run"]
  <2>1. run[r].pc = "ticker" /\ run' = [run EXCEPT ![r] = rec] /\ UNCHANGED faults
      BY <1>2 DEF FindsGaps, At
  <2>2. rec \in RunType /\ PassOk(rec, blocks)
      BY <1>1, <2>1 DEF RunType, PassOk, Passed
  <2> QED BY <1>1, <2>1, <2>2, OneTyped
<1>3. CASE RunFails(r)
  <2>1. run[r].pc \in {"run", "loop"} /\ run' = [run EXCEPT ![r] = Finished(r, "none")]
      BY <1>3 DEF RunFails, At
  <2>2. Finished(r, "none") \in RunType /\ PassOk(Finished(r, "none"), blocks)
      BY <1>1, <2>1, FinishedIsOk
  <2>3. faults' \in Nat
      BY <1>1, <1>3 DEF RunFails, Fault
  <2> QED BY <1>1, <2>1, <2>2, <2>3, OneTyped
<1>4. CASE Stops(r)
  <2>1. run[r].pc = "loop" /\ run' = [run EXCEPT ![r] = Finished(r, "part")] /\ UNCHANGED faults
      BY <1>4 DEF Stops, At
  <2>2. Finished(r, "part") \in RunType /\ PassOk(Finished(r, "part"), blocks)
      BY <1>1, <2>1, FinishedIsOk
  <2> QED BY <1>1, <2>1, <2>2, OneTyped
<1>5. CASE EndsBatch(r)
  <2> DEFINE rec == [run[r] EXCEPT !.pc = "loop"]
  <2>1. run[r].pc = "batch" /\ run[r].todo = {} /\ run' = [run EXCEPT ![r] = rec] /\ UNCHANGED faults
      BY <1>5 DEF EndsBatch, At
  <2>2. rec \in RunType /\ PassOk(rec, blocks)
      BY <1>1, <2>1 DEF RunType, PassOk, Passed
  <2> QED BY <1>1, <2>1, <2>2, OneTyped
<1> QED BY <1>2, <1>3, <1>4, <1>5

(* In the loop nothing that was missing has been lost: what was not tried  *)
(* and has no block is still to be found.                                  *)
LEMMA NothingLost ==
    ASSUME TypeOK, CopiesOfBlocks, NEW r \in Backfills, PassOk(run[r], blocks), run[r].pc = "loop",
           NEW h \in run[r].missing
    PROVE  \/ h \in run[r].tried \cup blocks[run[r].chain]
           \/ h \in Missing(run[r].chain, run[r].from, run[r].to)
<1>1. /\ run[r].chain \in Chains /\ run[r].from \in Nat /\ run[r].to \in Nat
      /\ run[r].todo = {} /\ run[r].missing \subseteq 0..run[r].to /\ Passed(run[r], blocks)
    BY TypeOKMeans, BackfillAssumption DEF PassOk, RunType
<1>2. h \in Nat /\ h <= run[r].to
    BY <1>1
<1>3. CASE h < run[r].from
    BY <1>1, <1>3 DEF Passed
<1>4. CASE ~(h < run[r].from)
  <2>1. h \in run[r].from..run[r].to
      BY <1>1, <1>2, <1>4
  <2>2. h \in copied[run[r].chain] => h \in blocks[run[r].chain]
      BY <1>1 DEF CopiesOfBlocks
  <2> QED BY <2>1, <2>2 DEF Missing
<1> QED BY <1>3, <1>4

(* A pass that finds nothing further has been through.                     *)
LEMMA LoopIsWhole ==
    ASSUME TypeOK, CopiesOfBlocks, NEW r \in Backfills, PassOk(run[r], blocks), run[r].pc = "loop",
           Lowest(Config.batch, Missing(run[r].chain, run[r].from, run[r].to)) = {}
    PROVE  run[r].missing \subseteq run[r].tried \cup blocks[run[r].chain]
<1>1. run[r].chain \in Chains /\ run[r].from \in Nat /\ run[r].to \in Nat
    BY TypeOKMeans, BackfillAssumption DEF PassOk, RunType
<1> DEFINE missing == Missing(run[r].chain, run[r].from, run[r].to)
<1>2. IsFiniteSet(missing) /\ missing \subseteq Nat
  <2>1. IsFiniteSet(missing) /\ missing \subseteq 0..run[r].to
      BY <1>1, MissingFinite
  <2> QED BY <2>1
<1>3. missing = {}
    BY <1>2, ConfigTyped, LowestIsPrefix
<1> QED BY <1>3, NothingLost

(* The next batch goes on where the last one ended, and when nothing is    *)
(* left the pass is whole.                                                 *)
LEMMA ListsTyped ==
    ASSUME Typed, CopiesOfBlocks, NEW r \in Backfills, ListsBatch(r)
    PROVE  Typed'
<1>1. /\ run[r] \in RunType /\ PassOk(run[r], blocks) /\ run[r].pc = "loop"
      /\ once \in BOOLEAN /\ faults' \in Nat /\ Others
    BY TypeOKMeans DEF Typed, PassesOk, ListsBatch, At
<1>2. /\ run[r].chain \in Chains /\ run[r].from \in Nat /\ run[r].to \in Nat
      /\ run[r].todo = {} /\ run[r].missing \subseteq 0..run[r].to /\ Passed(run[r], blocks)
      /\ run[r].tried \subseteq Nat /\ \A h \in run[r].tried : h < run[r].from
      /\ run[r].result = "none" /\ run[r].chain \in Picked
    BY <1>1, BackfillAssumption DEF PassOk, RunType
<1> DEFINE missing == Missing(run[r].chain, run[r].from, run[r].to)
           heights == Lowest(Config.batch, missing)
           listed == [run[r] EXCEPT !.pc = "batch", !.todo = heights, !.from = Max(heights) + 1]
<1>3. run' = [run EXCEPT ![r] = IF heights = {} THEN Finished(r, "whole") ELSE listed]
    BY DEF ListsBatch
<1>4. /\ IsFiniteSet(missing) /\ missing \subseteq run[r].from..run[r].to
      /\ missing \subseteq 0..run[r].to /\ missing \subseteq Nat
    BY <1>2, MissingFinite
<1>5. /\ heights \subseteq missing
      /\ missing # {} => heights # {}
      /\ \A m \in heights, h \in missing : h <= m => h \in heights
    BY <1>4, ConfigTyped, LowestIsPrefix
<1>6. \A h \in run[r].missing : h \in run[r].tried \cup blocks[run[r].chain] \cup missing
    BY <1>1, NothingLost DEF Typed
<1>7. heights = {} => run[r].missing \subseteq run[r].tried \cup blocks[run[r].chain]
    BY <1>1, LoopIsWhole DEF Typed
<1> HIDE DEF missing, heights
<1>9. CASE heights = {}
  <2>1. Finished(r, "whole") \in RunType /\ PassOk(Finished(r, "whole"), blocks)
      BY <1>1, <1>7, <1>9, FinishedIsOk
  <2>2. run' = [run EXCEPT ![r] = Finished(r, "whole")]
      BY <1>3, <1>9
  <2> QED BY <1>1, <2>1, <2>2, OneTyped
<1>8. CASE heights # {}
  <2>1. Max(heights) \in heights /\ \A k \in heights : k <= Max(heights)
    <3>1. heights \subseteq 0..run[r].to
        BY <1>4, <1>5
    <3> QED BY <1>2, <1>8, <3>1, MaxOf
  <2>0. ASSUME NEW h \in heights PROVE h \in Nat /\ run[r].from <= h
    <3>1. h \in run[r].from..run[r].to
        BY <1>4, <1>5
    <3> QED BY <1>2, <3>1
  <2>2. /\ heights \in SUBSET Nat /\ Max(heights) \in Nat /\ Max(heights) + 1 \in Nat
        /\ run[r].from <= Max(heights)
      BY <2>0, <2>1
  <2>3. listed \in RunType
    <3>1. ASSUME NEW next \in Nat
          PROVE  [run[r] EXCEPT !.pc = "batch", !.todo = heights, !.from = next] \in RunType
        BY <1>1, <2>2 DEF RunType
    <3> QED BY <2>2, <3>1
  <2>4. /\ listed.pc = "batch" /\ listed.chain = run[r].chain /\ listed.todo = heights
        /\ listed.tried = run[r].tried /\ listed.missing = run[r].missing
        /\ listed.from = Max(heights) + 1 /\ listed.to = run[r].to /\ listed.result = "none"
      BY <1>1, <1>2 DEF RunType
  <2> HIDE DEF listed
  <2>5. listed.todo \cap listed.tried = {}
    <3>1. ASSUME NEW h \in heights PROVE h \notin run[r].tried
      <4>1. h \in Nat /\ run[r].from <= h
          BY <2>0
      <4> QED BY <1>2, <4>1
    <3> QED BY <2>4, <3>1
  <2>6. ASSUME NEW h \in listed.todo \cup listed.tried PROVE h < listed.from
    <3>1. CASE h \in heights
        BY <2>1, <2>2, <2>4, <3>1
    <3>2. CASE h \in run[r].tried
      <4>1. h \in Nat /\ h < run[r].from
          BY <1>2, <3>2
      <4> QED BY <1>2, <2>2, <2>4, <4>1
    <3> QED BY <2>4, <2>6, <3>1, <3>2
  <2>7. Passed(listed, blocks)
    <3>1. ASSUME NEW h \in run[r].missing, h < Max(heights) + 1
          PROVE  h \in run[r].tried \cup heights \cup blocks[run[r].chain]
      <4>1. CASE h \in missing
        <5>1. h \in Nat
            BY <1>4, <4>1
        <5>2. h <= Max(heights)
            BY <2>2, <3>1, <5>1
        <5> QED BY <1>5, <2>1, <4>1, <5>2
      <4> QED BY <1>6, <4>1
    <3> QED BY <2>4, <3>1 DEF Passed
  <2>8. PassOk(listed, blocks)
      BY <1>2, <2>4, <2>5, <2>6, <2>7 DEF PassOk
  <2>9. run' = [run EXCEPT ![r] = listed]
      BY <1>3, <1>8
  <2> QED BY <1>1, <2>3, <2>8, <2>9, OneTyped
<1> QED BY <1>8, <1>9

(* A block begins: it goes from what is left of the batch to what was      *)
(* tried.                                                                  *)
LEMMA StartsBlockTyped ==
    ASSUME Typed, NEW r \in Backfills, StartsBlock(r)
    PROVE  Typed'
<1>1. /\ run[r] \in RunType /\ PassOk(run[r], blocks) /\ run[r].pc = "batch"
      /\ run[r].todo # {} /\ run[r].todo \subseteq Nat /\ faults' \in Nat /\ Others
    BY TypeOKMeans DEF Typed, PassesOk, StartsBlock, At, RunType
<1> DEFINE h == Min(run[r].todo)
           busy == IF Done(r) THEN run[r].busy ELSE run[r].busy \cup {h}
           failed == IF Done(r) THEN run[r].failed \cup {h} ELSE run[r].failed
           rec == [run[r] EXCEPT !.todo = run[r].todo \ {h}, !.tried = run[r].tried \cup {h},
                                 !.busy = busy, !.failed = failed]
<1>2. h \in run[r].todo /\ h \in Nat
    BY <1>1, MinOf
<1>3. busy \subseteq Nat /\ failed \subseteq Nat
    BY <1>1, <1>2 DEF RunType
<1>4. run' = [run EXCEPT ![r] = rec]
  <2>1. run' = [run EXCEPT ![r].todo = @ \ {h}, ![r].tried = @ \cup {h},
                    ![r].busy = IF Done(r) THEN @ ELSE @ \cup {h},
                    ![r].failed = IF Done(r) THEN @ \cup {h} ELSE @]
      BY DEF StartsBlock
  <2> QED BY <1>1, <2>1, TypeOKMeans DEF Typed, RunType
<1> HIDE DEF h, busy, failed
<1>5. rec \in RunType
    BY <1>1, <1>2, <1>3 DEF RunType
<1>6. /\ rec.pc = "batch" /\ rec.chain = run[r].chain /\ rec.todo = run[r].todo \ {h}
      /\ rec.tried = run[r].tried \cup {h} /\ rec.missing = run[r].missing
      /\ rec.from = run[r].from /\ rec.to = run[r].to /\ rec.result = run[r].result
    BY <1>1 DEF RunType
<1> HIDE DEF rec
<1>7. /\ rec.todo \cup rec.tried = run[r].todo \cup run[r].tried
      /\ rec.todo \cap rec.tried = {}
    BY <1>1, <1>2, <1>6 DEF PassOk
<1>8. PassOk(rec, blocks)
    BY <1>1, <1>6, <1>7 DEF PassOk, Passed
<1> QED BY <1>1, <1>4, <1>5, <1>8, OneTyped

(* A block is done, or is not.                                             *)
LEMMA BlockEndsTyped ==
    ASSUME Typed, NEW r \in Backfills, IndexesBlock(r) \/ BlockFails(r)
    PROVE  Typed'
<1>1. /\ run[r] \in RunType /\ PassOk(run[r], blocks) /\ run[r].pc = "batch"
      /\ run[r].chain \in Chains /\ run[r].busy \subseteq Nat
    BY TypeOKMeans, BackfillAssumption DEF Typed, PassesOk, PassOk, RunType, IndexesBlock, BlockFails, At
<1>2. CASE IndexesBlock(r)
  <2>1. PICK h \in run[r].busy :
            /\ run' = [run EXCEPT ![r].busy = @ \ {h}]
            /\ blocks' = [blocks EXCEPT ![run[r].chain] = @ \cup {h}]
            /\ copied' \in {copied, [copied EXCEPT ![run[r].chain] = @ \cup {h}]}
      BY <1>2 DEF IndexesBlock, Stores
  <2> DEFINE rec == [run[r] EXCEPT !.busy = run[r].busy \ {h}]
  <2>2. run' = [run EXCEPT ![r] = rec]
      BY <2>1, TypeOKMeans DEF Typed
  <2>3. rec \in RunType /\ PassOk(rec, blocks)
      BY <1>1 DEF RunType, PassOk, Passed
  <2>4. Grown /\ blocks' \in [Chains -> SUBSET Nat] /\ copied' \in [Chains -> SUBSET Nat]
      BY <1>1, <2>1, TypeOKMeans DEF Typed, Grown
  <2>5. run' \in [Backfills -> RunType] /\ PassesOk'
      BY <2>2, <2>3, <2>4, OneRunStep, TypeOKMeans DEF Typed
  <2> QED BY <1>2, <2>4, <2>5, TypeOKMeans DEF Typed, TypeOK, IndexesBlock, MainType, RunType
<1>3. CASE BlockFails(r)
  <2>1. PICK h \in run[r].busy :
            run' = [run EXCEPT ![r].busy = @ \ {h}, ![r].failed = @ \cup {h}]
      BY <1>3 DEF BlockFails
  <2> DEFINE rec == [run[r] EXCEPT !.busy = run[r].busy \ {h}, !.failed = run[r].failed \cup {h}]
  <2>2. run' = [run EXCEPT ![r] = rec]
      BY <1>1, <2>1, TypeOKMeans DEF Typed, RunType
  <2>3. h \in Nat
      BY <1>1
  <2>4. rec \in RunType /\ PassOk(rec, blocks)
      BY <1>1, <2>3 DEF RunType, PassOk, Passed
  <2>5. Others
      BY <1>3 DEF BlockFails
  <2>6. faults' \in Nat
    <3>1. faults \in Nat /\ (UNCHANGED faults \/ Fault)
        BY <1>3, <2>5, TypeOKMeans DEF Typed, BlockFails
    <3> QED BY <3>1 DEF Fault
  <2> QED BY <2>2, <2>4, <2>5, <2>6, OneTyped
<1> QED BY <1>2, <1>3

(* RunContinuous returns.                                                  *)
LEMMA EndsTyped ==
    ASSUME Typed, NEW r \in Backfills, Ends(r)
    PROVE  Typed'
<1>1. /\ run \in [Backfills -> RunType] /\ PassesOk /\ Calm /\ Grown
      /\ UNCHANGED <<main, added, exit, faults>>
    BY TypeOKMeans, CalmGrows DEF Typed, Ends
<1>2. run' = [q \in Backfills |->
                IF q = r THEN Idle
                ELSE [run[q] EXCEPT !.orphan = run[q].orphan \/ active[run[r].chain] = q]]
    BY <1>1 DEF Ends, RunType
<1>3. ASSUME NEW q \in Backfills PROVE run'[q] \in RunType /\ PassOk(run'[q], blocks')
  <2>1. CASE q = r
      BY <1>2, <2>1, IdleIsOk
  <2>2. CASE q # r
    <3> DEFINE mark == run[q].orphan \/ active[run[r].chain] = q
    <3>1. run[q] \in RunType /\ PassOk(run[q], blocks')
        BY <1>1, PassGrows DEF PassesOk
    <3>2. mark \in BOOLEAN
        OBVIOUS
    <3>3. run'[q] = [run[q] EXCEPT !.orphan = mark]
        BY <1>2, <2>2
    <3> HIDE DEF mark
    <3> QED BY <3>1, <3>2, <3>3, MarksAreOk
  <2> QED BY <2>1, <2>2
<1>4. run' \in [Backfills -> RunType] /\ PassesOk'
    BY <1>2, <1>3 DEF PassesOk
<1>5. active' \in [Chains -> Backfills \cup {None}]
    BY TypeOKMeans DEF Typed, Ends
<1> QED BY <1>1, <1>4, <1>5, MainStep, TypeOKMeans DEF Typed

(* The world: blocks come, and none goes.                                  *)
LEMMA WorldTyped ==
    ASSUME Typed, NEW c \in Chains, Grows(c) \/ LosesCopies(c) \/ Edits(c) \/ Signals
    PROVE  Typed'
<1>0. UNCHANGED program
    BY DEF Grows, LosesCopies, Edits, Signals
<1>1. CASE Grows(c)
  <2>1. head' \in [Chains -> 1..MaxHead]
    <3>1. head[c] \in 1..MaxHead /\ head[c] < MaxHead /\ MaxHead \in Nat
        BY <1>1, TypeOKMeans, BackfillAssumption DEF Typed, Grows
    <3>2. head[c] + 1 \in 1..MaxHead
        BY <3>1
    <3> QED BY <1>1, <3>2, TypeOKMeans DEF Typed, Grows
  <2>2. head[c] + 1 \in Nat
      BY TypeOKMeans, BackfillAssumption DEF Typed
  <2>3. blocks' \in [Chains -> SUBSET Nat] /\ copied' \in [Chains -> SUBSET Nat] /\ Grown
      BY <1>1, <2>2, TypeOKMeans DEF Typed, Grows, Stores, Grown
  <2>4. run' \in [Backfills -> RunType] /\ PassesOk'
      BY <1>0, <2>3, NoRunStep, TypeOKMeans DEF Typed, program
  <2> QED BY <1>0, <1>1, <2>1, <2>3, <2>4, TypeOKMeans
          DEF Typed, TypeOK, Grows, program, MainType, RunType
<1>2. CASE Edits(c) \/ Signals
  <2>1. Grown
      BY <1>2 DEF Edits, Signals, Grown, world
  <2>2. run' \in [Backfills -> RunType] /\ PassesOk'
      BY <1>0, <2>1, NoRunStep, TypeOKMeans DEF Typed, program
  <2>3. rows' \subseteq Chains
      BY <1>2, TypeOKMeans DEF Typed, Edits, Signals, world
  <2>4. edits' \in Nat
      BY <1>2, TypeOKMeans DEF Typed, Edits, Signals
  <2>5. signal' \in BOOLEAN
      BY <1>2, TypeOKMeans DEF Typed, Edits, Signals
  <2> QED BY <1>0, <1>2, <2>2, <2>3, <2>4, <2>5, TypeOKMeans
          DEF Typed, TypeOK, Edits, Signals, program, world, MainType, RunType
<1>3. CASE LosesCopies(c)
  <2>1. Grown /\ copied' \in [Chains -> SUBSET Nat]
      BY <1>3, TypeOKMeans DEF Typed, LosesCopies, Grown
  <2>2. run' \in [Backfills -> RunType] /\ PassesOk'
      BY <1>0, <2>1, NoRunStep, TypeOKMeans DEF Typed, program
  <2> QED BY <1>0, <1>3, <2>1, <2>2, TypeOKMeans
          DEF Typed, TypeOK, LosesCopies, program, MainType, RunType
<1> QED BY <1>1, <1>2, <1>3

(* Every step keeps the types and the invariant of the passes.             *)
LEMMA NextTyped == Typed /\ CopiesOfBlocks /\ [Next]_vars => Typed'
<1> SUFFICES ASSUME Typed, CopiesOfBlocks, [Next]_vars PROVE Typed'
    OBVIOUS
<1>1. CASE Main
    BY <1>1, StartUpTyped, SpawnsTyped, ListTyped, EndTyped DEF Main
<1>2. ASSUME NEW r \in Backfills, Backfill(r) PROVE Typed'
    BY <1>2, BeginsTyped, PassEndsTyped, ListsTyped, StartsBlockTyped, BlockEndsTyped, EndsTyped
       DEF Backfill
<1>3. ASSUME NEW c \in Chains, Grows(c) \/ LosesCopies(c) \/ Edits(c) PROVE Typed'
    BY <1>3, WorldTyped
<1>4. CASE Signals
  <2>1. CASE Chains # {}
      BY <1>4, <2>1, WorldTyped
  <2>2. CASE Chains = {}
      BY <1>4, <2>2, TypeOKMeans, NoRunStep
         DEF Typed, TypeOK, Signals, program, world, MainType, RunType, Grown
  <2> QED BY <2>1, <2>2
<1>5. CASE UNCHANGED vars
  <2>1. run' \in [Backfills -> RunType] /\ PassesOk'
      BY <1>5, NoRunStep, TypeOKMeans DEF Typed, vars, world, Grown
  <2> QED BY <1>5, <2>1, TypeOKMeans DEF Typed, TypeOK, vars, world, MainType, RunType
<1> QED BY <1>1, <1>2, <1>3, <1>4, <1>5 DEF Next

(***************************************************************************)
(* The types of main, of its table activeBackfills and of the goroutines   *)
(* (cmd/backfill, internal/backfill).                                      *)
(***************************************************************************)
THEOREM TypeCorrect == Spec => []TypeOK
<1>1. Init => Typed
    BY InitTyped
<1>2. Typed /\ CopiesOfBlocks /\ [Next]_vars => Typed'
    BY NextTyped
<1>3. Typed => TypeOK
    BY DEF Typed
<1> QED BY <1>1, <1>2, <1>3, CopiesHold, PTL DEF Spec

(***************************************************************************)
(* A pass of Backfiller.Run tries every height it found missing, whatever  *)
(* the size of its batches, and however many blocks other processes store  *)
(* between two of them; and none twice.                                    *)
(***************************************************************************)
THEOREM PassesSkipNothing == Spec => []PassSkipsNothing
<1>1. Init => Typed
    BY InitTyped
<1>2. Typed /\ CopiesOfBlocks /\ [Next]_vars => Typed'
    BY NextTyped
<1>3. Typed => PassSkipsNothing
  <2> SUFFICES ASSUME Typed, NEW r \in Backfills
               PROVE  /\ run[r].todo \cap run[r].tried = {}
                      /\ run[r].pc = "loop" =>
                            {h \in run[r].missing : h < run[r].from} \subseteq run[r].tried \cup blocks[run[r].chain]
                      /\ run[r].result = "whole" =>
                            run[r].missing \subseteq run[r].tried \cup blocks[run[r].chain]
      BY DEF PassSkipsNothing
  <2>1. PassOk(run[r], blocks)
      BY DEF Typed, PassesOk
  <2> QED BY <2>1 DEF PassOk, Passed
<1> QED BY <1>1, <1>2, <1>3, CopiesHold, PTL DEF Spec

----------------------------------------------------------------------------
(* The invariant of activeBackfills.                                       *)

\* A goroutine without a backfill is for no chain.
GoneHasNoChain == \A r \in Backfills : run[r].pc = "gone" => run[r].chain = None

\* Between the two locks of startBackfill the chain has no entry.
NextHasNoEntry == main.chain # None => main.pc = "start" /\ active[main.chain] = None

OnceMode == main.pc \in {"spawn", "join"} => once

Owned == \A r \in Backfills :
    ~once /\ Alive(r) /\ ~run[r].cancelled /\ ~run[r].orphan => active[run[r].chain] = r

Sole == \A c \in Chains :
    ~once /\ active[c] # None => run[active[c]].chain = c /\ ~run[active[c]].cancelled

Listed == main.pc = "wait" => {c \in Chains : active[c] # None} \subseteq main.list

Entries == GoneHasNoChain /\ NextHasNoEntry /\ OnceMode /\ Owned /\ Sole /\ Listed

(* A goroutine with a backfill is for a chain of the table.                *)
LEMMA AliveHasChain ==
    ASSUME Typed, NEW r \in Backfills, Alive(r)
    PROVE  run[r].chain \in Picked /\ run[r].chain \in Chains /\ run[r].chain # None
BY BackfillAssumption DEF Typed, PassesOk, PassOk, Alive

(* An entry is for a goroutine that runs.                                  *)
LEMMA EntryIsAlive ==
    ASSUME Typed, Entries, NEW c \in Chains, ~once, active[c] # None
    PROVE  active[c] \in Backfills /\ Alive(active[c])
<1>1. active[c] \in Backfills
    BY TypeOKMeans DEF Typed
<1>2. run[active[c]].chain = c /\ c # None
    BY BackfillAssumption DEF Entries, Sole
<1> QED BY <1>1, <1>2 DEF Entries, GoneHasNoChain, Alive

(* A goroutine that goes on with its backfill disturbs no entry.           *)
LEMMA GoesOn ==
    ASSUME Typed, Entries, UNCHANGED <<once, main, active>>, NEW r \in Backfills,
           NEW rec \in RunType, run' = [run EXCEPT ![r] = rec], Alive(r), rec.pc # "gone",
           rec.chain = run[r].chain,
           ~once => rec.cancelled = run[r].cancelled /\ rec.orphan = run[r].orphan
    PROVE  Entries'
<1>1. run'[r] = rec /\ \A q \in Backfills : q # r => run'[q] = run[q]
    BY TypeOKMeans DEF Typed
<1>2. GoneHasNoChain'
    BY <1>1 DEF Entries, GoneHasNoChain
<1>3. Owned'
  <2> SUFFICES ASSUME NEW q \in Backfills, ~once, run'[q].pc # "gone",
                      ~run'[q].cancelled, ~run'[q].orphan
               PROVE  active[run'[q].chain] = q
      BY DEF Owned, Alive
  <2> QED BY <1>1 DEF Entries, Owned, Alive
<1>4. Sole'
  <2> SUFFICES ASSUME NEW c \in Chains, ~once, active[c] # None
               PROVE  run'[active[c]].chain = c /\ ~run'[active[c]].cancelled
      BY DEF Sole
  <2>1. active[c] \in Backfills
      BY EntryIsAlive
  <2> QED BY <1>1, <2>1 DEF Entries, Sole
<1> QED BY <1>2, <1>3, <1>4 DEF Entries, NextHasNoEntry, OnceMode, Listed

(* main, while the goroutines and the entries are left alone.              *)
LEMMA MainGoesOn ==
    ASSUME Entries, UNCHANGED <<once, run, active>>, NextHasNoEntry', OnceMode', Listed'
    PROVE  Entries'
BY DEF Entries, GoneHasNoChain, Owned, Sole, Alive

(* An exit ends every goroutine.                                           *)
LEMMA ExitsEntries ==
    ASSUME TypeOK, NEW code, Exits(code)
    PROVE  Entries'
<1>1. /\ \A r \in Backfills : run'[r] = Idle
      /\ \A c \in Chains : active'[c] = None
    BY DEF Exits
<1>2. main'.pc = "exited" /\ main'.chain = None
    BY TypeOKMeans DEF Exits, MainType
<1> QED BY <1>1, <1>2, IdleIsOk
        DEF Entries, GoneHasNoChain, NextHasNoEntry, OnceMode, Owned, Sole, Listed, Alive

(* main up to the choice of its mode, and at its end.                      *)
LEMMA MainEntries ==
    ASSUME Typed, Entries, ListsChains \/ AddsChain \/ Chooses \/ Rediscovers \/ WorkerReturns \/ Summarises
    PROVE  Entries'
<1>0. TypeOK /\ main \in MainType /\ once' = once
    BY TypeOKMeans DEF Typed, Calm, ListsChains, AddsChain, Chooses, Rediscovers, WorkerReturns, Summarises
<1>1. CASE \E code \in {0, 1} : Exits(code)
    BY <1>0, <1>1, ExitsEntries
<1>2. CASE /\ UNCHANGED <<run, active>> /\ main.pc # "start" /\ main'.chain = main.chain
           /\ main'.pc \in {"add", "spawn", "start", "exited"} /\ (main'.pc = "spawn" => once)
  <2>1. main.chain = None
      BY <1>2 DEF Entries, NextHasNoEntry
  <2> QED BY <1>0, <1>2, <2>1, MainGoesOn DEF NextHasNoEntry, OnceMode, Listed
<1>3. CASE ListsChains
    BY <1>0, <1>1, <1>2, <1>3 DEF ListsChains, MainType
<1>4. CASE AddsChain
    BY <1>0, <1>1, <1>2, <1>4 DEF AddsChain, MainType
<1>5. CASE Chooses
  <2>1. CASE once
      BY <1>0, <1>2, <1>5, <2>1 DEF Chooses, MainType
  <2>2. CASE ~once
      BY <1>0, <1>2, <1>5, <2>2 DEF Chooses, MainType
  <2> QED BY <2>1, <2>2
<1>6. CASE Rediscovers
    BY <1>0, <1>2, <1>6 DEF Rediscovers, MainType
<1>7. CASE WorkerReturns
    BY <1>1, <1>7 DEF WorkerReturns
<1>8. CASE Summarises
    BY <1>0, <1>2, <1>8 DEF Summarises, MainType
<1> QED BY <1>3, <1>4, <1>5, <1>6, <1>7, <1>8

(* The one-time mode starts its goroutines without entries.                *)
LEMMA SpawnsEntries ==
    ASSUME Typed, Entries, SpawnsRun
    PROVE  Entries'
<1>0. main \in MainType /\ once /\ once' = once /\ main.pc = "spawn" /\ UNCHANGED active
    BY TypeOKMeans DEF Typed, Calm, SpawnsRun, Entries, OnceMode
<1>1. main.chain = None
    BY <1>0 DEF Entries, NextHasNoEntry
<1>2. main'.chain = None /\ main'.pc \in {"spawn", "join"}
    BY <1>0, <1>1 DEF SpawnsRun, MainType
<1>3. GoneHasNoChain'
  <2>1. CASE UNCHANGED run
      BY <2>1 DEF Entries, GoneHasNoChain
  <2>2. ASSUME NEW c \in main.todo, NEW r \in Backfills, run' = [run EXCEPT ![r] = Spawned(c)]
        PROVE  GoneHasNoChain'
    <3>1. c \in Picked /\ once \in BOOLEAN
        BY TypeOKMeans DEF Typed, MainType
    <3>2. Spawned(c).pc # "gone"
        BY <3>1, SpawnedIsOk
    <3>3. run'[r] = Spawned(c) /\ \A q \in Backfills : q # r => run'[q] = run[q]
        BY <2>2, TypeOKMeans DEF Typed
    <3> QED BY <3>2, <3>3 DEF Entries, GoneHasNoChain
  <2> QED BY <2>1, <2>2 DEF SpawnsRun
<1> QED BY <1>0, <1>2, <1>3 DEF Entries, NextHasNoEntry, OnceMode, Owned, Sole, Listed

(* startBackfill: a chain is looked up, and then gets its entry with its   *)
(* goroutine.                                                              *)
LEMMA StartsEntries ==
    ASSUME Typed, Entries, LooksForEntry \/ StartsBackfill
    PROVE  Entries'
<1>0. main \in MainType /\ once' = once /\ once \in BOOLEAN /\ run \in [Backfills -> RunType]
    BY TypeOKMeans DEF Typed, Calm, LooksForEntry, StartsBackfill
<1>1. CASE LooksForEntry
  <2>1. UNCHANGED <<run, active>> /\ main.pc = "start" /\ main'.pc = "start"
      BY <1>0, <1>1 DEF LooksForEntry, MainType
  <2>2. main'.chain # None => active[main'.chain] = None
      BY <1>0, <1>1 DEF LooksForEntry, MainType
  <2> QED BY <1>0, <2>1, <2>2, MainGoesOn DEF NextHasNoEntry, OnceMode, Listed
<1>2. CASE StartsBackfill
  <2>1. PICK r \in Backfills : /\ ~Alive(r)
                               /\ active' = [active EXCEPT ![main.chain] = r]
                               /\ run' = [run EXCEPT ![r] = Spawned(main.chain)]
      BY <1>2 DEF StartsBackfill, Free
  <2> DEFINE c == main.chain
  <2>2. c \in Picked /\ c \in Chains /\ c # None /\ active[c] = None /\ main.pc = "start"
      BY <1>0, <1>2, BackfillAssumption DEF StartsBackfill, MainType, Entries, NextHasNoEntry
  <2>3. /\ run'[r] = Spawned(c) /\ \A q \in Backfills : q # r => run'[q] = run[q]
        /\ active'[c] = r /\ \A d \in Chains : d # c => active'[d] = active[d]
      BY <1>0, <2>1, <2>2, TypeOKMeans DEF Typed
  <2>4. /\ Spawned(c).chain = c /\ ~Spawned(c).cancelled /\ ~Spawned(c).orphan
        /\ Spawned(c).pc # "gone"
      BY <1>0, <2>2, SpawnedIsOk
  <2>5. main'.chain = None /\ main'.pc = "start"
      BY <1>0, <1>2, <2>2 DEF StartsBackfill, MainType
  <2> HIDE DEF c
  <2>6. GoneHasNoChain'
      BY <2>3, <2>4 DEF Entries, GoneHasNoChain
  <2>7. Owned'
    <3> SUFFICES ASSUME NEW q \in Backfills, ~once, run'[q].pc # "gone",
                        ~run'[q].cancelled, ~run'[q].orphan
                 PROVE  active'[run'[q].chain] = q
        BY <1>0 DEF Owned, Alive
    <3>1. CASE q = r
        BY <2>3, <2>4, <3>1
    <3>2. CASE q # r
      <4>1. run'[q] = run[q]
          BY <2>3, <3>2
      <4>2. active[run[q].chain] = q /\ run[q].chain \in Chains /\ q # None
          BY <4>1, AliveHasChain, BackfillAssumption DEF Entries, Owned, Alive
      <4>3. run[q].chain # c
          BY <2>2, <4>2
      <4> QED BY <2>3, <4>1, <4>2, <4>3
    <3> QED BY <3>1, <3>2
  <2>8. Sole'
    <3> SUFFICES ASSUME NEW d \in Chains, ~once, active'[d] # None
                 PROVE  run'[active'[d]].chain = d /\ ~run'[active'[d]].cancelled
        BY <1>0 DEF Sole
    <3>1. CASE d = c
        BY <2>3, <2>4, <3>1
    <3>2. CASE d # c
      <4>1. active'[d] = active[d] /\ active[d] # None
          BY <2>3, <3>2
      <4>2. active[d] \in Backfills /\ active[d] # r
          BY <2>1, <4>1, EntryIsAlive
      <4> QED BY <2>3, <4>1, <4>2 DEF Entries, Sole
    <3> QED BY <3>1, <3>2
  <2> QED BY <2>5, <2>6, <2>7, <2>8 DEF Entries, NextHasNoEntry, OnceMode, Listed
<1> QED BY <1>1, <1>2

(* The chains that left the list lose their entries, and the goroutines of *)
(* these entries, and no others, are told to stop.                         *)
LEMMA StopsEntries ==
    ASSUME Typed, Entries, StopsRemoved
    PROVE  Entries'
<1>0. /\ main \in MainType /\ once' = once /\ run \in [Backfills -> RunType]
      /\ main.chain = None
    BY TypeOKMeans DEF Typed, Calm, StopsRemoved
<1> DEFINE gone == {c \in Chains \ main.list : active[c] # None}
<1>1. /\ run' = [r \in Backfills |->
                IF \E c \in gone : active[c] = r
                THEN [run[r] EXCEPT !.cancelled = TRUE] ELSE run[r]]
      /\ active' = [c \in Chains |-> IF c \in gone THEN None ELSE active[c]]
    BY DEF StopsRemoved
<1>2. main'.pc = "wait" /\ main'.chain = None /\ main'.list = main.list
    BY <1>0 DEF StopsRemoved, MainType
<1>3. ASSUME NEW q \in Backfills
      PROVE  /\ run'[q].pc = run[q].pc /\ run'[q].chain = run[q].chain
             /\ run'[q].orphan = run[q].orphan
             /\ run'[q].cancelled = ((\E c \in gone : active[c] = q) \/ run[q].cancelled)
  <2>1. run[q] \in RunType
      BY <1>0
  <2>2. CASE \E c \in gone : active[c] = q
    <3>1. run'[q] = [run[q] EXCEPT !.cancelled = TRUE]
        BY <1>1, <2>2
    <3> QED BY <2>1, <2>2, <3>1 DEF RunType
  <2>3. CASE ~\E c \in gone : active[c] = q
    <3>1. run'[q] = run[q]
        BY <1>1, <2>3
    <3> QED BY <2>1, <2>3, <3>1 DEF RunType
  <2> QED BY <2>2, <2>3
<1>4. Owned'
  <2> SUFFICES ASSUME NEW q \in Backfills, ~once, run'[q].pc # "gone",
                      ~run'[q].cancelled, ~run'[q].orphan
               PROVE  active'[run'[q].chain] = q
      BY <1>0 DEF Owned, Alive
  <2>1. ~run[q].cancelled /\ ~run[q].orphan /\ Alive(q) /\ ~\E c \in gone : active[c] = q
      BY <1>3 DEF Alive
  <2>2. active[run[q].chain] = q /\ run[q].chain \in Chains
      BY <2>1, AliveHasChain DEF Entries, Owned
  <2>3. run[q].chain \notin gone
      BY <2>1, <2>2
  <2> QED BY <1>1, <1>3, <2>2, <2>3
<1>5. Sole'
  <2> SUFFICES ASSUME NEW c \in Chains, ~once, active'[c] # None
               PROVE  run'[active'[c]].chain = c /\ ~run'[active'[c]].cancelled
      BY <1>0 DEF Sole
  <2>1. c \notin gone /\ active'[c] = active[c] /\ active[c] # None
      BY <1>1
  <2>2. /\ active[c] \in Backfills /\ run[active[c]].chain = c
        /\ ~run[active[c]].cancelled
      BY <2>1, EntryIsAlive DEF Entries, Sole
  <2>3. ASSUME NEW d \in gone PROVE active[d] # active[c]
      BY <2>1, <2>2 DEF Entries, Sole
  <2> QED BY <1>3, <2>1, <2>2, <2>3
<1>6. GoneHasNoChain'
    BY <1>3 DEF Entries, GoneHasNoChain
<1>7. Listed'
    BY <1>1, <1>2 DEF Listed
<1> QED BY <1>2, <1>4, <1>5, <1>6, <1>7 DEF Entries, NextHasNoEntry, OnceMode

(* A goroutine ends and takes the entry of its chain with it: if that was  *)
(* the entry of another goroutine, this one is an orphan.                  *)
LEMMA EndsEntries ==
    ASSUME Typed, Entries, NEW r \in Backfills, Ends(r)
    PROVE  Entries'
<1>0. /\ once' = once /\ main' = main /\ run \in [Backfills -> RunType]
      /\ active \in [Chains -> Backfills \cup {None}]
    BY TypeOKMeans DEF Typed, Calm, Ends
<1> DEFINE c == run[r].chain
<1>1. /\ active' = [active EXCEPT ![c] = None]
      /\ run' = [q \in Backfills |->
                IF q = r THEN Idle
                ELSE [run[q] EXCEPT !.orphan = run[q].orphan \/ active[c] = q]]
    BY <1>0 DEF Ends, RunType
<1>2. c \in Chains /\ c # None
    BY AliveHasChain DEF Ends, At, Alive
<1>3. active'[c] = None /\ \A d \in Chains : d # c => active'[d] = active[d]
    BY <1>0, <1>1, <1>2
<1> HIDE DEF c
<1>4. run'[r] = Idle
    BY <1>1
<1>5. ASSUME NEW q \in Backfills, q # r
      PROVE  /\ run'[q].pc = run[q].pc /\ run'[q].chain = run[q].chain
             /\ run'[q].cancelled = run[q].cancelled
             /\ run'[q].orphan = (run[q].orphan \/ active[c] = q)
  <2> DEFINE mark == run[q].orphan \/ active[c] = q
  <2>1. run'[q] = [run[q] EXCEPT !.orphan = mark] /\ run[q] \in RunType
      BY <1>0, <1>1, <1>5
  <2> HIDE DEF mark
  <2>2. /\ run'[q].pc = run[q].pc /\ run'[q].chain = run[q].chain
        /\ run'[q].cancelled = run[q].cancelled /\ run'[q].orphan = mark
      BY <2>1 DEF RunType
  <2> QED BY <2>2 DEF mark
<1>6. GoneHasNoChain'
    BY <1>4, <1>5, IdleIsOk DEF Entries, GoneHasNoChain
<1>7. Owned'
  <2> SUFFICES ASSUME NEW q \in Backfills, ~once, run'[q].pc # "gone",
                      ~run'[q].cancelled, ~run'[q].orphan
               PROVE  active'[run'[q].chain] = q
      BY <1>0 DEF Owned, Alive
  <2>1. q # r
      BY <1>4, IdleIsOk
  <2>2. ~run[q].cancelled /\ ~run[q].orphan /\ Alive(q) /\ active[c] # q /\ run'[q].chain = run[q].chain
      BY <1>5, <2>1 DEF Alive
  <2>3. active[run[q].chain] = q /\ run[q].chain \in Chains
      BY <2>2, AliveHasChain DEF Entries, Owned
  <2> QED BY <1>3, <2>2, <2>3
<1>8. Sole'
  <2> SUFFICES ASSUME NEW d \in Chains, ~once, active'[d] # None
               PROVE  run'[active'[d]].chain = d /\ ~run'[active'[d]].cancelled
      BY <1>0 DEF Sole
  <2>1. d # c /\ active'[d] = active[d] /\ active[d] # None
      BY <1>3
  <2>2. active[d] \in Backfills /\ run[active[d]].chain = d /\ ~run[active[d]].cancelled
      BY <2>1, EntryIsAlive DEF Entries, Sole
  <2>3. active[d] # r
      BY <2>1, <2>2 DEF c
  <2> QED BY <1>5, <2>1, <2>2, <2>3
<1>9. NextHasNoEntry'
  <2>1. main.chain # None => main.chain \in Chains
      BY TypeOKMeans, BackfillAssumption DEF Typed, MainType
  <2> QED BY <1>0, <1>3, <2>1 DEF Entries, NextHasNoEntry
<1>10. Listed'
    BY <1>0, <1>3 DEF Entries, Listed
<1> QED BY <1>0, <1>6, <1>7, <1>8, <1>9, <1>10 DEF Entries, OnceMode

(* What Run returns is the same backfill, at its ticker again.             *)
LEMMA FinishedGoesOn ==
    ASSUME Typed, NEW r \in Backfills, Alive(r), run[r].pc \in {"run", "loop"},
           NEW result \in {"none", "part", "whole"},
           result = "whole" => run[r].missing \subseteq run[r].tried \cup blocks[run[r].chain]
    PROVE  /\ Finished(r, result) \in RunType /\ Finished(r, result).pc # "gone"
           /\ Finished(r, result).chain = run[r].chain
           /\ ~once => /\ Finished(r, result).cancelled = run[r].cancelled
                       /\ Finished(r, result).orphan = run[r].orphan
<1>1. run[r] \in RunType /\ PassOk(run[r], blocks) /\ once \in BOOLEAN
    BY TypeOKMeans DEF Typed, PassesOk
<1>2. Finished(r, result) \in RunType
    BY <1>1, FinishedIsOk
<1>3. CASE once
  <2>1. Finished(r, result) = [run[r] EXCEPT !.pc = "ended", !.result = result]
      BY <1>3 DEF Finished
  <2>2. Finished(r, result).pc = "ended" /\ Finished(r, result).chain = run[r].chain
      BY <1>1, <2>1 DEF RunType
  <2> QED BY <1>2, <1>3, <2>2
<1>4. CASE ~once
  <2>1. Finished(r, result) = [Idle EXCEPT !.chain = run[r].chain, !.pc = "ticker",
                      !.cancelled = run[r].cancelled, !.orphan = run[r].orphan]
      BY <1>4 DEF Finished
  <2>2. /\ Finished(r, result).pc = "ticker" /\ Finished(r, result).chain = run[r].chain
        /\ Finished(r, result).cancelled = run[r].cancelled
        /\ Finished(r, result).orphan = run[r].orphan
      BY <2>1 DEF Idle
  <2> QED BY <1>2, <2>2
<1> QED BY <1>3, <1>4

(* The steps of a backfill before its end keep it in its entry.            *)
LEMMA BackfillGoesOn ==
    ASSUME Typed, CopiesOfBlocks, Typed', Entries, NEW r \in Backfills, Backfill(r), ~Ends(r)
    PROVE  Entries'
<1>1. /\ run[r] \in RunType /\ run'[r] \in RunType /\ run \in [Backfills -> RunType]
      /\ PassOk(run[r], blocks)
    BY TypeOKMeans DEF Typed, PassesOk, TypeOK, RunType
<1>2. UNCHANGED <<once, main, active>> /\ Alive(r)
    BY DEF Backfill, FindsGaps, Begins, RunFails, Stops, ListsBatch, StartsBlock, IndexesBlock,
           BlockFails, EndsBatch, Others, Calm, At, Alive
<1>3. ASSUME run' = [run EXCEPT ![r] = run'[r]], run'[r].pc # "gone",
             run'[r].chain = run[r].chain,
             ~once => run'[r].cancelled = run[r].cancelled /\ run'[r].orphan = run[r].orphan
      PROVE  Entries'
    BY <1>1, <1>2, <1>3, GoesOn
<1>4. ASSUME run[r].pc \in {"run", "loop"}, NEW result \in {"none", "part", "whole"},
             run' = [run EXCEPT ![r] = Finished(r, result)],
             result = "whole" => run[r].missing \subseteq run[r].tried \cup blocks[run[r].chain]
      PROVE  Entries'
  <2>1. run'[r] = Finished(r, result) /\ run' = [run EXCEPT ![r] = run'[r]]
      BY <1>1, <1>4
  <2>2. /\ Finished(r, result).pc # "gone" /\ Finished(r, result).chain = run[r].chain
        /\ ~once => /\ Finished(r, result).cancelled = run[r].cancelled
                    /\ Finished(r, result).orphan = run[r].orphan
      BY <1>2, <1>4, FinishedGoesOn
  <2> QED BY <1>3, <2>1, <2>2
<1>5. CASE FindsGaps(r) \/ EndsBatch(r) \/ StartsBlock(r)
  <2>1. /\ run' = [run EXCEPT ![r] = run'[r]] /\ run'[r].pc # "gone"
        /\ run'[r].chain = run[r].chain /\ run'[r].cancelled = run[r].cancelled
        /\ run'[r].orphan = run[r].orphan
    <3>1. CASE FindsGaps(r)
        BY <1>1, <3>1 DEF FindsGaps, RunType
    <3>2. CASE EndsBatch(r)
        BY <1>1, <3>2 DEF EndsBatch, RunType
    <3>3. CASE StartsBlock(r)
      <4> DEFINE h == Min(run[r].todo)
                 rec == [run[r] EXCEPT !.todo = run[r].todo \ {h}, !.tried = run[r].tried \cup {h},
                            !.busy = IF Done(r) THEN run[r].busy ELSE run[r].busy \cup {h},
                            !.failed = IF Done(r) THEN run[r].failed \cup {h} ELSE run[r].failed]
      <4>1. run' = [run EXCEPT ![r] = rec] /\ run[r].pc = "batch"
          BY <1>1, <3>3, ZenonT(40) DEF StartsBlock, RunType, At
      <4>2. /\ rec.pc = run[r].pc /\ rec.chain = run[r].chain
            /\ rec.cancelled = run[r].cancelled /\ rec.orphan = run[r].orphan
          BY <1>1 DEF RunType
      <4> HIDE DEF rec
      <4> QED BY <1>1, <4>1, <4>2
    <3> QED BY <1>5, <3>1, <3>2, <3>3
  <2> QED BY <1>3, <2>1
<1>6. CASE IndexesBlock(r)
  <2>1. PICK h \in run[r].busy : run' = [run EXCEPT ![r].busy = @ \ {h}]
      BY <1>6 DEF IndexesBlock
  <2>2. /\ run' = [run EXCEPT ![r] = run'[r]] /\ run'[r].pc = run[r].pc
        /\ run'[r].chain = run[r].chain /\ run'[r].cancelled = run[r].cancelled
        /\ run'[r].orphan = run[r].orphan
      BY <1>1, <2>1 DEF RunType
  <2> QED BY <1>2, <1>3, <2>2 DEF Alive
<1>7. CASE BlockFails(r)
  <2>1. PICK h \in run[r].busy : run' = [run EXCEPT ![r].busy = @ \ {h}, ![r].failed = @ \cup {h}]
      BY <1>7 DEF BlockFails
  <2>2. /\ run' = [run EXCEPT ![r] = run'[r]] /\ run'[r].pc = run[r].pc
        /\ run'[r].chain = run[r].chain /\ run'[r].cancelled = run[r].cancelled
        /\ run'[r].orphan = run[r].orphan
      BY <1>1, <2>1 DEF RunType
  <2> QED BY <1>2, <1>3, <2>2 DEF Alive
<1>8. CASE RunFails(r)
    BY <1>4, <1>8 DEF RunFails, At
<1>9. CASE Stops(r)
    BY <1>4, <1>9 DEF Stops, At
<1>10. CASE Begins(r)
  <2>1. run[r].pc = "run" /\ run[r].missing = {}
      BY <1>1, <1>10 DEF Begins, At, PassOk
  <2>2. PICK to, missing : run' = [run EXCEPT ![r] =
                IF missing = {} \/ dryRun THEN Finished(r, "whole")
                ELSE [run[r] EXCEPT !.pc = "loop", !.from = Config.start, !.to = to, !.missing = missing]]
      BY <1>10 DEF Begins
  <2>3. CASE run' = [run EXCEPT ![r] = Finished(r, "whole")]
      BY <1>4, <2>1, <2>3
  <2>4. CASE run' = [run EXCEPT ![r] =
                [run[r] EXCEPT !.pc = "loop", !.from = Config.start, !.to = to, !.missing = missing]]
    <3>1. /\ run' = [run EXCEPT ![r] = run'[r]] /\ run'[r].pc # "gone"
          /\ run'[r].chain = run[r].chain /\ run'[r].cancelled = run[r].cancelled
          /\ run'[r].orphan = run[r].orphan
        BY <1>1, <2>4 DEF RunType
    <3> QED BY <1>3, <3>1
  <2> QED BY <2>2, <2>3, <2>4
<1>11. CASE ListsBatch(r)
  <2> DEFINE missing == Missing(run[r].chain, run[r].from, run[r].to)
             heights == Lowest(Config.batch, missing)
  <2>1. run' = [run EXCEPT ![r] =
            IF heights = {} THEN Finished(r, "whole")
            ELSE [run[r] EXCEPT !.pc = "batch", !.todo = heights, !.from = Max(heights) + 1]]
        /\ run[r].pc = "loop"
      BY <1>11 DEF ListsBatch, At
  <2>2. CASE heights = {}
    <3>1. run[r].missing \subseteq run[r].tried \cup blocks[run[r].chain]
        BY <1>1, <2>1, <2>2, LoopIsWhole DEF Typed
    <3>2. run' = [run EXCEPT ![r] = Finished(r, "whole")]
        BY <2>1, <2>2
    <3> QED BY <1>4, <2>1, <3>1, <3>2
  <2>3. CASE heights # {}
    <3> HIDE DEF heights
    <3>0. run' = [run EXCEPT ![r] =
              [run[r] EXCEPT !.pc = "batch", !.todo = heights, !.from = Max(heights) + 1]]
        BY <2>1, <2>3
    <3>1. /\ run' = [run EXCEPT ![r] = run'[r]] /\ run'[r].pc # "gone"
          /\ run'[r].chain = run[r].chain /\ run'[r].cancelled = run[r].cancelled
          /\ run'[r].orphan = run[r].orphan
        BY <1>1, <3>0 DEF RunType
    <3> QED BY <1>3, <3>1
  <2> QED BY <2>2, <2>3
<1> QED BY <1>5, <1>6, <1>7, <1>8, <1>9, <1>10, <1>11 DEF Backfill

(* Every step keeps the invariant of the entries.                          *)
LEMMA NextEntries == Typed /\ Typed' /\ CopiesOfBlocks /\ Entries /\ [Next]_vars => Entries'
<1> SUFFICES ASSUME Typed, Typed', CopiesOfBlocks, Entries, [Next]_vars PROVE Entries'
    OBVIOUS
<1>1. CASE Main
    BY <1>1, MainEntries, SpawnsEntries, StartsEntries, StopsEntries DEF Main
<1>2. ASSUME NEW r \in Backfills, Backfill(r) PROVE Entries'
    BY <1>2, EndsEntries, BackfillGoesOn
<1>3. CASE UNCHANGED <<once, main, active, run>>
    BY <1>3 DEF Entries, GoneHasNoChain, NextHasNoEntry, OnceMode, Owned, Sole, Listed, Alive
<1>4. ASSUME NEW c \in Chains, Grows(c) \/ LosesCopies(c) \/ Edits(c) PROVE Entries'
    BY <1>3, <1>4 DEF Grows, LosesCopies, Edits, program
<1>5. CASE Signals
    BY <1>3, <1>5 DEF Signals, program
<1>6. CASE UNCHANGED vars
    BY <1>3, <1>6 DEF vars
<1> QED BY <1>1, <1>2, <1>4, <1>5, <1>6 DEF Next

(***************************************************************************)
(* activeBackfills of cmd/backfill is true: its entries are for backfills  *)
(* that run, one per chain of the last list, and a backfill that was not   *)
(* told to stop has its entry, but for one that an earlier backfill of its *)
(* chain, ending late, has deprived of it.                                 *)
(***************************************************************************)
THEOREM EntriesAreTrue == Spec => []BackfillsAreStoppable
<1>1. Init => Typed /\ Entries
  <2>1. Init => Typed
      BY InitTyped
  <2>2. Init => Entries
      BY IdleIsOk DEF Init, Entries, GoneHasNoChain, NextHasNoEntry, OnceMode, Owned, Sole, Listed, Alive
  <2> QED BY <2>1, <2>2
<1>2. Typed /\ CopiesOfBlocks /\ Entries /\ [Next]_vars => (Typed /\ Entries)'
    BY NextTyped, NextEntries
<1>3. Typed /\ Entries => BackfillsAreStoppable
    BY DEF Entries, Owned, Sole, Listed, BackfillsAreStoppable
<1> QED BY <1>1, <1>2, <1>3, CopiesHold, PTL DEF Spec

----------------------------------------------------------------------------
(* The invariant of the exit code.                                         *)

\* What a pass has tried is under way, failed, or has its block.
Accounted(rec, bl) ==
    /\ rec.pc # "gone" => rec.tried \subseteq rec.busy \cup rec.failed \cup bl[rec.chain]
    /\ rec.pc # "batch" => rec.busy = {}

AllAccounted == \A r \in Backfills : Accounted(run[r], blocks)

\* The one-time mode has no tickers, and the worker mode none of its goroutines.
Modes ==
    /\ main.pc \in {"start", "wait"} => ~once
    /\ once => \A r \in Backfills : run[r].pc # "ticker"

Served(c) == \E r \in Backfills : run[r].chain = c

\* Every listed chain has its goroutine, or still waits for it.
AllServed ==
    /\ once /\ main.pc = "spawn" => \A c \in main.list : c \in main.todo \/ Served(c)
    /\ once /\ main.pc = "join" => \A c \in main.list : Served(c)

\* The exit code is what the passes say.
CodeIsSum ==
    exit = 0 /\ once /\ ~signal =>
        /\ \A c \in main.list : Served(c)
        /\ \A r \in Backfills : run[r].result = "whole" => run[r].failed = {}

Outcome == AllAccounted /\ Modes /\ AllServed /\ CodeIsSum

(* The exit code is true in a state of the invariant.                      *)
LEMMA OutcomeIsTrue == Typed /\ Outcome => ExitCodeIsTrue
<1> SUFFICES ASSUME Typed, Outcome, exit = 0, once, ~signal
             PROVE  /\ \A c \in main.list : \E r \in Backfills : run[r].chain = c
                    /\ \A r \in Backfills :
                         run[r].result = "whole" => run[r].missing \subseteq blocks[run[r].chain]
    BY DEF ExitCodeIsTrue
<1>1. \A c \in main.list : \E r \in Backfills : run[r].chain = c
    BY DEF Outcome, CodeIsSum, Served
<1>2. ASSUME NEW r \in Backfills, run[r].result = "whole"
      PROVE  run[r].missing \subseteq blocks[run[r].chain]
  <2>1. PassOk(run[r], blocks) /\ Accounted(run[r], blocks) /\ run[r].failed = {}
      BY <1>2 DEF Typed, PassesOk, Outcome, AllAccounted, CodeIsSum
  <2>2. run[r].pc = "ended"
      BY <1>2, <2>1 DEF PassOk
  <2> QED BY <1>2, <2>1, <2>2 DEF PassOk, Accounted
<1> QED BY <1>1, <1>2

(* A goroutine without a pass has nothing to account for.                  *)
LEMMA FreshIsAccounted ==
    ASSUME once \in BOOLEAN, NEW c \in Picked
    PROVE  \A bl : Accounted(Idle, bl) /\ Accounted(Spawned(c), bl)
<1> DEFINE known == [Idle EXCEPT !.chain = c]
           pc == IF once THEN "run" ELSE "ticker"
<1>1. Idle.tried = {} /\ Idle.busy = {}
    BY DEF Idle
<1>2. known \in RunType /\ known.tried = {} /\ known.busy = {}
    BY BackfillAssumption DEF Idle, RunType
<1>3. Spawned(c) = [known EXCEPT !.pc = pc]
    BY DEF Spawned
<1> HIDE DEF known, pc
<1>4. Spawned(c).tried = {} /\ Spawned(c).busy = {}
    BY <1>2, <1>3 DEF RunType
<1> QED BY <1>1, <1>4 DEF Accounted

(* Blocks that are added leave what a pass accounts for.                   *)
LEMMA AccountGrows ==
    ASSUME Typed, Grown, NEW r \in Backfills, Accounted(run[r], blocks)
    PROVE  Accounted(run[r], blocks')
<1>1. run[r].pc # "gone" => blocks[run[r].chain] \subseteq blocks'[run[r].chain]
    BY AliveHasChain DEF Grown, Alive
<1> QED BY <1>1 DEF Accounted

(* Neither main nor the goroutines move.                                   *)
LEMMA WorldKeepsOutcome ==
    ASSUME Typed, Outcome, Grown, UNCHANGED <<once, main, run, exit>>, signal => signal'
    PROVE  Outcome'
<1>1. AllAccounted'
    BY AccountGrows DEF Outcome, AllAccounted
<1> QED BY <1>1 DEF Outcome, Modes, AllServed, CodeIsSum, Served

(* The program exits with an error, or was told to stop.                   *)
LEMMA ExitsOutcome ==
    ASSUME Typed, NEW code, Exits(code), code # 0 \/ signal', once' = once
    PROVE  Outcome'
<1>1. /\ exit' = code /\ main'.pc = "exited"
      /\ \A r \in Backfills : run'[r] = Idle
    BY TypeOKMeans DEF Exits, Typed, MainType
<1>2. \A bl : Accounted(Idle, bl)
    BY DEF Accounted, Idle
<1> QED BY <1>1, <1>2, IdleIsOk DEF Outcome, AllAccounted, Modes, AllServed, CodeIsSum

(* main keeps what the exit code rests on.                                 *)
LEMMA MainOutcome ==
    ASSUME Typed, Entries, Outcome, Main
    PROVE  Outcome'
<1>0. /\ main \in MainType /\ run \in [Backfills -> RunType] /\ once \in BOOLEAN
      /\ once' = once /\ signal' = signal /\ Grown /\ blocks' = blocks /\ exit = None /\ None # 0
  <2>1. Calm
      BY DEF Main, ListsChains, AddsChain, Chooses, SpawnsRun, LooksForEntry, StartsBackfill,
             StopsRemoved, Rediscovers, WorkerReturns, Summarises
  <2>2. exit = None
      BY DEF Main, ListsChains, AddsChain, Chooses, SpawnsRun, LooksForEntry, StartsBackfill,
             StopsRemoved, Rediscovers, WorkerReturns, Summarises, Running
  <2> QED BY <2>1, <2>2, TypeOKMeans, BackfillAssumption, CalmGrows DEF Typed, Calm, world
\* main moves on, the goroutines stay as they are.
<1>1. ASSUME UNCHANGED <<run, exit>>, main'.pc \in {"start", "wait"} => ~once,
             once /\ main'.pc = "spawn" => \A c \in main'.list : c \in main'.todo \/ Served(c),
             once /\ main'.pc = "join" => \A c \in main'.list : Served(c)
      PROVE  Outcome'
  <2>1. AllAccounted'
      BY <1>0, <1>1 DEF Outcome, AllAccounted
  <2>2. Modes' /\ AllServed' /\ CodeIsSum'
      BY <1>0, <1>1 DEF Outcome, Modes, AllServed, CodeIsSum, Served
  <2> QED BY <2>1, <2>2 DEF Outcome
<1>2. CASE ListsChains
  <2>1. CASE Exits(1)
      BY <1>0, <2>1, ExitsOutcome
  <2>2. CASE /\ main' = [main EXCEPT !.pc = "add", !.list = rows \cap Picked, !.todo = rows \cap Picked]
             /\ UNCHANGED <<run, exit>>
      BY <1>0, <1>1, <2>2 DEF MainType
  <2> QED BY <1>2, <2>1, <2>2 DEF ListsChains
<1>3. CASE AddsChain
  <2>1. CASE Exits(1)
      BY <1>0, <2>1, ExitsOutcome
  <2>2. CASE UNCHANGED <<run, exit>> /\ main'.pc = "add"
      BY <1>1, <2>2
  <2> QED BY <1>0, <1>3, <2>1, <2>2 DEF AddsChain, MainType
<1>4. CASE Chooses
  <2>1. /\ main'.pc = IF once THEN "spawn" ELSE "start"
        /\ main'.todo = main'.list /\ UNCHANGED <<run, exit>>
      BY <1>0, <1>4 DEF Chooses, MainType
  <2> QED BY <1>1, <2>1
<1>5. CASE SpawnsRun
  <2>1. once /\ main.pc = "spawn" /\ UNCHANGED exit
        /\ \A c \in main.list : c \in main.todo \/ Served(c)
      BY <1>5 DEF SpawnsRun, Entries, OnceMode, Outcome, AllServed
  <2>2. CASE main.todo = {} /\ main' = [main EXCEPT !.pc = "join"] /\ UNCHANGED run
      BY <1>0, <1>1, <2>1, <2>2 DEF MainType
  <2>3. ASSUME NEW c \in main.todo, NEW r \in Backfills, Free(r),
               run' = [run EXCEPT ![r] = Spawned(c)], main' = [main EXCEPT !.todo = @ \ {c}]
        PROVE  Outcome'
    <3>1. c \in Picked /\ main'.pc = "spawn" /\ main'.list = main.list /\ main'.todo = main.todo \ {c}
        BY <1>0, <2>1, <2>3 DEF MainType
    <3>2. run'[r] = Spawned(c) /\ \A q \in Backfills : q # r => run'[q] = run[q]
        BY <1>0, <2>3
    <3>3. Spawned(c).pc = "run" /\ Spawned(c).chain = c /\ Accounted(Spawned(c), blocks)
        BY <1>0, <2>1, <3>1, SpawnedIsOk, FreshIsAccounted
    <3>4. AllAccounted' /\ Modes'
        BY <1>0, <3>1, <3>2, <3>3 DEF Outcome, AllAccounted, Modes
    <3>5. run[r].chain = None
        BY <2>3 DEF Free, Alive, Entries, GoneHasNoChain
    <3>6. ASSUME NEW d \in main.list, d \notin main'.todo PROVE Served(d)'
      <4>1. CASE d = c
          BY <3>2, <3>3, <4>1 DEF Served
      <4>2. CASE d # c
        <5>1. PICK q \in Backfills : run[q].chain = d
            BY <2>1, <3>1, <3>6, <4>2 DEF Served
        <5>2. d # None
            BY <1>0, BackfillAssumption DEF MainType
        <5> QED BY <3>2, <3>5, <5>1, <5>2 DEF Served
      <4> QED BY <4>1, <4>2
    <3>7. AllServed' /\ CodeIsSum'
        BY <1>0, <2>1, <3>1, <3>6 DEF AllServed, CodeIsSum
    <3> QED BY <3>4, <3>7 DEF Outcome
  <2> QED BY <1>5, <2>2, <2>3 DEF SpawnsRun
<1>6. CASE LooksForEntry \/ Rediscovers
  <2>1. ~once /\ UNCHANGED <<run, exit>>
      BY <1>6 DEF LooksForEntry, Rediscovers, Outcome, Modes
  <2>2. main'.pc = "start"
      BY <1>0, <1>6 DEF LooksForEntry, Rediscovers, MainType
  <2> QED BY <1>1, <2>1, <2>2
<1>7. CASE StartsBackfill
  <2>1. ~once /\ UNCHANGED exit /\ main.chain \in Picked
      BY <1>0, <1>7 DEF StartsBackfill, Entries, NextHasNoEntry, Outcome, Modes, MainType
  <2>2. PICK r \in Backfills : run' = [run EXCEPT ![r] = Spawned(main.chain)]
      BY <1>7 DEF StartsBackfill
  <2>3. AllAccounted'
      BY <1>0, <2>1, <2>2, FreshIsAccounted DEF Outcome, AllAccounted
  <2> QED BY <1>0, <2>1, <2>3 DEF Outcome, Modes, AllServed, CodeIsSum
<1>8. CASE StopsRemoved
  <2>1. ~once /\ UNCHANGED exit
      BY <1>8 DEF StopsRemoved, Outcome, Modes
  <2>2. ASSUME NEW r \in Backfills PROVE Accounted(run'[r], blocks)
    <3>1. run[r] \in RunType /\ Accounted(run[r], blocks)
        BY <1>0 DEF Outcome, AllAccounted
    <3>2. run'[r] = run[r] \/ run'[r] = [run[r] EXCEPT !.cancelled = TRUE]
        BY <1>8 DEF StopsRemoved
    <3> QED BY <3>1, <3>2 DEF RunType, Accounted
  <2>3. AllAccounted'
      BY <1>0, <2>2 DEF AllAccounted
  <2> QED BY <1>0, <2>1, <2>3 DEF Outcome, Modes, AllServed, CodeIsSum
<1>9. CASE WorkerReturns
    BY <1>0, <1>9, ExitsOutcome DEF WorkerReturns
<1>10. CASE Summarises
  <2>1. /\ UNCHANGED run /\ main.pc = "join" /\ once
        /\ main'.pc = "exited" /\ main'.list = main.list
        /\ exit' = IF \E r \in Backfills : run[r].result # "none" /\ run[r].failed # {} THEN 1 ELSE 0
      BY <1>0, <1>10 DEF Summarises, MainType, Entries, OnceMode
  <2>2. AllAccounted' /\ Modes' /\ AllServed'
      BY <1>0, <2>1 DEF Outcome, AllAccounted, Modes, AllServed
  <2>3. CodeIsSum'
      BY <2>1 DEF Outcome, AllServed, CodeIsSum, Served
  <2> QED BY <2>2, <2>3 DEF Outcome
<1> QED BY <1>2, <1>3, <1>4, <1>5, <1>6, <1>7, <1>8, <1>9, <1>10 DEF Main

(* What Run returns accounts for what it tried.                            *)
LEMMA FinishedIsAccounted ==
    ASSUME NEW r \in Backfills, run[r] \in RunType, Accounted(run[r], blocks),
           run[r].pc \in {"run", "loop"}, NEW result \in {"none", "part", "whole"}
    PROVE  /\ Accounted(Finished(r, result), blocks)
           /\ Finished(r, result).chain = run[r].chain
           /\ once => Finished(r, result).pc = "ended"
<1>1. CASE once
  <2>1. Finished(r, result) = [run[r] EXCEPT !.pc = "ended", !.result = result]
      BY <1>1 DEF Finished
  <2> QED BY <2>1 DEF RunType, Accounted
<1>2. CASE ~once
  <2>1. Finished(r, result) = [Idle EXCEPT !.chain = run[r].chain, !.pc = "ticker",
                      !.cancelled = run[r].cancelled, !.orphan = run[r].orphan]
      BY <1>2 DEF Finished
  <2>2. /\ Finished(r, result).chain = run[r].chain
        /\ Finished(r, result).tried = {} /\ Finished(r, result).busy = {}
      BY <2>1 DEF Idle
  <2> QED BY <1>2, <2>2 DEF Accounted
<1> QED BY <1>1, <1>2

(* A step of a backfill accounts for every height it tries.                *)
LEMMA StepIsAccounted ==
    ASSUME Typed, Outcome, NEW r \in Backfills, Backfill(r), ~Ends(r)
    PROVE  /\ run' = [run EXCEPT ![r] = run'[r]]
           /\ Accounted(run'[r], blocks') /\ Grown
           /\ run'[r].chain = run[r].chain /\ (once => run'[r].pc # "ticker")
<1> DEFINE Kept == /\ run' = [run EXCEPT ![r] = run'[r]]
                   /\ Accounted(run'[r], blocks') /\ Grown
                   /\ run'[r].chain = run[r].chain /\ (once => run'[r].pc # "ticker")
<1>1. /\ run[r] \in RunType /\ run \in [Backfills -> RunType] /\ once \in BOOLEAN
      /\ Accounted(run[r], blocks) /\ (once => run[r].pc # "ticker")
    BY TypeOKMeans DEF Typed, Outcome, AllAccounted, Modes
<1>2. ASSUME ~IndexesBlock(r) PROVE blocks' = blocks /\ Grown
  <2>1. Calm
      BY <1>2 DEF Backfill, FindsGaps, Begins, RunFails, Stops, ListsBatch, StartsBlock,
             BlockFails, EndsBatch, Others
  <2> QED BY <2>1, CalmGrows DEF Calm, world
<1>3. ASSUME run[r].pc \in {"run", "loop"}, NEW result \in {"none", "part", "whole"},
             run' = [run EXCEPT ![r] = Finished(r, result)], ~IndexesBlock(r)
      PROVE  Kept
  <2>1. run'[r] = Finished(r, result) /\ run' = [run EXCEPT ![r] = run'[r]]
      BY <1>1, <1>3
  <2>2. /\ Accounted(Finished(r, result), blocks)
        /\ Finished(r, result).chain = run[r].chain
        /\ once => Finished(r, result).pc = "ended"
      BY <1>1, <1>3, FinishedIsAccounted
  <2> QED BY <1>2, <1>3, <2>1, <2>2
<1>4. CASE FindsGaps(r)
  <2>1. run[r].pc = "ticker" /\ run' = [run EXCEPT ![r].pc = "run"] /\ ~IndexesBlock(r)
      BY <1>4 DEF FindsGaps, IndexesBlock, At
  <2> QED BY <1>1, <1>2, <2>1 DEF RunType, Accounted
<1>5. CASE EndsBatch(r)
  <2>1. run[r].busy = {} /\ run' = [run EXCEPT ![r].pc = "loop"] /\ ~IndexesBlock(r)
        /\ run[r].pc = "batch"
      BY <1>5 DEF EndsBatch, IndexesBlock, At
  <2> QED BY <1>1, <1>2, <2>1 DEF RunType, Accounted
<1>6. CASE StartsBlock(r)
  <2> DEFINE h == Min(run[r].todo)
             rec == [run[r] EXCEPT !.todo = run[r].todo \ {h}, !.tried = run[r].tried \cup {h},
                        !.busy = IF Done(r) THEN run[r].busy ELSE run[r].busy \cup {h},
                        !.failed = IF Done(r) THEN run[r].failed \cup {h} ELSE run[r].failed]
  <2>1. run' = [run EXCEPT ![r] = rec] /\ run[r].pc = "batch"
      BY <1>1, <1>6 DEF StartsBlock, RunType, At
  <2>2. /\ rec.pc = "batch" /\ rec.chain = run[r].chain /\ rec.tried = run[r].tried \cup {h}
        /\ rec.busy = IF Done(r) THEN run[r].busy ELSE run[r].busy \cup {h}
        /\ rec.failed = IF Done(r) THEN run[r].failed \cup {h} ELSE run[r].failed
      BY <1>1, <2>1 DEF RunType
  <2> HIDE DEF rec, h
  <2>3. blocks' = blocks /\ Grown
      BY <1>6, CalmGrows DEF StartsBlock, Others, Calm, world
  <2>4. Accounted(rec, blocks)
      BY <1>1, <2>1, <2>2 DEF Accounted
  <2>5. run'[r] = rec
      BY <1>1, <2>1
  <2> QED BY <2>1, <2>2, <2>3, <2>4, <2>5
<1>7. CASE IndexesBlock(r)
  <2>1. PICK h \in run[r].busy :
          /\ run' = [run EXCEPT ![r].busy = @ \ {h}]
          /\ blocks' = [blocks EXCEPT ![run[r].chain] = @ \cup {h}]
      BY <1>7 DEF IndexesBlock, Stores
  <2>2. run[r].pc = "batch"
      BY <1>7 DEF IndexesBlock, At
  <2>3. run[r].chain \in Chains /\ blocks \in [Chains -> SUBSET Nat]
      BY <2>2, AliveHasChain, TypeOKMeans DEF Alive, Typed
  <2>4. Grown /\ blocks'[run[r].chain] = blocks[run[r].chain] \cup {h}
      BY <2>1, <2>3 DEF Grown
  <2>5. /\ run' = [run EXCEPT ![r] = run'[r]] /\ run'[r].pc = "batch"
        /\ run'[r].chain = run[r].chain /\ run'[r].tried = run[r].tried
        /\ run'[r].busy = run[r].busy \ {h} /\ run'[r].failed = run[r].failed
      BY <1>1, <2>1, <2>2 DEF RunType
  <2>6. Accounted(run'[r], blocks')
      BY <1>1, <2>2, <2>4, <2>5 DEF Accounted
  <2> QED BY <2>4, <2>5, <2>6
<1>8. CASE BlockFails(r)
  <2>1. PICK h \in run[r].busy : run' = [run EXCEPT ![r].busy = @ \ {h}, ![r].failed = @ \cup {h}]
      BY <1>8 DEF BlockFails
  <2>2. run[r].pc = "batch" /\ blocks' = blocks /\ Grown
      BY <1>8, CalmGrows DEF BlockFails, At, Others, Calm, world
  <2>3. /\ run' = [run EXCEPT ![r] = run'[r]] /\ run'[r].pc = "batch"
        /\ run'[r].chain = run[r].chain /\ run'[r].tried = run[r].tried
        /\ run'[r].busy = run[r].busy \ {h} /\ run'[r].failed = run[r].failed \cup {h}
      BY <1>1, <2>1, <2>2 DEF RunType
  <2>4. Accounted(run'[r], blocks)
      BY <1>1, <2>2, <2>3 DEF Accounted
  <2> QED BY <2>2, <2>3, <2>4
<1>9. CASE RunFails(r)
    BY <1>3, <1>9 DEF RunFails, At, IndexesBlock
<1>10. CASE Stops(r)
    BY <1>3, <1>10 DEF Stops, At, IndexesBlock
<1>11. CASE Begins(r)
  <2>1. run[r].pc = "run" /\ ~IndexesBlock(r)
      BY <1>11 DEF Begins, IndexesBlock, At
  <2>2. PICK to, missing : run' = [run EXCEPT ![r] =
                IF missing = {} \/ dryRun THEN Finished(r, "whole")
                ELSE [run[r] EXCEPT !.pc = "loop", !.from = Config.start, !.to = to, !.missing = missing]]
      BY <1>11 DEF Begins
  <2>3. CASE run' = [run EXCEPT ![r] = Finished(r, "whole")]
      BY <1>3, <2>1, <2>3
  <2>4. CASE run' = [run EXCEPT ![r] =
                [run[r] EXCEPT !.pc = "loop", !.from = Config.start, !.to = to, !.missing = missing]]
    <3>1. /\ run' = [run EXCEPT ![r] = run'[r]] /\ run'[r].pc = "loop"
          /\ run'[r].chain = run[r].chain /\ run'[r].tried = run[r].tried
          /\ run'[r].busy = run[r].busy /\ run'[r].failed = run[r].failed
        BY <1>1, <2>4 DEF RunType
    <3>2. Accounted(run'[r], blocks)
        BY <1>1, <2>1, <3>1 DEF Accounted
    <3> QED BY <1>2, <2>1, <3>1, <3>2
  <2> QED BY <2>2, <2>3, <2>4
<1>12. CASE ListsBatch(r)
  <2> DEFINE heights == Lowest(Config.batch, Missing(run[r].chain, run[r].from, run[r].to))
             next == Max(heights) + 1
  <2>1. run' = [run EXCEPT ![r] =
            IF heights = {} THEN Finished(r, "whole")
            ELSE [run[r] EXCEPT !.pc = "batch", !.todo = heights, !.from = next]]
        /\ run[r].pc = "loop" /\ ~IndexesBlock(r)
      BY <1>12 DEF ListsBatch, IndexesBlock, At
  <2> HIDE DEF heights, next
  <2>2. CASE heights = {}
      BY <1>3, <2>1, <2>2
  <2>3. CASE heights # {}
    <3>1. /\ run' = [run EXCEPT ![r] = run'[r]] /\ run'[r].pc = "batch"
          /\ run'[r].chain = run[r].chain /\ run'[r].tried = run[r].tried
          /\ run'[r].busy = run[r].busy /\ run'[r].failed = run[r].failed
        BY <1>1, <2>1, <2>3 DEF RunType
    <3>2. Accounted(run'[r], blocks)
        BY <1>1, <2>1, <3>1 DEF Accounted
    <3> QED BY <1>2, <2>1, <3>1, <3>2
  <2> QED BY <2>2, <2>3
<1> QED BY <1>4, <1>5, <1>6, <1>7, <1>8, <1>9, <1>10, <1>11, <1>12 DEF Backfill

(* A backfill keeps what the exit code rests on.                           *)
LEMMA BackfillOutcome ==
    ASSUME Typed, Entries, Outcome, NEW r \in Backfills, Backfill(r)
    PROVE  Outcome'
<1>1. /\ UNCHANGED <<once, main, exit>> /\ exit = None /\ None # 0
      /\ run \in [Backfills -> RunType]
  <2>1. UNCHANGED <<once, main, exit>> /\ exit = None
      BY DEF Backfill, FindsGaps, Begins, RunFails, Stops, ListsBatch, StartsBlock, IndexesBlock,
             BlockFails, EndsBatch, Ends, Others, Calm, At, Running
  <2> QED BY <2>1, TypeOKMeans, BackfillAssumption DEF Typed
<1>2. CASE Ends(r)
  <2>1. ~once /\ blocks' = blocks
      BY <1>2 DEF Ends, At, Outcome, Modes, Calm, world
  <2>2. ASSUME NEW q \in Backfills PROVE Accounted(run'[q], blocks)
    <3>1. run[q] \in RunType /\ Accounted(run[q], blocks)
        BY <1>1 DEF Outcome, AllAccounted
    <3>2. run'[q] = IF q = r THEN Idle
                    ELSE [run[q] EXCEPT !.orphan = @ \/ active[run[r].chain] = q]
        BY <1>2 DEF Ends
    <3>3. CASE q = r
        BY <3>2, <3>3 DEF Accounted, Idle
    <3>4. CASE q # r
        BY <3>1, <3>2, <3>4 DEF Accounted, RunType
    <3> QED BY <3>3, <3>4
  <2>3. AllAccounted'
      BY <2>1, <2>2 DEF AllAccounted
  <2> QED BY <1>1, <2>1, <2>3 DEF Outcome, Modes, AllServed, CodeIsSum
<1>3. CASE ~Ends(r)
  <2>1. /\ run' = [run EXCEPT ![r] = run'[r]]
        /\ Accounted(run'[r], blocks') /\ Grown
        /\ run'[r].chain = run[r].chain /\ (once => run'[r].pc # "ticker")
      BY <1>3, StepIsAccounted
  <2>2. \A q \in Backfills : q # r => run'[q] = run[q]
      BY <1>1, <2>1
  <2>3. AllAccounted'
    <3> SUFFICES ASSUME NEW q \in Backfills PROVE Accounted(run'[q], blocks')
        BY DEF AllAccounted
    <3>1. Accounted(run[q], blocks')
        BY <2>1, AccountGrows DEF Outcome, AllAccounted
    <3> QED BY <2>1, <2>2, <3>1
  <2>4. \A c : Served(c) => Served(c)'
      BY <2>1, <2>2 DEF Served
  <2>5. Modes' /\ AllServed' /\ CodeIsSum'
      BY <1>1, <2>1, <2>2, <2>4 DEF Outcome, Modes, AllServed, CodeIsSum
  <2> QED BY <2>3, <2>5 DEF Outcome
<1> QED BY <1>2, <1>3

(* Every step keeps it.                                                    *)
LEMMA NextOutcome == Typed /\ CopiesOfBlocks /\ Entries /\ Outcome /\ [Next]_vars => Outcome'
<1> SUFFICES ASSUME Typed, CopiesOfBlocks, Entries, Outcome, [Next]_vars PROVE Outcome'
    OBVIOUS
<1>1. CASE Main
    BY <1>1, MainOutcome
<1>2. ASSUME NEW r \in Backfills, Backfill(r) PROVE Outcome'
    BY <1>2, BackfillOutcome
<1>3. ASSUME NEW c \in Chains, Grows(c) PROVE Outcome'
  <2>1. Grown
      BY <1>3, TypeOKMeans DEF Grows, Stores, Grown, Typed
  <2> QED BY <1>3, <2>1, WorldKeepsOutcome DEF Grows, program
<1>4. ASSUME NEW c \in Chains, LosesCopies(c) \/ Edits(c) PROVE Outcome'
    BY <1>4, WorldKeepsOutcome DEF LosesCopies, Edits, program, Grown
<1>5. CASE Signals
    BY <1>5, WorldKeepsOutcome DEF Signals, program, world, Grown
<1>6. CASE UNCHANGED vars
    BY <1>6, WorldKeepsOutcome DEF vars, Grown
<1> QED BY <1>1, <1>2, <1>3, <1>4, <1>5, <1>6 DEF Next

(***************************************************************************)
(* runOnceMode: an exit code of 0 says that every listed chain got a pass  *)
(* and that every height such a pass found missing has its block by now,   *)
(* unless the program was told to stop or the pass ended in an error.      *)
(***************************************************************************)
THEOREM ExitCodeTellsFailures == Spec => []ExitCodeIsTrue
<1>1. Init => Typed /\ Entries /\ Outcome
  <2>1. Init => Typed
      BY InitTyped
  <2>2. Init => Entries
      BY IdleIsOk DEF Init, Entries, GoneHasNoChain, NextHasNoEntry, OnceMode, Owned, Sole, Listed, Alive
  <2>3. ASSUME Init PROVE Outcome
    <3>1. \A r \in Backfills : run[r].pc = "gone" /\ run[r].busy = {}
        BY <2>3 DEF Init, Idle
    <3>2. exit # 0 /\ main.pc = "boot"
        BY <2>3, BackfillAssumption DEF Init
    <3> QED BY <3>1, <3>2 DEF Outcome, AllAccounted, Accounted, Modes, AllServed, CodeIsSum
  <2> QED BY <2>1, <2>2, <2>3
<1>2. Typed /\ CopiesOfBlocks /\ Entries /\ Outcome /\ [Next]_vars
        => (Typed /\ Entries /\ Outcome)'
    BY NextTyped, NextEntries, NextOutcome
<1> QED BY <1>1, <1>2, OutcomeIsTrue, CopiesHold, PTL DEF Spec
----------------------------------------------------------------------------
(* A pass runs down.                                                       *)

BusyFinite == \A r \in Backfills : IsFiniteSet(run[r].busy)

(* The size of an interval.                                                *)
LEMMA IntervalSize ==
    ASSUME NEW a \in Nat, NEW b \in Nat
    PROVE  /\ IsFiniteSet(a .. b) /\ Cardinality(a .. b) \in Nat
           /\ a > b => Cardinality(a .. b) = 0
           /\ a <= b => Cardinality(a .. b) = b - a + 1
<1>1. a \in Int /\ b \in Int
    OBVIOUS
<1>2. IsFiniteSet(a .. b) /\ Cardinality(a .. b) = IF a > b THEN 0 ELSE b - a + 1
    BY <1>1, FS_Interval
<1>3. a <= b => ~(a > b)
    OBVIOUS
<1> QED BY <1>2, <1>3, FS_CardinalityType

(* At most one more element.                                               *)
LEMMA OneMore ==
    ASSUME NEW S, IsFiniteSet(S), NEW x
    PROVE  /\ IsFiniteSet(S \cup {x})
           /\ Cardinality(S \cup {x}) \in Nat /\ Cardinality(S) \in Nat
           /\ Cardinality(S \cup {x}) <= Cardinality(S) + 1
<1>1. IsFiniteSet(S \cup {x}) /\ Cardinality(S \cup {x}) \in {Cardinality(S), Cardinality(S) + 1}
    BY FS_AddElement
<1>2. Cardinality(S) \in Nat
    BY FS_CardinalityType
<1> QED BY <1>1, <1>2

(* The parts of what is left are numbers.                                  *)
LEMMA LeftIsSum ==
    ASSUME NEW rec \in RunType, PassOk(rec, blocks), IsFiniteSet(rec.busy)
    PROVE  /\ IsFiniteSet(rec.todo)
           /\ Cardinality(rec.todo) \in Nat /\ Cardinality(rec.busy) \in Nat
           /\ Cardinality(rec.from .. rec.to) \in Nat
<1>1. rec.from \in Nat /\ rec.to \in Nat /\ rec.todo \subseteq Nat
    BY DEF RunType
<1>2. rec.todo \subseteq 0 .. rec.from
    BY <1>1 DEF PassOk
<1>3. IsFiniteSet(0 .. rec.from)
    BY <1>1, FS_Interval
<1>4. IsFiniteSet(rec.todo)
    BY <1>2, <1>3, FS_Subset
<1>5. Cardinality(rec.from .. rec.to) \in Nat
    BY <1>1, IntervalSize
<1> QED BY <1>4, <1>5, FS_CardinalityType

(* The next batch takes from the range at least as much as it lists.       *)
LEMMA ListingLessens ==
    ASSUME Typed, BusyFinite, NEW r \in Backfills, ListsBatch(r)
    PROVE  /\ run' = [run EXCEPT ![r] = run'[r]] /\ IsFiniteSet(run'[r].busy)
           /\ InPass(run'[r]) => Left(run'[r]) < Left(run[r])
<1> DEFINE rec == run[r]
           heights == Lowest(Config.batch, Missing(rec.chain, rec.from, rec.to))
           top == Max(heights)
           listed == [rec EXCEPT !.pc = "batch", !.todo = heights, !.from = top + 1]
<1>1. /\ run \in [Backfills -> RunType] /\ rec \in RunType /\ PassOk(rec, blocks)
      /\ rec.pc = "loop" /\ once \in BOOLEAN /\ IsFiniteSet(rec.busy)
      /\ run' = [run EXCEPT ![r] = IF heights = {} THEN Finished(r, "whole") ELSE listed]
    BY TypeOKMeans DEF Typed, PassesOk, ListsBatch, At, BusyFinite
<1>2. /\ rec.chain \in Chains /\ rec.from \in Nat /\ rec.to \in Nat /\ rec.todo = {}
    BY <1>1, BackfillAssumption DEF PassOk, RunType
<1>3. CASE heights = {}
  <2>1. run'[r] = Finished(r, "whole") /\ run' = [run EXCEPT ![r] = run'[r]]
      BY <1>1, <1>3
  <2>2. Finished(r, "whole").pc \in {"ended", "ticker"} /\ IsFiniteSet(Finished(r, "whole").busy)
    <3>1. CASE once
      <4>1. Finished(r, "whole") = [rec EXCEPT !.pc = "ended", !.result = "whole"]
          BY <3>1 DEF Finished
      <4>2. Finished(r, "whole").pc = "ended" /\ Finished(r, "whole").busy = rec.busy
          BY <1>1, <4>1 DEF RunType
      <4> QED BY <1>1, <4>2
    <3>2. CASE ~once
      <4>1. Finished(r, "whole").pc = "ticker" /\ Finished(r, "whole").busy = {}
          BY <3>2 DEF Finished, Idle
      <4> QED BY <4>1, FS_EmptySet
    <3> QED BY <3>1, <3>2
  <2> QED BY <2>1, <2>2 DEF InPass
<1>4. CASE heights # {}
  <2>1. heights \subseteq rec.from .. rec.to
    <3>1. /\ IsFiniteSet(Missing(rec.chain, rec.from, rec.to))
          /\ Missing(rec.chain, rec.from, rec.to) \subseteq rec.from .. rec.to
        BY <1>2, MissingFinite
    <3>2. Missing(rec.chain, rec.from, rec.to) \subseteq Nat
        BY <1>2, <3>1
    <3> QED BY <3>1, <3>2, ConfigTyped, LowestIsPrefix
  <2>2. run'[r] = listed /\ run' = [run EXCEPT ![r] = run'[r]]
      BY <1>1, <1>4
  <2> HIDE DEF heights
  <2>3. top \in heights /\ \A k \in heights : k <= top
    <3>1. heights \subseteq 0 .. rec.to
        BY <1>2, <2>1
    <3> QED BY <1>2, <1>4, <3>1, MaxOf
  <2>4. top \in Nat /\ rec.from <= top /\ top <= rec.to
    <3>1. top \in rec.from .. rec.to
        BY <2>1, <2>3
    <3> QED BY <1>2, <3>1
  <2> HIDE DEF top
  <2>5. /\ listed.pc = "batch" /\ listed.todo = heights /\ listed.busy = rec.busy
        /\ listed.from = top + 1 /\ listed.to = rec.to
      BY <1>1 DEF RunType
  <2> HIDE DEF listed
  <2>6. Cardinality(heights) \in Nat /\ Cardinality(heights) <= top - rec.from + 1
    <3>1. heights \subseteq rec.from .. top
      <4> SUFFICES ASSUME NEW k \in heights PROVE k \in rec.from .. top
          OBVIOUS
      <4>1. k \in rec.from .. rec.to /\ k <= top
          BY <2>1, <2>3
      <4> QED BY <1>2, <2>4, <4>1
    <3>2. IsFiniteSet(rec.from .. top) /\ Cardinality(rec.from .. top) = top - rec.from + 1
        BY <1>2, <2>4, IntervalSize
    <3> QED BY <3>1, <3>2, FS_Subset, FS_CardinalityType
  <2>7. /\ Cardinality(rec.from .. rec.to) = rec.to - rec.from + 1
        /\ Cardinality(listed.from .. listed.to) = rec.to - top
    <3>1. Cardinality(rec.from .. rec.to) = rec.to - rec.from + 1
      <4>1. rec.from <= rec.to
          BY <1>2, <2>4
      <4> QED BY <1>2, <4>1, IntervalSize
    <3>2. top + 1 \in Nat /\ (top + 1 > rec.to \/ top + 1 <= rec.to)
        BY <1>2, <2>4
    <3>3. /\ top + 1 > rec.to => Cardinality(top + 1 .. rec.to) = 0
          /\ top + 1 <= rec.to => Cardinality(top + 1 .. rec.to) = rec.to - (top + 1) + 1
        BY <1>2, <3>2, IntervalSize
    <3>4. Cardinality(top + 1 .. rec.to) = rec.to - top
        BY <1>2, <2>4, <3>2, <3>3
    <3> QED BY <2>5, <3>1, <3>4
  <2>8. Cardinality(rec.busy) \in Nat /\ Cardinality(rec.todo) = 0
      BY <1>1, <1>2, FS_CardinalityType, FS_EmptySet
  <2>9. /\ Left(listed) = 4 * (rec.to - top) + 2 * Cardinality(heights) + Cardinality(rec.busy) + 1
        /\ Left(rec) = 4 * (rec.to - rec.from + 1) + 2 * 0 + Cardinality(rec.busy) + 0
      BY <1>1, <2>5, <2>7, <2>8 DEF Left
  <2>10. Left(listed) < Left(rec)
      BY <1>2, <2>4, <2>6, <2>8, <2>9
  <2> QED BY <1>1, <2>2, <2>5, <2>10
<1> QED BY <1>3, <1>4

(* A block that starts moves from what is left of the batch to what is     *)
(* under way.                                                              *)
LEMMA StartLessens ==
    ASSUME Typed, BusyFinite, NEW r \in Backfills, StartsBlock(r)
    PROVE  /\ run' = [run EXCEPT ![r] = run'[r]] /\ IsFiniteSet(run'[r].busy)
           /\ Left(run'[r]) < Left(run[r])
<1> DEFINE rec == run[r]
           h == Min(rec.todo)
           busy == IF Done(r) THEN rec.busy ELSE rec.busy \cup {h}
           failed == IF Done(r) THEN rec.failed \cup {h} ELSE rec.failed
           next == [rec EXCEPT !.todo = rec.todo \ {h}, !.tried = rec.tried \cup {h},
                               !.busy = busy, !.failed = failed]
<1>1. /\ run \in [Backfills -> RunType] /\ rec \in RunType /\ PassOk(rec, blocks)
      /\ rec.pc = "batch" /\ rec.todo # {} /\ rec.todo \subseteq Nat /\ IsFiniteSet(rec.busy)
    BY TypeOKMeans DEF Typed, PassesOk, StartsBlock, At, RunType, BusyFinite
<1>2. h \in rec.todo
    BY <1>1, MinOf
<1>3. run' = [run EXCEPT ![r] = next]
  <2>1. run' = [run EXCEPT ![r].todo = @ \ {h}, ![r].tried = @ \cup {h},
                    ![r].busy = IF Done(r) THEN @ ELSE @ \cup {h},
                    ![r].failed = IF Done(r) THEN @ \cup {h} ELSE @]
      BY DEF StartsBlock
  <2> QED BY <1>1, <2>1 DEF RunType
<1>4. /\ IsFiniteSet(busy) /\ Cardinality(busy) \in Nat
      /\ Cardinality(busy) <= Cardinality(rec.busy) + 1
  <2>1. IsFiniteSet(rec.busy \cup {h}) /\ Cardinality(rec.busy \cup {h}) \in Nat
        /\ Cardinality(rec.busy) \in Nat
        /\ Cardinality(rec.busy \cup {h}) <= Cardinality(rec.busy) + 1
    <3> HIDE DEF h, rec
    <3> QED BY <1>1, OneMore
  <2>2. busy = rec.busy \/ busy = rec.busy \cup {h}
      OBVIOUS
  <2> HIDE DEF h, rec, busy
  <2>3. Cardinality(rec.busy) <= Cardinality(rec.busy) + 1
      BY <2>1
  <2> QED BY <1>1, <2>1, <2>2, <2>3
<1> HIDE DEF h, busy, failed
<1>5. /\ next.pc = "batch" /\ next.todo = rec.todo \ {h} /\ next.busy = busy
      /\ next.from = rec.from /\ next.to = rec.to
    BY <1>1 DEF RunType
<1>6. run'[r] = next /\ run' = [run EXCEPT ![r] = run'[r]]
    BY <1>1, <1>3
<1> HIDE DEF next
<1>7. /\ IsFiniteSet(rec.todo) /\ Cardinality(rec.todo) \in Nat /\ Cardinality(rec.busy) \in Nat
      /\ Cardinality(rec.from .. rec.to) \in Nat
  <2>1. rec.from \in Nat /\ rec.to \in Nat
      BY <1>1 DEF RunType
  <2> QED BY <1>1, <2>1, LeftIsSum
<1>8. Cardinality(rec.todo \ {h}) = Cardinality(rec.todo) - 1
    BY <1>2, <1>7, FS_RemoveElement
<1>9. Left(next) < Left(rec)
    BY <1>1, <1>4, <1>5, <1>7, <1>8 DEF Left
<1> QED BY <1>4, <1>5, <1>6, <1>9

(* A block that ends, and a batch that does, leave less.                   *)
LEMMA EndLessens ==
    ASSUME Typed, BusyFinite, NEW r \in Backfills,
           IndexesBlock(r) \/ BlockFails(r) \/ EndsBatch(r)
    PROVE  /\ run' = [run EXCEPT ![r] = run'[r]] /\ IsFiniteSet(run'[r].busy)
           /\ Left(run'[r]) < Left(run[r])
<1> DEFINE rec == run[r]
<1>1. /\ run \in [Backfills -> RunType] /\ rec \in RunType /\ PassOk(rec, blocks)
      /\ rec.pc = "batch" /\ IsFiniteSet(rec.busy)
    BY TypeOKMeans DEF Typed, PassesOk, IndexesBlock, BlockFails, EndsBatch, At, BusyFinite
<1>2. /\ Cardinality(rec.todo) \in Nat /\ Cardinality(rec.busy) \in Nat
      /\ Cardinality(rec.from .. rec.to) \in Nat
  <2>1. rec.from \in Nat /\ rec.to \in Nat
      BY <1>1 DEF RunType
  <2> QED BY <1>1, <2>1, LeftIsSum
<1>3. CASE IndexesBlock(r) \/ BlockFails(r)
  <2>1. PICK h \in rec.busy :
            \/ run' = [run EXCEPT ![r].busy = @ \ {h}]
            \/ run' = [run EXCEPT ![r].busy = @ \ {h}, ![r].failed = @ \cup {h}]
      BY <1>3 DEF IndexesBlock, BlockFails
  <2>2. /\ run' = [run EXCEPT ![r] = run'[r]] /\ run'[r].busy = rec.busy \ {h}
        /\ run'[r].todo = rec.todo /\ run'[r].from = rec.from /\ run'[r].to = rec.to
        /\ run'[r].pc = rec.pc
    <3>1. CASE run' = [run EXCEPT ![r].busy = @ \ {h}]
        BY <1>1, <3>1 DEF RunType
    <3>2. CASE run' = [run EXCEPT ![r].busy = @ \ {h}, ![r].failed = @ \cup {h}]
        BY <1>1, <3>2 DEF RunType
    <3> QED BY <2>1, <3>1, <3>2
  <2>3. IsFiniteSet(rec.busy \ {h}) /\ Cardinality(rec.busy \ {h}) = Cardinality(rec.busy) - 1
      BY <1>1, FS_RemoveElement
  <2>4. Left(run'[r]) < Left(rec)
      BY <1>1, <1>2, <2>2, <2>3 DEF Left
  <2> QED BY <2>2, <2>3, <2>4
<1>4. CASE EndsBatch(r)
  <2>1. run' = [run EXCEPT ![r] = [rec EXCEPT !.pc = "loop"]]
      BY <1>4 DEF EndsBatch
  <2>2. /\ run' = [run EXCEPT ![r] = run'[r]] /\ run'[r].busy = rec.busy /\ run'[r].pc = "loop"
        /\ run'[r].todo = rec.todo /\ run'[r].from = rec.from /\ run'[r].to = rec.to
      BY <1>1, <2>1 DEF RunType
  <2>3. Left(run'[r]) < Left(rec)
      BY <1>1, <1>2, <2>2 DEF Left
  <2> QED BY <1>1, <2>2, <2>3
<1> QED BY <1>3, <1>4

\* What the property asks of one goroutine.
RunsDown(q) ==
    InPass(run[q]) /\ run'[q] # run[q] =>
        ~InPass(run'[q]) \/ run'[q] \in Marked(run[q]) \/ Left(run'[q]) < Left(run[q])

(* The end of a pass.                                                      *)
LEMMA FinishedIsOver ==
    ASSUME NEW r \in Backfills, run[r] \in RunType, IsFiniteSet(run[r].busy), NEW result
    PROVE  ~InPass(Finished(r, result)) /\ IsFiniteSet(Finished(r, result).busy)
<1>1. CASE once
  <2>1. Finished(r, result) = [run[r] EXCEPT !.pc = "ended", !.result = result]
      BY <1>1 DEF Finished
  <2>2. Finished(r, result).pc = "ended" /\ Finished(r, result).busy = run[r].busy
      BY <2>1 DEF RunType
  <2> QED BY <2>2 DEF InPass
<1>2. CASE ~once
  <2>1. Finished(r, result).pc = "ticker" /\ Finished(r, result).busy = {}
      BY <1>2 DEF Finished, Idle
  <2> QED BY <2>1, FS_EmptySet DEF InPass
<1> QED BY <1>1, <1>2

(* A step of one backfill, but for the end of RunContinuous.               *)
LEMMA BackfillRunsDown ==
    ASSUME Typed, BusyFinite, NEW r \in Backfills, Backfill(r), ~Ends(r)
    PROVE  /\ IsFiniteSet(run'[r].busy) /\ RunsDown(r)
           /\ \A q \in Backfills : q # r => run'[q] = run[q]
<1>1. run \in [Backfills -> RunType] /\ run[r] \in RunType /\ IsFiniteSet(run[r].busy)
    BY TypeOKMeans DEF Typed, BusyFinite
<1>2. ASSUME NEW rec, run' = [run EXCEPT ![r] = rec], IsFiniteSet(rec.busy),
             ~InPass(rec) \/ ~InPass(run[r]) \/ Left(rec) < Left(run[r])
      PROVE  /\ IsFiniteSet(run'[r].busy) /\ RunsDown(r)
             /\ \A q \in Backfills : q # r => run'[q] = run[q]
  <2>1. run'[r] = rec /\ \A q \in Backfills : q # r => run'[q] = run[q]
      BY <1>1, <1>2
  <2> QED BY <1>2, <2>1 DEF RunsDown
<1>3. CASE ListsBatch(r)
    BY <1>2, <1>3, ListingLessens
<1>4. CASE StartsBlock(r)
    BY <1>2, <1>4, StartLessens
<1>5. CASE IndexesBlock(r) \/ BlockFails(r) \/ EndsBatch(r)
    BY <1>2, <1>5, EndLessens
<1>6. CASE RunFails(r) \/ Stops(r)
  <2>1. PICK result : run' = [run EXCEPT ![r] = Finished(r, result)]
      BY <1>6 DEF RunFails, Stops
  <2> QED BY <1>1, <1>2, <2>1, FinishedIsOver
<1>7. CASE FindsGaps(r)
  <2>1. run' = [run EXCEPT ![r] = [run[r] EXCEPT !.pc = "run"]] /\ run[r].pc = "ticker"
      BY <1>7 DEF FindsGaps, At
  <2>2. [run[r] EXCEPT !.pc = "run"].busy = run[r].busy
      BY <1>1 DEF RunType
  <2> QED BY <1>1, <1>2, <2>1, <2>2 DEF InPass
<1>8. CASE Begins(r)
  <2>1. run[r].pc = "run"
      BY <1>8 DEF Begins, At
  <2>2. PICK to, missing : run' = [run EXCEPT ![r] =
                IF missing = {} \/ dryRun THEN Finished(r, "whole")
                ELSE [run[r] EXCEPT !.pc = "loop", !.from = Config.start, !.to = to, !.missing = missing]]
      BY <1>8 DEF Begins
  <2>3. CASE run' = [run EXCEPT ![r] = Finished(r, "whole")]
      BY <1>1, <1>2, <2>3, FinishedIsOver
  <2>4. CASE run' = [run EXCEPT ![r] =
                [run[r] EXCEPT !.pc = "loop", !.from = Config.start, !.to = to, !.missing = missing]]
    <3> DEFINE rec == [run[r] EXCEPT !.pc = "loop", !.from = Config.start, !.to = to,
                                     !.missing = missing]
    <3>1. rec.busy = run[r].busy
        BY <1>1 DEF RunType
    <3> HIDE DEF rec
    <3>2. run' = [run EXCEPT ![r] = rec]
        BY <2>4 DEF rec
    <3> QED BY <1>1, <1>2, <2>1, <3>1, <3>2 DEF InPass
  <2> QED BY <2>2, <2>3, <2>4
<1> QED BY <1>3, <1>4, <1>5, <1>6, <1>7, <1>8 DEF Backfill

(* Goroutines that others mark, stop, or start are in no pass, or have as  *)
(* much left as before.                                                    *)
LEMMA OthersRunDown ==
    ASSUME Typed, BusyFinite, NEW q \in Backfills,
           Main \/ (\E r \in Backfills : Ends(r)) \/ UNCHANGED run
    PROVE  IsFiniteSet(run'[q].busy) /\ RunsDown(q)
<1>1. run \in [Backfills -> RunType] /\ run[q] \in RunType /\ IsFiniteSet(run[q].busy)
    BY TypeOKMeans DEF Typed, BusyFinite
<1>2. CASE run'[q] = run[q]
    BY <1>1, <1>2 DEF RunsDown
<1>3. CASE run'[q].pc \in {"gone", "run", "ticker"} /\ run'[q].busy = {}
    BY <1>3, FS_EmptySet DEF RunsDown, InPass
<1>4. CASE run'[q] \in Marked(run[q])
  <2>1. run'[q].busy = run[q].busy
      BY <1>1, <1>4 DEF Marked, RunType
  <2> QED BY <1>1, <1>4, <2>1 DEF RunsDown
<1>5. Idle.pc = "gone" /\ Idle.busy = {}
    BY DEF Idle
<1>6. CASE \E code : Exits(code)
    BY <1>3, <1>5, <1>6 DEF Exits
<1>7. CASE SpawnsRun \/ StartsBackfill
  <2>1. CASE UNCHANGED run
      BY <1>2, <2>1
  <2>2. ASSUME NEW c, NEW r \in Backfills, run' = [run EXCEPT ![r] = Spawned(c)]
        PROVE  IsFiniteSet(run'[q].busy) /\ RunsDown(q)
    <3>1. Spawned(c).pc \in {"run", "ticker"} /\ Spawned(c).busy = {}
        BY DEF Spawned, Idle
    <3>2. run'[q] = IF q = r THEN Spawned(c) ELSE run[q]
        BY <1>1, <2>2
    <3> QED BY <1>2, <1>3, <3>1, <3>2
  <2> QED BY <1>7, <2>1, <2>2 DEF SpawnsRun, StartsBackfill
<1>8. CASE StopsRemoved
    BY <1>1, <1>2, <1>4, <1>8 DEF StopsRemoved, Marked
<1>9. CASE \E r \in Backfills : Ends(r)
  <2>1. PICK r \in Backfills : Ends(r)
      BY <1>9
  <2>2. run'[q] = IF q = r THEN Idle
                  ELSE [run[q] EXCEPT !.orphan = run[q].orphan \/ active[run[r].chain] = q]
      BY <1>1, <2>1 DEF Ends, RunType
  <2>3. CASE q = r
      BY <1>3, <1>5, <2>2, <2>3
  <2>4. CASE q # r /\ (run[q].orphan \/ active[run[r].chain] = q)
    <3>1. (run[q].orphan \/ active[run[r].chain] = q) = TRUE
        BY <2>4
    <3>2. run'[q] = [run[q] EXCEPT !.orphan = TRUE]
        BY <2>2, <2>4, <3>1
    <3> QED BY <1>4, <3>2 DEF Marked
  <2>5. CASE q # r /\ ~(run[q].orphan \/ active[run[r].chain] = q)
    <3>1. run[q].orphan = FALSE /\ (run[q].orphan \/ active[run[r].chain] = q) = FALSE
        BY <1>1, <2>5 DEF RunType
    <3>2. run'[q] = [run[q] EXCEPT !.orphan = run[q].orphan]
        BY <2>2, <2>5, <3>1
    <3>3. run'[q] = run[q]
        BY <1>1, <3>2 DEF RunType
    <3> QED BY <1>2, <3>3
  <2> QED BY <2>3, <2>4, <2>5
<1>10. CASE UNCHANGED run
    BY <1>2, <1>10
<1> QED BY <1>6, <1>7, <1>8, <1>9, <1>10
    DEF Main, ListsChains, AddsChain, Chooses, LooksForEntry, Rediscovers, WorkerReturns, Summarises

(* Every step.                                                             *)
LEMMA NextRunsDown ==
    Typed /\ BusyFinite /\ [Next]_vars => BusyFinite' /\ \A q \in Backfills : RunsDown(q)
<1> SUFFICES ASSUME Typed, BusyFinite, [Next]_vars, NEW q \in Backfills
             PROVE  IsFiniteSet(run'[q].busy) /\ RunsDown(q)
    BY DEF BusyFinite
<1>1. CASE \E r \in Backfills : Backfill(r) /\ ~Ends(r)
  <2>1. PICK r \in Backfills : Backfill(r) /\ ~Ends(r)
      BY <1>1
  <2>2. CASE q = r
      BY <2>1, <2>2, BackfillRunsDown
  <2>3. CASE q # r
      BY <2>1, <2>3, BackfillRunsDown DEF RunsDown, BusyFinite
  <2> QED BY <2>2, <2>3
<1>2. CASE Main \/ (\E r \in Backfills : Ends(r)) \/ UNCHANGED run
    BY <1>2, OthersRunDown
<1> QED BY <1>1, <1>2 DEF Next, vars, Grows, LosesCopies, Edits, Signals, program

(***************************************************************************)
(* A pass of Backfiller.Run comes to its end: what it has left to do only  *)
(* decreases, whichever blocks fail and whatever others store.             *)
(***************************************************************************)
THEOREM PassesEnd == Spec => PassesRunDown
<1>1. Init => Typed /\ BusyFinite
  <2>1. ASSUME Init PROVE BusyFinite
    <3>1. \A r \in Backfills : run[r].busy = {}
        BY <2>1 DEF Init, Idle
    <3> QED BY <3>1, FS_EmptySet DEF BusyFinite
  <2> QED BY <2>1, InitTyped
<1>2. Typed /\ CopiesOfBlocks /\ BusyFinite /\ [Next]_vars => (Typed /\ BusyFinite)'
    BY NextTyped, NextRunsDown
<1>3. Typed /\ BusyFinite /\ [Next]_vars =>
         [\A r \in Backfills :
            InPass(run[r]) /\ run'[r] # run[r] =>
              ~InPass(run'[r]) \/ run'[r] \in Marked(run[r]) \/ Left(run'[r]) < Left(run[r])]_vars
    BY NextRunsDown DEF RunsDown
<1> QED BY <1>1, <1>2, <1>3, CopiesHold, PTL DEF Spec, PassesRunDown
=============================================================================
