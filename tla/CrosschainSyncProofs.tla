------------------------ MODULE CrosschainSyncProofs ------------------------
(***************************************************************************)
(* Theorems of CrosschainSync, for any number of chains, heights, tables,  *)
(* processes and writers.                                                  *)
(***************************************************************************)
EXTENDS CrosschainSync, SetsOfNumbers

-----------------------------------------------------------------------------
(* Statements and their places *)

InsertOf(t) == Statement("insert", t, Position(WriteOrder, t))
CreateOf(t) == Statement("create", t, Position(SyncOrder, t))
DropOf(t) == Statement("drop", t, DropAt(t))
FunctionOf(t) == Statement("function", t, DropAt(t) + 1)
DeleteOf(t) == Statement("delete", t, DeleteAt(t))

AllStatements ==
    [kind : {"insert", "create", "drop", "function", "delete"}, table : Tables, at : Nat]

(* Every table has a place in the order its statements are made in.        *)
LEMMA Positions ==
    /\ Len(SyncOrder) \in Nat
    /\ \A t \in Tables : Position(WriteOrder, t) \in Nat
    /\ \A t \in Synced : Position(SyncOrder, t) \in Nat /\ Position(SyncOrder, t) <= Len(SyncOrder)
<1>1. DOMAIN SyncOrder = 1..15 /\ Len(SyncOrder) = 15 /\ DOMAIN WriteOrder = 1..19
    BY DEF SyncOrder, WriteOrder
<1>2. ASSUME NEW order, NEW t \in Elements(order)
      PROVE  Position(order, t) \in DOMAIN order
    BY DEF Elements, Position
<1>3. Tables \subseteq Elements(WriteOrder) /\ Synced \subseteq Elements(SyncOrder)
    BY ConstantsAssumption DEF Synced, SyncTables
<1> QED
    BY <1>1, <1>2, <1>3

(* The transactions consist of such statements, told apart by their kind   *)
(* and table.                                                              *)
LEMMA StatementsTyped ==
    /\ \A h \in Heights : StatementsOfWrite(h) \subseteq AllStatements
    /\ StatementsOfSetup \subseteq AllStatements
    /\ StatementsOfRemoval \subseteq AllStatements
    /\ Synced \subseteq Tables /\ \A h \in Heights : Content[h] \subseteq Tables
<1>1. Synced \subseteq Tables /\ \A h \in Heights : Content[h] \subseteq Tables
    BY ConstantsAssumption DEF Synced
<1>2. \A h \in Heights : StatementsOfWrite(h) \subseteq AllStatements
    BY <1>1, Positions DEF StatementsOfWrite, Statement, AllStatements
<1>3. StatementsOfSetup \subseteq AllStatements
    BY <1>1, Positions DEF StatementsOfSetup, Statement, AllStatements
<1>4. \A t \in Synced : DropAt(t) \in Nat /\ DropAt(t) + 1 \in Nat /\ DeleteAt(t) \in Nat
    BY Positions DEF DropAt, DeleteAt
<1>5. StatementsOfRemoval \subseteq AllStatements
    BY <1>1, <1>4 DEF StatementsOfRemoval, Statement, AllStatements
<1> QED
    BY <1>1, <1>2, <1>3, <1>5

(* All drops of a removal come before all of its deletes.                  *)
LEMMA DropsComeFirst ==
    \A t, u \in Synced : DropOf(t).at < DeleteOf(u).at
<1>1. \A t, u \in Synced : DropAt(t) < DeleteAt(u)
    BY Positions DEF DropAt, DeleteAt
<1> QED
    BY <1>1 DEF DropOf, DeleteOf, Statement

-----------------------------------------------------------------------------
(* The inductive invariant *)

Hold(c, t, shared) == [chain |-> c, table |-> t, shared |-> shared]

SessionRecords ==
    [op : {"idle", "write", "setup", "remove"},
     chain : Chains \union {None}, height : Heights \union {None},
     view : Views \union {None}, todo : SUBSET AllStatements,
     locked : SUBSET [chain : Chains, table : Tables, shared : BOOLEAN],
     new : SUBSET Tables, fired : SUBSET Tables,
     deleted : SUBSET (Chains \X Tables \X Heights), broken : BOOLEAN]

SessionsTyped == session \in [Sessions -> SessionRecords]

TablesTyped ==
    /\ rows \in [Chains -> [Tables -> [Heights -> Views \union {None}]]]
    /\ copy \in [Chains -> [Tables -> [Heights -> Views \union {None}]]]
    /\ triggers \subseteq Chains \X Synced
    /\ has \in [Processes -> SUBSET Chains]
    /\ contended \subseteq Chains
    /\ missed \subseteq Chains \X Tables \X Heights
    /\ rewritten \subseteq Chains \X Tables \X Heights

\* The tables a write has inserted into, each of which it keeps locked.
Done(s) == {t \in Content[session[s].height] : InsertOf(t) \notin session[s].todo}

IsWrite(s) ==
    /\ s \in Writers
    /\ session[s].chain \in Chains
    /\ session[s].height \in Heights
    /\ session[s].view = View[s]
    /\ session[s].todo \subseteq StatementsOfWrite(session[s].height)
    /\ ~session[s].broken
    /\ session[s].fired \subseteq session[s].new
    /\ session[s].new \subseteq Done(s)
    /\ \A t \in Done(s) : Hold(session[s].chain, t, TRUE) \in session[s].locked

IsSetup(s) ==
    /\ s \in Processes
    /\ session[s].chain \in Chains
    /\ session[s].height = None
    /\ session[s].todo \subseteq StatementsOfSetup
    /\ ~session[s].broken

\* A removal keeps the tables whose triggers it drops, and drops them all
\* before it deletes.
IsRemoval(s) ==
    /\ s \in Processes
    /\ session[s].chain \in Chains
    /\ session[s].height = None
    /\ session[s].todo \subseteq StatementsOfRemoval
    /\ session[s].deleted \subseteq {session[s].chain} \X Synced \X Heights
    /\ ~session[s].broken =>
          /\ \A t \in Dropped(s) :
                /\ t \in Synced /\ DropOf(t) \notin session[s].todo
                /\ Hold(session[s].chain, t, FALSE) \in session[s].locked
          /\ \A t, u \in Synced :
                DeleteOf(t) \notin session[s].todo => DropOf(u) \notin session[s].todo

Sound(s) ==
    /\ session[s].op = "idle" => session[s] = Idle
    /\ session[s].op = "write" => IsWrite(s)
    /\ session[s].op = "setup" => IsSetup(s)
    /\ session[s].op = "remove" => IsRemoval(s)

\* No two transactions hold locks that conflict ...
LocksApart ==
    \A s, u \in Sessions : s # u =>
        \A a \in session[s].locked, b \in session[u].locked : ~Conflict(a, b)

\* ... nor have inserted the same row.
RowsApart ==
    \A s, u \in Sessions :
        /\ s # u
        /\ session[s].op = "write" /\ session[u].op = "write"
        /\ session[s].chain = session[u].chain
        /\ session[s].height = session[u].height
        => Done(s) \intersect Done(u) = {}

SessionsSound == SessionsTyped /\ (\A s \in Sessions : Sound(s)) /\ LocksApart /\ RowsApart

\* What a write found is still so: the triggers that have fired for it, and
\* the rows that were new.
WriteKnows(s) ==
    session[s].op = "write" =>
        /\ \A t \in session[s].fired : <<session[s].chain, t>> \in triggers
        /\ \A t \in Done(s) : t \in session[s].new
              <=> rows[session[s].chain][t][session[s].height] = None

\* What a removal found is still so: the rows it deletes are all there are,
\* and the triggers it drops, unless the chain is set up at the same time.
RemovalKnows(s) ==
    session[s].op = "remove" =>
        /\ \A t \in Synced, h \in Heights :
              <<session[s].chain, t, h>> \in session[s].deleted
                  => rows[session[s].chain][t][h] # None
        /\ ~session[s].broken => \A t \in Dropped(s) :
              DeleteOf(t) \notin session[s].todo =>
                  \A h \in Heights : copy[session[s].chain][t][h] # None
                      => <<session[s].chain, t, h>> \in session[s].deleted
        /\ (~session[s].broken /\ session[s].chain \notin contended) =>
              \A t \in Synced : DropOf(t) \notin session[s].todo =>
                  (t \in Dropped(s) <=> <<session[s].chain, t>> \in triggers)

ContentionSeen ==
    \A s, u \in Sessions :
        session[s].op = "setup" /\ session[u].op = "remove" /\ session[s].chain = session[u].chain
            => session[s].chain \in contended

Known == (\A s \in Sessions : WriteKnows(s) /\ RemovalKnows(s)) /\ ContentionSeen

IInv ==
    /\ TablesTyped /\ SessionsSound /\ Known
    /\ NoOrphanCopies /\ TriggersTogether /\ CopyTellsInsertedRows


-----------------------------------------------------------------------------
(* Statements of a session *)

(* What a session executes next is the first of the statements it has      *)
(* left.                                                                   *)
LEMMA FollowingIsFirst ==
    ASSUME SessionsTyped, NEW s \in Sessions, session[s].todo # {}
    PROVE  /\ Following(s) \in session[s].todo /\ Following(s) \in AllStatements
           /\ \A y \in session[s].todo : Following(s).at <= y.at
<1> DEFINE todo == session[s].todo
           places == {n \in Nat : \E x \in todo : x.at = n}
           First(x) == \A y \in todo : x.at <= y.at
<1>1. todo \subseteq AllStatements
    BY DEF SessionsTyped, SessionRecords
<1>2. \A x \in todo : x.at \in places
    BY <1>1 DEF AllStatements
<1>3. places \subseteq Nat /\ places # {}
    BY <1>2
<1>4. PICK n \in places : \A m \in places : n <= m
    BY <1>3, LeastElement
<1>5. PICK x \in todo : x.at = n
    BY <1>4
<1>6. First(x)
    BY <1>2, <1>4, <1>5
<1>7. Following(s) = CHOOSE y \in todo : First(y)
    BY DEF Following
<1> HIDE DEF First
<1>8. Following(s) \in todo /\ First(Following(s))
    BY <1>5, <1>6, <1>7
<1> QED
    BY <1>1, <1>8 DEF First

(* An INSERT of a write is one of its own.                                 *)
LEMMA InsertIsOwn ==
    ASSUME SessionsSound, NEW s \in Sessions, session[s].op = "write", session[s].todo # {}
    PROVE  \E t \in Content[session[s].height] :
              Following(s) = InsertOf(t) /\ Following(s).kind = "insert" /\ Following(s).table = t
<1>1. Following(s) \in StatementsOfWrite(session[s].height)
    BY FollowingIsFirst DEF SessionsSound, Sound, IsWrite
<1> QED
    BY <1>1 DEF StatementsOfWrite, InsertOf, Statement

(* A set-up only creates triggers.                                         *)
LEMMA CreateIsOwn ==
    ASSUME SessionsSound, NEW s \in Sessions, session[s].op = "setup", session[s].todo # {}
    PROVE  Following(s).kind = "create" /\ Following(s).table \in Synced
<1>1. Following(s) \in StatementsOfSetup
    BY FollowingIsFirst DEF SessionsSound, Sound, IsSetup
<1> QED
    BY <1>1 DEF StatementsOfSetup, Statement

(* A removal drops a trigger or its function, or deletes.                  *)
LEMMA RemovalIsOwn ==
    ASSUME SessionsSound, NEW s \in Sessions, session[s].op = "remove", session[s].todo # {}
    PROVE  \E t \in Synced :
              /\ Following(s).table = t
              /\ \/ Following(s) = DropOf(t) /\ Following(s).kind = "drop"
                 \/ Following(s) = FunctionOf(t) /\ Following(s).kind = "function"
                 \/ Following(s) = DeleteOf(t) /\ Following(s).kind = "delete"
<1>1. Following(s) \in StatementsOfRemoval
    BY FollowingIsFirst DEF SessionsSound, Sound, IsRemoval
<1> QED
    BY <1>1 DEF StatementsOfRemoval, DropOf, FunctionOf, DeleteOf, Statement

(* The kind of the statement tells the transaction.                        *)
LEMMA KindTellsOp ==
    ASSUME SessionsSound, NEW s \in Sessions, session[s].todo # {}
    PROVE  /\ session[s].op # "idle"
           /\ Following(s).kind = "insert" => session[s].op = "write"
           /\ Following(s).kind = "create" => session[s].op = "setup"
           /\ Following(s).kind \in {"drop", "function", "delete"} => session[s].op = "remove"
<1>1. session[s].op \in {"idle", "write", "setup", "remove"}
    BY DEF SessionsSound, SessionsTyped, SessionRecords
<1>2. session[s].op # "idle"
    BY DEF SessionsSound, Sound, Idle
<1> QED
    BY <1>1, <1>2, InsertIsOwn, CreateIsOwn, RemovalIsOwn

(* The statements of a transaction are told apart.                         *)
LEMMA StatementsDiffer ==
    ASSUME NEW t, NEW u
    PROVE  /\ InsertOf(t) = InsertOf(u) => t = u
           /\ DropOf(t) = DropOf(u) => t = u
           /\ DeleteOf(t) = DeleteOf(u) => t = u
           /\ DropOf(t) # FunctionOf(u) /\ DropOf(t) # DeleteOf(u) /\ FunctionOf(t) # DeleteOf(u)
BY DEF InsertOf, DropOf, FunctionOf, DeleteOf, Statement

(* A session that nobody makes wait has no lock in conflict with another's *)
(* before it takes the next, nor after.                                    *)
LEMMA LocksStayApart ==
    ASSUME SessionsSound, NEW s \in Sessions, Ready(s),
           \A u \in Sessions : u # s => session'[u].locked \subseteq session[u].locked,
           session'[s].locked \subseteq session[s].locked \union Lock(s)
    PROVE  LocksApart'
<1>1. \A u \in Sessions : u # s =>
        \A a \in Lock(s), b \in session[u].locked : ~Conflict(a, b)
    BY DEF Ready, WaitsFor
<1>2. \A a, b : Conflict(a, b) => Conflict(b, a)
    BY DEF Conflict
<1> QED
    BY <1>1, <1>2 DEF SessionsSound, LocksApart, Conflict

-----------------------------------------------------------------------------
(* Steps on the sessions *)

found == <<rows, copy, triggers, contended>>

(* A session that does nothing is sound, and knows what it knew.           *)
LEMMA Bystander ==
    ASSUME NEW u \in Sessions, session'[u] = session[u]
    PROVE  /\ Done(u)' = Done(u) /\ Dropped(u)' = Dropped(u)
           /\ Sound(u) => Sound(u)'
           /\ (UNCHANGED <<rows, triggers>> /\ WriteKnows(u)) => WriteKnows(u)'
           /\ (UNCHANGED <<rows, copy, triggers>> /\ contended \subseteq contended' /\ RemovalKnows(u))
                 => RemovalKnows(u)'
<1>1. Done(u)' = Done(u) /\ Dropped(u)' = Dropped(u)
    BY DEF Done, Dropped
<1>2. Sound(u) => Sound(u)'
    BY <1>1 DEF Sound, IsWrite, IsSetup, IsRemoval, Idle
<1>3. (UNCHANGED <<rows, triggers>> /\ WriteKnows(u)) => WriteKnows(u)'
    BY <1>1 DEF WriteKnows
<1>4. (UNCHANGED <<rows, copy, triggers>> /\ contended \subseteq contended' /\ RemovalKnows(u))
         => RemovalKnows(u)'
    BY <1>1 DEF RemovalKnows
<1> QED
    BY <1>1, <1>2, <1>3, <1>4

(* The idle session is sound.                                              *)
LEMMA IdleIsSound ==
    /\ Idle \in SessionRecords /\ Idle.op = "idle" /\ Idle.locked = {}
    /\ \A u \in Sessions : session'[u] = Idle => Sound(u)' /\ WriteKnows(u)' /\ RemovalKnows(u)'
<1>1. Idle \in SessionRecords /\ Idle.op = "idle" /\ Idle.locked = {}
    BY DEF Idle, SessionRecords
<1>2. ASSUME NEW u \in Sessions, session'[u] = Idle
      PROVE  Sound(u)' /\ WriteKnows(u)' /\ RemovalKnows(u)'
    <2>1. session'[u].op = "idle"
        BY <1>1, <1>2
    <2>2. Sound(u)'
        BY <1>2, <2>1 DEF Sound, Idle
    <2> QED
        BY <2>1, <2>2 DEF WriteKnows, RemovalKnows
<1> QED
    BY <1>1, <1>2

(* What ends a transaction, or fails a statement of a removal, makes the   *)
(* session hold less, and know nothing new.                                *)
Breaks(u) ==
    /\ session[u].op = "remove"
    /\ session'[u] \in SessionRecords
    /\ session'[u].op = "remove"
    /\ session'[u].chain = session[u].chain
    /\ session'[u].height = session[u].height
    /\ session'[u].deleted = session[u].deleted
    /\ session'[u].todo \subseteq session[u].todo
    /\ session'[u].locked \subseteq session[u].locked
    /\ session'[u].broken

Lessens ==
    /\ session' = [u \in Sessions |-> session'[u]]
    /\ \A u \in Sessions : session'[u] = session[u] \/ session'[u] = Idle \/ Breaks(u)

(* Sessions that hold less stay sound.                                     *)
LEMMA LessIsSound ==
    ASSUME SessionsSound, Lessens
    PROVE  SessionsSound'
<1>1. \A u \in Sessions : session'[u] \in SessionRecords
    BY IdleIsSound DEF SessionsSound, SessionsTyped, Lessens, Breaks
<1>2. SessionsTyped'
    BY <1>1 DEF SessionsTyped, Lessens
<1>3. ASSUME NEW u \in Sessions
      PROVE  Sound(u)' /\ session'[u].locked \subseteq session[u].locked
    <2>1. CASE session'[u] = session[u]
        BY <2>1, Bystander DEF SessionsSound
    <2>2. CASE session'[u] = Idle
        BY <2>2, IdleIsSound
    <2>3. CASE Breaks(u)
        <3>1. IsRemoval(u)
            BY <2>3 DEF Breaks, SessionsSound, Sound
        <3>2. IsRemoval(u)'
            BY <2>3, <3>1 DEF Breaks, IsRemoval
        <3> QED
            BY <2>3, <3>2 DEF Breaks, Sound
    <2> QED
        BY <2>1, <2>2, <2>3 DEF Lessens
<1>4. LocksApart'
    BY <1>3 DEF SessionsSound, LocksApart, Conflict
<1>5. RowsApart'
    <2>1. \A u \in Sessions : session'[u].op = "write" => session'[u] = session[u]
        BY IdleIsSound DEF Lessens, Breaks
    <2> QED
        BY <2>1, Bystander DEF SessionsSound, RowsApart
<1> QED
    BY <1>2, <1>3, <1>4, <1>5 DEF SessionsSound

(* ... and what they know stays so, while the tables stay.                 *)
LEMMA LessIsKnown ==
    ASSUME SessionsSound, Known, Lessens, UNCHANGED found
    PROVE  Known'
<1>1. ASSUME NEW u \in Sessions
      PROVE  WriteKnows(u)' /\ RemovalKnows(u)'
    <2>1. CASE session'[u] = session[u]
        BY <2>1, Bystander DEF Known, found
    <2>2. CASE session'[u] = Idle
        BY <2>2, IdleIsSound
    <2>3. CASE Breaks(u)
        BY <2>3 DEF Breaks, Known, WriteKnows, RemovalKnows, found
    <2> QED
        BY <2>1, <2>2, <2>3 DEF Lessens
<1>2. ContentionSeen'
    <2>1. \A u \in Sessions : session'[u].op \in {"setup", "remove"} =>
            session'[u].op = session[u].op /\ session'[u].chain = session[u].chain
        BY IdleIsSound DEF Lessens, Breaks
    <2> QED
        BY <2>1 DEF Known, ContentionSeen, found
<1> QED
    BY <1>1, <1>2 DEF Known

(* Rollbacks, failed statements and crashes are such steps.                *)
LEMMA FailuresLessen ==
    ASSUME SessionsSound, NEW s \in Sessions,
           \/ Rollback(s) \/ Refused(s)
           \/ (session[s].todo # {} /\ ~session[s].broken /\ FailStatement(s))
           \/ \E p \in Processes : Crash(p)
    PROVE  Lessens /\ UNCHANGED tables
<1> USE DEF SessionsSound, SessionsTyped
<1>1. ASSUME Rollback(s) PROVE Lessens /\ UNCHANGED tables
    BY <1>1 DEF Rollback, End, Lessens
<1>2. CASE \E p \in Processes : Crash(p)
    BY <1>2 DEF Crash, Lessens
<1>3. CASE Refused(s)
    <2>1. session[s].op = "remove"
        <3>1. session[s].op # "idle" /\ session[s].op \in {"idle", "write", "setup", "remove"}
            BY <1>3, KindTellsOp DEF Refused, SessionRecords
        <3>2. session[s].op \in {"write", "setup"} => ~session[s].broken
            BY DEF Sound, IsWrite, IsSetup
        <3> QED
            BY <1>3, <3>1, <3>2 DEF Refused
    <2>2. session' = [session EXCEPT ![s] = [session[s] EXCEPT !.todo = Remaining(s)]]
        BY <1>3 DEF Refused
    <2>3. Remaining(s) \subseteq session[s].todo /\ session[s] \in SessionRecords
        BY DEF Remaining
    <2>4. Breaks(s) /\ \A u \in Sessions : u # s => session'[u] = session[u]
        <3>1. Remaining(s) \in SUBSET AllStatements
            BY <2>3 DEF SessionRecords
        <3>2. session'[s] = [session[s] EXCEPT !.todo = Remaining(s)]
            BY <2>2
        <3>3. session'[s] \in SessionRecords /\ session'[s].todo = Remaining(s)
            BY <2>3, <3>1, <3>2 DEF SessionRecords
        <3>4. /\ session'[s].op = session[s].op /\ session'[s].chain = session[s].chain
              /\ session'[s].height = session[s].height /\ session'[s].deleted = session[s].deleted
              /\ session'[s].locked = session[s].locked /\ session'[s].broken = session[s].broken
            BY <2>3, <3>2 DEF SessionRecords
        <3> QED
            BY <1>3, <2>1, <2>2, <2>3, <3>3, <3>4 DEF Breaks, Refused
    <2> QED
        BY <1>3, <2>2, <2>4 DEF Lessens, Refused
<1>4. CASE session[s].todo # {} /\ ~session[s].broken /\ FailStatement(s)
    <2>1. CASE session[s].op # "remove"
        BY <1>1, <1>4, <2>1 DEF FailStatement
    <2>2. CASE session[s].op = "remove"
        <3>1. /\ session' = [session EXCEPT ![s] =
                    [session[s] EXCEPT !.broken = TRUE, !.todo = Remaining(s), !.locked = {}]]
              /\ UNCHANGED tables
            BY <1>4, <2>2 DEF FailStatement
        <3>2. Remaining(s) \subseteq session[s].todo /\ session[s] \in SessionRecords
            BY DEF Remaining
        <3>3. Breaks(s) /\ \A u \in Sessions : u # s => session'[u] = session[u]
            BY <2>2, <3>1, <3>2 DEF Breaks, SessionRecords
        <3> QED
            BY <3>1, <3>3 DEF Lessens
    <2> QED
        BY <2>1, <2>2
<1> QED
    BY <1>1, <1>2, <1>3, <1>4

\* One session moves, the others stand by.
Moves(s) ==
    /\ session' = [u \in Sessions |-> session'[u]]
    /\ session'[s] \in SessionRecords
    /\ \A u \in Sessions : u # s => session'[u] = session[u]

(* A step that waits for its locks keeps the sessions sound if the session *)
(* that takes it is.                                                       *)
LEMMA MoverIsSound ==
    ASSUME SessionsSound, NEW s \in Sessions, Moves(s), Sound(s)', LocksApart',
           \A u \in Sessions :
              /\ u # s
              /\ session'[s].op = "write" /\ session[u].op = "write"
              /\ session'[s].chain = session[u].chain
              /\ session'[s].height = session[u].height
              => Done(s)' \intersect Done(u) = {}
    PROVE  SessionsSound'
<1>1. SessionsTyped'
    BY DEF Moves, SessionsSound, SessionsTyped
<1>2. \A u \in Sessions : Sound(u)'
    BY Bystander DEF Moves, SessionsSound
<1>3. RowsApart'
    BY Bystander DEF Moves, SessionsSound, RowsApart
<1> QED
    BY <1>1, <1>2, <1>3 DEF SessionsSound

(* The others know what they knew, while rows, copies and triggers stay.   *)
LEMMA MoverIsKnown ==
    ASSUME Known, NEW s \in Sessions, Moves(s), WriteKnows(s)', RemovalKnows(s)', ContentionSeen',
           UNCHANGED <<rows, copy, triggers>>, contended \subseteq contended'
    PROVE  Known'
<1>1. \A u \in Sessions : WriteKnows(u)' /\ RemovalKnows(u)'
    BY Bystander DEF Moves, Known
<1> QED
    BY <1>1 DEF Known

(* A write begins.                                                         *)
LEMMA StartWriteKeeps ==
    ASSUME SessionsSound, Known,
           NEW w \in Writers, NEW c \in Chains, NEW h \in Heights, StartWrite(w, c, h)
    PROVE  SessionsSound' /\ Known'
<1> DEFINE x == [Idle EXCEPT !.op = "write", !.chain = c, !.height = h,
                             !.view = View[w], !.todo = StatementsOfWrite(h)]
<1>1. /\ session' = [session EXCEPT ![w] = x]
      /\ UNCHANGED <<rows, copy, triggers, contended>>
    BY DEF StartWrite, tables
<1>2. w \in Sessions /\ View[w] \in Views
    BY DEF Sessions, Views
<1>3. /\ x.op = "write" /\ x.chain = c /\ x.height = h /\ x.view = View[w]
      /\ x.todo = StatementsOfWrite(h) /\ x.locked = {} /\ x.new = {} /\ x.fired = {}
      /\ x.deleted = {} /\ x.broken = FALSE /\ x \in SessionRecords
    BY <1>2, StatementsTyped DEF Idle, SessionRecords
<1> HIDE DEF x
<1>4. session'[w] = x /\ Moves(w)
    BY <1>1, <1>2, <1>3 DEF Moves, SessionsSound, SessionsTyped
<1>5. Done(w)' = {}
    BY <1>3, <1>4 DEF Done, StatementsOfWrite, InsertOf
<1>6. Sound(w)' /\ WriteKnows(w)' /\ RemovalKnows(w)'
    BY <1>3, <1>4, <1>5 DEF Sound, IsWrite, WriteKnows, RemovalKnows
<1>7. LocksApart'
    BY <1>3, <1>4 DEF SessionsSound, LocksApart, Moves, Conflict
<1>8. ContentionSeen'
    BY <1>1, <1>3, <1>4 DEF Known, ContentionSeen, Moves
<1>9. contended \subseteq contended' /\ UNCHANGED <<rows, copy, triggers>>
    BY <1>1
<1> QED
    BY <1>2, <1>4, <1>5, <1>6, <1>7, <1>8, <1>9, MoverIsSound, MoverIsKnown

(* A set-up begins, and sees the removals of its chain.                    *)
LEMMA StartSetupKeeps ==
    ASSUME SessionsSound, Known, NEW p \in Processes, NEW c \in Chains, StartSetup(p, c)
    PROVE  SessionsSound' /\ Known'
<1> DEFINE x == [Idle EXCEPT !.op = "setup", !.chain = c, !.todo = StatementsOfSetup]
<1>1. /\ session' = [session EXCEPT ![p] = x]
      /\ UNCHANGED <<rows, copy, triggers>>
      /\ contended' = IF \E q \in Processes : session[q].op = "remove" /\ session[q].chain = c
                      THEN contended \union {c} ELSE contended
    BY DEF StartSetup, Contend
<1>2. p \in Sessions /\ p \notin Writers
    BY ConstantsAssumption DEF Sessions
<1>3. /\ x.op = "setup" /\ x.chain = c /\ x.height = None /\ x.view = None
      /\ x.todo = StatementsOfSetup /\ x.locked = {} /\ x.new = {} /\ x.fired = {}
      /\ x.deleted = {} /\ x.broken = FALSE /\ x \in SessionRecords
    BY <1>2, StatementsTyped DEF Idle, SessionRecords
<1> HIDE DEF x
<1>4. session'[p] = x /\ Moves(p)
    BY <1>1, <1>2, <1>3 DEF Moves, SessionsSound, SessionsTyped
<1>6. Sound(p)' /\ WriteKnows(p)' /\ RemovalKnows(p)'
    BY <1>3, <1>4 DEF Sound, IsSetup, WriteKnows, RemovalKnows
<1>7. LocksApart'
    BY <1>3, <1>4 DEF SessionsSound, LocksApart, Moves, Conflict
<1>8. ContentionSeen'
    <2>1. \A u \in Sessions : session[u].op = "remove" => u \in Processes
        BY DEF SessionsSound, Sound, IsRemoval
    <2> QED
        BY <1>1, <1>3, <1>4, <2>1 DEF Known, ContentionSeen, Moves
<1>9. contended \subseteq contended' /\ UNCHANGED <<rows, copy, triggers>>
    BY <1>1
<1> QED
    BY <1>2, <1>3, <1>4, <1>6, <1>7, <1>8, <1>9, MoverIsSound, MoverIsKnown

(* A removal begins, and sees the set-ups of its chain.                    *)
LEMMA StartRemovalKeeps ==
    ASSUME SessionsSound, Known, NEW p \in Processes, NEW c \in Chains, StartRemoval(p, c)
    PROVE  SessionsSound' /\ Known'
<1> DEFINE x == [Idle EXCEPT !.op = "remove", !.chain = c, !.todo = StatementsOfRemoval]
<1>1. /\ session' = [session EXCEPT ![p] = x]
      /\ UNCHANGED <<rows, copy, triggers>>
      /\ contended' = IF \E q \in Processes : session[q].op = "setup" /\ session[q].chain = c
                      THEN contended \union {c} ELSE contended
    BY DEF StartRemoval, Contend
<1>2. p \in Sessions /\ p \notin Writers
    BY ConstantsAssumption DEF Sessions
<1>3. /\ x.op = "remove" /\ x.chain = c /\ x.height = None /\ x.view = None
      /\ x.todo = StatementsOfRemoval /\ x.locked = {} /\ x.new = {} /\ x.fired = {}
      /\ x.deleted = {} /\ x.broken = FALSE /\ x \in SessionRecords
    BY <1>2, StatementsTyped DEF Idle, SessionRecords
<1> HIDE DEF x
<1>4. session'[p] = x /\ Moves(p)
    BY <1>1, <1>2, <1>3 DEF Moves, SessionsSound, SessionsTyped
<1>5. Dropped(p)' = {} /\ \A t \in Synced : DropOf(t) \in x.todo /\ DeleteOf(t) \in x.todo
    BY <1>3, <1>4 DEF Dropped, StatementsOfRemoval, DropOf, DeleteOf
<1>6. Sound(p)' /\ WriteKnows(p)' /\ RemovalKnows(p)'
    BY <1>3, <1>4, <1>5 DEF Sound, IsRemoval, WriteKnows, RemovalKnows
<1>7. LocksApart'
    BY <1>3, <1>4 DEF SessionsSound, LocksApart, Moves, Conflict
<1>8. ContentionSeen'
    <2>1. \A u \in Sessions : session[u].op = "setup" => u \in Processes
        BY DEF SessionsSound, Sound, IsSetup
    <2> QED
        BY <1>1, <1>3, <1>4, <2>1 DEF Known, ContentionSeen, Moves
<1>9. contended \subseteq contended' /\ UNCHANGED <<rows, copy, triggers>>
    BY <1>1
<1> QED
    BY <1>2, <1>3, <1>4, <1>6, <1>7, <1>8, <1>9, MoverIsSound, MoverIsKnown

LockRecords == [chain : Chains, table : Tables, shared : BOOLEAN]

(* A statement takes one from what is left, and its lock.                  *)
LEMMA AdvancedFields ==
    ASSUME NEW s, session[s] \in SessionRecords, Lock(s) \subseteq LockRecords
    PROVE  /\ Advanced(s) \in SessionRecords
           /\ Advanced(s).op = session[s].op /\ Advanced(s).chain = session[s].chain
           /\ Advanced(s).height = session[s].height /\ Advanced(s).view = session[s].view
           /\ Advanced(s).todo = Remaining(s)
           /\ Advanced(s).locked = session[s].locked \union Lock(s)
           /\ Advanced(s).new = session[s].new /\ Advanced(s).fired = session[s].fired
           /\ Advanced(s).deleted = session[s].deleted /\ Advanced(s).broken = session[s].broken
<1> DEFINE left == Remaining(s)
           held == session[s].locked \union Lock(s)
<1>1. left \in SUBSET AllStatements
    BY DEF Remaining, SessionRecords
<1>2. held \in SUBSET [chain : Chains, table : Tables, shared : BOOLEAN]
    BY DEF SessionRecords, LockRecords
<1>3. Advanced(s) = [session[s] EXCEPT !.todo = left, !.locked = held]
    BY DEF Advanced
<1> HIDE DEF left, held
<1>4. Advanced(s) \in SessionRecords
    BY <1>1, <1>2, <1>3 DEF SessionRecords
<1>5. /\ Advanced(s).op = session[s].op /\ Advanced(s).chain = session[s].chain
      /\ Advanced(s).height = session[s].height /\ Advanced(s).view = session[s].view
      /\ Advanced(s).todo = left /\ Advanced(s).locked = held
      /\ Advanced(s).new = session[s].new /\ Advanced(s).fired = session[s].fired
      /\ Advanced(s).deleted = session[s].deleted /\ Advanced(s).broken = session[s].broken
    BY <1>3 DEF SessionRecords
<1> QED
    BY <1>4, <1>5 DEF left, held

(* A row is inserted: the trigger's table and the row are the session's    *)
(* own until it ends.                                                      *)
LEMMA InsertKeeps ==
    ASSUME TablesTyped, SessionsSound, Known, NEW s \in Sessions, Insert(s)
    PROVE  SessionsSound' /\ Known'
<1> DEFINE c == session[s].chain
           h == session[s].height
           t == Following(s).table
           new == IF IsNew(s, t) THEN session[s].new \union {t} ELSE session[s].new
           fired == IF Fires(s, t) THEN session[s].fired \union {t} ELSE session[s].fired
<1>1. /\ session[s].todo # {} /\ Following(s).kind = "insert" /\ ~session[s].broken /\ Ready(s)
      /\ session' = [session EXCEPT ![s] = [Advanced(s) EXCEPT
              !.new = IF IsNew(s, t) THEN @ \union {t} ELSE @,
              !.fired = IF Fires(s, t) THEN @ \union {t} ELSE @]]
      /\ UNCHANGED <<rows, copy, triggers, contended>>
    BY DEF Insert, At, Execute, tables
<1>2. session[s].op = "write" /\ IsWrite(s) /\ session[s] \in SessionRecords
    BY <1>1, KindTellsOp DEF SessionsSound, Sound, SessionsTyped
<1>3. t \in Content[h] /\ t \in Tables /\ Following(s) = InsertOf(t) /\ c \in Chains /\ h \in Heights
    BY <1>1, <1>2, InsertIsOwn, StatementsTyped DEF IsWrite
<1>4. Lock(s) = {Hold(c, t, TRUE)} /\ Lock(s) \subseteq LockRecords
    BY <1>1, <1>3 DEF Lock, At, Hold, LockRecords
<1>5. PICK a \in SessionRecords :
        /\ a = Advanced(s) /\ a.op = "write" /\ a.chain = c /\ a.height = h
        /\ a.view = session[s].view /\ a.deleted = session[s].deleted
        /\ a.todo = Remaining(s) /\ a.locked = session[s].locked \union Lock(s)
        /\ a.new = session[s].new /\ a.fired = session[s].fired /\ ~a.broken
    BY <1>1, <1>2, <1>4, AdvancedFields
<1>6. session'[s] = [a EXCEPT !.new = new, !.fired = fired]
    BY <1>1, <1>5 DEF SessionsSound, SessionsTyped
<1>8. /\ session'[s].op = "write" /\ session'[s].chain = c /\ session'[s].height = h
      /\ session'[s].view = session[s].view /\ session'[s].deleted = session[s].deleted
      /\ session'[s].todo = Remaining(s) /\ session'[s].locked = session[s].locked \union Lock(s)
      /\ session'[s].new = new /\ session'[s].fired = fired /\ ~session'[s].broken
  <2> HIDE DEF new, fired
  <2> QED
      BY <1>5, <1>6 DEF SessionRecords
<1>9. new \in SUBSET Tables /\ fired \in SUBSET Tables
    BY <1>2, <1>3 DEF SessionRecords
<1>10. Moves(s)
  <2>1. session'[s] \in SessionRecords
    <3> HIDE DEF new, fired
    <3> QED
        BY <1>5, <1>6, <1>9 DEF SessionRecords
  <2> QED
      BY <1>1, <2>1 DEF Moves, SessionsSound, SessionsTyped
<1>11. Remaining(s) = session[s].todo \ {InsertOf(t)} /\ InsertOf(t) \in session[s].todo
    BY <1>1, <1>3, FollowingIsFirst DEF Remaining, SessionsSound
<1>12. Done(s)' = Done(s) \union {t} /\ t \notin Done(s)
    BY <1>3, <1>8, <1>11, StatementsDiffer DEF Done
<1>13. /\ t \in new <=> rows[c][t][h] = None
       /\ \A u \in Tables : u # t => (u \in new <=> u \in session[s].new)
       /\ \A u \in Tables : u # t => (u \in fired <=> u \in session[s].fired)
       /\ t \in fired => (t \in new /\ <<c, t>> \in triggers)
    BY <1>2, <1>3, <1>12 DEF IsNew, Fires, IsWrite
<1> HIDE DEF new, fired
<1>14. IsWrite(s)'
  <2>1. fired \subseteq new /\ new \subseteq Done(s) \union {t}
      BY <1>2, <1>9, <1>13 DEF IsWrite
  <2>2. \A u \in Done(s) \union {t} : Hold(c, u, TRUE) \in session'[s].locked
      BY <1>2, <1>4, <1>8 DEF IsWrite
  <2> QED
      BY <1>2, <1>8, <1>11, <1>12, <2>1, <2>2 DEF IsWrite
<1>15. Sound(s)'
    BY <1>8, <1>14 DEF Sound
<1>16. WriteKnows(s)'
  <2>1. WriteKnows(s)
      BY DEF Known
  <2>2. \A u \in fired : <<c, u>> \in triggers
      BY <1>2, <1>9, <1>13, <2>1 DEF WriteKnows
  <2>3. \A u \in Done(s) \union {t} : u \in new <=> rows[c][u][h] = None
    <3>1. Done(s) \subseteq Tables
        BY <1>3, StatementsTyped DEF Done
    <3> QED
        BY <1>2, <1>13, <2>1, <3>1 DEF WriteKnows
  <2> QED
      BY <1>1, <1>8, <1>12, <2>2, <2>3 DEF WriteKnows
<1>17. RemovalKnows(s)' /\ ContentionSeen'
    BY <1>1, <1>2, <1>8, <1>10 DEF RemovalKnows, Known, ContentionSeen, Moves
<1>18. LocksApart'
    BY <1>1, <1>8, <1>10, LocksStayApart DEF Moves
<1>19. ASSUME NEW u \in Sessions, u # s, session[u].op = "write", session[u].chain = c,
              session[u].height = h
       PROVE  Done(s)' \intersect Done(u) = {}
  <2>1. Done(s) \intersect Done(u) = {}
      BY <1>2, <1>19 DEF SessionsSound, RowsApart
  <2>2. t \notin Done(u)
    <3> SUFFICES ASSUME t \in Done(u) PROVE FALSE
        OBVIOUS
    <3>1. Hold(c, t, TRUE) \in session[u].locked
        BY <1>19 DEF SessionsSound, Sound, IsWrite
    <3>2. SameRow(s, u)
        BY <1>1, <1>19, <3>1 DEF SameRow, At, Hold
    <3> QED
        BY <1>1, <1>19, <3>2 DEF Ready, WaitsFor
  <2> QED
      BY <1>12, <2>1, <2>2
<1> QED
    BY <1>1, <1>8, <1>10, <1>15, <1>16, <1>17, <1>18, <1>19, MoverIsSound, MoverIsKnown

(* A trigger is created.                                                   *)
LEMMA CreateKeeps ==
    ASSUME TablesTyped, SessionsSound, Known, NEW s \in Sessions, CreateTrigger(s)
    PROVE  SessionsSound' /\ Known'
<1>1. /\ session[s].todo # {} /\ Following(s).kind = "create" /\ ~session[s].broken /\ Ready(s)
      /\ session' = [session EXCEPT ![s] = Advanced(s)]
      /\ UNCHANGED <<rows, copy, triggers, contended>>
    BY DEF CreateTrigger, At, Execute, tables
<1>2. session[s].op = "setup" /\ IsSetup(s) /\ session[s] \in SessionRecords
    BY <1>1, KindTellsOp DEF SessionsSound, Sound, SessionsTyped
<1>3. Lock(s) \subseteq LockRecords
    BY <1>1, <1>2, CreateIsOwn, StatementsTyped DEF Lock, At, IsSetup, LockRecords
<1>4. session'[s] = Advanced(s)
    BY <1>1 DEF SessionsSound, SessionsTyped
<1>5. /\ session'[s].op = "setup" /\ session'[s].chain = session[s].chain
      /\ session'[s].height = session[s].height /\ session'[s].todo = Remaining(s)
      /\ session'[s].locked = session[s].locked \union Lock(s) /\ ~session'[s].broken
      /\ session'[s] \in SessionRecords
    BY <1>1, <1>2, <1>3, <1>4, AdvancedFields
<1>6. Moves(s)
    BY <1>1, <1>5 DEF Moves, SessionsSound, SessionsTyped
<1>7. Sound(s)' /\ WriteKnows(s)' /\ RemovalKnows(s)'
    BY <1>2, <1>5 DEF Sound, IsSetup, Remaining, WriteKnows, RemovalKnows
<1>8. ContentionSeen'
    BY <1>1, <1>2, <1>5, <1>6 DEF Known, ContentionSeen, Moves
<1>9. LocksApart'
    BY <1>1, <1>5, <1>6, LocksStayApart DEF Moves
<1> QED
    BY <1>1, <1>5, <1>6, <1>7, <1>8, <1>9, MoverIsSound, MoverIsKnown

(* A trigger is dropped if it is there, and its table is the removal's     *)
(* own from then on.                                                       *)
LEMMA DropTriggerKeeps ==
    ASSUME TablesTyped, SessionsSound, Known, NEW s \in Sessions, DropTrigger(s)
    PROVE  SessionsSound' /\ Known'
<1> DEFINE c == session[s].chain
           t == Following(s).table
<1>1. /\ session[s].todo # {} /\ Following(s).kind = "drop" /\ ~session[s].broken /\ Ready(s)
      /\ session' = [session EXCEPT ![s] = Advanced(s)]
      /\ UNCHANGED <<rows, copy, triggers, contended>>
    BY DEF DropTrigger, At, Execute, tables
<1>2. session[s].op = "remove" /\ IsRemoval(s) /\ session[s] \in SessionRecords
    BY <1>1, KindTellsOp DEF SessionsSound, Sound, SessionsTyped
<1>3. t \in Synced /\ Following(s) = DropOf(t) /\ c \in Chains
  <2>1. PICK u \in Synced :
            /\ Following(s).table = u
            /\ \/ Following(s) = DropOf(u) /\ Following(s).kind = "drop"
               \/ Following(s) = FunctionOf(u) /\ Following(s).kind = "function"
               \/ Following(s) = DeleteOf(u) /\ Following(s).kind = "delete"
      BY <1>1, <1>2, RemovalIsOwn
  <2> QED
      BY <1>1, <1>2, <2>1 DEF IsRemoval
<1>4. /\ Lock(s) = IF <<c, t>> \in triggers THEN {Hold(c, t, FALSE)} ELSE {}
      /\ Lock(s) \subseteq LockRecords
  <2>1. At(s, "insert") = FALSE /\ At(s, "create") = FALSE /\ At(s, "drop") = TRUE
      BY <1>1 DEF At
  <2>2. Hold(c, t, FALSE) \in LockRecords
      BY <1>3, StatementsTyped DEF Hold, LockRecords
  <2> QED
      BY <2>1, <2>2 DEF Lock, Hold
<1>5. /\ session'[s].op = "remove" /\ session'[s].chain = c
      /\ session'[s].height = session[s].height /\ session'[s].deleted = session[s].deleted
      /\ session'[s].todo = Remaining(s)
      /\ session'[s].locked = session[s].locked \union Lock(s) /\ ~session'[s].broken
      /\ session'[s] \in SessionRecords
  <2>1. session'[s] = Advanced(s)
      BY <1>1 DEF SessionsSound, SessionsTyped
  <2> QED
      BY <1>1, <1>2, <1>4, <2>1, AdvancedFields
<1>6. Moves(s)
    BY <1>1, <1>5 DEF Moves, SessionsSound, SessionsTyped
<1>7. Remaining(s) = session[s].todo \ {DropOf(t)} /\ DropOf(t) \in session[s].todo
    BY <1>1, <1>3, FollowingIsFirst DEF Remaining, SessionsSound
<1>8. Dropped(s)' = IF <<c, t>> \in triggers THEN Dropped(s) \union {t} ELSE Dropped(s)
  <2>1. Hold(c, t, FALSE).table = t
      BY DEF Hold
  <2> QED
      BY <1>4, <1>5, <2>1 DEF Dropped
<1>9. t \notin Dropped(s)
    BY <1>1, <1>2, <1>7 DEF IsRemoval
<1>10. \A u \in Synced : DeleteOf(u) \in Remaining(s)
    BY <1>1, <1>2, <1>3, <1>7, StatementsDiffer DEF IsRemoval
<1>11. IsRemoval(s)'
  <2>1. \A u \in Dropped(s)' :
            u \in Synced /\ DropOf(u) \notin Remaining(s) /\ Hold(c, u, FALSE) \in session'[s].locked
      BY <1>1, <1>2, <1>3, <1>4, <1>5, <1>7, <1>8 DEF IsRemoval
  <2>2. Remaining(s) \subseteq StatementsOfRemoval
      BY <1>2, <1>7 DEF IsRemoval
  <2> QED
      BY <1>2, <1>5, <1>10, <2>1, <2>2 DEF IsRemoval
<1>12. Sound(s)' /\ WriteKnows(s)'
    BY <1>5, <1>11 DEF Sound, WriteKnows
<1>13. RemovalKnows(s)'
  <2>1. RemovalKnows(s)
      BY DEF Known
  <2>2. c \notin contended => \A u \in Synced : DropOf(u) \notin Remaining(s) =>
            (u \in Dropped(s)' <=> <<c, u>> \in triggers)
      BY <1>1, <1>2, <1>3, <1>7, <1>8, <1>9, <2>1, StatementsDiffer DEF RemovalKnows
  <2>3. \A u \in Dropped(s)' : DeleteOf(u) \in Remaining(s)
      BY <1>10, <1>11, <1>5 DEF IsRemoval
  <2> QED
      BY <1>1, <1>2, <1>5, <2>1, <2>2, <2>3 DEF RemovalKnows
<1>14. ContentionSeen'
    BY <1>1, <1>2, <1>5, <1>6 DEF Known, ContentionSeen, Moves
<1>15. LocksApart'
    BY <1>1, <1>5, <1>6, LocksStayApart DEF Moves
<1> QED
    BY <1>1, <1>5, <1>6, <1>12, <1>13, <1>14, <1>15, MoverIsSound, MoverIsKnown

(* Its function is dropped.                                                *)
LEMMA DropFunctionKeeps ==
    ASSUME TablesTyped, SessionsSound, Known, NEW s \in Sessions, DropFunction(s)
    PROVE  SessionsSound' /\ Known'
<1>1. /\ session[s].todo # {} /\ Following(s).kind = "function" /\ ~session[s].broken /\ Ready(s)
      /\ session' = [session EXCEPT ![s] = Advanced(s)]
      /\ UNCHANGED <<rows, copy, triggers, contended>>
    BY DEF DropFunction, At, Execute, tables
<1>2. session[s].op = "remove" /\ IsRemoval(s) /\ session[s] \in SessionRecords
    BY <1>1, KindTellsOp DEF SessionsSound, Sound, SessionsTyped
<1>3. PICK t \in Synced : Following(s) = FunctionOf(t)
    BY <1>1, <1>2, RemovalIsOwn
<1>4. Lock(s) = {}
    BY <1>1 DEF Lock, At
<1>5. /\ session'[s].op = "remove" /\ session'[s].chain = session[s].chain
      /\ session'[s].height = session[s].height /\ session'[s].deleted = session[s].deleted
      /\ session'[s].todo = Remaining(s)
      /\ session'[s].locked = session[s].locked /\ ~session'[s].broken
      /\ session'[s] \in SessionRecords
  <2>1. session'[s] = Advanced(s)
      BY <1>1 DEF SessionsSound, SessionsTyped
  <2> QED
      BY <1>1, <1>2, <1>4, <2>1, AdvancedFields
<1>6. Moves(s)
    BY <1>1, <1>5 DEF Moves, SessionsSound, SessionsTyped
<1>7. Dropped(s)' = Dropped(s)
    BY <1>5 DEF Dropped
<1>8. \A u : /\ DropOf(u) \in Remaining(s) <=> DropOf(u) \in session[s].todo
             /\ DeleteOf(u) \in Remaining(s) <=> DeleteOf(u) \in session[s].todo
    BY <1>3, StatementsDiffer DEF Remaining
<1>9. IsRemoval(s)'
    BY <1>1, <1>2, <1>5, <1>7, <1>8 DEF IsRemoval, Remaining
<1>10. Sound(s)' /\ WriteKnows(s)'
    BY <1>5, <1>9 DEF Sound, WriteKnows
<1>11. RemovalKnows(s)'
    BY <1>1, <1>2, <1>5, <1>7, <1>8 DEF RemovalKnows, Known
<1>12. ContentionSeen'
    BY <1>1, <1>2, <1>5, <1>6 DEF Known, ContentionSeen, Moves
<1>13. LocksApart'
    BY <1>1, <1>5, <1>6, LocksStayApart DEF Moves
<1> QED
    BY <1>1, <1>5, <1>6, <1>10, <1>11, <1>12, <1>13, MoverIsSound, MoverIsKnown

(* The copies of a table are deleted, when all the triggers that were      *)
(* there have been dropped: none can be added to a table the removal keeps.*)
LEMMA DeleteCopiesKeeps ==
    ASSUME TablesTyped, SessionsSound, Known, CopyTellsInsertedRows,
           NEW s \in Sessions, DeleteCopies(s)
    PROVE  SessionsSound' /\ Known'
<1> DEFINE c == session[s].chain
           t == Following(s).table
           found2 == {<<c, t, h>> : h \in {g \in Heights : copy[c][t][g] # None}}
           deletes == session[s].deleted \union found2
<1>1. /\ session[s].todo # {} /\ Following(s).kind = "delete" /\ ~session[s].broken /\ Ready(s)
      /\ session' = [session EXCEPT ![s] = [Advanced(s) EXCEPT !.deleted = @ \union found2]]
      /\ UNCHANGED <<rows, copy, triggers, contended>>
    BY DEF DeleteCopies, At, Execute, tables
<1>2. session[s].op = "remove" /\ IsRemoval(s) /\ session[s] \in SessionRecords
    BY <1>1, KindTellsOp DEF SessionsSound, Sound, SessionsTyped
<1>3. t \in Synced /\ Following(s) = DeleteOf(t) /\ c \in Chains /\ t \in Tables
  <2>1. PICK u \in Synced :
            /\ Following(s).table = u
            /\ \/ Following(s) = DropOf(u) /\ Following(s).kind = "drop"
               \/ Following(s) = FunctionOf(u) /\ Following(s).kind = "function"
               \/ Following(s) = DeleteOf(u) /\ Following(s).kind = "delete"
      BY <1>1, <1>2, RemovalIsOwn
  <2> QED
      BY <1>1, <1>2, <2>1, StatementsTyped DEF IsRemoval
<1>4. Lock(s) = {}
    BY <1>1 DEF Lock, At
<1>5. deletes \in SUBSET (Chains \X Tables \X Heights) /\ deletes \subseteq {c} \X Synced \X Heights
    BY <1>2, <1>3 DEF SessionRecords, IsRemoval
<1>6. PICK a \in SessionRecords :
        /\ a = Advanced(s) /\ a.op = "remove" /\ a.chain = c /\ a.height = session[s].height
        /\ a.todo = Remaining(s) /\ a.locked = session[s].locked /\ ~a.broken
        /\ a.deleted = session[s].deleted
    BY <1>1, <1>2, <1>4, AdvancedFields, ZenonT(40)
<1>7. session'[s] = [a EXCEPT !.deleted = deletes]
    BY <1>1, <1>6 DEF SessionsSound, SessionsTyped
<1>8. /\ session'[s].op = "remove" /\ session'[s].chain = c
      /\ session'[s].height = session[s].height /\ session'[s].deleted = deletes
      /\ session'[s].todo = Remaining(s)
      /\ session'[s].locked = session[s].locked /\ ~session'[s].broken
      /\ session'[s] \in SessionRecords
  <2> HIDE DEF deletes
  <2> QED
      BY <1>5, <1>6, <1>7 DEF SessionRecords
<1>9. Moves(s)
    BY <1>1, <1>8 DEF Moves, SessionsSound, SessionsTyped
<1>10. Dropped(s)' = Dropped(s)
    BY <1>8 DEF Dropped
<1>11. \A u \in Synced : DropOf(u) \notin session[s].todo
  <2> SUFFICES ASSUME NEW u \in Synced, DropOf(u) \in session[s].todo PROVE FALSE
      OBVIOUS
  <2>1. DeleteOf(t).at <= DropOf(u).at /\ DropOf(u).at < DeleteOf(t).at
      BY <1>1, <1>3, FollowingIsFirst, DropsComeFirst DEF SessionsSound
  <2>2. DeleteOf(t) \in AllStatements /\ DropOf(u) \in AllStatements
      BY <1>1, <1>2, <1>3, FollowingIsFirst DEF SessionsSound, SessionRecords
  <2> QED
      BY <2>1, <2>2 DEF AllStatements
<1>12. Remaining(s) = session[s].todo \ {DeleteOf(t)} /\ DeleteOf(t) \in session[s].todo
    BY <1>1, <1>3, FollowingIsFirst DEF Remaining, SessionsSound
<1>13. IsRemoval(s)'
    BY <1>1, <1>2, <1>5, <1>8, <1>10, <1>11, <1>12 DEF IsRemoval
<1>14. Sound(s)' /\ WriteKnows(s)'
    BY <1>8, <1>13 DEF Sound, WriteKnows
<1>15. RemovalKnows(s)'
  <2>1. RemovalKnows(s)
      BY DEF Known
  <2>2. \A h \in Heights : copy[c][t][h] # None => rows[c][t][h] # None
      BY <1>3 DEF CopyTellsInsertedRows
  <2>3. \A u \in Synced, h \in Heights : <<c, u, h>> \in deletes => rows[c][u][h] # None
    <3> SUFFICES ASSUME NEW u \in Synced, NEW h \in Heights, <<c, u, h>> \in deletes
                 PROVE  rows[c][u][h] # None
        OBVIOUS
    <3>1. CASE <<c, u, h>> \in session[s].deleted
        BY <1>2, <2>1, <3>1 DEF RemovalKnows
    <3>2. CASE <<c, u, h>> \in found2
        BY <2>2, <3>2
    <3> QED
        BY <3>1, <3>2
  <2>4. \A u \in Dropped(s) : DeleteOf(u) \notin Remaining(s) =>
            \A h \in Heights : copy[c][u][h] # None => <<c, u, h>> \in deletes
    <3> SUFFICES ASSUME NEW u \in Dropped(s), DeleteOf(u) \notin Remaining(s),
                        NEW h \in Heights, copy[c][u][h] # None
                 PROVE  <<c, u, h>> \in deletes
        OBVIOUS
    <3>1. CASE u = t
      <4>1. <<c, u, h>> \in found2
          BY <3>1
      <4> QED
          BY <4>1
    <3>2. CASE u # t
      <4>1. DeleteOf(u) \notin session[s].todo
          BY <1>12, <3>2, StatementsDiffer
      <4>2. <<c, u, h>> \in session[s].deleted
          BY <1>1, <1>2, <2>1, <4>1 DEF RemovalKnows
      <4> QED
          BY <4>2
    <3> QED
        BY <3>1, <3>2
  <2>5. c \notin contended => \A u \in Synced : u \in Dropped(s) <=> <<c, u>> \in triggers
      BY <1>1, <1>2, <1>11, <2>1 DEF RemovalKnows
  <2> HIDE DEF deletes
  <2> QED
      BY <1>1, <1>8, <1>10, <2>3, <2>4, <2>5, SMTT(30) DEF RemovalKnows
<1>16. ContentionSeen'
  <2> HIDE DEF deletes
  <2>1. \A u \in Sessions :
            session'[u].op = session[u].op /\ session'[u].chain = session[u].chain
      BY <1>2, <1>8, <1>9 DEF Moves
  <2>2. ContentionSeen /\ contended' = contended
      BY <1>1 DEF Known
  <2> QED
      BY <2>1, <2>2 DEF ContentionSeen
<1>17. LocksApart'
    BY <1>1, <1>8, <1>9, LocksStayApart DEF Moves
<1> QED
    BY <1>1, <1>8, <1>9, <1>14, <1>15, <1>16, <1>17, MoverIsSound, MoverIsKnown

-----------------------------------------------------------------------------
(* Commits *)

CopyRecords == [Chains -> [Tables -> [Heights -> Views \union {None}]]]

Puts(put, table, x, S) ==
    /\ put \in CopyRecords
    /\ \A c \in Chains, t \in Tables, h \in Heights :
          put[c][t][h] = IF c = x.chain /\ t \in S /\ h = x.height THEN x.view ELSE table[c][t][h]

(* A table with one row of a chain written, in the tables of S.            *)
LEMMA PutFields ==
    ASSUME NEW table, table \in CopyRecords,
           NEW x, x.chain \in Chains, x.height \in Heights, x.view \in Views, NEW S
    PROVE  Puts(Put(table, x, S), table, x, S)
<1> USE DEF Puts, CopyRecords
<1> DEFINE c == x.chain
           put == [t \in Tables |-> IF t \in S THEN [table[c][t] EXCEPT ![x.height] = x.view]
                                    ELSE table[c][t]]
<1>1. Put(table, x, S) = [table EXCEPT ![c] = put]
    BY DEF Put
<1>2. put \in [Tables -> [Heights -> Views \union {None}]]
    OBVIOUS
<1>3. \A t \in Tables, h \in Heights :
        put[t][h] = IF t \in S /\ h = x.height THEN x.view ELSE table[c][t][h]
    OBVIOUS
<1> HIDE DEF put
<1> QED
    BY <1>1, <1>2, <1>3

(* Two sessions never have locks on one table that exclude each other.     *)
LEMMA HoldsExclude ==
    ASSUME SessionsSound, NEW s \in Sessions, NEW u \in Sessions, s # u, NEW c, NEW t,
           Hold(c, t, TRUE) \in session[s].locked \/ Hold(c, t, FALSE) \in session[s].locked,
           Hold(c, t, FALSE) \in session[u].locked
    PROVE  FALSE
<1>1. Conflict(Hold(c, t, TRUE), Hold(c, t, FALSE)) /\ Conflict(Hold(c, t, FALSE), Hold(c, t, FALSE))
    BY DEF Conflict, Hold
<1> QED
    BY <1>1 DEF SessionsSound, LocksApart

(* The end of a transaction makes its session idle.                        *)
LEMMA EndLessens ==
    ASSUME SessionsSound, NEW s \in Sessions, End(s)
    PROVE  /\ Lessens /\ Moves(s) /\ session'[s] = Idle /\ SessionsSound'
           /\ WriteKnows(s)' /\ RemovalKnows(s)'
<1>1. Lessens /\ session'[s] = Idle
    BY DEF End, Lessens, SessionsSound, SessionsTyped
<1>2. Moves(s)
    BY <1>1, IdleIsSound DEF End, Moves, Lessens, SessionsSound, SessionsTyped
<1> QED
    BY <1>1, <1>2, LessIsSound, IdleIsSound

(* While nobody new sets up or removes, contention is as it was.           *)
LEMMA EndSeesNoMore ==
    ASSUME Known, NEW s \in Sessions, Moves(s), session'[s] = Idle, contended' = contended
    PROVE  ContentionSeen'
<1>1. session'[s].op = "idle"
    BY IdleIsSound
<1> QED
    BY <1>1 DEF Known, ContentionSeen, Moves

(* A write commits: the rows it wrote are its own, and the triggers that   *)
(* fired for it are still there.                                           *)
LEMMA CommitWriteKeeps ==
    ASSUME IInv, NEW s \in Sessions, CommitWrite(s)
    PROVE  SessionsSound' /\ Known' /\ NoOrphanCopies' /\ TriggersTogether'
           /\ CopyTellsInsertedRows'
<1> DEFINE x == session[s]
           c == session[s].chain
           h == session[s].height
           view == session[s].view
           written == Content[h]
<1>1. /\ session[s].op = "write" /\ session[s].todo = {} /\ End(s)
      /\ rows' = Put(rows, x, written) /\ copy' = Put(copy, x, x.fired)
      /\ missed' = missed \union {<<c, t, h>> : t \in x.new \ x.fired}
      /\ rewritten' = rewritten \union {<<c, t, h>> : t \in written \ x.new}
      /\ UNCHANGED <<triggers, contended>>
    BY DEF CommitWrite
<1>2. IsWrite(s) /\ SessionsSound /\ Known /\ TablesTyped
    BY <1>1 DEF IInv, SessionsSound, Sound
<1>3. /\ c \in Chains /\ h \in Heights /\ view \in Views /\ view # None
      /\ x.fired \subseteq x.new /\ x.new \subseteq written /\ written \subseteq Tables
  <2>1. view \in Views
      BY <1>2 DEF IsWrite, Views
  <2>2. view # None
      BY <2>1, ConstantsAssumption DEF Views
  <2>3. x.new \subseteq written
      BY <1>2 DEF IsWrite, Done
  <2> QED
      BY <1>2, <2>1, <2>2, <2>3, StatementsTyped DEF IsWrite
<1>4. Done(s) = written
    BY <1>1 DEF Done
<1>5. \A d \in Chains, t \in Tables, g \in Heights :
        /\ rows'[d][t][g] = IF d = c /\ t \in written /\ g = h THEN view ELSE rows[d][t][g]
        /\ copy'[d][t][g] = IF d = c /\ t \in x.fired /\ g = h THEN view ELSE copy[d][t][g]
  <2>1. rows \in CopyRecords /\ copy \in CopyRecords
      BY <1>2 DEF TablesTyped, CopyRecords
  <2>2. Puts(Put(rows, x, written), rows, x, written) /\ Puts(Put(copy, x, x.fired), copy, x, x.fired)
      BY <1>3, <2>1, PutFields
  <2> QED
      BY <1>1, <2>2 DEF Puts
<1>6. Moves(s) /\ session'[s] = Idle /\ SessionsSound' /\ WriteKnows(s)' /\ RemovalKnows(s)'
    BY <1>1, <1>2, EndLessens
<1>7. /\ \A t \in x.fired : <<c, t>> \in triggers /\ t \in Synced
      /\ \A t \in written : t \in x.new <=> rows[c][t][h] = None
  <2>1. WriteKnows(s)
      BY <1>2 DEF Known
  <2> QED
      BY <1>1, <1>2, <1>4, <2>1 DEF WriteKnows, TablesTyped
<1>8. ASSUME NEW u \in Sessions, u # s
      PROVE  WriteKnows(u)' /\ RemovalKnows(u)'
  <2>0. /\ session'[u] = session[u] /\ Done(u)' = Done(u) /\ Dropped(u)' = Dropped(u)
        /\ WriteKnows(u) /\ RemovalKnows(u) /\ Sound(u)
      BY <1>2, <1>6, <1>8, Bystander DEF Moves, Known, SessionsSound
  <2>1. WriteKnows(u)'
    <3> SUFFICES ASSUME session[u].op = "write"
                 PROVE  \A t \in Done(u) :
                           rows'[session[u].chain][t][session[u].height]
                             = rows[session[u].chain][t][session[u].height]
        BY <1>1, <2>0 DEF WriteKnows
    <3> SUFFICES ASSUME NEW t \in Done(u), session[u].chain = c, session[u].height = h,
                        t \in written
                 PROVE  FALSE
      <4>1. IsWrite(u)
          BY <2>0 DEF Sound
      <4>2. session[u].chain \in Chains /\ session[u].height \in Heights /\ Done(u) \subseteq Tables
          BY <4>1, StatementsTyped DEF IsWrite, Done
      <4> QED
          BY <1>5, <4>2
    <3>1. Done(s) \intersect Done(u) = {}
        BY <1>1, <1>2, <1>8 DEF SessionsSound, RowsApart
    <3> QED
        BY <1>4, <3>1
  <2>2. RemovalKnows(u)'
    <3> SUFFICES ASSUME session[u].op = "remove"
                 PROVE  RemovalKnows(u)'
        BY <2>0 DEF RemovalKnows
    <3> DEFINE d == session[u].chain
    <3>1. IsRemoval(u) /\ d \in Chains /\ Synced \subseteq Tables
        BY <2>0, StatementsTyped DEF Sound, IsRemoval
    <3>2. \A t \in Synced, g \in Heights : rows[d][t][g] # None => rows'[d][t][g] # None
        BY <1>3, <1>5, <3>1
    <3>3. ASSUME NEW t \in Dropped(u), ~session[u].broken, NEW g \in Heights
          PROVE  copy'[d][t][g] = copy[d][t][g]
      <4>1. t \in Synced /\ Hold(d, t, FALSE) \in session[u].locked
          BY <3>1, <3>3 DEF IsRemoval
      <4>2. ~(d = c /\ t \in x.fired)
        <5> SUFFICES ASSUME d = c, t \in x.fired PROVE FALSE
            OBVIOUS
        <5>1. Hold(c, t, TRUE) \in session[s].locked
            BY <1>2, <1>3, <1>4 DEF IsWrite
        <5> QED
            BY <1>2, <1>8, <4>1, <5>1, HoldsExclude
      <4> QED
          BY <1>5, <3>1, <4>1, <4>2
    <3>4. /\ session'[u] = session[u] /\ Dropped(u)' = Dropped(u) /\ RemovalKnows(u)
          /\ triggers' = triggers /\ contended' = contended
        BY <1>1, <2>0
    <3>5. \A t \in Synced, g \in Heights : <<d, t, g>> \in session[u].deleted => rows'[d][t][g] # None
        BY <3>2, <3>4 DEF RemovalKnows
    <3>6. ASSUME ~session[u].broken, NEW t \in Dropped(u), DeleteOf(t) \notin session[u].todo,
                 NEW g \in Heights, copy'[d][t][g] # None
          PROVE  <<d, t, g>> \in session[u].deleted
      <4>1. copy[d][t][g] # None
          BY <3>3, <3>6
      <4> QED
          BY <3>4, <3>6, <4>1 DEF RemovalKnows
    <3>7. ~session[u].broken /\ d \notin contended' =>
              \A t \in Synced : DropOf(t) \notin session[u].todo =>
                  (t \in Dropped(u)' <=> <<d, t>> \in triggers')
        BY <3>4 DEF RemovalKnows
    <3> QED
        BY <3>4, <3>5, <3>6, <3>7 DEF RemovalKnows
  <2> QED
      BY <2>1, <2>2
<1>9. Known'
    BY <1>1, <1>2, <1>6, <1>8, EndSeesNoMore DEF Known
<1>10. NoOrphanCopies'
    BY <1>1, <1>5, <1>7, StatementsTyped DEF IInv, NoOrphanCopies
<1>11. TriggersTogether'
    BY <1>1 DEF IInv, TriggersTogether
<1>12. CopyTellsInsertedRows'
  <2> SUFFICES ASSUME NEW d \in Chains, NEW t \in Tables, NEW g \in Heights
               PROVE  IF <<d, t, g>> \in missed'
                      THEN rows'[d][t][g] # None /\ copy'[d][t][g] = None
                      ELSE IF <<d, t, g>> \in rewritten'
                      THEN rows'[d][t][g] # None /\ copy'[d][t][g] # None
                      ELSE copy'[d][t][g] = rows'[d][t][g]
      BY DEF CopyTellsInsertedRows
  <2>0. IF <<d, t, g>> \in missed
        THEN rows[d][t][g] # None /\ copy[d][t][g] = None
        ELSE IF <<d, t, g>> \in rewritten
        THEN rows[d][t][g] # None /\ copy[d][t][g] # None
        ELSE copy[d][t][g] = rows[d][t][g]
      BY DEF IInv, CopyTellsInsertedRows
  <2>1. /\ <<d, t, g>> \in missed' <=>
              <<d, t, g>> \in missed \/ (d = c /\ g = h /\ t \in x.new \ x.fired)
        /\ <<d, t, g>> \in rewritten' <=>
              <<d, t, g>> \in rewritten \/ (d = c /\ g = h /\ t \in written \ x.new)
      BY <1>1
  <2>2. /\ rows'[d][t][g] = IF d = c /\ t \in written /\ g = h THEN view ELSE rows[d][t][g]
        /\ copy'[d][t][g] = IF d = c /\ t \in x.fired /\ g = h THEN view ELSE copy[d][t][g]
      BY <1>5
  <2>3. CASE d = c /\ g = h /\ t \in written
    <3>1. t \in x.new <=> rows[d][t][g] = None
        BY <1>7, <2>3
    <3>2. CASE t \in x.fired
        BY <1>3, <2>0, <2>1, <2>2, <2>3, <3>1, <3>2
    <3>3. CASE t \notin x.fired
        BY <1>3, <2>0, <2>1, <2>2, <2>3, <3>1, <3>3
    <3> QED
        BY <3>2, <3>3
  <2>4. CASE ~(d = c /\ g = h /\ t \in written)
      BY <1>3, <2>0, <2>1, <2>2, <2>4
  <2> QED
      BY <2>3, <2>4
<1> QED
    BY <1>6, <1>9, <1>10, <1>11, <1>12

(* A set-up commits: the triggers of all tables are there at once.         *)
LEMMA CommitSetupKeeps ==
    ASSUME IInv, NEW s \in Sessions, CommitSetup(s)
    PROVE  SessionsSound' /\ Known' /\ NoOrphanCopies' /\ TriggersTogether'
           /\ CopyTellsInsertedRows'
<1> DEFINE c == session[s].chain
<1>1. /\ session[s].op = "setup" /\ End(s)
      /\ triggers' = triggers \union ({c} \X Synced)
      /\ UNCHANGED <<rows, copy, missed, rewritten, contended>>
    BY DEF CommitSetup
<1>2. SessionsSound /\ Known
    BY DEF IInv
<1>3. Moves(s) /\ session'[s] = Idle /\ SessionsSound' /\ WriteKnows(s)' /\ RemovalKnows(s)'
    BY <1>1, <1>2, EndLessens
<1>4. ASSUME NEW u \in Sessions, u # s
      PROVE  WriteKnows(u)' /\ RemovalKnows(u)'
  <2>0. /\ session'[u] = session[u] /\ Done(u)' = Done(u) /\ Dropped(u)' = Dropped(u)
        /\ WriteKnows(u) /\ RemovalKnows(u)
      BY <1>2, <1>3, <1>4, Bystander DEF Moves, Known
  <2>1. WriteKnows(u)'
      BY <1>1, <2>0 DEF WriteKnows
  <2>2. session[u].op = "remove" /\ session[u].chain \notin contended => session[u].chain # c
      BY <1>1, <1>2 DEF Known, ContentionSeen
  <2>3. RemovalKnows(u)'
      BY <1>1, <2>0, <2>2 DEF RemovalKnows
  <2> QED
      BY <2>1, <2>3
<1>5. Known'
    BY <1>1, <1>2, <1>3, <1>4, EndSeesNoMore DEF Known
<1>6. NoOrphanCopies'
    BY <1>1 DEF IInv, NoOrphanCopies
<1>7. TriggersTogether'
    BY <1>1 DEF IInv, TriggersTogether
<1>8. CopyTellsInsertedRows'
    BY <1>1 DEF IInv, CopyTellsInsertedRows
<1> QED
    BY <1>3, <1>5, <1>6, <1>7, <1>8

(* A removal commits: the rows of every table whose trigger it drops were  *)
(* all deleted, and unless the chain was set up meanwhile it has dropped   *)
(* every trigger there was.                                                *)
LEMMA CommitRemovalKeeps ==
    ASSUME IInv, NEW s \in Sessions, CommitRemoval(s)
    PROVE  SessionsSound' /\ Known' /\ NoOrphanCopies' /\ TriggersTogether'
           /\ CopyTellsInsertedRows'
<1> DEFINE c == session[s].chain
           gone == session[s].deleted
<1>1. /\ session[s].op = "remove" /\ session[s].todo = {} /\ ~session[s].broken /\ End(s)
      /\ copy' = [d \in Chains |-> [t \in Tables |-> [h \in Heights |->
                     IF <<d, t, h>> \in gone THEN None ELSE copy[d][t][h]]]]
      /\ missed' = missed \union gone
      /\ triggers' = triggers \ ({c} \X Dropped(s))
      /\ UNCHANGED <<rows, rewritten, contended>>
    BY DEF CommitRemoval
<1>2. SessionsSound /\ Known /\ IsRemoval(s) /\ Synced \subseteq Tables
    BY <1>1, StatementsTyped DEF IInv, SessionsSound, Sound
<1>3. Moves(s) /\ session'[s] = Idle /\ SessionsSound' /\ WriteKnows(s)' /\ RemovalKnows(s)'
    BY <1>1, <1>2, EndLessens
<1>4. /\ c \in Chains /\ gone \subseteq {c} \X Synced \X Heights
      /\ \A t \in Dropped(s) : t \in Synced /\ Hold(c, t, FALSE) \in session[s].locked
    BY <1>1, <1>2 DEF IsRemoval
<1>5. \A d \in Chains, t \in Tables, h \in Heights :
        copy'[d][t][h] = IF <<d, t, h>> \in gone THEN None ELSE copy[d][t][h]
    BY <1>1
<1>6. /\ \A t \in Synced, h \in Heights : <<c, t, h>> \in gone => rows[c][t][h] # None
      /\ \A t \in Dropped(s), h \in Heights : copy[c][t][h] # None => <<c, t, h>> \in gone
      /\ c \notin contended => \A t \in Synced : t \in Dropped(s) <=> <<c, t>> \in triggers
  <2>1. RemovalKnows(s)
      BY <1>2 DEF Known
  <2> QED
      BY <1>1, <2>1 DEF RemovalKnows
<1>7. ASSUME NEW u \in Sessions, u # s
      PROVE  WriteKnows(u)' /\ RemovalKnows(u)'
  <2> DEFINE d == session[u].chain
  <2>0. /\ session'[u] = session[u] /\ Done(u)' = Done(u) /\ Dropped(u)' = Dropped(u)
        /\ WriteKnows(u) /\ RemovalKnows(u) /\ Sound(u)
      BY <1>2, <1>3, <1>7, Bystander DEF Moves, Known, SessionsSound
  <2>1. \A t : (Hold(d, t, TRUE) \in session[u].locked \/ Hold(d, t, FALSE) \in session[u].locked)
                  => ~(d = c /\ t \in Dropped(s))
      BY <1>2, <1>4, <1>7, HoldsExclude
  <2>2. WriteKnows(u)'
    <3> SUFFICES ASSUME session[u].op = "write"
                 PROVE  \A t \in session[u].fired : <<d, t>> \in triggers'
        BY <1>1, <2>0 DEF WriteKnows
    <3>1. \A t \in session[u].fired : Hold(d, t, TRUE) \in session[u].locked /\ <<d, t>> \in triggers
        BY <2>0 DEF Sound, IsWrite, WriteKnows
    <3> QED
        BY <1>1, <2>1, <3>1
  <2>3. RemovalKnows(u)'
    <3> SUFFICES ASSUME session[u].op = "remove"
                 PROVE  RemovalKnows(u)'
        BY <2>0 DEF RemovalKnows
    <3>1. IsRemoval(u) /\ d \in Chains
        BY <2>0 DEF Sound, IsRemoval
    <3>2. \A t \in Synced, h \in Heights : copy'[d][t][h] # None => copy[d][t][h] # None
        BY <1>2, <1>5, <3>1
    <3>3. ~session[u].broken =>
            \A t \in Dropped(u) : t \in Synced /\ (<<d, t>> \in triggers' <=> <<d, t>> \in triggers)
        BY <1>1, <2>1, <3>1 DEF IsRemoval
    <3>4. \A t : <<d, t>> \in triggers' => <<d, t>> \in triggers
        BY <1>1
    <3>5. ~session[u].broken /\ d \notin contended =>
            \A t \in Synced : DropOf(t) \notin session[u].todo =>
                (t \in Dropped(u) <=> <<d, t>> \in triggers')
        BY <2>0, <3>3, <3>4 DEF RemovalKnows
    <3>6. ~session[u].broken => \A t \in Dropped(u) : DeleteOf(t) \notin session[u].todo =>
            \A h \in Heights : copy'[d][t][h] # None => <<d, t, h>> \in session[u].deleted
        BY <2>0, <3>2, <3>3 DEF RemovalKnows
    <3> QED
        BY <1>1, <2>0, <3>5, <3>6 DEF RemovalKnows
  <2> QED
      BY <2>2, <2>3
<1>8. Known'
    BY <1>1, <1>2, <1>3, <1>7, EndSeesNoMore DEF Known
<1>9. NoOrphanCopies'
  <2> SUFFICES ASSUME NEW d \in Chains, NEW t \in Synced, <<d, t>> \notin triggers',
                      NEW h \in Heights
               PROVE  copy'[d][t][h] = None
      BY DEF NoOrphanCopies
  <2>0. copy'[d][t][h] = IF <<d, t, h>> \in gone THEN None ELSE copy[d][t][h]
      BY <1>2, <1>5
  <2>1. CASE <<d, t>> \notin triggers
    <3>1. copy[d][t][h] = None
        BY <2>1 DEF IInv, NoOrphanCopies
    <3> QED
        BY <2>0, <3>1
  <2>2. CASE <<d, t>> \in triggers
    <3>1. d = c /\ t \in Dropped(s)
        BY <1>1, <2>2
    <3> QED
        BY <1>6, <2>0, <3>1
  <2> QED
      BY <2>1, <2>2
<1>10. TriggersTogether'
  <2>1. c \notin contended => \A t \in Synced : <<c, t>> \notin triggers'
      BY <1>1, <1>6
  <2>2. \A d \in Chains, t \in Synced : d # c => (<<d, t>> \in triggers' <=> <<d, t>> \in triggers)
      BY <1>1
  <2> QED
      BY <1>1, <2>1, <2>2 DEF IInv, TriggersTogether
<1>11. CopyTellsInsertedRows'
  <2> SUFFICES ASSUME NEW d \in Chains, NEW t \in Tables, NEW g \in Heights
               PROVE  IF <<d, t, g>> \in missed'
                      THEN rows[d][t][g] # None /\ copy'[d][t][g] = None
                      ELSE IF <<d, t, g>> \in rewritten
                      THEN rows[d][t][g] # None /\ copy'[d][t][g] # None
                      ELSE copy'[d][t][g] = rows[d][t][g]
      BY <1>1, ZenonT(40) DEF CopyTellsInsertedRows
  <2>0. IF <<d, t, g>> \in missed
        THEN rows[d][t][g] # None /\ copy[d][t][g] = None
        ELSE IF <<d, t, g>> \in rewritten
        THEN rows[d][t][g] # None /\ copy[d][t][g] # None
        ELSE copy[d][t][g] = rows[d][t][g]
      BY DEF IInv, CopyTellsInsertedRows
  <2>1. CASE <<d, t, g>> \in gone
    <3>1. d = c /\ t \in Synced
        BY <1>4, <2>1
    <3> QED
        BY <1>1, <1>5, <1>6, <2>1, <3>1
  <2>2. CASE <<d, t, g>> \notin gone
      BY <1>1, <1>5, <2>0, <2>2
  <2> QED
      BY <2>1, <2>2
<1> QED
    BY <1>3, <1>8, <1>9, <1>10, <1>11

-----------------------------------------------------------------------------
(* Every step *)

(* A session that waits has a statement to make.                           *)
LEMMA WhoWaits ==
    ASSUME NEW s \in Sessions, NEW u, WaitsFor(s, u)
    PROVE  session[s].todo # {} /\ ~session[s].broken
BY DEF WaitsFor, SameRow, Lock, At

(* The chains of a process stay chains.                                    *)
LEMMA EndTyped ==
    ASSUME TablesTyped, SessionsSound, NEW s \in Sessions, End(s)
    PROVE  has' \in [Processes -> SUBSET Chains]
<1>1. session[s].op = "setup" => s \in Processes /\ session[s].chain \in Chains
    BY DEF SessionsSound, Sound, IsSetup
<1> QED
    BY <1>1 DEF End, TablesTyped

(* The tables keep their types.                                            *)
LEMMA TablesStayTyped ==
    ASSUME IInv, [Next]_vars
    PROVE  TablesTyped'
<1> USE DEF TablesTyped
<1>0. TablesTyped /\ SessionsSound
    BY DEF IInv
<1>1. CASE \E w \in Writers, c \in Chains, h \in Heights : StartWrite(w, c, h)
    BY <1>0, <1>1 DEF StartWrite, tables
<1>2. CASE \E p \in Processes, c \in Chains : StartSetup(p, c) \/ StartRemoval(p, c)
    BY <1>0, <1>2 DEF StartSetup, StartRemoval, Contend
<1>3. ASSUME NEW s \in Sessions,
             Insert(s) \/ CreateTrigger(s) \/ DropTrigger(s) \/ DropFunction(s) \/ DeleteCopies(s)
             \/ Refused(s)
      PROVE  TablesTyped'
    BY <1>0, <1>3 DEF Insert, CreateTrigger, DropTrigger, DropFunction, DeleteCopies, Refused, tables
<1>4. ASSUME NEW s \in Sessions, Rollback(s)
      PROVE  TablesTyped'
    BY <1>0, <1>4, EndTyped DEF Rollback, tables
<1>5. ASSUME NEW s \in Sessions, FailStatement(s)
      PROVE  TablesTyped'
    BY <1>0, <1>4, <1>5 DEF FailStatement, tables
<1>6. ASSUME NEW s \in Sessions, CommitWrite(s)
      PROVE  TablesTyped'
  <2> DEFINE x == session[s]
  <2>1. IsWrite(s)
      BY <1>0, <1>6 DEF CommitWrite, SessionsSound, Sound
  <2>2. x.chain \in Chains /\ x.height \in Heights /\ x.view \in Views
      BY <2>1 DEF IsWrite, Views
  <2>3. Content[x.height] \subseteq Tables /\ x.new \subseteq Tables
      BY <2>1, <2>2, StatementsTyped DEF IsWrite, Done
  <2>4. rows \in CopyRecords /\ copy \in CopyRecords
      BY <1>0 DEF CopyRecords
  <2>5. /\ Puts(Put(rows, x, Content[x.height]), rows, x, Content[x.height])
        /\ Puts(Put(copy, x, x.fired), copy, x, x.fired)
      BY <2>2, <2>4, PutFields
  <2>6. rows' \in CopyRecords /\ copy' \in CopyRecords
      BY <1>6, <2>5 DEF CommitWrite, Puts
  <2>7. /\ missed' = missed \union {<<x.chain, t, x.height>> : t \in x.new \ x.fired}
        /\ rewritten' = rewritten \union {<<x.chain, t, x.height>> : t \in Content[x.height] \ x.new}
        /\ UNCHANGED <<triggers, contended>> /\ End(s)
      BY <1>6 DEF CommitWrite
  <2>8. missed' \subseteq Chains \X Tables \X Heights /\ rewritten' \subseteq Chains \X Tables \X Heights
      BY <1>0, <2>2, <2>3, <2>7
  <2> QED
      BY <1>0, <2>6, <2>7, <2>8, EndTyped DEF CopyRecords
<1>7. ASSUME NEW s \in Sessions, CommitSetup(s)
      PROVE  TablesTyped'
  <2>1. session[s].chain \in Chains
      BY <1>0, <1>7 DEF CommitSetup, SessionsSound, Sound, IsSetup
  <2> QED
      BY <1>0, <1>7, <2>1, EndTyped DEF CommitSetup
<1>8. ASSUME NEW s \in Sessions, CommitRemoval(s)
      PROVE  TablesTyped'
  <2>1. session[s].deleted \subseteq Chains \X Tables \X Heights
      BY <1>0 DEF SessionsSound, SessionsTyped, SessionRecords
  <2>2. copy' \in [Chains -> [Tables -> [Heights -> Views \union {None}]]]
      BY <1>0, <1>8 DEF CommitRemoval
  <2> QED
      BY <1>0, <1>8, <2>1, <2>2, EndTyped DEF CommitRemoval
<1>9. CASE (\E p \in Processes : Crash(p)) \/ UNCHANGED vars
    BY <1>0, <1>9 DEF Crash, tables, vars
<1> QED
    BY <1>1, <1>2, <1>3, <1>4, <1>5, <1>6, <1>7, <1>8, <1>9
    DEF Next, Step, InsertRefused, CommitBroken, FunctionInUse, BreakDeadlock, StatementFails

(* All that fails, or ends without a commit, is such a step.               *)
LEMMA FailingLessens ==
    ASSUME SessionsSound, NEW s \in Sessions,
           \/ InsertRefused(s) \/ CommitBroken(s) \/ Refused(s)
           \/ FunctionInUse(s) \/ BreakDeadlock(s) \/ StatementFails(s)
    PROVE  Lessens /\ UNCHANGED tables
<1>1. \/ Rollback(s) \/ Refused(s)
      \/ (session[s].todo # {} /\ ~session[s].broken /\ FailStatement(s))
  <2>1. CASE BreakDeadlock(s)
      BY <2>1, WhoWaits DEF BreakDeadlock, Circle
  <2> QED
      BY <2>1 DEF InsertRefused, CommitBroken, FunctionInUse, StatementFails, At
<1> QED
    BY <1>1, FailuresLessen

(* The invariant holds at the start.                                       *)
LEMMA InitIInv == Init => IInv
<1> SUFFICES ASSUME Init PROVE IInv
    OBVIOUS
<1>1. TablesTyped
    BY DEF Init, TablesTyped
<1>2. \A s \in Sessions : session[s] = Idle
    BY DEF Init
<1>3. SessionsTyped
    BY IdleIsSound DEF Init, SessionsTyped
<1>4. \A s \in Sessions : session[s].op = "idle" /\ session[s].locked = {}
    BY <1>2, IdleIsSound
<1>5. (\A s \in Sessions : Sound(s)) /\ LocksApart /\ RowsApart
    BY <1>2, <1>4 DEF Sound, LocksApart, RowsApart
<1>6. Known
    BY <1>4 DEF Known, WriteKnows, RemovalKnows, ContentionSeen
<1>7. NoOrphanCopies
    BY StatementsTyped DEF Init, NoOrphanCopies
<1>8. TriggersTogether
    BY DEF Init, TriggersTogether
<1>9. CopyTellsInsertedRows
    BY DEF Init, CopyTellsInsertedRows
<1> QED
    BY <1>1, <1>3, <1>5, <1>6, <1>7, <1>8, <1>9 DEF IInv, SessionsSound

(* Every step keeps it.                                                    *)
LEMMA NextIInv == IInv /\ [Next]_vars => IInv'
<1> SUFFICES ASSUME IInv, [Next]_vars PROVE IInv'
    OBVIOUS
<1>0. TablesTyped /\ SessionsSound /\ Known /\ CopyTellsInsertedRows /\ TablesTyped'
    BY TablesStayTyped DEF IInv
<1> DEFINE Kept == SessionsSound' /\ Known' /\ NoOrphanCopies' /\ TriggersTogether'
                   /\ CopyTellsInsertedRows'
<1>1. ASSUME UNCHANGED tables, SessionsSound', Known' PROVE Kept
    BY <1>1 DEF tables, IInv, NoOrphanCopies, TriggersTogether, CopyTellsInsertedRows
<1>2. ASSUME Lessens, UNCHANGED tables PROVE Kept
    BY <1>0, <1>1, <1>2, LessIsSound, LessIsKnown DEF tables, found
<1>3. ASSUME NEW w \in Writers, NEW c \in Chains, NEW h \in Heights, StartWrite(w, c, h)
      PROVE  Kept
    BY <1>0, <1>1, <1>3, StartWriteKeeps DEF StartWrite
<1>4. ASSUME NEW p \in Processes, NEW c \in Chains, StartSetup(p, c) \/ StartRemoval(p, c)
      PROVE  Kept
  <2>1. SessionsSound' /\ Known'
      BY <1>0, <1>4, StartSetupKeeps, StartRemovalKeeps
  <2>2. UNCHANGED <<rows, copy, triggers, missed, rewritten>> /\ contended \subseteq contended'
      BY <1>4 DEF StartSetup, StartRemoval, Contend
  <2> QED
      BY <2>1, <2>2 DEF IInv, NoOrphanCopies, TriggersTogether, CopyTellsInsertedRows
<1>5. ASSUME NEW s \in Sessions,
             Insert(s) \/ CreateTrigger(s) \/ DropTrigger(s) \/ DropFunction(s) \/ DeleteCopies(s)
      PROVE  Kept
  <2>1. UNCHANGED tables
      BY <1>5 DEF Insert, CreateTrigger, DropTrigger, DropFunction, DeleteCopies
  <2>2. SessionsSound' /\ Known'
      BY <1>0, <1>5, InsertKeeps, CreateKeeps, DropTriggerKeeps, DropFunctionKeeps, DeleteCopiesKeeps
  <2> QED
      BY <1>1, <2>1, <2>2
<1>6. ASSUME NEW s \in Sessions, CommitWrite(s) \/ CommitSetup(s) \/ CommitRemoval(s)
      PROVE  Kept
    BY <1>6, CommitWriteKeeps, CommitSetupKeeps, CommitRemovalKeeps
<1>7. ASSUME NEW s \in Sessions,
             \/ InsertRefused(s) \/ CommitBroken(s) \/ Refused(s)
             \/ FunctionInUse(s) \/ BreakDeadlock(s) \/ StatementFails(s)
      PROVE  Kept
    BY <1>0, <1>2, <1>7, FailingLessens
<1>8. ASSUME \E p \in Processes : Crash(p) PROVE Kept
  <2>1. PICK s \in Sessions : TRUE
      BY <1>8 DEF Sessions
  <2> QED
      BY <1>0, <1>2, <1>8, <2>1, FailuresLessen
<1>9. ASSUME UNCHANGED vars PROVE Kept
  <2>1. Lessens /\ UNCHANGED tables
      BY <1>0, <1>9 DEF vars, tables, Lessens, SessionsSound, SessionsTyped
  <2> QED
      BY <1>2, <2>1
<1>10. Kept
    BY <1>3, <1>4, <1>5, <1>6, <1>7, <1>8, <1>9 DEF Next, Step
<1> QED
    BY <1>0, <1>10 DEF IInv

-----------------------------------------------------------------------------
(* The theorems *)

(* The inductive invariant: the types, the order of a removal's            *)
(* statements, the locks that exclude each other, and that what an open    *)
(* transaction has found in the tables it keeps locked is still so.        *)
THEOREM Invariant == Spec => []IInv
BY InitIInv, NextIInv, PTL DEF Spec

(* The sessions and tables keep their types: only a write has a height,    *)
(* and only a removal goes on after an error.                              *)
THEOREM TypeCorrect == Spec => []TypeOK
<1>1. IInv => TypeOK
  <2> SUFFICES ASSUME IInv PROVE TypeOK
      OBVIOUS
  <2>1. ASSUME NEW s \in Sessions
        PROVE  /\ session[s].op \in {"idle", "write", "setup", "remove"}
               /\ session[s].op = "write" <=> session[s].height # None
               /\ session[s].broken => session[s].op = "remove"
    <3>1. session[s].op \in {"idle", "write", "setup", "remove"} /\ Sound(s)
        BY DEF IInv, SessionsSound, SessionsTyped, SessionRecords
    <3>2. CASE session[s].op = "idle"
        BY <3>2, <3>1 DEF Sound, Idle
    <3>3. CASE session[s].op # "idle"
        BY <3>1, <3>3, ConstantsAssumption DEF Sound, IsWrite, IsSetup, IsRemoval
    <3> QED
        BY <3>2, <3>3
  <2> QED
      BY <2>1 DEF IInv, TablesTyped, TypeOK
<1> QED
    BY <1>1, Invariant, PTL

(* writeBlockData against SetupChainSync and RemoveChainSync: the copy of  *)
(* a row says what was inserted, and is missing only for rows inserted     *)
(* without the trigger or deleted since.                                   *)
THEOREM CopiesTrue == Spec => []CopyTellsInsertedRows
<1>1. IInv => CopyTellsInsertedRows
    BY DEF IInv
<1> QED
    BY <1>1, Invariant, PTL

(* SetupChainSync and RemoveChainSync: a chain has all of its triggers or  *)
(* none, unless one process removed it while another added it.             *)
THEOREM AllTriggersOrNone == Spec => []TriggersTogether
<1>1. IInv => TriggersTogether
    BY DEF IInv
<1> QED
    BY <1>1, Invariant, PTL

(* RemoveChainSync: a table without its trigger has no row of the chain    *)
(* left in crosschain, whatever blocks were in flight.                     *)
THEOREM NothingLeftBehind == Spec => []NoOrphanCopies
<1>1. IInv => NoOrphanCopies
    BY DEF IInv
<1> QED
    BY <1>1, Invariant, PTL

-----------------------------------------------------------------------------
(* Transactions as single steps *)

\* A set-up keeps the tables it has made triggers for ...
SetupHolds(s) ==
    session[s].op = "setup" =>
        \A t \in Synced : CreateOf(t) \notin session[s].todo =>
            Hold(session[s].chain, t, FALSE) \in session[s].locked

\* ... so a row that was inserted without the trigger would be so now.
UnfiredKnows(s) ==
    session[s].op = "write" =>
        \A t \in session[s].new \ session[s].fired : <<session[s].chain, t>> \notin triggers

FiredWork(s) ==
    session[s].op = "write" => \A t \in session[s].fired : TriggerWorks(t)

Stands(s) == SetupHolds(s) /\ UnfiredKnows(s) /\ FiredWork(s)

SInv == IInv /\ \A s \in Sessions : Stands(s)

(* A session that does nothing while no trigger comes, and one that only   *)
(* removes or is idle, stand.                                              *)
LEMMA BystanderStands ==
    ASSUME NEW u \in Sessions
    PROVE  /\ (session'[u] = session[u] /\ triggers' \subseteq triggers /\ Stands(u)) => Stands(u)'
           /\ session'[u].op \in {"idle", "remove"} => Stands(u)'
<1>1. (session'[u] = session[u] /\ triggers' \subseteq triggers /\ Stands(u)) => Stands(u)'
    BY DEF Stands, SetupHolds, UnfiredKnows, FiredWork
<1>2. session'[u].op \in {"idle", "remove"} => Stands(u)'
    BY DEF Stands, SetupHolds, UnfiredKnows, FiredWork
<1> QED
    BY <1>1, <1>2

(* A transaction begins.                                                   *)
LEMMA StartStands ==
    ASSUME SessionsSound, NEW s \in Sessions, NEW x, session' = [session EXCEPT ![s] = x],
           x.op = "write" => x.new = {} /\ x.fired = {},
           x.op = "setup" => x.todo = StatementsOfSetup
    PROVE  Stands(s)'
<1>1. session'[s] = x
    BY DEF SessionsSound, SessionsTyped
<1>2. \A t \in Synced : CreateOf(t) \in StatementsOfSetup
    BY DEF CreateOf, StatementsOfSetup
<1>3. SetupHolds(s)'
    BY <1>1, <1>2 DEF SetupHolds
<1> QED
    BY <1>1, <1>3 DEF Stands, UnfiredKnows, FiredWork

(* A row is inserted, and what its trigger does is noted.                  *)
LEMMA InsertStands ==
    ASSUME SInv, NEW s \in Sessions, Insert(s)
    PROVE  Stands(s)' /\ \A u \in Sessions : u # s => session'[u] = session[u]
<1> DEFINE t == Following(s).table
           new == IF IsNew(s, t) THEN session[s].new \union {t} ELSE session[s].new
           fired == IF Fires(s, t) THEN session[s].fired \union {t} ELSE session[s].fired
<1>1. /\ session[s].todo # {} /\ Following(s).kind = "insert" /\ Accepted(s, t)
      /\ session' = [session EXCEPT ![s] = [Advanced(s) EXCEPT
              !.new = IF IsNew(s, t) THEN @ \union {t} ELSE @,
              !.fired = IF Fires(s, t) THEN @ \union {t} ELSE @]]
      /\ triggers' = triggers
    BY DEF Insert, At, Execute, tables
<1>2. session[s] \in SessionRecords /\ session[s].op = "write" /\ Stands(s)
    BY <1>1, KindTellsOp DEF SInv, IInv, SessionsSound, SessionsTyped
<1>3. session'[s] = [Advanced(s) EXCEPT !.new = new, !.fired = fired]
  <2>1. Advanced(s).new = session[s].new /\ Advanced(s).fired = session[s].fired
      BY <1>2 DEF Advanced, SessionRecords
  <2> QED
      BY <1>1, <2>1 DEF SInv, IInv, SessionsSound, SessionsTyped
<1>4. /\ session'[s].op = "write" /\ session'[s].chain = session[s].chain
      /\ session'[s].new = new /\ session'[s].fired = fired
  <2> HIDE DEF new, fired
  <2> QED
      BY <1>2, <1>3 DEF Advanced, SessionRecords
<1>5. UnfiredKnows(s)'
  <2>1. \A u \in new \ fired : u \in session[s].new \ session[s].fired
                                \/ (u = t /\ <<session[s].chain, t>> \notin triggers)
      BY DEF Fires
  <2> HIDE DEF new, fired
  <2> QED
      BY <1>1, <1>2, <1>4, <2>1 DEF Stands, UnfiredKnows
<1>6. FiredWork(s)'
  <2>1. \A u \in fired : u \in session[s].fired \/ TriggerWorks(u)
      BY <1>1 DEF Accepted
  <2> HIDE DEF new, fired
  <2> QED
      BY <1>2, <1>4, <2>1 DEF Stands, FiredWork
<1>7. SetupHolds(s)'
    BY <1>4 DEF SetupHolds
<1> QED
    BY <1>1, <1>5, <1>6, <1>7 DEF Stands, SInv, IInv, SessionsSound, SessionsTyped

(* A trigger is created, and its table kept.                               *)
LEMMA CreateStands ==
    ASSUME SInv, NEW s \in Sessions, CreateTrigger(s)
    PROVE  Stands(s)' /\ \A u \in Sessions : u # s => session'[u] = session[u]
<1> DEFINE t == Following(s).table
<1>1. /\ session[s].todo # {} /\ Following(s).kind = "create" /\ ~session[s].broken
      /\ session' = [session EXCEPT ![s] = Advanced(s)]
    BY DEF CreateTrigger, At, Execute
<1>2. session[s] \in SessionRecords /\ session[s].op = "setup" /\ Stands(s) /\ IsSetup(s)
    BY <1>1, KindTellsOp DEF SInv, IInv, SessionsSound, SessionsTyped, Sound
<1>3. Lock(s) = {Hold(session[s].chain, t, FALSE)}
    BY <1>1 DEF Lock, At, Hold
<1>4. /\ session'[s].op = "setup" /\ session'[s].chain = session[s].chain
      /\ session'[s].todo = Remaining(s) /\ session'[s].locked = session[s].locked \union Lock(s)
    BY <1>1, <1>2 DEF Advanced, SessionRecords, SInv, IInv, SessionsSound, SessionsTyped
<1>5. \A u \in Synced : CreateOf(u) \notin Remaining(s) =>
                            CreateOf(u) \notin session[s].todo \/ u = t
    BY DEF Remaining, CreateOf, Statement
<1>6. SetupHolds(s)'
    BY <1>2, <1>3, <1>4, <1>5 DEF SetupHolds, Stands
<1> QED
    BY <1>1, <1>4, <1>6 DEF Stands, UnfiredKnows, FiredWork, SInv, IInv, SessionsSound, SessionsTyped

(* A statement of a removal.                                               *)
LEMMA RemovalStands ==
    ASSUME SInv, NEW s \in Sessions, DropTrigger(s) \/ DropFunction(s) \/ DeleteCopies(s)
    PROVE  Stands(s)' /\ \A u \in Sessions : u # s => session'[u] = session[u]
<1>1. PICK D : session' = [session EXCEPT ![s] = [Advanced(s) EXCEPT !.deleted = D]]
  <2>1. session[s] \in SessionRecords
      BY DEF SInv, IInv, SessionsSound, SessionsTyped
  <2>2. Advanced(s) = [Advanced(s) EXCEPT !.deleted = session[s].deleted]
      BY <2>1 DEF Advanced, SessionRecords
  <2>3. CASE DropTrigger(s) \/ DropFunction(s)
      BY <2>2, <2>3 DEF DropTrigger, DropFunction, Execute
  <2>4. CASE DeleteCopies(s)
      BY <2>4 DEF DeleteCopies, Execute
  <2> QED
      BY <2>3, <2>4
<1>2. session[s].op = "remove" /\ session[s] \in SessionRecords
    BY KindTellsOp DEF DropTrigger, DropFunction, DeleteCopies, At, SInv, IInv, SessionsSound,
                       SessionsTyped
<1>3. session'[s].op = "remove" /\ \A u \in Sessions : u # s => session'[u] = session[u]
    BY <1>1, <1>2 DEF Advanced, SessionRecords, SInv, IInv, SessionsSound, SessionsTyped
<1> QED
    BY <1>3, BystanderStands

(* When a set-up commits no other session has inserted into its tables.    *)
LEMMA CommitSetupStands ==
    ASSUME SInv, NEW s \in Sessions, CommitSetup(s), NEW u \in Sessions, u # s,
           session'[u] = session[u]
    PROVE  Stands(u)'
<1>1. /\ session[s].op = "setup" /\ session[s].todo = {}
      /\ triggers' = triggers \union ({session[s].chain} \X Synced)
    BY DEF CommitSetup
<1>2. SetupHolds(u)' /\ FiredWork(u)'
    BY DEF SInv, Stands, SetupHolds, FiredWork
<1>3. UnfiredKnows(u)'
  <2> SUFFICES ASSUME session[u].op = "write", NEW t \in session[u].new \ session[u].fired,
                      <<session[u].chain, t>> \in triggers'
               PROVE  FALSE
      BY DEF UnfiredKnows
  <2>1. <<session[u].chain, t>> \notin triggers
      BY DEF SInv, Stands, UnfiredKnows
  <2>2. session[u].chain = session[s].chain /\ t \in Synced
      BY <1>1, <2>1
  <2>3. Hold(session[s].chain, t, FALSE) \in session[s].locked
      BY <1>1, <2>2 DEF SInv, Stands, SetupHolds
  <2>4. Hold(session[u].chain, t, TRUE) \in session[u].locked
      BY DEF SInv, IInv, SessionsSound, Sound, IsWrite
  <2> QED
      BY <2>2, <2>3, <2>4, HoldsExclude DEF SInv, IInv
<1> QED
    BY <1>2, <1>3 DEF Stands

(* While sessions only end or fail and no trigger comes, all stand.        *)
LEMMA LessStands ==
    ASSUME Lessens, triggers' \subseteq triggers, NEW u \in Sessions, Stands(u)
    PROVE  Stands(u)'
<1>1. session'[u] = Idle \/ Breaks(u) => session'[u].op \in {"idle", "remove"}
    BY IdleIsSound DEF Breaks
<1> QED
    BY <1>1, BystanderStands DEF Lessens

(* At the start nobody does anything.                                      *)
LEMMA InitSInv == Init => SInv
<1> SUFFICES ASSUME Init PROVE SInv
    OBVIOUS
<1>1. \A s \in Sessions : session[s].op = "idle"
    BY IdleIsSound DEF Init
<1> QED
    BY <1>1, InitIInv DEF SInv, Stands, SetupHolds, UnfiredKnows, FiredWork

(* Every step keeps it.                                                    *)
LEMMA NextSInv == SInv /\ [Next]_vars => SInv'
<1> SUFFICES ASSUME SInv, [Next]_vars PROVE SInv'
    OBVIOUS
<1>0. IInv /\ IInv' /\ SessionsSound /\ \A u \in Sessions : Stands(u)
    BY NextIInv DEF SInv, IInv
<1> DEFINE AllStand == \A u \in Sessions : Stands(u)'
<1>1. ASSUME NEW s \in Sessions, Stands(s)', triggers' \subseteq triggers,
             \A u \in Sessions : u # s => session'[u] = session[u]
      PROVE  AllStand
    BY <1>0, <1>1, BystanderStands
<1>2. ASSUME Lessens, triggers' \subseteq triggers PROVE AllStand
    BY <1>0, <1>2, LessStands
<1>3. ASSUME NEW w \in Writers, NEW c \in Chains, NEW h \in Heights, StartWrite(w, c, h)
      PROVE  AllStand
  <2> DEFINE x == [Idle EXCEPT !.op = "write", !.chain = c, !.height = h,
                               !.view = View[w], !.todo = StatementsOfWrite(h)]
  <2>1. session' = [session EXCEPT ![w] = x] /\ triggers' = triggers /\ w \in Sessions
      BY <1>3 DEF StartWrite, tables, Sessions
  <2>2. x.op = "write" /\ x.new = {} /\ x.fired = {}
      BY DEF Idle
  <2> HIDE DEF x
  <2>3. Stands(w)'
      BY <1>0, <2>1, <2>2, StartStands
  <2> QED
      BY <1>0, <1>1, <2>1, <2>3 DEF SessionsSound, SessionsTyped
<1>4. ASSUME NEW p \in Processes, NEW c \in Chains, StartSetup(p, c)
      PROVE  AllStand
  <2> DEFINE x == [Idle EXCEPT !.op = "setup", !.chain = c, !.todo = StatementsOfSetup]
  <2>1. session' = [session EXCEPT ![p] = x] /\ triggers' = triggers /\ p \in Sessions
      BY <1>4 DEF StartSetup, Sessions
  <2>2. x.op = "setup" /\ x.todo = StatementsOfSetup
      BY DEF Idle
  <2> HIDE DEF x
  <2>3. Stands(p)'
      BY <1>0, <2>1, <2>2, StartStands
  <2> QED
      BY <1>0, <1>1, <2>1, <2>3 DEF SessionsSound, SessionsTyped
<1>5. ASSUME NEW p \in Processes, NEW c \in Chains, StartRemoval(p, c)
      PROVE  AllStand
  <2> DEFINE x == [Idle EXCEPT !.op = "remove", !.chain = c, !.todo = StatementsOfRemoval]
  <2>1. session' = [session EXCEPT ![p] = x] /\ triggers' = triggers /\ p \in Sessions
      BY <1>5 DEF StartRemoval, Sessions
  <2>2. x.op = "remove"
      BY DEF Idle
  <2> HIDE DEF x
  <2>3. Stands(p)'
      BY <1>0, <2>1, <2>2, StartStands
  <2> QED
      BY <1>0, <1>1, <2>1, <2>3 DEF SessionsSound, SessionsTyped
<1>6. ASSUME NEW s \in Sessions,
             Insert(s) \/ CreateTrigger(s) \/ DropTrigger(s) \/ DropFunction(s) \/ DeleteCopies(s)
      PROVE  AllStand
  <2>1. triggers' = triggers
      BY <1>6 DEF Insert, CreateTrigger, DropTrigger, DropFunction, DeleteCopies, tables
  <2>2. Stands(s)' /\ \A u \in Sessions : u # s => session'[u] = session[u]
      BY <1>6, InsertStands, CreateStands, RemovalStands
  <2> QED
      BY <1>1, <2>1, <2>2
<1>7. ASSUME NEW s \in Sessions, CommitWrite(s) \/ CommitSetup(s) \/ CommitRemoval(s)
      PROVE  AllStand
  <2>1. Moves(s) /\ session'[s] = Idle
    <3>1. End(s)
        BY <1>7 DEF CommitWrite, CommitSetup, CommitRemoval
    <3> QED
        BY <1>0, <3>1, EndLessens
  <2>2. Stands(s)' /\ \A u \in Sessions : u # s => session'[u] = session[u]
      BY <2>1, IdleIsSound, BystanderStands DEF Moves
  <2>3. CASE CommitWrite(s) \/ CommitRemoval(s)
    <3>1. triggers' \subseteq triggers
        BY <2>3 DEF CommitWrite, CommitRemoval
    <3> QED
        BY <1>1, <2>2, <3>1
  <2>4. CASE CommitSetup(s)
      BY <2>2, <2>4, CommitSetupStands
  <2> QED
      BY <1>7, <2>3, <2>4
<1>8. ASSUME NEW s \in Sessions,
             \/ InsertRefused(s) \/ CommitBroken(s) \/ Refused(s)
             \/ FunctionInUse(s) \/ BreakDeadlock(s) \/ StatementFails(s)
      PROVE  AllStand
  <2>1. Lessens /\ UNCHANGED tables
      BY <1>0, <1>8, FailingLessens
  <2> QED
      BY <1>2, <2>1 DEF tables
<1>9. ASSUME \E p \in Processes : Crash(p) PROVE AllStand
  <2>1. PICK s \in Sessions : TRUE
      BY <1>9 DEF Sessions
  <2>2. Lessens /\ UNCHANGED tables
      BY <1>0, <1>9, <2>1, FailuresLessen
  <2> QED
      BY <1>2, <2>2 DEF tables
<1>10. ASSUME UNCHANGED vars PROVE AllStand
    BY <1>0, <1>10, BystanderStands DEF vars
<1>11. AllStand
    BY <1>3, <1>4, <1>5, <1>6, <1>7, <1>8, <1>9, <1>10 DEF Next, Step
<1> QED
    BY <1>0, <1>11 DEF SInv

(* A table filled, as the abstract specification writes it.                *)
LEMMA PutIsFilled ==
    ASSUME NEW table, table \in CopyRecords,
           NEW x, x.chain \in Chains, x.height \in Heights, x.view \in Views, NEW S
    PROVE  Put(table, x, S) = Serial!Filled(table, x.chain, S, x.height, x.view)
<1> DEFINE put == Put(table, x, S)
           filled == Serial!Filled(table, x.chain, S, x.height, x.view)
<1>1. filled = [d \in Chains |-> [t \in Tables |-> [g \in Heights |->
                  IF d = x.chain /\ t \in S /\ g = x.height THEN x.view ELSE table[d][t][g]]]]
    BY DEF Serial!Filled
<1>2. Puts(put, table, x, S)
    BY PutFields
<1> HIDE DEF put, filled
<1>3. put \in [Chains -> [Tables -> [Heights -> Views \union {None}]]]
    BY <1>2 DEF Puts, CopyRecords
<1>4. ASSUME NEW d \in Chains, NEW t \in Tables
      PROVE  put[d][t] = filled[d][t]
  <2>1. put[d][t] = [g \in Heights |-> put[d][t][g]]
      BY <1>3
  <2>2. filled[d][t] = [g \in Heights |->
           IF d = x.chain /\ t \in S /\ g = x.height THEN x.view ELSE table[d][t][g]]
      BY <1>1
  <2>3. \A g \in Heights : put[d][t][g] =
           IF d = x.chain /\ t \in S /\ g = x.height THEN x.view ELSE table[d][t][g]
      BY <1>2 DEF Puts
  <2> QED
      BY <2>1, <2>2, <2>3
<1>5. ASSUME NEW d \in Chains PROVE put[d] = filled[d]
  <2>1. put[d] = [t \in Tables |-> put[d][t]] /\ filled[d] = [t \in Tables |-> filled[d][t]]
      BY <1>1, <1>3
  <2> QED
      BY <1>4, <2>1
<1>6. put = [d \in Chains |-> put[d]] /\ filled = [d \in Chains |-> filled[d]]
    BY <1>1, <1>3
<1> QED
    BY <1>5, <1>6 DEF put, filled

(* A block commits: its rows are there at once, with the copies that the   *)
(* triggers of this moment would make.                                     *)
LEMMA WriteIsOneStep ==
    ASSUME SInv, NEW s \in Sessions, CommitWrite(s)
    PROVE  Serial!Next
<1> DEFINE x == session[s]
           c == session[s].chain
           h == session[s].height
<1>1. /\ x.op = "write" /\ x.todo = {}
      /\ rows' = Put(rows, x, Content[h]) /\ copy' = Put(copy, x, x.fired)
      /\ UNCHANGED <<triggers, contended>>
    BY DEF CommitWrite
<1>2. IsWrite(s) /\ WriteKnows(s) /\ Stands(s) /\ TablesTyped
    BY <1>1 DEF SInv, IInv, Known, SessionsSound, Sound
<1>3. c \in Chains /\ h \in Heights /\ x.view \in Views /\ Done(s) = Content[h]
    BY <1>1, <1>2 DEF IsWrite, Views, Done
<1>4. x.fired = Serial!Fired(c, h)
  <2>1. x.fired \subseteq x.new /\ x.new \subseteq Content[h]
      BY <1>2, <1>3 DEF IsWrite
  <2>2. \A t \in Content[h] : t \in x.new <=> rows[c][t][h] = None
      BY <1>1, <1>2, <1>3 DEF WriteKnows
  <2>3. \A t \in x.new : t \in x.fired <=> <<c, t>> \in triggers
      BY <1>1, <1>2, <2>1 DEF WriteKnows, Stands, UnfiredKnows
  <2> QED
      BY <2>1, <2>2, <2>3 DEF Serial!Fired
<1>5. Serial!Fired(c, h) \subseteq {t \in Synced : TriggerWorks(t)}
  <2>1. \A t \in x.fired : TriggerWorks(t) /\ <<c, t>> \in triggers
      BY <1>1, <1>2 DEF WriteKnows, Stands, FiredWork
  <2>2. \A t \in x.fired : t \in Synced
      BY <1>2, <2>1 DEF TablesTyped
  <2> QED
      BY <1>4, <2>1, <2>2
<1>6. /\ rows' = Serial!Filled(rows, c, Content[h], h, x.view)
      /\ copy' = Serial!Filled(copy, c, Serial!Fired(c, h), h, x.view)
  <2>1. rows \in CopyRecords /\ copy \in CopyRecords
      BY <1>2 DEF TablesTyped, CopyRecords
  <2> QED
      BY <1>1, <1>3, <1>4, <2>1, PutIsFilled
<1>7. Serial!Write(c, h, x.view)
    BY <1>1, <1>5, <1>6 DEF Serial!Write
<1> QED
    BY <1>3, <1>7 DEF Serial!Next

(* A set-up commits.                                                       *)
LEMMA SetupIsOneStep ==
    ASSUME SInv, NEW s \in Sessions, CommitSetup(s)
    PROVE  Serial!Next
<1> DEFINE c == session[s].chain
<1>1. c \in Chains
    BY DEF CommitSetup, SInv, IInv, SessionsSound, Sound, IsSetup
<1>2. Serial!SetUp(c)
    BY DEF CommitSetup, Serial!SetUp
<1> QED
    BY <1>1, <1>2 DEF Serial!Next

(* A removal commits: of each table either nothing is left, or the chain   *)
(* was set up at the same time and its trigger stays.                      *)
LEMMA RemovalIsOneStep ==
    ASSUME SInv, NEW s \in Sessions, CommitRemoval(s)
    PROVE  Serial!Next
<1> DEFINE c == session[s].chain
           gone == session[s].deleted
<1>1. /\ session[s].op = "remove" /\ session[s].todo = {} /\ ~session[s].broken
      /\ copy' = [d \in Chains |-> [t \in Tables |-> [h \in Heights |->
                     IF <<d, t, h>> \in gone THEN None ELSE copy[d][t][h]]]]
      /\ triggers' = triggers \ ({c} \X Dropped(s))
      /\ UNCHANGED <<rows, contended>>
    BY DEF CommitRemoval
<1>2. IsRemoval(s) /\ RemovalKnows(s) /\ TablesTyped /\ Synced \subseteq Tables
    BY <1>1, StatementsTyped DEF SInv, IInv, Known, SessionsSound, Sound
<1>3. c \in Chains /\ gone \subseteq {c} \X Synced \X Heights /\ Dropped(s) \subseteq Synced
    BY <1>1, <1>2 DEF IsRemoval
<1>4. /\ \A t \in Dropped(s), h \in Heights : copy[c][t][h] # None => <<c, t, h>> \in gone
      /\ c \notin contended => \A t \in Synced : t \in Dropped(s) <=> <<c, t>> \in triggers
    BY <1>1, <1>2 DEF RemovalKnows
<1>5. \A t \in Tables, h \in Heights :
        copy'[c][t][h] = IF <<c, t, h>> \in gone THEN None ELSE copy[c][t][h]
    BY <1>1, <1>3
<1>6. ASSUME NEW t \in Synced
      PROVE  Serial!Cleared(c, t) \/ Serial!Spared(c, t)
  <2>1. CASE t \in Dropped(s)
    <3>1. <<c, t>> \notin triggers'
        BY <1>1, <2>1
    <3>2. \A h \in Heights : copy'[c][t][h] = None
        BY <1>2, <1>4, <1>5, <2>1
    <3> QED
        BY <3>1, <3>2 DEF Serial!Cleared
  <2>2. CASE t \notin Dropped(s) /\ c \notin contended
    <3>1. <<c, t>> \notin triggers /\ <<c, t>> \notin triggers'
        BY <1>1, <1>4, <2>2
    <3>2. \A h \in Heights : copy[c][t][h] = None
        BY <1>3, <3>1 DEF SInv, IInv, NoOrphanCopies
    <3>3. \A h \in Heights : copy'[c][t][h] = None
        BY <1>2, <1>5, <3>2
    <3> QED
        BY <3>1, <3>3 DEF Serial!Cleared
  <2>3. CASE t \notin Dropped(s) /\ c \in contended
    <3>1. <<c, t>> \in triggers' <=> <<c, t>> \in triggers
        BY <1>1, <2>3
    <3>2. \A h \in Heights : copy'[c][t][h] \in {copy[c][t][h], None}
        BY <1>2, <1>5
    <3> QED
        BY <2>3, <3>1, <3>2 DEF Serial!Spared
  <2> QED
      BY <2>1, <2>2, <2>3
<1>7. triggers' \subseteq triggers /\ triggers \ triggers' \subseteq {c} \X Synced
    BY <1>1, <1>3
<1>8. copy' \in [Chains -> [Tables -> [Heights -> Views \union {None}]]]
    BY <1>1, <1>2 DEF TablesTyped
<1>9. ASSUME NEW d \in Chains, NEW t \in Tables, d # c \/ t \notin Synced
      PROVE  copy'[d][t] = copy[d][t]
  <2>1. \A h \in Heights : <<d, t, h>> \notin gone
      BY <1>3, <1>9
  <2>2. copy'[d][t] = [h \in Heights |-> copy[d][t][h]]
      BY <1>1, <2>1
  <2>3. copy[d][t] = [h \in Heights |-> copy[d][t][h]]
      BY <1>2 DEF TablesTyped
  <2> QED
      BY <2>2, <2>3
<1>10. Serial!Remove(c)
    BY <1>1, <1>6, <1>7, <1>8, <1>9 DEF Serial!Remove
<1> QED
    BY <1>3, <1>10 DEF Serial!Next

(* Everything else leaves the tables alone, but for the note that a chain  *)
(* is set up and removed at the same time.                                 *)
LEMMA OthersChangeNothing ==
    ASSUME SInv, [Next]_vars,
           ~\E s \in Sessions : CommitWrite(s) \/ CommitSetup(s) \/ CommitRemoval(s)
    PROVE  [Serial!Next]_(Serial!database)
<1> USE DEF Serial!database
<1>0. SessionsSound
    BY DEF SInv, IInv
<1>1. ASSUME NEW w \in Writers, NEW c \in Chains, NEW h \in Heights, StartWrite(w, c, h)
      PROVE  UNCHANGED Serial!database
    BY <1>1 DEF StartWrite, tables
<1>2. ASSUME NEW p \in Processes, NEW c \in Chains, StartSetup(p, c) \/ StartRemoval(p, c)
      PROVE  Serial!Next \/ UNCHANGED Serial!database
  <2>1. UNCHANGED <<rows, copy, triggers>> /\ contended' \in {contended, contended \union {c}}
      BY <1>2 DEF StartSetup, StartRemoval, Contend
  <2>2. Serial!Clash(c) \/ UNCHANGED Serial!database
      BY <2>1 DEF Serial!Clash
  <2> QED
      BY <2>2 DEF Serial!Next
<1>3. ASSUME NEW s \in Sessions,
             Insert(s) \/ CreateTrigger(s) \/ DropTrigger(s) \/ DropFunction(s) \/ DeleteCopies(s)
      PROVE  UNCHANGED Serial!database
    BY <1>3 DEF Insert, CreateTrigger, DropTrigger, DropFunction, DeleteCopies, tables
<1>4. ASSUME NEW s \in Sessions,
             \/ InsertRefused(s) \/ CommitBroken(s) \/ Refused(s)
             \/ FunctionInUse(s) \/ BreakDeadlock(s) \/ StatementFails(s)
      PROVE  UNCHANGED Serial!database
    BY <1>0, <1>4, FailingLessens DEF tables
<1>5. ASSUME (\E p \in Processes : Crash(p)) \/ UNCHANGED vars
      PROVE  UNCHANGED Serial!database
    BY <1>5 DEF Crash, tables, vars
<1> QED
    BY <1>1, <1>2, <1>3, <1>4, <1>5 DEF Next, Step

(* writeBlockData, SetupChainSync and RemoveChainSync are as good as       *)
(* single steps: whatever their statements wait for, and whoever fails or  *)
(* dies in between, the committed tables are those of transactions that    *)
(* run one after the other.                                                *)
THEOREM ActsAsOneStep == Spec => ActsSerially
<1>1. Init => Serial!Init
    BY DEF Init, Serial!Init
<1>2. SInv /\ [Next]_vars => [Serial!Next]_(Serial!database)
    BY WriteIsOneStep, SetupIsOneStep, RemovalIsOneStep, OthersChangeNothing
<1> QED
    BY <1>1, <1>2, InitSInv, NextSInv, PTL DEF Spec, ActsSerially, Serial!Spec

(* One process alone, the indexer without a backfill, never sets up and    *)
(* removes a chain at once: SetupChainSync and RemoveChainSync are then    *)
(* all or nothing for every chain, and each a single step.                 *)
THEOREM AloneAllOrNothing ==
    ASSUME \A p, q \in Processes : p = q
    PROVE  Spec => [](\A c \in Chains, t, u \in Synced :
                         <<c, t>> \in triggers <=> <<c, u>> \in triggers)
<1> DEFINE AllOrNothing == \A c \in Chains, t, u \in Synced :
                              <<c, t>> \in triggers <=> <<c, u>> \in triggers
           Alone == contended = {}
<1>1. Init => Alone
    BY DEF Init
<1>2. IInv /\ Alone /\ [Next]_vars => Alone'
  <2> SUFFICES ASSUME IInv, Alone, [Next]_vars PROVE contended' = contended
      OBVIOUS
  <2>1. ASSUME NEW p \in Processes, NEW c \in Chains, StartSetup(p, c) \/ StartRemoval(p, c)
        PROVE  contended' = contended
    <3>1. session[p].op = "idle"
        BY <2>1 DEF StartSetup, StartRemoval, Busy
    <3>2. \A q \in Processes : session[q].op = "idle"
        BY <3>1
    <3> QED
        BY <2>1, <3>2 DEF StartSetup, StartRemoval, Contend
  <2>2. ASSUME NEW s \in Sessions, CommitWrite(s) \/ CommitSetup(s) \/ CommitRemoval(s)
        PROVE  contended' = contended
      BY <2>2 DEF CommitWrite, CommitSetup, CommitRemoval
  <2>3. ASSUME NEW s \in Sessions,
               \/ InsertRefused(s) \/ CommitBroken(s) \/ Refused(s)
               \/ FunctionInUse(s) \/ BreakDeadlock(s) \/ StatementFails(s)
        PROVE  contended' = contended
      BY <2>3, FailingLessens DEF tables, IInv
  <2>4. ASSUME NEW s \in Sessions,
               Insert(s) \/ CreateTrigger(s) \/ DropTrigger(s) \/ DropFunction(s) \/ DeleteCopies(s)
        PROVE  contended' = contended
      BY <2>4 DEF Insert, CreateTrigger, DropTrigger, DropFunction, DeleteCopies, tables
  <2>5. ASSUME \/ \E w \in Writers, c \in Chains, h \in Heights : StartWrite(w, c, h)
               \/ \E p \in Processes : Crash(p)
               \/ UNCHANGED vars
        PROVE  contended' = contended
      BY <2>5 DEF StartWrite, Crash, tables, vars
  <2> QED
      BY <2>1, <2>2, <2>3, <2>4, <2>5 DEF Next, Step
<1>3. IInv /\ Alone => AllOrNothing
    BY DEF IInv, TriggersTogether
<1> HIDE DEF AllOrNothing, Alone
<1>4. Spec => []AllOrNothing
    BY <1>1, <1>2, <1>3, Invariant, PTL DEF Spec
<1> QED
    BY <1>4 DEF AllOrNothing
=============================================================================
