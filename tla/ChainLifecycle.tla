--------------------------- MODULE ChainLifecycle ---------------------------
(***************************************************************************)
(* Which chains the indexer handles: the rows of admin.chains and the      *)
(* requests of the HTTP API that edit them, the goroutine that compares    *)
(* them with the chains at hand at each tick, and the pool, the blob       *)
(* listener and the cross-chain triggers that come and go with a chain.    *)
(*                                                                         *)
(* A row keeps what decides about a chain: its first endpoint, paused and  *)
(* deleted.  An epoch is one life of a chain in the program, with its pool *)
(* and its listener; it is used again when nothing of it is left.          *)
(***************************************************************************)
EXTENDS BlobListener, FiniteSets

CONSTANTS
    None,           \* no row
    NoUrl,          \* a row without endpoints
    Reports,        \* per url: the chain id in block 1 of that node
    Bodies,         \* the rows that requests name
    Clients,        \* requests of the API that may be under way at once
    AutoSubscribe,  \* WSBlobAutoSubscribe
    MaxEdits,       \* bound on the edits of admin.chains
    MaxFaults,      \* bound on the failed calls to the database
    MaxStops        \* bound on the ends of the process

VARIABLES
    admin,     \* the rows of admin.chains
    request,   \* per client: the row its request has read
    edits,     \* edits made so far
    up,        \* the process runs
    chains,    \* idx.chains: the epoch of each chain, 0 for none
    closed,    \* epochs whose pool is closed, or being closed
    lis,       \* the listener of each epoch
    walk,      \* the goroutine that rediscovers, and in the end closes
    triggers,  \* chains whose cross-chain triggers are installed
    faults,    \* failed calls so far
    stops      \* ends of the process so far

registry == <<admin, request, edits>>
program == <<up, chains, closed, lis, walk>>
vars == <<registry, program, triggers, faults, stops>>

Rows == [url : Urls \cup {NoUrl}, paused : BOOLEAN, deleted : BOOLEAN]
ASSUME BodiesAssumption == Bodies \subseteq Rows
ASSUME BoundsAssumption == MaxEdits \in Nat /\ MaxFaults \in Nat

Idle == [op |-> "idle"]
Requests == [op : {"patch", "delete"}, chain : Chains, row : Rows]

(* ListChain leaves the deleted rows out and Rediscover the paused ones    *)
(* and those without endpoints.                                            *)
ActiveUrl(c) ==
    IF admin[c] = None \/ admin[c].deleted \/ admin[c].paused THEN NoUrl ELSE admin[c].url

Indexed == {c \in Chains : chains[c] # 0}
Active == {c \in Chains : ActiveUrl(c) # NoUrl}
Current == {chains[c] : c \in Indexed}

Walk(pc, list, c, e) ==
    [pc |-> pc, list |-> list, chain |-> c, epoch |-> e, failed |-> {}]
AtRest == Walk("idle", [c \in Chains |-> NoUrl], None, 0)

(* idx.mu is held from the first comparison of a Rediscover to its end,    *)
(* and by Close.                                                           *)
MuFree == walk.pc = "idle"

NoListener == [pc |-> "none"]

Fresh ==
    /\ chains = [c \in Chains |-> 0]
    /\ closed = {}
    /\ lis = [e \in Epochs |-> NoListener]
    /\ walk = AtRest

Init ==
    /\ admin = [c \in Chains |-> None]
    /\ request = [k \in Clients |-> Idle]
    /\ edits = 0
    /\ up = TRUE
    /\ Fresh
    /\ triggers = {}
    /\ faults = 0
    /\ stops = 0

----------------------------------------------------------------------------
(* The API.  A replacement names the whole row; a patch and a delete read  *)
(* the row, and write all of it back with their change.                    *)

(* The endpoints of a body, if there are any, must answer with the chain's *)
(* own id.                                                                 *)
Validated(c, url) == url # NoUrl => Reports[url] = c

Edit(c, row) ==
    /\ edits < MaxEdits
    /\ admin' = [admin EXCEPT ![c] = row]
    /\ edits' = edits + 1
    /\ UNCHANGED <<program, triggers, faults, stops>>

Upsert(c) ==
    \E row \in Bodies :
        /\ Validated(c, row.url)
        /\ Edit(c, row)
        /\ UNCHANGED request

Load(k, c, op) ==
    /\ request[k] = Idle
    /\ admin[c] # None
    /\ edits < MaxEdits
    /\ request' = [request EXCEPT ![k] = [op |-> op, chain |-> c, row |-> admin[c]]]
    /\ UNCHANGED <<admin, edits, program, triggers, faults, stops>>

(* A body without endpoints leaves the row's, which the choice of the url  *)
(* covers; "paused" is always taken from it.                               *)
SavePatch(k) ==
    /\ request[k].op = "patch"
    /\ \E url \in Urls \cup {NoUrl}, paused \in BOOLEAN :
        /\ Validated(request[k].chain, url)
        /\ Edit(request[k].chain, [request[k].row EXCEPT !.url = url, !.paused = paused])
    /\ request' = [request EXCEPT ![k] = Idle]

SaveDelete(k) ==
    /\ request[k].op = "delete"
    /\ Edit(request[k].chain, [request[k].row EXCEPT !.deleted = TRUE])
    /\ request' = [request EXCEPT ![k] = Idle]

(* A body that cannot be read, or whose endpoints do not answer for the    *)
(* chain, ends the request.                                                *)
Refuse(k) ==
    /\ request[k] # Idle
    /\ request' = [request EXCEPT ![k] = Idle]
    /\ UNCHANGED <<admin, edits, program, triggers, faults, stops>>

Api ==
    \/ \E c \in Chains : Upsert(c)
    \/ \E k \in Clients, c \in Chains, op \in {"patch", "delete"} : Load(k, c, op)
    \/ \E k \in Clients : SavePatch(k) \/ SaveDelete(k) \/ Refuse(k)

----------------------------------------------------------------------------
(* Rediscover, at the start and at each tick.                              *)

Fault == faults < MaxFaults /\ faults' = faults + 1

(* The list is read, and then the lock is taken: one step, for nobody who  *)
(* waits for the lock edits the registry, and the registry may be edited   *)
(* as soon as the list is read.                                            *)
ListChains ==
    /\ up
    /\ walk.pc = "idle"
    /\ walk' = Walk("locked", [c \in Chains |-> ActiveUrl(c)], None, 0)
    /\ UNCHANGED <<registry, up, chains, closed, lis, triggers, faults, stops>>

Gone == {c \in Indexed : walk.list[c] = NoUrl}
New == {c \in Chains \ (Indexed \cup walk.failed) : walk.list[c] # NoUrl}

HasConnection(l, e) == l.pc = "writing" /\ l.pool = e
Drained(e) == \A f \in Epochs : ~HasConnection(lis[f], e)

Subscribed(e) == lis[e].pc # "none"

(* Close of a chain's pool takes no more callers and waits for the         *)
(* connections in use: it begins here and ends in a step that asks for     *)
(* Drained.                                                                *)
ClosePool(c, pc) ==
    /\ closed' = closed \cup {chains[c]}
    /\ walk' = [walk EXCEPT !.pc = pc, !.chain = c, !.epoch = chains[c]]
    /\ UNCHANGED <<registry, up, chains, lis, triggers, faults, stops>>

(* removeChainLocked, for a chain that is not in the list: its pool is     *)
(* closed ...                                                              *)
RemoveCloses(c) ==
    /\ walk.pc = "locked"
    /\ c \in Gone
    /\ ClosePool(c, "closing")

(* ... the chain forgotten and the context of its listener cancelled ...   *)
\* Mutant: the listener's context is left alone, its connection closed.
RemoveForgetsKeepsContext ==
    /\ walk.pc = "closing"
    /\ Drained(walk.epoch)
    /\ chains' = [chains EXCEPT ![walk.chain] = 0]
    /\ walk' = [walk EXCEPT !.pc = "disconnecting"]
    /\ UNCHANGED <<registry, up, closed, lis, triggers, faults, stops>>

RemoveForgets ==
    /\ walk.pc = "closing"
    /\ Drained(walk.epoch)
    /\ chains' = [chains EXCEPT ![walk.chain] = 0]
    /\ lis' = IF Subscribed(walk.epoch) THEN [lis EXCEPT ![walk.epoch] = Cancelled(@)]
              ELSE lis
    /\ walk' = [walk EXCEPT !.pc = "disconnecting"]
    /\ UNCHANGED <<registry, up, closed, triggers, faults, stops>>

(* ... the listener's connection closed ...                                *)
\* Mutant: the context is cancelled, the connection left to the listener.
RemoveDisconnectsOnlyForgets ==
    /\ walk.pc = "disconnecting"
    /\ walk' = [walk EXCEPT !.pc = "unsyncing"]
    /\ UNCHANGED <<registry, up, chains, closed, lis, triggers, faults, stops>>

RemoveDisconnects ==
    /\ walk.pc = "disconnecting"
    /\ lis' = IF Subscribed(walk.epoch) THEN [lis EXCEPT ![walk.epoch] = Closed(@)]
              ELSE lis
    /\ walk' = [walk EXCEPT !.pc = "unsyncing"]
    /\ UNCHANGED <<registry, up, chains, closed, triggers, faults, stops>>

(* ... and its triggers dropped, or a failure of that logged.              *)
\* Mutant: the triggers are left in place.
RemoveUnsyncsSkips ==
    /\ walk.pc = "unsyncing"
    /\ walk' = [walk EXCEPT !.pc = "locked", !.chain = None, !.epoch = 0]
    /\ UNCHANGED <<registry, up, chains, closed, lis, triggers, faults, stops>>

RemoveUnsyncs ==
    /\ walk.pc = "unsyncing"
    /\ \/ triggers' = triggers \ {walk.chain} /\ UNCHANGED faults
       \/ Fault /\ UNCHANGED triggers
    /\ walk' = [walk EXCEPT !.pc = "locked", !.chain = None, !.epoch = 0]
    /\ UNCHANGED <<registry, up, chains, closed, lis, stops>>

(* An epoch of which nothing is left: its listener has ended and no        *)
(* handler holds its pool.                                                 *)
Unused(e) ==
    /\ e \notin Current
    /\ lis[e].pc \in Over \cup {"none"}
    /\ \A f \in Epochs : Subscribed(f) => lis[f].pool # e

(* addChainLocked, for a chain that is new in the list and once nothing is *)
(* left to remove: no pool, and the chain is left for the next tick; or a  *)
(* pool and a listener, with the triggers or with a failure of them        *)
(* logged.                                                                 *)
AddFails(c) ==
    /\ Fault
    /\ walk' = [walk EXCEPT !.failed = @ \cup {c}]
    /\ UNCHANGED <<chains, closed, lis, triggers>>

AddSucceeds(c) ==
    \E e \in Epochs :
        /\ Unused(e)
        /\ \A f \in 1..(e - 1) : ~Unused(f)
        /\ chains' = [chains EXCEPT ![c] = e]
        /\ closed' = closed \ {e}
        /\ lis' = [lis EXCEPT ![e] = IF AutoSubscribe THEN Started(c, walk.list[c])
                                     ELSE NoListener]
        /\ \/ triggers' = triggers \cup {c} /\ UNCHANGED faults
           \/ Fault /\ UNCHANGED triggers
        /\ UNCHANGED walk

Add(c) ==
    /\ walk.pc = "locked"
    /\ Gone = {}
    /\ c \in New
    /\ AddFails(c) \/ AddSucceeds(c)
    /\ UNCHANGED <<registry, up, stops>>

Unlock ==
    /\ walk.pc = "locked"
    /\ Gone = {} /\ New = {}
    /\ walk' = AtRest
    /\ UNCHANGED <<registry, up, chains, closed, lis, triggers, faults, stops>>

Rediscover ==
    \/ ListChains \/ Unlock
    \/ RemoveForgets \/ RemoveDisconnects \/ RemoveUnsyncs
    \/ \E c \in Chains : RemoveCloses(c) \/ Add(c)

----------------------------------------------------------------------------
(* The goroutine of each listener.                                         *)

Become(e, after) ==
    /\ Subscribed(e)
    /\ \E l \in after : lis' = [lis EXCEPT ![e] = l]
    /\ UNCHANGED <<registry, up, chains, closed, walk, triggers, faults, stops>>

Connects(e) == Become(e, Round(lis[e]) \cup DialAnswered(lis[e]) \cup DialFailed(lis[e])
                         \cup Wait(lis[e]) \cup Store(lis[e]))
Reads(e) == Become(e, Check(lis[e]) \cup Read(lis[e]) \cup Disconnect(lis[e]))
Hears(e) == Become(e, Receive(lis[e]) \cup Dropped(lis[e]))

HandlerLooksUp(e) ==
    /\ MuFree
    /\ Become(e, LookUp(lis[e], chains[lis[e].chain]))

HandlerWrites(e) ==
    Become(e, Acquire(lis[e], lis[e].pool \notin closed) \cup Release(lis[e]))

Listen(e) == Connects(e) \/ Reads(e) \/ HandlerLooksUp(e) \/ HandlerWrites(e)

----------------------------------------------------------------------------
(* The end of the process, and its next start.                             *)

(* A signal: the goroutines of main return, and Close begins.              *)
Stop ==
    /\ up
    /\ walk.pc = "idle"
    /\ stops < MaxStops
    /\ walk' = [walk EXCEPT !.pc = "cancelling"]
    /\ UNCHANGED <<registry, up, chains, closed, lis, triggers, faults, stops>>

\* The listeners of the chains at hand.
Listening == {e \in Current : Subscribed(e)}

CloseCancels ==
    /\ walk.pc = "cancelling"
    /\ lis' = [e \in Epochs |-> IF e \in Listening THEN Cancelled(lis[e]) ELSE lis[e]]
    /\ walk' = [walk EXCEPT !.pc = "hanging up"]
    /\ UNCHANGED <<registry, up, chains, closed, triggers, faults, stops>>

CloseDisconnects ==
    /\ walk.pc = "hanging up"
    /\ lis' = [e \in Epochs |-> IF e \in Listening THEN Closed(lis[e]) ELSE lis[e]]
    /\ walk' = [walk EXCEPT !.pc = "shutting"]
    /\ UNCHANGED <<registry, up, chains, closed, triggers, faults, stops>>

CloseCloses(c) ==
    /\ walk.pc = "shutting"
    /\ c \in Indexed
    /\ ClosePool(c, "draining")

CloseForgets ==
    /\ walk.pc = "draining"
    /\ Drained(walk.epoch)
    /\ chains' = [chains EXCEPT ![walk.chain] = 0]
    /\ walk' = [walk EXCEPT !.pc = "shutting"]
    /\ UNCHANGED <<registry, up, closed, lis, triggers, faults, stops>>

Dies ==
    /\ up' = FALSE
    /\ chains' = [c \in Chains |-> 0]
    /\ closed' = {}
    /\ lis' = [e \in Epochs |-> NoListener]
    /\ walk' = AtRest
    /\ stops' = stops + 1
    /\ UNCHANGED <<registry, triggers, faults>>

Exit == walk.pc = "shutting" /\ Indexed = {} /\ Dies

Crash == up /\ stops < MaxStops /\ Dies

(* Reading from a nil connection ends the process too.                     *)
Panic == (\E e \in Epochs : ReadsNil(lis[e])) /\ Dies

Start ==
    /\ ~up
    /\ up' = TRUE
    /\ UNCHANGED <<registry, chains, closed, lis, walk, triggers, faults, stops>>

Close == CloseCancels \/ CloseDisconnects \/ CloseForgets \/ Exit
         \/ \E c \in Chains : CloseCloses(c)

Next ==
    \/ Api \/ Rediscover \/ Close
    \/ Stop \/ Crash \/ Panic \/ Start
    \/ \E e \in Epochs : Listen(e) \/ Hears(e)

(* The ticker and the goroutines run; a dial and a write end.  The lock is *)
(* an RWMutex, which lets the readers that wait in when a writer is done.  *)
(* Nobody must edit, send a blob, hang up or stop, and nobody must start   *)
(* the process.                                                            *)
Spec ==
    /\ Init
    /\ [][Next]_vars
    /\ WF_vars(Rediscover)
    /\ WF_vars(Close)
    /\ WF_vars(Panic)
    /\ \A e \in Epochs : WF_vars(Listen(e)) /\ SF_vars(HandlerLooksUp(e))

----------------------------------------------------------------------------
TypeOK ==
    /\ admin \in [Chains -> Rows \cup {None}]
    /\ request \in [Clients -> Requests \cup {Idle}]
    /\ edits \in 0..MaxEdits
    /\ up \in BOOLEAN
    /\ chains \in [Chains -> Epochs \cup {0}]
    /\ closed \subseteq Epochs
    /\ lis \in [Epochs -> Listeners \cup {NoListener}]
    /\ walk.list \in [Chains -> Urls \cup {NoUrl}]
    /\ walk.epoch \in Epochs \cup {0}
    /\ triggers \subseteq Chains
    /\ faults \in 0..MaxFaults
    /\ stops \in Nat

(* A blob that was read for a chain that has been removed, and is handled  *)
(* after the chain came back, is not written into its new pool: its        *)
(* handler may find that pool, and fails on its context.                   *)
OldListenersWriteNothing ==
    \A e \in Epochs : lis[e].pc = "writing" => lis[e].pool = e

(* While nobody holds the lock, the listeners that may go on are those of  *)
(* the chains at hand, and theirs have not been stopped: a chain has one   *)
(* listener, or one that has used up its dials.                            *)
OneListenerPerChain ==
    MuFree /\ AutoSubscribe =>
        /\ \A e \in Epochs : Subscribed(e) => (~lis[e].cancelled <=> e \in Current)
        /\ \A e \in Current : lis[e].pc # "cancelled"

(* An open connection is one that Close would find, or one just dialled.   *)
(* Only a listener that was cancelled leaves one open when it ends, and    *)
(* only then does its unlocked read of the connection meet nil.            *)
SocketsAreHeld ==
    \A e \in Epochs :
        /\ Subscribed(e) /\ lis[e].socket = "open" =>
              /\ lis[e].held \/ lis[e].pc = "dialed"
              /\ lis[e].pc # "gaveUp"
        /\ ReadsNil(lis[e]) => lis[e].cancelled

(* A listener gives up after a run of failed dials, one less than the      *)
(* configuration says at the worst.                                        *)
GivesUpAfterRetries ==
    \A e \in Epochs : lis[e].pc = "gaveUp" => lis[e].failed >= MaxRetries - 1

(* Without a failed call or a restart the triggers are those of the chains *)
(* at hand, whatever the order of edits and ticks.                         *)
TriggersFollowChains ==
    MuFree /\ up /\ faults = 0 /\ stops = 0 => triggers = Indexed

(* When the registry comes to rest, the chains at hand become the active   *)
(* ones and stay so, and the listeners of removed chains are gone, whether *)
(* they were in a dial, in a read that waits for a blob, or in a handler.  *)
RegistryWins ==
    <>[](up => /\ Indexed = Active
               /\ \A e \in Epochs : Subscribed(e) /\ lis[e].cancelled =>
                     lis[e].pc \in Over \cup {"none"})
=============================================================================
