---------------------------- MODULE BlobListener ----------------------------
(***************************************************************************)
(* The subscription to the blobs of one chain: the goroutine of            *)
(* BlobListener.Run, with its dials, its reads and its hand-overs, and     *)
(* Close, which another goroutine calls.  A listener is a record; every    *)
(* step of Run is the set of the listeners it may lead to, empty where the *)
(* step cannot be taken.  ChainLifecycle owns the listeners and gives them *)
(* their turns.                                                            *)
(*                                                                         *)
(* "held" is l.conn # nil and "socket" the connection itself, which is     *)
(* open until somebody closes it or the node drops it.  "pool" is the pool *)
(* of the chain that the handler of a blob has looked up, and "failed"     *)
(* counts the dials that failed since the listener was last connected.     *)
(***************************************************************************)
EXTENDS Naturals

CONSTANTS
    MaxRetries,  \* WSMaxRetries of the configuration
    Chains,      \* chain ids
    Urls,        \* the endpoints of the nodes
    Epochs       \* the pools and listeners that exist at a time

ASSUME RetriesAssumption == MaxRetries \in Nat \ {0}
ASSUME EpochsAssumption == Epochs \subseteq Nat \ {0}

Over == {"gaveUp", "cancelled"}

Listeners ==
    [pc : {"round", "dialing", "dialed", "listening", "checked", "reading",
           "handling", "found", "writing", "waiting"} \cup Over,
     attempt : 0..MaxRetries, failed : 0..MaxRetries,
     held : BOOLEAN, socket : {"none", "open", "closed"},
     cancelled : BOOLEAN, pool : Epochs \cup {0},
     chain : Chains, url : Urls]

(* NewBlobListener, and the goroutine that is started with it.             *)
Started(c, url) ==
    [pc |-> "round", attempt |-> 0, failed |-> 0, held |-> FALSE,
     socket |-> "none", cancelled |-> FALSE, pool |-> 0,
     chain |-> c, url |-> url]

Goto(l, pc) == [l EXCEPT !.pc = pc]
At(l, pc, m) == IF l.pc = pc THEN {m} ELSE {}

(* Where the context is looked at: Run or listen returns once it is done,  *)
(* and with it the counter of the loop is gone.                            *)
UnlessCancelled(l, pc) ==
    IF l.cancelled THEN [l EXCEPT !.pc = "cancelled", !.attempt = 0, !.failed = 0]
    ELSE Goto(l, pc)

(* The head of the loop: the dials may be used up, or the chain gone.      *)
Round(l) ==
    At(l, "round", IF l.attempt < MaxRetries THEN UnlessCancelled(l, "dialing")
                   ELSE Goto(l, "gaveUp"))

(* DialContext returns a connection, or an error, at the latest when its   *)
(* context is cancelled.                                                   *)
DialAnswered(l) ==
    IF l.cancelled THEN {}
    ELSE At(l, "dialing", [l EXCEPT !.pc = "dialed", !.socket = "open"])

DialFailed(l) ==
    At(l, "dialing", [l EXCEPT !.pc = "waiting", !.failed = @ + 1])

(* The backoff, which a cancelled context cuts short.                      *)
\* Mutant: a failed dial counts twice, in its branch and in the loop.
WaitAddsTwice(l) ==
    At(l, "waiting", UnlessCancelled([l EXCEPT !.attempt = @ + 2], "round"))

Wait(l) ==
    At(l, "waiting", UnlessCancelled([l EXCEPT !.attempt = @ + 1], "round"))

(* The connection is stored under l.mu, whatever has happened since the    *)
(* dial.                                                                   *)
Store(l) ==
    At(l, "dialed", [l EXCEPT !.pc = "listening", !.held = TRUE, !.failed = 0])

(* One round of listen: the context, then l.conn read without the lock,    *)
(* and the call of ReadMessage on what was read.                           *)
Check(l) == At(l, "listening", UnlessCancelled(l, "checked"))
Read(l) == IF l.held THEN At(l, "checked", Goto(l, "reading")) ELSE {}
ReadsNil(l) == l.pc = "checked" /\ ~l.held

(* A message comes: a blob for the handler, or one that cannot be decoded  *)
(* or has no current blob and is passed over.                              *)
Receive(l) ==
    IF l.socket = "open"
    THEN At(l, "reading", Goto(l, "handling")) \cup At(l, "reading", Goto(l, "listening"))
    ELSE {}

(* The node drops the connection.                                          *)
Dropped(l) ==
    IF l.socket = "open" THEN {[l EXCEPT !.socket = "closed"]} ELSE {}

\* Mutant: the attempts are not reset after a connection.
DisconnectKeepsAttempts(l) ==
    IF l.socket = "closed"
    THEN At(l, "reading", [l EXCEPT !.pc = "round", !.held = FALSE, !.attempt = @ + 1])
    ELSE {}

(* ReadMessage fails on a closed connection.  The error wraps whatever it  *)
(* was, so it is never context.Canceled itself: the connection is closed,  *)
(* the attempts are reset to 0 and the loop adds one.                      *)
Disconnect(l) ==
    IF l.socket = "closed"
    THEN At(l, "reading", [l EXCEPT !.pc = "round", !.held = FALSE, !.attempt = 1])
    ELSE {}

(* The cancel function of the listener's context, and Close.               *)
Cancelled(l) == [l EXCEPT !.cancelled = TRUE]
\* Mutant: Close drops the connection without closing it.
ClosedOnlyForgets(l) == [l EXCEPT !.held = FALSE]

Closed(l) ==
    IF l.held THEN [l EXCEPT !.held = FALSE, !.socket = "closed"] ELSE l

(***************************************************************************)
(* The handler is IndexBlockWithData under the listener's context: it      *)
(* looks the chain up, and uses connections of the pool it has found, one  *)
(* statement or transaction after the other.  An error ends it, and the    *)
(* listener reads on.                                                      *)
(***************************************************************************)
LookUp(l, pool) ==
    At(l, "handling", IF pool = 0 THEN Goto(l, "listening")
                      ELSE [l EXCEPT !.pc = "found", !.pool = pool])

Handled(l) == [l EXCEPT !.pc = "listening", !.pool = 0]

(* A closed pool gives no connection, and neither does an open one to a    *)
(* context that is cancelled.                                              *)
\* Mutant: the handler runs under context.Background().
AcquireWithoutContext(l, open) ==
    At(l, "found", IF open THEN Goto(l, "writing") ELSE Handled(l))

Acquire(l, open) ==
    At(l, "found", IF open /\ ~l.cancelled THEN Goto(l, "writing") ELSE Handled(l))

(* The connection goes back; another statement follows, or the block is    *)
(* done.                                                                   *)
Release(l) == At(l, "writing", Goto(l, "found")) \cup At(l, "writing", Handled(l))
=============================================================================
