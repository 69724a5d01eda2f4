------------------------ MODULE ChainLifecycleProofs ------------------------
(***************************************************************************)
(* Theorems of ChainLifecycle, for any chains, endpoints, epochs, requests *)
(* and bounds: its types, that former listeners write nothing, that a      *)
(* chain has one listener, what is left open, when a listener gives up,    *)
(* and which triggers are installed.                                       *)
(***************************************************************************)
EXTENDS ChainLifecycle, TLAPS

----------------------------------------------------------------------------
(* One listener.                                                           *)

Dialing == {"round", "dialing", "waiting", "gaveUp"}

(***************************************************************************)
(* Between two connections the dials that failed are counted by both       *)
(* counters, and no connection is open.  With one, it is l.conn unless     *)
(* Close, which comes after the cancelling, has been there.                *)
(***************************************************************************)
LisOk(l) ==
    /\ l.pc \in {"dialing", "dialed", "waiting"} => l.attempt < MaxRetries
    /\ l.pc \in {"round", "dialing", "dialed", "gaveUp"} =>
          l.failed <= l.attempt /\ l.attempt <= l.failed + 1
    /\ l.pc = "waiting" => l.attempt <= l.failed /\ l.failed <= l.attempt + 1
    /\ l.pc = "gaveUp" => l.attempt >= MaxRetries
    /\ l.pc \notin Dialing \cup {"dialed"} => l.failed = 0
    /\ l.pc \in Dialing => ~l.held /\ l.socket # "open"
    /\ l.pc = "dialed" => ~l.held
    /\ l.socket = "open" => l.held \/ l.pc = "dialed"
    /\ l.pc \notin Dialing \cup {"dialed"} => l.held \/ l.cancelled
    /\ l.pc = "cancelled" => l.cancelled
    /\ l.pc \notin {"found", "writing"} => l.pool = 0
    /\ l.pc \in {"found", "writing"} => l.pool # 0

(* What its own steps leave of a listener to others.                       *)
SameListener(l, m) ==
    /\ m.chain = l.chain /\ m.url = l.url /\ m.cancelled = l.cancelled

(* A new listener.                                                         *)
LEMMA StartedOk ==
    ASSUME NEW c \in Chains, NEW url \in Urls
    PROVE  /\ Started(c, url) \in Listeners /\ LisOk(Started(c, url))
           /\ Started(c, url).pc = "round" /\ ~Started(c, url).cancelled
           /\ Started(c, url).chain = c /\ Started(c, url).pool = 0
<1>1. /\ Started(c, url).pc = "round" /\ ~Started(c, url).cancelled
      /\ Started(c, url).chain = c /\ Started(c, url).pool = 0
      /\ Started(c, url).attempt = 0 /\ Started(c, url).failed = 0
      /\ Started(c, url).held = FALSE /\ Started(c, url).socket = "none"
    BY DEF Started
<1>2. Started(c, url) \in Listeners
    BY RetriesAssumption DEF Started, Listeners, Over
<1>3. LisOk(Started(c, url))
    BY <1>1, RetriesAssumption DEF LisOk, Dialing
<1> QED BY <1>1, <1>2, <1>3

Pcs == {"round", "dialing", "dialed", "listening", "checked", "reading",
        "handling", "found", "writing", "waiting", "gaveUp", "cancelled"}

\* All but the program counter and the two counters.
SameRest(l, m) == SameListener(l, m) /\ m.held = l.held /\ m.socket = l.socket /\ m.pool = l.pool

(* The fields of a listener.                                               *)
LEMMA Fields ==
    ASSUME NEW l \in Listeners
    PROVE  /\ l.pc \in Pcs /\ l.attempt \in 0..MaxRetries /\ l.failed \in 0..MaxRetries
           /\ l.attempt \in Nat /\ l.failed \in Nat
           /\ l.held \in BOOLEAN /\ l.socket \in {"none", "open", "closed"}
           /\ l.cancelled \in BOOLEAN /\ l.pool \in Epochs \cup {0}
           /\ l.chain \in Chains /\ l.url \in Urls
BY RetriesAssumption DEF Listeners, Over, Pcs

(* A jump.                                                                 *)
LEMMA GotoFields ==
    ASSUME NEW l \in Listeners, NEW pc \in Pcs
    PROVE  /\ Goto(l, pc) \in Listeners /\ Goto(l, pc).pc = pc /\ SameRest(l, Goto(l, pc))
           /\ Goto(l, pc).attempt = l.attempt /\ Goto(l, pc).failed = l.failed
BY DEF Goto, Listeners, Over, Pcs, SameRest, SameListener

(* A jump, unless the listener was cancelled.                              *)
LEMMA UnlessCancelledFields ==
    ASSUME NEW l \in Listeners, NEW pc \in Pcs
    PROVE  /\ UnlessCancelled(l, pc) \in Listeners /\ SameRest(l, UnlessCancelled(l, pc))
           /\ \/ /\ l.cancelled /\ UnlessCancelled(l, pc).pc = "cancelled"
                 /\ UnlessCancelled(l, pc).attempt = 0 /\ UnlessCancelled(l, pc).failed = 0
              \/ /\ ~l.cancelled /\ UnlessCancelled(l, pc).pc = pc
                 /\ UnlessCancelled(l, pc).attempt = l.attempt
                 /\ UnlessCancelled(l, pc).failed = l.failed
<1>1. CASE l.cancelled
  <2>1. UnlessCancelled(l, pc) = [l EXCEPT !.pc = "cancelled", !.attempt = 0, !.failed = 0]
      BY <1>1 DEF UnlessCancelled
  <2>2. 0 \in 0..MaxRetries
      BY RetriesAssumption
  <2> QED BY <1>1, <2>1, <2>2 DEF Listeners, Over, SameRest, SameListener
<1>2. CASE ~l.cancelled
  <2>1. UnlessCancelled(l, pc) = Goto(l, pc)
      BY <1>2 DEF UnlessCancelled
  <2> QED BY <1>2, <2>1, GotoFields
<1> QED BY <1>1, <1>2

(* The loop of dials.                                                      *)
LEMMA ConnectsOk ==
    ASSUME NEW l \in Listeners, LisOk(l),
           NEW m \in Round(l) \cup DialAnswered(l) \cup DialFailed(l) \cup Wait(l) \cup Store(l)
    PROVE  /\ m \in Listeners /\ LisOk(m) /\ SameListener(l, m) /\ m.pool = 0
           /\ m.pc \notin {"found", "writing"}
<1>0. l.attempt \in Nat /\ l.failed \in Nat /\ MaxRetries \in Nat /\ MaxRetries >= 1
    BY Fields, RetriesAssumption
<1>1. CASE m \in Round(l)
  <2>0. l.pc = "round" /\ l.pool = 0
      BY <1>1 DEF Round, At, LisOk
  <2>1. CASE l.attempt < MaxRetries
    <3>1. m = UnlessCancelled(l, "dialing")
        BY <1>1, <2>0, <2>1 DEF Round, At
    <3>2. /\ m \in Listeners /\ SameRest(l, m)
          /\ \/ l.cancelled /\ m.pc = "cancelled" /\ m.attempt = 0 /\ m.failed = 0
             \/ m.pc = "dialing" /\ m.attempt = l.attempt /\ m.failed = l.failed
        BY <3>1, UnlessCancelledFields DEF Pcs
    <3> QED BY <1>0, <2>0, <2>1, <3>2 DEF LisOk, Dialing, SameRest, SameListener
  <2>2. CASE ~(l.attempt < MaxRetries)
    <3>1. m = Goto(l, "gaveUp")
        BY <1>1, <2>0, <2>2 DEF Round, At
    <3>2. m \in Listeners /\ SameRest(l, m) /\ m.pc = "gaveUp" /\ m.attempt = l.attempt /\ m.failed = l.failed
        BY <3>1, GotoFields DEF Pcs
    <3> QED BY <1>0, <2>0, <2>2, <3>2 DEF LisOk, Dialing, SameRest, SameListener
  <2> QED BY <2>1, <2>2
<1>2. CASE m \in DialAnswered(l)
  <2>1. l.pc = "dialing" /\ m = [l EXCEPT !.pc = "dialed", !.socket = "open"]
      BY <1>2 DEF DialAnswered, At
  <2>2. /\ m \in Listeners /\ SameListener(l, m) /\ m.pc = "dialed" /\ m.socket = "open"
        /\ m.attempt = l.attempt /\ m.failed = l.failed /\ m.held = l.held /\ m.pool = l.pool
      BY <2>1 DEF Listeners, Over, SameListener
  <2> QED BY <2>1, <2>2 DEF LisOk, Dialing, SameListener
<1>3. CASE m \in DialFailed(l)
  <2>1. l.pc = "dialing" /\ m = [l EXCEPT !.pc = "waiting", !.failed = l.failed + 1]
      BY <1>3 DEF DialFailed, At
  <2>2. l.attempt < MaxRetries /\ l.failed <= l.attempt /\ l.attempt <= l.failed + 1
      BY <2>1 DEF LisOk
  <2>3. l.failed + 1 \in 0..MaxRetries
      BY <1>0, <2>2
  <2>4. /\ m \in Listeners /\ SameListener(l, m) /\ m.pc = "waiting" /\ m.socket = l.socket
        /\ m.attempt = l.attempt /\ m.failed = l.failed + 1 /\ m.held = l.held /\ m.pool = l.pool
      BY <2>1, <2>3 DEF Listeners, Over, SameListener
  <2> QED BY <1>0, <2>1, <2>2, <2>4 DEF LisOk, Dialing, SameListener
<1>4. CASE m \in Wait(l)
  <2> DEFINE k == [l EXCEPT !.attempt = l.attempt + 1]
  <2>1. l.pc = "waiting" /\ m = UnlessCancelled(k, "round")
      BY <1>4 DEF Wait, At
  <2>2. l.attempt < MaxRetries /\ l.attempt <= l.failed /\ l.failed <= l.attempt + 1
      BY <2>1 DEF LisOk
  <2>3. l.attempt + 1 \in 0..MaxRetries
      BY <1>0, <2>2
  <2>4. /\ k \in Listeners /\ SameRest(l, k) /\ k.attempt = l.attempt + 1 /\ k.failed = l.failed
      BY <2>3 DEF Listeners, Over, SameRest, SameListener
  <2> HIDE DEF k
  <2>5. /\ m \in Listeners /\ SameRest(k, m)
        /\ \/ k.cancelled /\ m.pc = "cancelled" /\ m.attempt = 0 /\ m.failed = 0
           \/ m.pc = "round" /\ m.attempt = k.attempt /\ m.failed = k.failed
      BY <2>1, <2>4, UnlessCancelledFields DEF Pcs
  <2> QED BY <1>0, <2>1, <2>2, <2>4, <2>5 DEF LisOk, Dialing, SameRest, SameListener
<1>5. CASE m \in Store(l)
  <2>1. l.pc = "dialed" /\ m = [l EXCEPT !.pc = "listening", !.held = TRUE, !.failed = 0]
      BY <1>5 DEF Store, At
  <2>2. 0 \in 0..MaxRetries
      BY <1>0
  <2>3. /\ m \in Listeners /\ SameListener(l, m) /\ m.pc = "listening" /\ m.socket = l.socket
        /\ m.attempt = l.attempt /\ m.failed = 0 /\ m.held = TRUE /\ m.pool = l.pool
      BY <2>1, <2>2 DEF Listeners, Over, SameListener
  <2> QED BY <2>1, <2>3 DEF LisOk, Dialing, SameListener
<1> QED BY <1>1, <1>2, <1>3, <1>4, <1>5

(* The rounds of listen.                                                   *)
LEMMA ReadsOk ==
    ASSUME NEW l \in Listeners, LisOk(l),
           NEW m \in Check(l) \cup Read(l) \cup Disconnect(l)
    PROVE  /\ m \in Listeners /\ LisOk(m) /\ SameListener(l, m) /\ m.pool = 0
           /\ m.pc \notin {"found", "writing"}
<1>0. l.attempt \in Nat /\ l.failed \in Nat /\ MaxRetries \in Nat /\ MaxRetries >= 1
    BY Fields, RetriesAssumption
<1>1. CASE m \in Check(l)
  <2>1. l.pc = "listening" /\ m = UnlessCancelled(l, "checked")
      BY <1>1 DEF Check, At
  <2>2. /\ m \in Listeners /\ SameRest(l, m)
        /\ \/ l.cancelled /\ m.pc = "cancelled" /\ m.attempt = 0 /\ m.failed = 0
           \/ m.pc = "checked" /\ m.attempt = l.attempt /\ m.failed = l.failed
      BY <2>1, UnlessCancelledFields DEF Pcs
  <2> QED BY <1>0, <2>1, <2>2 DEF LisOk, Dialing, SameRest, SameListener
<1>2. CASE m \in Read(l)
  <2>1. l.pc = "checked" /\ l.held /\ m = Goto(l, "reading")
      BY <1>2 DEF Read, At
  <2>2. m \in Listeners /\ SameRest(l, m) /\ m.pc = "reading" /\ m.attempt = l.attempt /\ m.failed = l.failed
      BY <2>1, GotoFields DEF Pcs
  <2> QED BY <1>0, <2>1, <2>2 DEF LisOk, Dialing, SameRest, SameListener
<1>3. CASE m \in Disconnect(l)
  <2>1. /\ l.pc = "reading" /\ l.socket = "closed"
        /\ m = [l EXCEPT !.pc = "round", !.held = FALSE, !.attempt = 1]
      BY <1>3 DEF Disconnect, At
  <2>2. 1 \in 0..MaxRetries
      BY <1>0
  <2>3. /\ m \in Listeners /\ SameListener(l, m) /\ m.pc = "round" /\ m.socket = l.socket
        /\ m.attempt = 1 /\ m.failed = l.failed /\ m.held = FALSE /\ m.pool = l.pool
      BY <2>1, <2>2 DEF Listeners, Over, SameListener
  <2> QED BY <1>0, <2>1, <2>3 DEF LisOk, Dialing, SameListener
<1> QED BY <1>1, <1>2, <1>3

(* What comes from the node: a blob, or the end of the connection.         *)
LEMMA HearsOk ==
    ASSUME NEW l \in Listeners, LisOk(l), NEW m \in Receive(l) \cup Dropped(l)
    PROVE  /\ m \in Listeners /\ LisOk(m) /\ SameListener(l, m) /\ m.pool = l.pool
           /\ (m.pc = "writing" <=> l.pc = "writing")
<1>0. l.attempt \in Nat /\ l.failed \in Nat /\ MaxRetries \in Nat /\ MaxRetries >= 1
    BY Fields, RetriesAssumption
<1>1. CASE m \in Receive(l)
  <2>1. PICK pc \in {"handling", "listening"} : l.pc = "reading" /\ m = Goto(l, pc)
      BY <1>1 DEF Receive, At
  <2>2. m \in Listeners /\ SameRest(l, m) /\ m.pc = pc /\ m.attempt = l.attempt /\ m.failed = l.failed
      BY <2>1, GotoFields DEF Pcs
  <2> QED BY <1>0, <2>1, <2>2 DEF LisOk, Dialing, SameRest, SameListener
<1>2. CASE m \in Dropped(l)
  <2>1. l.socket = "open" /\ m = [l EXCEPT !.socket = "closed"]
      BY <1>2 DEF Dropped
  <2>2. /\ m \in Listeners /\ SameListener(l, m) /\ m.pc = l.pc /\ m.socket = "closed"
        /\ m.attempt = l.attempt /\ m.failed = l.failed /\ m.held = l.held /\ m.pool = l.pool
      BY <2>1 DEF Listeners, Over, SameListener
  <2> QED BY <1>0, <2>1, <2>2 DEF LisOk, Dialing, SameListener
<1> QED BY <1>1, <1>2

(* The end of a handler.                                                   *)
LEMMA HandledOk ==
    ASSUME NEW l \in Listeners, LisOk(l), l.pc \in {"handling", "found", "writing"}
    PROVE  /\ Handled(l) \in Listeners /\ LisOk(Handled(l)) /\ SameListener(l, Handled(l))
           /\ Handled(l).pool = 0 /\ Handled(l).pc = "listening"
<1>1. Handled(l) = [l EXCEPT !.pc = "listening", !.pool = 0]
    BY DEF Handled
<1>2. /\ Handled(l) \in Listeners /\ SameListener(l, Handled(l))
      /\ Handled(l).pc = "listening" /\ Handled(l).socket = l.socket
      /\ Handled(l).attempt = l.attempt /\ Handled(l).failed = l.failed
      /\ Handled(l).held = l.held /\ Handled(l).pool = 0
    BY <1>1 DEF Listeners, Over, SameListener
<1> QED BY <1>2 DEF LisOk, Dialing, SameListener

(* A handler looks its chain up.                                           *)
LEMMA LooksUpOk ==
    ASSUME NEW l \in Listeners, LisOk(l), NEW pool \in Epochs \cup {0},
           NEW m \in LookUp(l, pool)
    PROVE  /\ m \in Listeners /\ LisOk(m) /\ SameListener(l, m) /\ m.pool = pool
           /\ m.pc # "writing"
<1>1. l.pc = "handling" /\ l.pool = 0
    BY DEF LookUp, At, LisOk
<1>2. CASE pool = 0
  <2>1. m = Goto(l, "listening")
      BY <1>1, <1>2 DEF LookUp, At
  <2>2. /\ m \in Listeners /\ SameRest(l, m) /\ m.pc = "listening"
        /\ m.attempt = l.attempt /\ m.failed = l.failed
      BY <2>1, GotoFields DEF Pcs
  <2> QED BY <1>1, <1>2, <2>2 DEF LisOk, Dialing, SameRest, SameListener
<1>3. CASE pool # 0
  <2>1. m = [l EXCEPT !.pc = "found", !.pool = pool]
      BY <1>1, <1>3 DEF LookUp, At
  <2>2. /\ m \in Listeners /\ SameListener(l, m) /\ m.pc = "found" /\ m.socket = l.socket
        /\ m.attempt = l.attempt /\ m.failed = l.failed /\ m.held = l.held /\ m.pool = pool
      BY <2>1 DEF Listeners, Over, SameListener
  <2> QED BY <1>1, <1>3, <2>2 DEF LisOk, Dialing, SameListener
<1> QED BY <1>2, <1>3

(* A handler takes a connection of its pool, or gives one back.            *)
LEMMA WritesOk ==
    ASSUME NEW l \in Listeners, LisOk(l), NEW open \in BOOLEAN,
           NEW m \in Acquire(l, open) \cup Release(l)
    PROVE  /\ m \in Listeners /\ LisOk(m) /\ SameListener(l, m) /\ m.pool \in {0, l.pool}
           /\ m.pc = "writing" => ~l.cancelled /\ m.pool = l.pool /\ l.pool # 0
<1>1. CASE m = Handled(l) /\ l.pc \in {"found", "writing"}
    BY <1>1, HandledOk
<1>2. CASE l.pc = "found" /\ ~l.cancelled /\ m = Goto(l, "writing")
  <2>1. /\ m \in Listeners /\ SameRest(l, m) /\ m.pc = "writing"
        /\ m.attempt = l.attempt /\ m.failed = l.failed
      BY <1>2, GotoFields DEF Pcs
  <2> QED BY <1>2, <2>1 DEF LisOk, Dialing, SameRest, SameListener
<1>3. CASE l.pc = "writing" /\ m = Goto(l, "found")
  <2>1. /\ m \in Listeners /\ SameRest(l, m) /\ m.pc = "found"
        /\ m.attempt = l.attempt /\ m.failed = l.failed
      BY <1>3, GotoFields DEF Pcs
  <2> QED BY <1>3, <2>1 DEF LisOk, Dialing, SameRest, SameListener
<1>4. \/ m = Handled(l) /\ l.pc \in {"found", "writing"}
      \/ l.pc = "found" /\ ~l.cancelled /\ m = Goto(l, "writing")
      \/ l.pc = "writing" /\ m = Goto(l, "found")
    BY DEF Acquire, Release, At
<1> QED BY <1>1, <1>2, <1>3, <1>4

(* A listener that is cancelled, and one that is closed after that.        *)
LEMMA CancelledOk ==
    ASSUME NEW l \in Listeners, LisOk(l)
    PROVE  /\ Cancelled(l) \in Listeners /\ LisOk(Cancelled(l)) /\ Cancelled(l).cancelled
           /\ Cancelled(l).chain = l.chain /\ Cancelled(l).pool = l.pool /\ Cancelled(l).pc = l.pc
<1>1. Cancelled(l) = [l EXCEPT !.cancelled = TRUE]
    BY DEF Cancelled
<1>2. /\ Cancelled(l) \in Listeners /\ Cancelled(l).cancelled
      /\ Cancelled(l).pc = l.pc /\ Cancelled(l).socket = l.socket
      /\ Cancelled(l).attempt = l.attempt /\ Cancelled(l).failed = l.failed
      /\ Cancelled(l).held = l.held /\ Cancelled(l).pool = l.pool /\ Cancelled(l).chain = l.chain
    BY <1>1 DEF Listeners, Over
<1> QED BY <1>2 DEF LisOk, Dialing

LEMMA ClosedOk ==
    ASSUME NEW l \in Listeners, LisOk(l), l.cancelled
    PROVE  /\ Closed(l) \in Listeners /\ LisOk(Closed(l)) /\ Closed(l).cancelled
           /\ Closed(l).chain = l.chain /\ Closed(l).pool = l.pool /\ Closed(l).pc = l.pc
<1>1. CASE l.held
  <2>1. Closed(l) = [l EXCEPT !.held = FALSE, !.socket = "closed"]
      BY <1>1 DEF Closed
  <2>2. /\ Closed(l) \in Listeners /\ Closed(l).cancelled
        /\ Closed(l).pc = l.pc /\ Closed(l).socket = "closed"
        /\ Closed(l).attempt = l.attempt /\ Closed(l).failed = l.failed
        /\ Closed(l).held = FALSE /\ Closed(l).pool = l.pool /\ Closed(l).chain = l.chain
      BY <2>1 DEF Listeners, Over
  <2> QED BY <1>1, <2>2 DEF LisOk, Dialing
<1>2. CASE ~l.held
    BY <1>2 DEF Closed
<1> QED BY <1>1, <1>2

----------------------------------------------------------------------------
(* The chains at hand and their listeners.                                 *)

Walks ==
    [pc : {"idle", "locked", "closing", "disconnecting", "unsyncing",
           "cancelling", "hanging up", "shutting", "draining"},
     list : [Chains -> Urls \cup {NoUrl}], chain : Chains \cup {None},
     epoch : Epochs \cup {0}, failed : SUBSET Chains]

Typed ==
    /\ chains \in [Chains -> Epochs \cup {0}]
    /\ closed \subseteq Epochs
    /\ lis \in [Epochs -> Listeners \cup {NoListener}]
    /\ walk \in Walks

EachOk == \A e \in Epochs : Subscribed(e) => LisOk(lis[e])

(* Two chains have two epochs.                                             *)
Apart == \A c, d \in Chains : chains[c] # 0 /\ chains[c] = chains[d] => c = d

(* The listener of a chain's epoch is one of that chain.                   *)
Own ==
    \A c \in Chains : chains[c] # 0 =>
        /\ Subscribed(chains[c]) => lis[chains[c]].chain = c
        /\ AutoSubscribe => Subscribed(chains[c])

(* A listener that may go on is one of a chain at hand.                    *)
Former == \A e \in Epochs : Subscribed(e) /\ ~lis[e].cancelled => e \in Current

(* Only the handlers of cancelled listeners hold a pool of another life of *)
(* the chain, and they do not write to it.                                 *)
Pools ==
    \A e \in Epochs : Subscribed(e) =>
        /\ lis[e].pool \in {0, e} \/ lis[e].cancelled
        /\ lis[e].pc = "writing" => lis[e].pool = e

(* What the goroutine that holds the lock has in hand.                     *)
InHand ==
    /\ walk.pc \in {"closing", "draining"} =>
          walk.chain \in Chains /\ walk.epoch # 0 /\ chains[walk.chain] = walk.epoch
    /\ walk.pc = "disconnecting" =>
          /\ walk.epoch \in Epochs
          /\ Subscribed(walk.epoch) => lis[walk.epoch].cancelled

Ending == walk.pc \in {"hanging up", "shutting", "draining"}

(* The listeners of the chains at hand are cancelled by Close, and only by *)
(* Close.                                                                  *)
Stopped == \A e \in Current : Subscribed(e) => (lis[e].cancelled <=> Ending)

Core == Typed /\ EachOk /\ Apart /\ Own /\ Former /\ Pools /\ InHand /\ Stopped

LEMMA SubscribedType ==
    ASSUME lis \in [Epochs -> Listeners \cup {NoListener}], NEW e \in Epochs
    PROVE  Subscribed(e) <=> lis[e] \in Listeners
BY DEF Subscribed, Listeners, Over, NoListener

LEMMA CurrentType ==
    ASSUME chains \in [Chains -> Epochs \cup {0}]
    PROVE  /\ Current \subseteq Epochs
           /\ \A e \in Epochs : e \in Current <=> \E c \in Chains : chains[c] = e
BY EpochsAssumption DEF Current, Indexed

(***************************************************************************)
(* A step that touches nothing of the program, and one that ends it.       *)
(***************************************************************************)
LEMMA ElsewhereCore == Core /\ UNCHANGED <<chains, closed, lis, walk>> => Core'
<1> SUFFICES ASSUME Core, UNCHANGED <<chains, closed, lis, walk>> PROVE Core'
    OBVIOUS
<1>1. Current' = Current /\ (Ending' <=> Ending)
    BY DEF Current, Indexed, Ending
<1>2. Typed' /\ EachOk' /\ Pools'
    BY DEF Core, Typed, EachOk, Pools, Subscribed
<1>3. Apart' /\ Own'
    BY DEF Core, Apart, Own, Subscribed
<1>4. Former' /\ Stopped' /\ InHand'
    BY <1>1 DEF Core, Former, Stopped, InHand, Subscribed
<1> QED BY <1>2, <1>3, <1>4 DEF Core

LEMMA FreshCore == Fresh => Core
<1> SUFFICES ASSUME Fresh PROVE Core
    OBVIOUS
<1>1. \A e \in Epochs : ~Subscribed(e)
    BY DEF Fresh, Subscribed, NoListener
<1>2. Current = {}
    BY DEF Fresh, Current, Indexed
<1>3. AtRest \in Walks /\ AtRest.pc = "idle"
    BY DEF AtRest, Walk, Walks
<1>4. Typed /\ InHand
    BY <1>3 DEF Fresh, Typed, InHand
<1> QED BY <1>1, <1>2, <1>4 DEF Core, EachOk, Apart, Own, Former, Pools, Stopped, Fresh

(***************************************************************************)
(* A turn of a listener.                                                   *)
(***************************************************************************)
LEMMA TurnCore ==
    ASSUME Core, NEW e \in Epochs, Subscribed(e), UNCHANGED <<chains, closed, walk>>,
           NEW m \in Listeners, LisOk(m), SameListener(lis[e], m),
           m.pool \in {0, e} \/ m.cancelled, m.pc = "writing" => m.pool = e,
           lis' = [lis EXCEPT ![e] = m]
    PROVE  Core'
<1>1. Typed' /\ \A f \in Epochs : lis'[f] = IF f = e THEN m ELSE lis[f]
    BY DEF Core, Typed
<1>2. \A f \in Epochs : Subscribed(f)' <=> Subscribed(f)
    BY <1>1, SubscribedType DEF Subscribed, Core, Typed, Listeners, Over
<1>3. \A f \in Epochs : Subscribed(f) =>
          lis'[f].chain = lis[f].chain /\ lis'[f].cancelled = lis[f].cancelled
    BY <1>1 DEF SameListener
<1>4. Current' = Current /\ Current \subseteq Epochs /\ (\A c \in Chains : chains[c] # 0 => chains[c] \in Epochs)
    BY CurrentType DEF Core, Typed, Current, Indexed
<1>5. EachOk' /\ Pools'
    BY <1>1, <1>2 DEF Core, EachOk, Pools
<1>6. Apart' /\ Own'
    BY <1>2, <1>3, <1>4 DEF Core, Apart, Own
<1>7. Former' /\ Stopped' /\ InHand'
    BY <1>2, <1>3, <1>4 DEF Core, Former, Stopped, InHand, Ending
<1> QED BY <1>1, <1>5, <1>6, <1>7 DEF Core

(***************************************************************************)
(* What cancelling and closing leave of the listeners.                     *)
(***************************************************************************)
Stops(l, m) == m = l \/ m = Cancelled(l) \/ (l.cancelled /\ m = Closed(l))

LEMMA StopsOk ==
    ASSUME Typed, EachOk, Pools, lis' \in [Epochs -> Listeners \cup {NoListener}],
           \A e \in Epochs : IF Subscribed(e) THEN Stops(lis[e], lis'[e]) ELSE lis'[e] = lis[e]
    PROVE  /\ EachOk' /\ Pools'
           /\ \A e \in Epochs :
                  /\ Subscribed(e)' <=> Subscribed(e)
                  /\ Subscribed(e) => lis'[e].chain = lis[e].chain
                  /\ Subscribed(e) /\ lis[e].cancelled => lis'[e].cancelled
                  /\ Subscribed(e) /\ lis'[e] = Cancelled(lis[e]) => lis'[e].cancelled
<1>1. ASSUME NEW e \in Epochs, Subscribed(e)
      PROVE  /\ lis'[e] \in Listeners /\ LisOk(lis'[e])
             /\ lis'[e].chain = lis[e].chain /\ lis'[e].pool = lis[e].pool /\ lis'[e].pc = lis[e].pc
             /\ lis[e].cancelled => lis'[e].cancelled
             /\ lis'[e] = Cancelled(lis[e]) => lis'[e].cancelled
  <2>1. lis[e] \in Listeners /\ LisOk(lis[e]) /\ Stops(lis[e], lis'[e])
      BY <1>1, SubscribedType DEF Typed, EachOk
  <2> QED BY <2>1, CancelledOk, ClosedOk DEF Stops
<1>2. \A e \in Epochs : Subscribed(e)' <=> Subscribed(e)
    BY <1>1 DEF Subscribed, Listeners, Over
<1>3. EachOk' /\ Pools'
    BY <1>1, <1>2 DEF EachOk, Pools
<1> QED BY <1>1, <1>2, <1>3

LEMMA FreshAfter == Fresh' => Core'
BY FreshCore, PTL

(***************************************************************************)
(* A step of the goroutine that holds the lock, and one that forgets a     *)
(* chain.                                                                  *)
(***************************************************************************)
LEMMA WalkCore ==
    ASSUME Core, UNCHANGED <<chains, lis>>, closed' \subseteq Epochs,
           walk' \in Walks, InHand', Ending' <=> Ending
    PROVE  Core'
<1>1. Current' = Current
    BY DEF Current, Indexed
<1>2. Typed' /\ EachOk' /\ Pools'
    BY DEF Core, Typed, EachOk, Pools, Subscribed
<1>3. Apart' /\ Own'
    BY DEF Core, Apart, Own, Subscribed
<1>4. Former' /\ Stopped'
    BY <1>1 DEF Core, Former, Stopped, Subscribed
<1> QED BY <1>2, <1>3, <1>4 DEF Core

LEMMA ForgetCore ==
    ASSUME Core, NEW c0 \in Chains, NEW e0 \in Epochs, chains[c0] = e0,
           chains' = [chains EXCEPT ![c0] = 0], UNCHANGED closed,
           lis' \in [Epochs -> Listeners \cup {NoListener}], EachOk', Pools',
           \A e \in Epochs : e # e0 => lis'[e] = lis[e],
           Subscribed(e0)' => lis'[e0].cancelled,
           walk' \in Walks, InHand', Ending' <=> Ending
    PROVE  Core'
<1>1. /\ \A c \in Chains : chains'[c] = IF c = c0 THEN 0 ELSE chains[c]
      /\ chains' \in [Chains -> Epochs \cup {0}]
    BY DEF Core, Typed
<1>2. Typed'
    BY <1>1 DEF Core, Typed
<1>3. \A c \in Chains : chains'[c] # 0 =>
          c # c0 /\ chains'[c] = chains[c] /\ chains[c] \in Epochs \ {e0}
    BY <1>1, EpochsAssumption DEF Core, Typed, Apart
<1>4. \A e \in Epochs : e # e0 => (Subscribed(e)' <=> Subscribed(e)) /\ lis'[e] = lis[e]
    BY DEF Subscribed
<1>5. Apart'
    BY <1>3 DEF Core, Apart
<1>6. Own'
    BY <1>3, <1>4 DEF Core, Own
<1>7. /\ \A e \in Epochs : e \in Current <=> \E c \in Chains : chains[c] = e
      /\ \A e \in Epochs : e \in Current' <=> \E c \in Chains : chains'[c] = e
      /\ Current' \subseteq Epochs /\ Current \subseteq Epochs
    BY <1>1, EpochsAssumption DEF Current, Indexed, Core, Typed
<1>8. Current' = Current \ {e0}
  <2>1. ASSUME NEW e \in Epochs
        PROVE  e \in Current' <=> e \in Current /\ e # e0
    <3>1. e \in Current' => e \in Current /\ e # e0
        BY <1>3, <1>7, EpochsAssumption
    <3>2. e \in Current /\ e # e0 => e \in Current'
        BY <1>1, <1>7
    <3> QED BY <3>1, <3>2
  <2> QED BY <1>7, <2>1
<1>9. Former'
    BY <1>4, <1>8 DEF Core, Former
<1>10. Stopped'
    BY <1>4, <1>7, <1>8 DEF Core, Stopped
<1> QED BY <1>2, <1>5, <1>6, <1>9, <1>10 DEF Core

(***************************************************************************)
(* Turns of the listeners, and what they hear.                             *)
(***************************************************************************)
LEMMA ListenCore ==
    ASSUME Core, NEW e \in Epochs, Listen(e) \/ Hears(e)
    PROVE  Core'
<1> DEFINE l == lis[e]
<1>1. Subscribed(e) /\ UNCHANGED <<chains, closed, walk>>
    BY DEF Listen, Hears, Connects, Reads, HandlerLooksUp, HandlerWrites, Become
<1>2. /\ l \in Listeners /\ LisOk(l) /\ (l.pool \in {0, e} \/ l.cancelled)
      /\ l.pc = "writing" => l.pool = e
    BY <1>1, SubscribedType DEF Core, Typed, EachOk, Pools
<1> SUFFICES \E m \in Listeners :
        /\ LisOk(m) /\ SameListener(l, m) /\ (m.pool \in {0, e} \/ m.cancelled)
        /\ m.pc = "writing" => m.pool = e
        /\ lis' = [lis EXCEPT ![e] = m]
    BY <1>1, TurnCore
<1> HIDE DEF l
<1>3. CASE Connects(e)
  <2>1. PICK m \in Round(l) \cup DialAnswered(l) \cup DialFailed(l) \cup Wait(l) \cup Store(l) :
            lis' = [lis EXCEPT ![e] = m]
      BY <1>3 DEF Connects, Become, l
  <2>2. /\ m \in Listeners /\ LisOk(m) /\ SameListener(l, m) /\ m.pool = 0
        /\ m.pc \notin {"found", "writing"}
      BY <1>2, ConnectsOk
  <2> QED BY <2>1, <2>2
<1>4. CASE Reads(e)
  <2>1. PICK m \in Check(l) \cup Read(l) \cup Disconnect(l) : lis' = [lis EXCEPT ![e] = m]
      BY <1>4 DEF Reads, Become, l
  <2>2. /\ m \in Listeners /\ LisOk(m) /\ SameListener(l, m) /\ m.pool = 0
        /\ m.pc \notin {"found", "writing"}
      BY <1>2, ReadsOk
  <2> QED BY <2>1, <2>2
<1>5. CASE Hears(e)
  <2>1. PICK m \in Receive(l) \cup Dropped(l) : lis' = [lis EXCEPT ![e] = m]
      BY <1>5 DEF Hears, Become, l
  <2>2. /\ m \in Listeners /\ LisOk(m) /\ SameListener(l, m) /\ m.pool = l.pool
        /\ (m.pc = "writing" <=> l.pc = "writing")
      BY <1>2, <2>1, HearsOk
  <2> QED BY <1>2, <2>1, <2>2 DEF SameListener
<1>6. CASE HandlerLooksUp(e)
  <2> DEFINE pool == chains[l.chain]
  <2>1. l.chain \in Chains /\ pool \in Epochs \cup {0}
      BY <1>2, Fields DEF Core, Typed
  <2>2. PICK m \in LookUp(l, pool) : lis' = [lis EXCEPT ![e] = m]
      BY <1>6 DEF HandlerLooksUp, Become, l
  <2>3. m \in Listeners /\ LisOk(m) /\ SameListener(l, m) /\ m.pool = pool /\ m.pc # "writing"
    <3> HIDE DEF pool
    <3> QED BY <1>2, <2>1, <2>2, LooksUpOk
  <2>4. CASE l.cancelled
      BY <2>2, <2>3, <2>4 DEF SameListener
  <2>5. CASE ~l.cancelled
    <3>1. PICK c \in Chains : chains[c] = e
        BY <1>1, <2>5, CurrentType DEF Core, Typed, Former, l
    <3>2. l.chain = c
        BY <1>1, <3>1, EpochsAssumption DEF Core, Own, l
    <3> QED BY <2>2, <2>3, <3>1, <3>2
  <2> QED BY <2>4, <2>5
<1>7. CASE HandlerWrites(e)
  <2> DEFINE open == l.pool \notin closed
  <2>1. PICK m \in Acquire(l, open) \cup Release(l) : lis' = [lis EXCEPT ![e] = m]
      BY <1>7 DEF HandlerWrites, Become, l
  <2>2. /\ m \in Listeners /\ LisOk(m) /\ SameListener(l, m) /\ m.pool \in {0, l.pool}
        /\ m.pc = "writing" => ~l.cancelled /\ m.pool = l.pool /\ l.pool # 0
    <3>1. open \in BOOLEAN
        OBVIOUS
    <3> HIDE DEF open
    <3> QED BY <1>2, <2>1, <3>1, WritesOk
  <2> QED BY <1>2, <2>1, <2>2 DEF SameListener
<1> QED BY <1>3, <1>4, <1>5, <1>6, <1>7 DEF Listen

(***************************************************************************)
(* The registry, and what else is counted.                                 *)
(***************************************************************************)
RegistryTyped ==
    /\ admin \in [Chains -> Rows \cup {None}]
    /\ request \in [Clients -> Requests \cup {Idle}]
    /\ edits \in 0..MaxEdits

Counted == up \in BOOLEAN /\ triggers \subseteq Chains /\ faults \in 0..MaxFaults /\ stops \in Nat

Inv == RegistryTyped /\ Counted /\ Core

LEMMA EditTyped ==
    ASSUME RegistryTyped, NEW c \in Chains, NEW row \in Rows, Edit(c, row),
           request' \in [Clients -> Requests \cup {Idle}]
    PROVE  RegistryTyped'
BY BoundsAssumption DEF RegistryTyped, Edit

LEMMA ApiTyped ==
    ASSUME RegistryTyped, Api
    PROVE  RegistryTyped' /\ UNCHANGED <<program, triggers, faults, stops>>
<1>1. CASE \E c \in Chains : Upsert(c)
  <2>1. PICK c \in Chains, row \in Bodies : Edit(c, row) /\ UNCHANGED request
      BY <1>1 DEF Upsert
  <2> QED BY <2>1, EditTyped, BodiesAssumption DEF RegistryTyped, Edit
<1>2. CASE \E k \in Clients, c \in Chains, op \in {"patch", "delete"} : Load(k, c, op)
  <2>1. PICK k \in Clients, c \in Chains, op \in {"patch", "delete"} : Load(k, c, op)
      BY <1>2
  <2>2. admin[c] \in Rows
      BY <2>1 DEF Load, RegistryTyped
  <2>3. [op |-> op, chain |-> c, row |-> admin[c]] \in Requests
      BY <2>2 DEF Requests
  <2> QED BY <2>1, <2>3 DEF Load, RegistryTyped
<1>3. CASE \E k \in Clients : SavePatch(k)
  <2>1. PICK k \in Clients, url \in Urls \cup {NoUrl}, paused \in BOOLEAN :
            /\ request[k].op = "patch"
            /\ Edit(request[k].chain, [request[k].row EXCEPT !.url = url, !.paused = paused])
            /\ request' = [request EXCEPT ![k] = Idle]
      BY <1>3 DEF SavePatch
  <2>2. request[k] \in Requests
      BY <2>1 DEF RegistryTyped, Idle
  <2>3. /\ request[k].chain \in Chains
        /\ [request[k].row EXCEPT !.url = url, !.paused = paused] \in Rows
      BY <2>2 DEF Requests, Rows
  <2>4. request' \in [Clients -> Requests \cup {Idle}]
      BY <2>1 DEF RegistryTyped
  <2> QED BY <2>1, <2>3, <2>4, EditTyped DEF Edit
<1>4. CASE \E k \in Clients : SaveDelete(k)
  <2>1. PICK k \in Clients :
            /\ request[k].op = "delete"
            /\ Edit(request[k].chain, [request[k].row EXCEPT !.deleted = TRUE])
            /\ request' = [request EXCEPT ![k] = Idle]
      BY <1>4 DEF SaveDelete
  <2>2. request[k] \in Requests
      BY <2>1 DEF RegistryTyped, Idle
  <2>3. /\ request[k].chain \in Chains
        /\ [request[k].row EXCEPT !.deleted = TRUE] \in Rows
      BY <2>2 DEF Requests, Rows
  <2>4. request' \in [Clients -> Requests \cup {Idle}]
      BY <2>1 DEF RegistryTyped
  <2> QED BY <2>1, <2>3, <2>4, EditTyped DEF Edit
<1>5. CASE \E k \in Clients : Refuse(k)
    BY <1>5 DEF Refuse, RegistryTyped
<1> QED BY <1>1, <1>2, <1>3, <1>4, <1>5 DEF Api

LEMMA ActiveUrlType ==
    ASSUME RegistryTyped
    PROVE  [c \in Chains |-> ActiveUrl(c)] \in [Chains -> Urls \cup {NoUrl}]
<1> SUFFICES ASSUME NEW c \in Chains PROVE ActiveUrl(c) \in Urls \cup {NoUrl}
    OBVIOUS
<1>1. admin[c] \in Rows \/ admin[c] = None
    BY DEF RegistryTyped
<1> QED BY <1>1 DEF ActiveUrl, Rows

(***************************************************************************)
(* The steps of a Rediscover.                                              *)
(***************************************************************************)
LEMMA WalkFields ==
    ASSUME NEW w \in Walks, NEW c \in Chains \cup {None}, NEW e \in Epochs \cup {0},
           NEW pc \in {"idle", "locked", "closing", "disconnecting", "unsyncing",
                       "cancelling", "hanging up", "shutting", "draining"}
    PROVE  LET x == [w EXCEPT !.pc = pc, !.chain = c, !.epoch = e]
               y == [w EXCEPT !.pc = pc]
           IN  /\ x \in Walks /\ x.pc = pc /\ x.chain = c /\ x.epoch = e
               /\ y \in Walks /\ y.pc = pc /\ y.chain = w.chain /\ y.epoch = w.epoch
BY DEF Walks

LEMMA ClosePoolCore ==
    ASSUME Core, NEW c \in Indexed,
           \/ walk.pc = "locked" /\ ClosePool(c, "closing")
           \/ walk.pc = "shutting" /\ ClosePool(c, "draining")
    PROVE  Core'
<1>1. c \in Chains /\ chains[c] \in Epochs /\ chains[c] # 0
    BY DEF Indexed, Core, Typed
<1>2. PICK pc \in {"closing", "draining"} :
          /\ walk.pc = (IF pc = "closing" THEN "locked" ELSE "shutting")
          /\ ClosePool(c, pc)
    OBVIOUS
<1>3. /\ UNCHANGED <<chains, lis>> /\ closed' = closed \cup {chains[c]}
      /\ walk' = [walk EXCEPT !.pc = pc, !.chain = c, !.epoch = chains[c]]
    BY <1>2 DEF ClosePool
<1>4. walk' \in Walks /\ walk'.pc = pc /\ walk'.chain = c /\ walk'.epoch = chains[c]
    BY <1>1, <1>3 DEF Core, Typed, Walks
<1>5. InHand' /\ (Ending' <=> Ending)
    BY <1>1, <1>2, <1>3, <1>4 DEF InHand, Ending
<1>6. closed' \subseteq Epochs
    BY <1>1, <1>3 DEF Core, Typed
<1> QED BY <1>3, <1>4, <1>5, <1>6, WalkCore

(* The chain that is removed loses its pool and its listener's context.    *)
LEMMA RemoveForgetsCore ==
    ASSUME Core, RemoveForgets
    PROVE  Core'
<1>1. PICK c0 \in Chains, e0 \in Epochs :
          walk.chain = c0 /\ walk.epoch = e0 /\ chains[c0] = e0
    BY DEF RemoveForgets, Core, InHand, Typed, Walks
<1>2. /\ walk.pc = "closing" /\ UNCHANGED closed
      /\ chains' = [chains EXCEPT ![c0] = 0]
      /\ lis' = IF Subscribed(e0) THEN [lis EXCEPT ![e0] = Cancelled(lis[e0])] ELSE lis
      /\ walk' = [walk EXCEPT !.pc = "disconnecting"]
    BY <1>1 DEF RemoveForgets
<1>3. /\ walk' \in Walks /\ walk'.pc = "disconnecting" /\ walk'.epoch = e0
    BY <1>1, <1>2, WalkFields, ZenonT(40) DEF Core, Typed, Walks
<1>4. /\ \A e \in Epochs : lis'[e] = IF e = e0 /\ Subscribed(e) THEN Cancelled(lis[e]) ELSE lis[e]
      /\ lis' \in [Epochs -> Listeners \cup {NoListener}]
  <2>1. Subscribed(e0) => Cancelled(lis[e0]) \in Listeners
      BY <1>1, SubscribedType, CancelledOk DEF Core, Typed, EachOk
  <2> QED BY <1>1, <1>2, <2>1 DEF Core, Typed
<1>5. /\ EachOk' /\ Pools'
      /\ Subscribed(e0)' <=> Subscribed(e0)
      /\ Subscribed(e0) => lis'[e0].cancelled
  <2>1. \A e \in Epochs : IF Subscribed(e) THEN Stops(lis[e], lis'[e]) ELSE lis'[e] = lis[e]
      BY <1>4 DEF Stops
  <2> QED BY <1>1, <1>4, <2>1, StopsOk DEF Core
<1>6. InHand' /\ (Ending' <=> Ending)
    BY <1>1, <1>2, <1>3, <1>5 DEF InHand, Ending
<1> QED BY <1>1, <1>2, <1>3, <1>4, <1>5, <1>6, ForgetCore

(* Its connection is closed, after its context was cancelled.              *)
LEMMA RemoveDisconnectsCore ==
    ASSUME Core, RemoveDisconnects
    PROVE  Core'
<1> DEFINE e0 == walk.epoch
<1>1. e0 \in Epochs /\ (Subscribed(e0) => lis[e0].cancelled)
    BY DEF RemoveDisconnects, Core, InHand
<1>2. /\ walk.pc = "disconnecting" /\ UNCHANGED <<chains, closed>>
      /\ lis' = IF Subscribed(e0) THEN [lis EXCEPT ![e0] = Closed(lis[e0])] ELSE lis
      /\ walk' = [walk EXCEPT !.pc = "unsyncing"]
    BY DEF RemoveDisconnects
<1>3. walk' \in Walks /\ walk'.pc = "unsyncing"
    BY <1>2, WalkFields DEF Core, Typed, Walks
<1> HIDE DEF e0
<1>4. /\ \A e \in Epochs : lis'[e] = IF e = e0 /\ Subscribed(e) THEN Closed(lis[e]) ELSE lis[e]
      /\ lis' \in [Epochs -> Listeners \cup {NoListener}]
  <2>1. Subscribed(e0) => Closed(lis[e0]) \in Listeners
      BY <1>1, SubscribedType, ClosedOk DEF Core, Typed, EachOk
  <2> QED BY <1>1, <1>2, <2>1 DEF Core, Typed
<1>5. /\ EachOk' /\ Pools'
      /\ \A e \in Epochs :
             /\ Subscribed(e)' <=> Subscribed(e)
             /\ Subscribed(e) => lis'[e].chain = lis[e].chain
             /\ Subscribed(e) /\ lis[e].cancelled => lis'[e].cancelled
  <2>1. \A e \in Epochs : IF Subscribed(e) THEN Stops(lis[e], lis'[e]) ELSE lis'[e] = lis[e]
      BY <1>1, <1>4 DEF Stops
  <2> QED BY <1>4, <2>1, StopsOk DEF Core
<1>6. Current' = Current /\ Current \subseteq Epochs /\ \A c \in Chains : chains[c] # 0 => chains[c] \in Epochs
    BY <1>2, CurrentType DEF Core, Typed, Current, Indexed
<1>7. Typed' /\ InHand'
    BY <1>2, <1>3, <1>4 DEF Core, Typed, InHand
<1>8. Apart' /\ Own'
    BY <1>2, <1>5, <1>6 DEF Core, Apart, Own
<1>9. Former'
    BY <1>5, <1>6 DEF Core, Former
<1>10. Stopped'
  <2>1. \A e \in Current : Subscribed(e) => ~lis[e].cancelled /\ e # e0
      BY <1>1, <1>2, <1>6 DEF Core, Stopped, Ending
  <2> QED BY <1>2, <1>3, <1>4, <1>5, <1>6, <2>1 DEF Stopped, Ending
<1> QED BY <1>5, <1>7, <1>8, <1>9, <1>10 DEF Core

(* A chain gets an epoch of which nothing was left.                        *)
LEMMA AddCore ==
    ASSUME Core, NEW c0 \in Chains, Add(c0)
    PROVE  Core'
<1>1. walk.pc = "locked" /\ chains[c0] = 0 /\ walk.list[c0] # NoUrl
    BY DEF Add, New, Indexed
<1>2. CASE AddFails(c0)
  <2>1. UNCHANGED <<chains, closed, lis>> /\ walk' = [walk EXCEPT !.failed = walk.failed \cup {c0}]
      BY <1>2 DEF AddFails
  <2>2. walk' \in Walks /\ walk'.pc = walk.pc
      BY <2>1 DEF Core, Typed, Walks
  <2>3. InHand' /\ (Ending' <=> Ending)
      BY <1>1, <2>2 DEF InHand, Ending
  <2> QED BY <2>1, <2>2, <2>3, WalkCore DEF Core, Typed
<1>3. CASE AddSucceeds(c0)
  <2>1. PICK e0 \in Epochs :
            /\ Unused(e0)
            /\ chains' = [chains EXCEPT ![c0] = e0] /\ closed' = closed \ {e0}
            /\ lis' = [lis EXCEPT ![e0] = IF AutoSubscribe THEN Started(c0, walk.list[c0])
                                         ELSE NoListener]
            /\ UNCHANGED walk
      BY <1>3 DEF AddSucceeds
  <2>2. /\ walk.list[c0] \in Urls /\ e0 # 0
      BY <1>1, EpochsAssumption DEF Core, Typed, Walks
  <2> DEFINE m == Started(c0, walk.list[c0])
  <2>3. /\ m \in Listeners /\ LisOk(m) /\ m.pc = "round" /\ ~m.cancelled
        /\ m.chain = c0 /\ m.pool = 0
      BY <2>2, StartedOk
  <2> HIDE DEF m
  <2>4. /\ \A c \in Chains : chains'[c] = IF c = c0 THEN e0 ELSE chains[c]
        /\ \A e \in Epochs : lis'[e] = IF e # e0 THEN lis[e]
                                        ELSE IF AutoSubscribe THEN m ELSE NoListener
        /\ Typed'
      BY <2>1, <2>3 DEF Core, Typed, m
  <2>5. /\ \A e \in Epochs : e # e0 => (Subscribed(e)' <=> Subscribed(e))
        /\ Subscribed(e0)' <=> AutoSubscribe
      BY <2>3, <2>4 DEF Subscribed, NoListener
  <2>6. /\ \A e \in Epochs : e \in Current <=> \E c \in Chains : chains[c] = e
        /\ \A e \in Epochs : e \in Current' <=> \E c \in Chains : chains'[c] = e
        /\ Current' \subseteq Epochs /\ Current \subseteq Epochs
      BY <2>4, EpochsAssumption DEF Current, Indexed, Core, Typed
  <2>7. e0 \notin Current /\ \A c \in Chains : chains[c] # 0 => chains[c] \in Epochs \ {e0}
      BY <2>1, <2>6 DEF Unused, Core, Typed
  <2>8. Current' = Current \cup {e0}
    <3>1. ASSUME NEW e \in Epochs
          PROVE  e \in Current' <=> e \in Current \/ e = e0
      <4>1. e \in Current' => e \in Current \/ e = e0
          BY <2>4, <2>6
      <4>2. e \in Current => e \in Current'
        <5>1. ASSUME e \in Current PROVE e \in Current'
          <6>1. PICK c \in Chains : chains[c] = e
              BY <2>6, <5>1
          <6>2. c # c0
              BY <1>1, <6>1, EpochsAssumption
          <6> QED BY <2>4, <2>6, <6>1, <6>2
        <5> QED BY <5>1
      <4>3. e = e0 => e \in Current'
          BY <2>4, <2>6
      <4> QED BY <4>1, <4>2, <4>3
    <3> QED BY <2>6, <3>1
  <2>9. EachOk'
      BY <2>3, <2>4, <2>5 DEF Core, EachOk
  <2>10. Apart'
      BY <2>4, <2>7 DEF Core, Apart
  <2>11. Own'
      BY <2>3, <2>4, <2>5, <2>7 DEF Core, Own
  <2>12. Former'
      BY <2>4, <2>5, <2>8 DEF Core, Former
  <2>13. Pools'
      BY <2>3, <2>4, <2>5 DEF Core, Pools
  <2>14. InHand'
      BY <1>1, <2>1 DEF InHand
  <2>15. Stopped'
    <3>1. ~Ending /\ ~Ending'
        BY <1>1, <2>1 DEF Ending
    <3>2. \A e \in Current : Subscribed(e)' => ~lis'[e].cancelled
        BY <2>4, <2>5, <2>6, <2>7, <3>1 DEF Core, Stopped
    <3>3. Subscribed(e0)' => ~lis'[e0].cancelled
        BY <2>3, <2>4, <2>5
    <3> QED BY <2>8, <3>1, <3>2, <3>3 DEF Stopped
  <2> QED BY <2>4, <2>9, <2>10, <2>11, <2>12, <2>13, <2>14, <2>15 DEF Core
<1> QED BY <1>2, <1>3 DEF Add

LEMMA RediscoverCore ==
    ASSUME RegistryTyped, Core, Rediscover
    PROVE  Core'
<1>0. walk \in Walks /\ closed \subseteq Epochs
    BY DEF Core, Typed
<1>1. CASE ListChains
  <2>1. /\ walk.pc = "idle" /\ UNCHANGED <<chains, closed, lis>>
        /\ walk' = Walk("locked", [c \in Chains |-> ActiveUrl(c)], None, 0)
      BY <1>1 DEF ListChains
  <2>2. walk' \in Walks /\ walk'.pc = "locked"
      BY <2>1, ActiveUrlType DEF Walk, Walks
  <2> QED BY <1>0, <2>1, <2>2, WalkCore DEF InHand, Ending
<1>2. CASE Unlock
  <2>1. walk.pc = "locked" /\ UNCHANGED <<chains, closed, lis>> /\ walk' = AtRest
      BY <1>2 DEF Unlock
  <2>2. walk' \in Walks /\ walk'.pc = "idle"
      BY <2>1 DEF AtRest, Walk, Walks
  <2> QED BY <1>0, <2>1, <2>2, WalkCore DEF InHand, Ending
<1>3. CASE RemoveForgets
    BY <1>3, RemoveForgetsCore
<1>4. CASE RemoveDisconnects
    BY <1>4, RemoveDisconnectsCore
<1>5. CASE RemoveUnsyncs
  <2>1. /\ walk.pc = "unsyncing" /\ UNCHANGED <<chains, closed, lis>>
        /\ walk' = [walk EXCEPT !.pc = "locked", !.chain = None, !.epoch = 0]
      BY <1>5 DEF RemoveUnsyncs
  <2>2. walk' \in Walks /\ walk'.pc = "locked"
      BY <1>0, <2>1 DEF Walks
  <2> QED BY <1>0, <2>1, <2>2, WalkCore DEF InHand, Ending
<1>6. CASE \E c \in Chains : RemoveCloses(c)
  <2>1. PICK c \in Indexed : walk.pc = "locked" /\ ClosePool(c, "closing")
      BY <1>6 DEF RemoveCloses, Gone
  <2> QED BY <2>1, ClosePoolCore
<1>7. CASE \E c \in Chains : Add(c)
    BY <1>7, AddCore
<1> QED BY <1>1, <1>2, <1>3, <1>4, <1>5, <1>6, <1>7 DEF Rediscover

(***************************************************************************)
(* The steps of Close.                                                     *)
(***************************************************************************)
LEMMA CloseStopsCore ==
    ASSUME Core, CloseCancels \/ CloseDisconnects
    PROVE  Core'
<1>0. /\ walk \in Walks /\ Current \subseteq Epochs
      /\ \A c \in Chains : chains[c] # 0 => chains[c] \in Epochs
    BY CurrentType DEF Core, Typed
<1>1. /\ UNCHANGED <<chains, closed>> /\ walk' \in Walks
      /\ Ending' /\ InHand'
      /\ \/ /\ walk.pc = "cancelling"
            /\ lis' = [e \in Epochs |-> IF e \in Listening THEN Cancelled(lis[e]) ELSE lis[e]]
         \/ /\ walk.pc = "hanging up"
            /\ lis' = [e \in Epochs |-> IF e \in Listening THEN Closed(lis[e]) ELSE lis[e]]
  <2>1. CASE CloseCancels
    <3>1. walk' \in Walks /\ walk'.pc = "hanging up"
        BY <1>0, <2>1, WalkFields DEF CloseCancels, Walks
    <3> QED BY <2>1, <3>1 DEF CloseCancels, Ending, InHand
  <2>2. CASE CloseDisconnects
    <3>1. walk' \in Walks /\ walk'.pc = "shutting"
        BY <1>0, <2>2, WalkFields DEF CloseDisconnects, Walks
    <3> QED BY <2>2, <3>1 DEF CloseDisconnects, Ending, InHand
  <2> QED BY <2>1, <2>2
<1>2. ASSUME NEW e \in Epochs
      PROVE  /\ lis'[e] \in Listeners \cup {NoListener}
             /\ IF Subscribed(e) THEN Stops(lis[e], lis'[e]) ELSE lis'[e] = lis[e]
             /\ Subscribed(e) /\ e \in Current =>
                   lis'[e] = Cancelled(lis[e]) \/ lis[e].cancelled
  <2>1. CASE ~(Subscribed(e) /\ e \in Current)
    <3>1. lis'[e] = lis[e]
        BY <1>1, <2>1 DEF Listening
    <3> QED BY <2>1, <3>1 DEF Core, Typed, Stops
  <2>2. CASE Subscribed(e) /\ e \in Current
    <3>1. lis[e] \in Listeners /\ LisOk(lis[e])
        BY <2>2, SubscribedType DEF Core, Typed, EachOk
    <3>2. \/ lis'[e] = Cancelled(lis[e])
          \/ lis[e].cancelled /\ lis'[e] = Closed(lis[e])
        BY <1>1, <2>2 DEF Listening, Core, Stopped, Ending
    <3> QED BY <2>2, <3>1, <3>2, CancelledOk, ClosedOk DEF Stops
  <2> QED BY <2>1, <2>2
<1>3. lis' \in [Epochs -> Listeners \cup {NoListener}]
    BY <1>1, <1>2
<1>4. /\ EachOk' /\ Pools'
      /\ \A e \in Epochs :
             /\ Subscribed(e)' <=> Subscribed(e)
             /\ Subscribed(e) => lis'[e].chain = lis[e].chain
             /\ Subscribed(e) /\ lis[e].cancelled => lis'[e].cancelled
             /\ Subscribed(e) /\ lis'[e] = Cancelled(lis[e]) => lis'[e].cancelled
    BY <1>2, <1>3, StopsOk DEF Core
<1>5. Current' = Current
    BY <1>1 DEF Current, Indexed
<1>6. Typed' /\ Apart' /\ Own'
    BY <1>0, <1>1, <1>3, <1>4 DEF Core, Typed, Apart, Own
<1>7. Former'
    BY <1>4, <1>5 DEF Core, Former
<1>8. Stopped'
    BY <1>0, <1>1, <1>2, <1>4, <1>5 DEF Stopped
<1> QED BY <1>1, <1>4, <1>6, <1>7, <1>8 DEF Core

LEMMA CloseForgetsCore ==
    ASSUME Core, CloseForgets
    PROVE  Core'
<1>1. PICK c0 \in Chains, e0 \in Epochs :
          walk.chain = c0 /\ walk.epoch = e0 /\ chains[c0] = e0
    BY DEF CloseForgets, Core, InHand, Typed, Walks
<1>2. /\ walk.pc = "draining" /\ UNCHANGED <<closed, lis>>
      /\ chains' = [chains EXCEPT ![c0] = 0]
      /\ walk' = [walk EXCEPT !.pc = "shutting"]
    BY <1>1 DEF CloseForgets
<1>3. walk' \in Walks /\ walk'.pc = "shutting"
    BY <1>1, <1>2, WalkFields DEF Core, Typed, Walks
<1>4. EachOk' /\ Pools' /\ lis' \in [Epochs -> Listeners \cup {NoListener}]
    BY <1>2 DEF Core, Typed, EachOk, Pools, Subscribed
<1>5. Subscribed(e0)' => lis'[e0].cancelled
  <2>1. e0 \in Current
      BY <1>1, CurrentType DEF Core, Typed
  <2> QED BY <1>2, <2>1 DEF Core, Stopped, Ending, Subscribed
<1>6. InHand' /\ (Ending' <=> Ending)
    BY <1>2, <1>3 DEF InHand, Ending
<1> QED BY <1>1, <1>2, <1>3, <1>4, <1>5, <1>6, ForgetCore

LEMMA DiesCore == ASSUME Dies PROVE Core'
<1>1. Fresh'
    BY DEF Dies, Fresh, AtRest
<1> QED BY <1>1, FreshAfter

LEMMA NextCore ==
    ASSUME RegistryTyped, Core, Next
    PROVE  Core'
<1>1. CASE Api
    BY <1>1, ApiTyped, ElsewhereCore DEF program
<1>2. CASE Rediscover
    BY <1>2, RediscoverCore
<1>3. CASE CloseCancels \/ CloseDisconnects
    BY <1>3, CloseStopsCore
<1>4. CASE CloseForgets
    BY <1>4, CloseForgetsCore
<1>5. CASE \E c \in Chains : CloseCloses(c)
  <2>1. PICK c \in Indexed : walk.pc = "shutting" /\ ClosePool(c, "draining")
      BY <1>5 DEF CloseCloses
  <2> QED BY <2>1, ClosePoolCore
<1>6. CASE Exit \/ Crash \/ Panic
    BY <1>6, DiesCore DEF Exit, Crash, Panic
<1>7. CASE Stop
  <2>1. /\ walk.pc = "idle" /\ UNCHANGED <<chains, closed, lis>>
        /\ walk' = [walk EXCEPT !.pc = "cancelling"]
      BY <1>7 DEF Stop
  <2>2. walk' \in Walks /\ walk'.pc = "cancelling" /\ closed \subseteq Epochs
      BY <2>1, WalkFields DEF Core, Typed, Walks
  <2> QED BY <2>1, <2>2, WalkCore DEF InHand, Ending
<1>8. CASE Start
    BY <1>8, ElsewhereCore DEF Start
<1>9. CASE \E e \in Epochs : Listen(e) \/ Hears(e)
    BY <1>9, ListenCore
<1> QED BY <1>1, <1>2, <1>3, <1>4, <1>5, <1>6, <1>7, <1>8, <1>9 DEF Next, Close

(***************************************************************************)
(* The registry and the counters, at every other step.                     *)
(***************************************************************************)
LEMMA NextTyped ==
    ASSUME RegistryTyped, Counted, Core, Next
    PROVE  RegistryTyped' /\ Counted'
<1>1. CASE Api
    BY <1>1, ApiTyped DEF program, Counted
<1>2. CASE ~Api
  <2>1. UNCHANGED registry
      BY <1>2 DEF Next, Rediscover, ListChains, Unlock, RemoveForgets, RemoveDisconnects,
                  RemoveUnsyncs, RemoveCloses, ClosePool, Add, Close, CloseCancels,
                  CloseDisconnects, CloseForgets, CloseCloses, Exit, Stop, Crash, Panic, Dies,
                  Start, Listen, Hears, Connects, Reads, HandlerLooksUp, HandlerWrites, Become
  <2>2. RegistryTyped'
      BY <2>1 DEF RegistryTyped, registry
  <2>3. CASE RemoveUnsyncs
      BY <2>2, <2>3, BoundsAssumption DEF RemoveUnsyncs, Fault, Counted
  <2>4. CASE \E c \in Chains : Add(c)
      BY <2>2, <2>4, BoundsAssumption DEF Add, AddFails, AddSucceeds, Fault, Counted
  <2>5. CASE Exit \/ Crash \/ Panic
    <3>1. up' = FALSE /\ stops' = stops + 1 /\ triggers' = triggers /\ faults' = faults
        BY <2>5 DEF Exit, Crash, Panic, Dies
    <3>2. stops' \in Nat
        BY <3>1 DEF Counted
    <3> QED BY <2>2, <3>1, <3>2 DEF Counted
  <2>6. CASE Start
      BY <2>2, <2>6 DEF Start, Counted
  <2>7. CASE \/ ListChains \/ Unlock \/ RemoveForgets \/ RemoveDisconnects
             \/ \E c \in Chains : RemoveCloses(c)
             \/ CloseCancels \/ CloseDisconnects \/ CloseForgets
             \/ \E c \in Chains : CloseCloses(c)
             \/ Stop \/ \E e \in Epochs : Listen(e) \/ Hears(e)
      BY <2>2, <2>7 DEF ListChains, Unlock, RemoveForgets, RemoveDisconnects,
                  RemoveCloses, ClosePool, CloseCancels, CloseDisconnects, CloseForgets,
                  CloseCloses, Stop, Listen, Hears, Connects, Reads, HandlerLooksUp,
                  HandlerWrites, Become, Counted
  <2> QED BY <1>2, <2>2, <2>3, <2>4, <2>5, <2>6, <2>7 DEF Next, Rediscover, Close
<1> QED BY <1>1, <1>2

----------------------------------------------------------------------------
LEMMA InvInit == Init => Inv
<1> SUFFICES ASSUME Init PROVE Inv
    OBVIOUS
<1>1. Core
    BY FreshCore DEF Init
<1>2. RegistryTyped /\ Counted
    BY BoundsAssumption DEF Init, RegistryTyped, Counted
<1> QED BY <1>1, <1>2 DEF Inv

LEMMA InvNext == Inv /\ [Next]_vars => Inv'
<1> SUFFICES ASSUME Inv, [Next]_vars PROVE Inv'
    OBVIOUS
<1>1. CASE Next
    BY <1>1, NextCore, NextTyped DEF Inv
<1>2. CASE UNCHANGED vars
  <2>1. Core'
      BY <1>2, ElsewhereCore DEF Inv, vars, program
  <2>2. RegistryTyped' /\ Counted'
      BY <1>2 DEF Inv, vars, program, registry, RegistryTyped, Counted
  <2> QED BY <2>1, <2>2 DEF Inv
<1> QED BY <1>1, <1>2

(* The inductive invariant holds of every behaviour of the indexer.        *)
THEOREM Invariant == Spec => []Inv
BY InvInit, InvNext, PTL DEF Spec

(* Every variable keeps its type, the registry's rows and the listeners    *)
(* among them.                                                             *)
THEOREM TypeCorrect == Spec => []TypeOK
<1>1. Inv => TypeOK
    BY DEF Inv, RegistryTyped, Counted, Core, Typed, Walks, TypeOK
<1> QED BY <1>1, Invariant, PTL

(* A handler writes only to the pool of the life of the chain that its     *)
(* listener belongs to: removeChainLocked cancels the listener's context,  *)
(* which keeps it from the pool of a chain that came back.                 *)
THEOREM FormerListenersWriteNothing == Spec => []OldListenersWriteNothing
<1>1. Inv => OldListenersWriteNothing
    BY DEF Inv, Core, Pools, Subscribed, OldListenersWriteNothing
<1> QED BY <1>1, Invariant, PTL

(* Between two Rediscovers the listeners that may go on are exactly those  *)
(* of the chains in idx.chains.                                            *)
THEOREM ListenersAreTheChains == Spec => []OneListenerPerChain
<1>1. Inv => OneListenerPerChain
  <2> SUFFICES ASSUME Inv, MuFree, AutoSubscribe
               PROVE  /\ \A e \in Epochs : Subscribed(e) => (~lis[e].cancelled <=> e \in Current)
                      /\ \A e \in Current : lis[e].pc # "cancelled"
      BY DEF OneListenerPerChain
  <2>1. \A e \in Current : e \in Epochs /\ Subscribed(e)
      BY DEF Inv, Core, Typed, Own, Current, Indexed
  <2>2. \A e \in Current : ~lis[e].cancelled
      BY <2>1 DEF Inv, Core, Stopped, Ending, MuFree
  <2> QED BY <2>1, <2>2 DEF Inv, Core, EachOk, LisOk, Former
<1> QED BY <1>1, Invariant, PTL

(* An open connection is in l.conn, where Close finds it, or has just been *)
(* dialled; nil is read from l.conn by a removed listener only.            *)
THEOREM ConnectionsAreFound == Spec => []SocketsAreHeld
<1>1. Inv => SocketsAreHeld
    BY DEF Inv, Core, EachOk, LisOk, Dialing, SocketsAreHeld, Subscribed, ReadsNil
<1> QED BY <1>1, Invariant, PTL

(* A listener that has given up has failed at least WSMaxRetries - 1 dials *)
(* in a row.                                                               *)
THEOREM GivingUpIsEarned == Spec => []GivesUpAfterRetries
<1>1. Inv => GivesUpAfterRetries
  <2> SUFFICES ASSUME Inv, NEW e \in Epochs, lis[e].pc = "gaveUp"
               PROVE  lis[e].failed >= MaxRetries - 1
      BY DEF GivesUpAfterRetries
  <2>1. lis[e] \in Listeners /\ LisOk(lis[e])
      BY SubscribedType DEF Inv, Core, Typed, EachOk, Subscribed
  <2>2. lis[e].attempt \in Nat /\ lis[e].failed \in Nat /\ MaxRetries \in Nat
      BY <2>1, Fields, RetriesAssumption
  <2> QED BY <2>1, <2>2 DEF LisOk
<1> QED BY <1>1, Invariant, PTL

(***************************************************************************)
(* The triggers, while no call fails and the process lasts: they are those *)
(* of the chains at hand, and of the one that is being removed.            *)
(***************************************************************************)
Removing == walk.pc \in {"disconnecting", "unsyncing"}

Synced ==
    faults = 0 /\ stops = 0 /\ walk.pc \notin {"shutting", "draining"} =>
        IF Removing THEN chains[walk.chain] = 0 /\ triggers = Indexed \cup {walk.chain}
        ELSE triggers = Indexed

\* A step that touches neither the chains nor the triggers.
LEMMA SyncedElsewhere ==
    ASSUME Synced, UNCHANGED <<chains, triggers, faults, stops>>,
           \/ UNCHANGED walk
           \/ walk'.pc \in {"shutting", "draining"}
           \/ /\ walk.pc \notin {"shutting", "draining"} /\ ~Removing /\ ~Removing'
           \/ /\ Removing /\ Removing' /\ walk'.chain = walk.chain
    PROVE  Synced'
<1>1. Indexed' = Indexed
    BY DEF Indexed
<1> QED BY <1>1 DEF Synced, Removing

LEMMA SyncedNext ==
    ASSUME Inv, Synced, [Next]_vars
    PROVE  Synced'
<1>0. /\ walk \in Walks /\ faults \in Nat /\ stops \in Nat
      /\ chains \in [Chains -> Epochs \cup {0}]
      /\ Fault => faults' # 0
    BY BoundsAssumption DEF Inv, Counted, Core, Typed, Fault
<1>1. CASE Api \/ Start \/ UNCHANGED vars \/ \E e \in Epochs : Listen(e) \/ Hears(e)
  <2>1. CASE Api
      BY <2>1, ApiTyped, SyncedElsewhere DEF Inv, program
  <2>2. CASE Start \/ UNCHANGED vars
      BY <2>2, SyncedElsewhere DEF Start, vars, program
  <2>3. CASE \E e \in Epochs : Listen(e) \/ Hears(e)
      BY <2>3, SyncedElsewhere DEF Listen, Hears, Connects, Reads, HandlerLooksUp,
                                   HandlerWrites, Become
  <2> QED BY <1>1, <2>1, <2>2, <2>3
<1>2. CASE \/ ListChains \/ Unlock \/ \E c \in Chains : RemoveCloses(c)
           \/ RemoveDisconnects
           \/ Stop \/ CloseCancels \/ CloseDisconnects \/ \E c \in Chains : CloseCloses(c)
  <2>1. UNCHANGED <<chains, triggers, faults, stops>>
      BY <1>2 DEF ListChains, Unlock, RemoveCloses, ClosePool, RemoveDisconnects, Stop,
                  CloseCancels, CloseDisconnects, CloseCloses
  <2>2. CASE ListChains \/ Unlock
      BY <2>1, <2>2, SyncedElsewhere DEF ListChains, Unlock, AtRest, Walk, Removing
  <2>3. CASE RemoveDisconnects
    <3>1. walk'.pc = "unsyncing" /\ walk'.chain = walk.chain /\ walk.pc = "disconnecting"
        BY <1>0, <2>3 DEF RemoveDisconnects, Walks
    <3> QED BY <2>1, <3>1, SyncedElsewhere DEF Removing
  <2>4. CASE Stop \/ CloseCancels
    <3>1. walk'.pc \in {"cancelling", "hanging up"} /\ walk.pc \in {"idle", "cancelling"}
        BY <1>0, <2>4 DEF Stop, CloseCancels, Walks
    <3> QED BY <2>1, <3>1, SyncedElsewhere DEF Removing
  <2>5. CASE CloseDisconnects \/ \E c \in Chains : CloseCloses(c)
    <3>1. walk'.pc \in {"shutting", "draining"}
        BY <1>0, <2>5 DEF CloseDisconnects, CloseCloses, ClosePool, Walks
    <3> QED BY <2>1, <3>1, SyncedElsewhere
  <2>6. CASE \E c \in Chains : RemoveCloses(c)
    <3>1. walk'.pc = "closing" /\ walk.pc = "locked"
        BY <1>0, <2>6 DEF RemoveCloses, ClosePool, Walks
    <3> QED BY <2>1, <3>1, SyncedElsewhere DEF Removing
  <2> QED BY <1>2, <2>2, <2>3, <2>4, <2>5, <2>6
<1>3. CASE RemoveForgets
  <2>1. /\ walk.pc = "closing" /\ UNCHANGED <<triggers, faults, stops>>
        /\ walk'.pc = "disconnecting" /\ walk'.chain = walk.chain
        /\ chains' = [chains EXCEPT ![walk.chain] = 0]
      BY <1>0, <1>3 DEF RemoveForgets, Walks
  <2>2. /\ walk.chain \in Chains /\ chains[walk.chain] # 0
      BY <2>1 DEF Inv, Core, InHand
  <2>3. /\ walk.chain \in Indexed /\ Indexed' = Indexed \ {walk.chain}
        /\ chains'[walk.chain] = 0
      BY <1>0, <2>1, <2>2 DEF Indexed
  <2> QED BY <2>1, <2>3 DEF Synced, Removing
<1>4. CASE RemoveUnsyncs
  <2>1. /\ walk.pc = "unsyncing" /\ UNCHANGED <<chains, stops>> /\ walk'.pc = "locked"
        /\ \/ triggers' = triggers \ {walk.chain} /\ UNCHANGED faults
           \/ faults' # 0
      BY <1>0, <1>4 DEF RemoveUnsyncs, Walks
  <2>2. Indexed' = Indexed
      BY <2>1 DEF Indexed
  <2>3. chains[walk.chain] = 0 => walk.chain \notin Indexed
      BY DEF Indexed
  <2> QED BY <2>1, <2>2, <2>3 DEF Synced, Removing
<1>5. CASE CloseForgets
  <2>1. walk'.pc = "shutting"
      BY <1>0, <1>5 DEF CloseForgets, Walks
  <2> QED BY <2>1 DEF Synced
<1>6. CASE Exit \/ Crash \/ Panic
  <2>1. stops' # 0
      BY <1>0, <1>6 DEF Exit, Crash, Panic, Dies
  <2> QED BY <2>1 DEF Synced
<1>7. CASE \E c \in Chains : Add(c)
  <2>1. PICK c \in Chains : Add(c)
      BY <1>7
  <2>2. walk.pc = "locked" /\ UNCHANGED stops
      BY <2>1 DEF Add
  <2>3. CASE AddFails(c)
    <3>1. faults' # 0
        BY <1>0, <2>3 DEF AddFails
    <3> QED BY <3>1 DEF Synced
  <2>4. CASE AddSucceeds(c)
    <3>1. PICK e \in Epochs :
              /\ chains' = [chains EXCEPT ![c] = e] /\ UNCHANGED walk
              /\ \/ triggers' = triggers \cup {c} /\ UNCHANGED faults
                 \/ faults' # 0
        BY <1>0, <2>4 DEF AddSucceeds
    <3>2. Indexed' = Indexed \cup {c}
        BY <1>0, <3>1, EpochsAssumption DEF Indexed
    <3> QED BY <2>2, <3>1, <3>2 DEF Synced, Removing
  <2> QED BY <2>1, <2>3, <2>4 DEF Add
<1> QED BY <1>1, <1>2, <1>3, <1>4, <1>5, <1>6, <1>7 DEF Next, Rediscover, Close

(* As long as no call of the database fails, the installed triggers are    *)
(* those of idx.chains, whatever was edited while chains came and went.    *)
THEOREM TriggersMatch == Spec => []TriggersFollowChains
<1>1. Init => Synced
    BY DEF Init, Fresh, AtRest, Walk, Synced, Removing, Indexed
<1>2. Inv /\ Synced /\ [Next]_vars => Synced'
    BY SyncedNext
<1>3. Spec => []Synced
    BY <1>1, <1>2, Invariant, PTL DEF Spec
<1>4. Synced => TriggersFollowChains
    BY DEF Synced, Removing, TriggersFollowChains, MuFree
<1> QED BY <1>3, <1>4, PTL
=============================================================================
