-------------------------- MODULE RpcClientProofs --------------------------
(***************************************************************************)
(* Theorems of RpcClient, for any number of endpoints, callers and pages.  *)
(***************************************************************************)
EXTENDS RpcClient, FiniteSetTheorems, TLAPS

(***************************************************************************)
(* What the two invariants rest on: the breaker's entries and counters     *)
(* have their types, and a goroutine past the breaker has an endpoint.     *)
(***************************************************************************)
Pcs == {"none", "next", "refill", "add", "look", "take", "sent", "done", "collect"}
Chosen == {"refill", "add", "look", "take", "sent"}

BreakerTyped ==
    /\ failures \in [Endpoints -> Nat]
    /\ opened \in [Endpoints -> {"no", "open", "over"}]

ThreadsTyped ==
    /\ thread \in [Threads -> [pc : Pcs, i : 1..(N + 1), err : BOOLEAN,
                               asked : BOOLEAN, answered : BOOLEAN]]
    /\ \A t \in Threads : thread[t].pc \in Chosen => thread[t].i \in Endpoints

(* A thread that has asked somebody has an answer or remembers the error.  *)
AskedIsKnown ==
    \A t \in Threads : thread[t].asked => thread[t].answered \/ thread[t].err

IInv == BreakerTyped /\ ThreadsTyped /\ BreakerFollowsFailures /\ AskedIsKnown

(* There is an endpoint.                                                   *)
LEMMA NIsPositive == N \in Nat /\ N > 0 /\ 1..N \subseteq 1..(N + 1)
<1>1. N \in Nat \ {0}
    BY ClientAssumption
<1> QED BY <1>1

(* A call or a page that begins, or is over, is well formed.               *)
LEMMA NoCallIsTyped ==
    /\ NoCall \in [pc : Pcs, i : 1..(N + 1), err : BOOLEAN, asked : BOOLEAN, answered : BOOLEAN]
    /\ Begun \in [pc : Pcs, i : 1..(N + 1), err : BOOLEAN, asked : BOOLEAN, answered : BOOLEAN]
    /\ NoCall.pc \notin Chosen /\ Begun.pc \notin Chosen
    /\ ~NoCall.asked /\ ~Begun.asked
<1>1. 1 \in 1..(N + 1)
    BY NIsPositive
<1>2. NoCall \in [pc : Pcs, i : 1..(N + 1), err : BOOLEAN, asked : BOOLEAN, answered : BOOLEAN]
    BY <1>1 DEF NoCall, Pcs
<1>3. /\ Begun \in [pc : Pcs, i : 1..(N + 1), err : BOOLEAN, asked : BOOLEAN, answered : BOOLEAN]
      /\ Begun.pc = "next" /\ Begun.asked = NoCall.asked
    BY <1>2 DEF Begun, Pcs
<1>4. NoCall.pc = "none" /\ ~NoCall.asked
    BY DEF NoCall
<1> QED BY <1>2, <1>3, <1>4 DEF Chosen

(* The invariant holds at the start.                                       *)
LEMMA InitIInv == Init => IInv
<1> SUFFICES ASSUME Init PROVE IInv
    OBVIOUS
<1>1. BreakerTyped
    BY ClientAssumption DEF Init, BreakerTyped
<1>2. ThreadsTyped
    BY NoCallIsTyped DEF Init, ThreadsTyped
<1>3. BreakerFollowsFailures
    BY ClientAssumption DEF Init, BreakerFollowsFailures
<1>4. AskedIsKnown
    BY NoCallIsTyped DEF Init, AskedIsKnown
<1> QED BY <1>1, <1>2, <1>3, <1>4 DEF IInv

(* One step of one thread's loop.                                          *)
LEMMA DoJSONIInv ==
    ASSUME NEW t \in Threads, IInv, DoJSON(t)
    PROVE  IInv'
<1> USE DEF IInv, At, Goto
<1>1. CASE Skip(t)
  <2>1. ThreadsTyped'
      BY <1>1, ClientAssumption DEF Skip, ThreadsTyped, Pcs, Chosen, Endpoints
  <2>2. AskedIsKnown'
      BY <1>1 DEF Skip, AskedIsKnown, ThreadsTyped
  <2> QED BY <1>1, <2>1, <2>2 DEF Skip, breaker, BreakerTyped, BreakerFollowsFailures
<1>2. CASE Choose(t)
  <2>1. ThreadsTyped'
      BY <1>2, ClientAssumption DEF Choose, Enter, ThreadsTyped, Pcs, Chosen, Endpoints
  <2>2. AskedIsKnown'
      BY <1>2 DEF Choose, Enter, AskedIsKnown, ThreadsTyped
  <2>3. thread[t].i \in Endpoints
      BY <1>2, ClientAssumption DEF Choose, ThreadsTyped, Endpoints
  <2>4. BreakerTyped' /\ BreakerFollowsFailures'
      BY <1>2, <2>3, ClientAssumption DEF Choose, breaker, BreakerTyped, BreakerFollowsFailures
  <2> QED BY <2>1, <2>2, <2>4
<1>3. CASE GiveUp(t)
  <2>1. ThreadsTyped'
      BY <1>3, ClientAssumption DEF GiveUp, ThreadsTyped, Pcs, Chosen, Endpoints
  <2>2. AskedIsKnown'
      BY <1>3 DEF GiveUp, AskedIsKnown, ThreadsTyped
  <2> QED BY <1>3, <2>1, <2>2 DEF GiveUp, breaker, BreakerTyped, BreakerFollowsFailures
<1>4. CASE RefillChecks(t) \/ RefillAdds(t) \/ AcquireLooks(t) \/ AcquireTakes(t)
  <2>1. PICK pc \in Chosen : thread' = [thread EXCEPT ![t].pc = pc]
      BY <1>4 DEF RefillChecks, RefillAdds, AcquireLooks, AcquireTakes, Chosen
  <2>2. thread[t].pc \in Chosen
      BY <1>4 DEF RefillChecks, RefillAdds, AcquireLooks, AcquireTakes, Chosen
  <2>3. ThreadsTyped'
      BY <2>1, <2>2 DEF ThreadsTyped, Pcs, Chosen
  <2>4. AskedIsKnown'
      BY <2>1 DEF AskedIsKnown, ThreadsTyped
  <2>5. UNCHANGED breaker
      BY <1>4 DEF RefillChecks, RefillAdds, AcquireLooks, AcquireTakes
  <2> QED BY <2>3, <2>4, <2>5 DEF breaker, BreakerTyped, BreakerFollowsFailures
<1>5. CASE Answered(t) \/ Refused(t) \/ Failed(t)
  <2>1. thread[t].i \in Endpoints
      BY <1>5 DEF Answered, Refused, Failed, ThreadsTyped, Chosen
  <2>2. PICK answered \in BOOLEAN : thread' = Asked(t, answered)
      BY <1>5 DEF Answered, Refused, Failed
  <2>3. ThreadsTyped'
    <3>1. thread[t].i + 1 \in 1..(N + 1) /\ thread[t].i \in 1..(N + 1)
        BY <2>1, NIsPositive DEF Endpoints
    <3>2. CASE answered
        BY <2>2, <3>2, ZenonT(40) DEF Asked, ThreadsTyped, Pcs, Chosen
    <3>3. CASE ~answered
        BY <2>2, <3>1, <3>3 DEF Asked, ThreadsTyped, Pcs, Chosen
    <3> QED BY <3>2, <3>3
  <2>4. AskedIsKnown'
      BY <2>2 DEF Asked, AskedIsKnown, ThreadsTyped
  <2>5. BreakerTyped' /\ BreakerFollowsFailures'
    <3>1. CASE Failed(t)
        BY <2>1, <3>1, ClientAssumption DEF Failed, BreakerTyped, BreakerFollowsFailures
    <3>2. CASE Answered(t) \/ Refused(t)
        BY <3>2 DEF Answered, Refused, breaker, BreakerTyped, BreakerFollowsFailures
    <3> QED BY <1>5, <3>1, <3>2
  <2> QED BY <2>3, <2>4, <2>5
<1> QED BY <1>1, <1>2, <1>3, <1>4, <1>5 DEF DoJSON

(* What the calls do to the threads: one of them is over or begins, one    *)
(* waits for its pages, or the pages of a list begin.                      *)
Settles ==
    \A t \in Threads :
        \/ thread'[t] \in {thread[t], NoCall, Begun}
        \/ thread'[t] = [thread[t] EXCEPT !.pc = "collect"]

(* Such a step keeps the invariant.                                        *)
LEMMA SettlesIInv ==
    ASSUME IInv, UNCHANGED breaker, Settles, DOMAIN thread' = Threads,
           thread' = [t \in Threads |-> thread'[t]]
    PROVE  IInv'
<1>1. ThreadsTyped'
  <2>1. \A t \in Threads : thread'[t] \in [pc : Pcs, i : 1..(N + 1), err : BOOLEAN,
                                           asked : BOOLEAN, answered : BOOLEAN]
      BY NoCallIsTyped DEF Settles, IInv, ThreadsTyped, Pcs
  <2>2. \A t \in Threads : thread'[t].pc \in Chosen => thread'[t].i \in Endpoints
      BY NoCallIsTyped DEF Settles, IInv, ThreadsTyped, Chosen
  <2> QED BY <2>1, <2>2 DEF ThreadsTyped
<1>2. AskedIsKnown'
    BY NoCallIsTyped DEF Settles, IInv, ThreadsTyped, AskedIsKnown
<1> QED BY <1>1, <1>2 DEF IInv, breaker, BreakerTyped, BreakerFollowsFailures

(* The steps of the callers are such steps.                                *)
LEMMA CallsSettle ==
    ASSUME IInv,
           \/ \E g \in Callers : Call(g) \/ Return(g)
           \/ \E g \in Listers : CallList(g) \/ Lists(g)
           \/ \E t \in PageThreads : Discard(t)
    PROVE  /\ UNCHANGED breaker /\ Settles
           /\ DOMAIN thread' = Threads /\ thread' = [t \in Threads |-> thread'[t]]
<1> USE DEF IInv, ThreadsTyped, Settles
<1>1. CASE \E g \in Callers : Call(g) \/ Return(g)
    BY <1>1 DEF Call, Return, Returns
<1>2. CASE \E g \in Listers : CallList(g)
    BY <1>2 DEF CallList
<1>3. CASE \E g \in Listers : ListFails(g) \/ ReturnList(g)
    BY <1>3 DEF ListFails, ReturnList, Returns
<1>4. CASE \E g \in Listers, more \in BOOLEAN : FirstPage(g, more)
    BY <1>4 DEF FirstPage
<1>5. CASE \E g \in Listers, p \in Pages : Collect(g, p)
    BY <1>5 DEF Collect
<1>6. CASE \E t \in PageThreads : Discard(t)
    BY <1>6 DEF Discard
<1> QED BY <1>1, <1>2, <1>3, <1>4, <1>5, <1>6 DEF Lists

(* Every step keeps the invariant.                                         *)
LEMMA NextIInv == IInv /\ [Next]_vars => IInv'
<1> SUFFICES ASSUME IInv, [Next]_vars PROVE IInv'
    OBVIOUS
<1>1. ASSUME NEW t \in Threads, DoJSON(t) PROVE IInv'
    BY <1>1, DoJSONIInv
<1>2. CASE \/ \E g \in Callers : Call(g) \/ Return(g)
           \/ \E g \in Listers : CallList(g) \/ Lists(g)
           \/ \E t \in PageThreads : Discard(t)
    BY <1>2, CallsSettle, SettlesIInv
<1>3. CASE TokenDue \/ UNCHANGED vars
    BY <1>3 DEF TokenDue, vars, breaker, IInv, BreakerTyped, ThreadsTyped,
                BreakerFollowsFailures, AskedIsKnown
<1>4. ASSUME NEW ep \in Endpoints, CoolDown(ep) PROVE IInv'
    BY <1>4 DEF CoolDown, IInv, BreakerTyped, ThreadsTyped, BreakerFollowsFailures, AskedIsKnown
<1> QED BY <1>1, <1>2, <1>3, <1>4 DEF Next

(* The inductive invariant: the types, the breakers, and that a call which *)
(* asked somebody knows the answer or the error.                           *)
THEOREM Invariant == Spec => []IInv
BY InitIInv, NextIInv, PTL DEF Spec

(* isOpen and noteFailure: the breaker of an endpoint is closed exactly    *)
(* while it has fewer failures than the threshold, however many goroutines *)
(* share it.                                                               *)
THEOREM BreakerStaysTrue == Spec => []BreakerFollowsFailures
<1>1. IInv => BreakerFollowsFailures
    BY DEF IInv
<1> QED BY <1>1, Invariant, PTL

(* doJSON: a call that returns no error has an answer, or asked nobody.    *)
THEOREM SilenceIsNoFailure == Spec => []SilentOnlyIfNobodyAsked
<1>1. IInv => SilentOnlyIfNobodyAsked
    BY DEF IInv, AskedIsKnown, SilentOnlyIfNobodyAsked, NilError
<1> QED BY <1>1, Invariant, PTL

----------------------------------------------------------------------------
(***************************************************************************)
(* The bucket: a goroutine that has seen a token may take it, and one that *)
(* has seen room may add one, whatever the others do in between.  So what  *)
(* is bounded is the bucket with the tokens that are about to go, and with *)
(* those that are about to come; and both are goroutines in acquire, of    *)
(* which peak remembers the most, be they of a caller, of a list that is   *)
(* waited for, or of one that has failed long ago.                         *)
(***************************************************************************)
InPc(pc) == {t \in Threads : thread[t].pc = pc}

BucketCounts ==
    /\ tokens \in Int /\ peak \in Nat /\ peak >= 1
    /\ Cardinality(Acquiring) <= peak
    /\ 1 - peak <= tokens - Cardinality(InPc("take"))
    /\ tokens + Cardinality(InPc("add")) <= Burst - 1 + peak

(* The threads are finitely many.                                          *)
LEMMA ThreadsFinite == IsFiniteSet(Threads) /\ Cardinality(Threads) \in Nat
<1>1. IsFiniteSet(Callers \X {First})
    BY FS_Product, FS_Singleton, ClientAssumption
<1>2. IsFiniteSet(PageThreads)
  <2>1. IsFiniteSet(1..MaxCalls)
      BY FS_Interval, ClientAssumption
  <2> QED BY <2>1, FS_Product, ClientAssumption DEF PageThreads
<1>3. IsFiniteSet(Threads)
    BY <1>1, <1>2, FS_Union DEF Threads
<1> QED BY <1>3, FS_CardinalityType

(* A step of the loop stays in it, or ends the call.                       *)
LEMMA DoJSONMoves ==
    ASSUME NEW t \in Threads, ThreadsTyped, DoJSON(t)
    PROVE  /\ InList
           /\ thread[t].pc \in Chosen \cup {"next"}
           /\ \E pc \in Chosen \cup {"next", "done"} :
                \A u \in Threads : thread'[u].pc = IF u = t THEN pc ELSE thread[u].pc
<1> USE DEF At, Goto, InList, Chosen, ThreadsTyped
<1>1. CASE Skip(t)
    BY <1>1 DEF Skip
<1>2. CASE Choose(t)
    BY <1>2 DEF Choose, Enter
<1>3. CASE GiveUp(t)
    BY <1>3 DEF GiveUp
<1>4. CASE RefillChecks(t) \/ RefillAdds(t)
    BY <1>4 DEF RefillChecks, RefillAdds
<1>5. CASE AcquireLooks(t) \/ AcquireTakes(t)
    BY <1>5 DEF AcquireLooks, AcquireTakes
<1>6. CASE Answered(t) \/ Refused(t) \/ Failed(t)
    BY <1>6 DEF Answered, Refused, Failed, Asked
<1> QED BY <1>1, <1>2, <1>3, <1>4, <1>5, <1>6 DEF DoJSON

(* Every set of threads can be counted.                                    *)
LEMMA InPcCounted ==
    /\ \A pc : IsFiniteSet(InPc(pc)) /\ Cardinality(InPc(pc)) \in Nat
    /\ IsFiniteSet(Acquiring) /\ Cardinality(Acquiring) \in Nat
BY ThreadsFinite, FS_Subset, FS_CardinalityType DEF InPc, Acquiring

(* Those about to take or to add are in acquire.                           *)
LEMMA TheyAcquire ==
    /\ Cardinality(InPc("take")) <= Cardinality(Acquiring)
    /\ Cardinality(InPc("add")) <= Cardinality(Acquiring)
<1>1. InPc("take") \subseteq Acquiring /\ InPc("add") \subseteq Acquiring
    BY DEF InPc, Acquiring
<1> QED BY <1>1, InPcCounted, FS_Subset

(* When nobody comes to acquire, or sees a token or room anew, and the     *)
(* bucket is as it was, its bounds are too.                                *)
LEMMA BucketLeftAlone ==
    ASSUME BucketCounts, tokens' = tokens, peak' = peak, Acquiring' \subseteq Acquiring,
           InPc("take")' \subseteq InPc("take"), InPc("add")' \subseteq InPc("add")
    PROVE  BucketCounts'
<1>1. /\ Cardinality(InPc("take")') <= Cardinality(InPc("take"))
      /\ Cardinality(InPc("add")') <= Cardinality(InPc("add"))
      /\ Cardinality(InPc("take")') \in Nat /\ Cardinality(InPc("add")') \in Nat
      /\ Cardinality(InPc("take")) \in Nat /\ Cardinality(InPc("add")) \in Nat
    BY InPcCounted, FS_Subset, FS_CardinalityType
<1>2. /\ Cardinality(Acquiring') <= Cardinality(Acquiring)
      /\ Cardinality(Acquiring') \in Nat /\ Cardinality(Acquiring) \in Nat
    BY InPcCounted, FS_Subset, FS_CardinalityType
<1> QED BY <1>1, <1>2, ClientAssumption DEF BucketCounts

(* Only Choose brings a goroutine to acquire, and then peak knows it.      *)
LEMMA DoJSONPeaks ==
    ASSUME NEW t \in Threads, IInv, BucketCounts, DoJSON(t)
    PROVE  /\ peak' \in Nat /\ peak' >= peak
           /\ Cardinality(Acquiring') \in Nat /\ Cardinality(Acquiring') <= peak'
           /\ ~Choose(t) => peak' = peak /\ Acquiring' \subseteq Acquiring
<1> USE DEF At, Goto
<1>1. CASE Choose(t)
  <2>1. Acquiring' \subseteq Threads
      BY DEF Acquiring
  <2>2. Cardinality(Acquiring') \in Nat
      BY <2>1, ThreadsFinite, FS_Subset, FS_CardinalityType
  <2>3. peak' = IF Cardinality(Acquiring') > peak THEN Cardinality(Acquiring') ELSE peak
      BY <1>1 DEF Choose, Enter
  <2> QED BY <1>1, <2>2, <2>3 DEF BucketCounts
<1>2. CASE ~Choose(t)
  <2>1. peak' = peak
      BY <1>2 DEF DoJSON, Skip, GiveUp, RefillChecks, RefillAdds, AcquireLooks, AcquireTakes,
                  Answered, Refused, Failed, bucket
  <2>2. Acquiring' \subseteq Acquiring
    <3>1. CASE Skip(t) \/ GiveUp(t)
        BY <3>1 DEF Skip, GiveUp, Acquiring, IInv, ThreadsTyped
    <3>2. CASE RefillChecks(t) \/ RefillAdds(t) \/ AcquireLooks(t) \/ AcquireTakes(t)
        BY <3>2 DEF RefillChecks, RefillAdds, AcquireLooks, AcquireTakes, Acquiring, IInv,
                    ThreadsTyped
    <3>3. CASE Answered(t) \/ Refused(t) \/ Failed(t)
        BY <3>3 DEF Answered, Refused, Failed, Asked, Acquiring, IInv, ThreadsTyped
    <3> QED BY <1>2, <3>1, <3>2, <3>3 DEF DoJSON
  <2>3. Cardinality(Acquiring') <= Cardinality(Acquiring) /\ Cardinality(Acquiring') \in Nat
      BY <2>2, InPcCounted, FS_Subset, FS_CardinalityType
  <2> QED BY <1>2, <2>1, <2>2, <2>3, InPcCounted DEF BucketCounts
<1> QED BY <1>1, <1>2

(* The loop's steps on the bucket: the look, the token that goes, the look *)
(* for room, and the token that comes.                                     *)
LEMMA DoJSONCounts ==
    ASSUME NEW t \in Threads, IInv, BucketCounts, DoJSON(t)
    PROVE  BucketCounts'
<1> USE DEF At, Goto
<1>a. /\ peak' \in Nat /\ peak' >= peak
      /\ Cardinality(Acquiring') \in Nat /\ Cardinality(Acquiring') <= peak'
      /\ ~Choose(t) => peak' = peak /\ Acquiring' \subseteq Acquiring
    BY DoJSONPeaks
<1>b. /\ IsFiniteSet(InPc("take")') /\ IsFiniteSet(InPc("add")') /\ IsFiniteSet(Acquiring')
      /\ InPc("take")' \subseteq Acquiring' /\ InPc("add")' \subseteq Acquiring'
  <2>1. /\ InPc("take")' \subseteq Threads /\ InPc("add")' \subseteq Threads
        /\ Acquiring' \subseteq Threads
      BY DEF InPc, Acquiring
  <2> QED BY <2>1, ThreadsFinite, FS_Subset DEF InPc, Acquiring
<1>c. /\ Cardinality(InPc("take")') \in Nat /\ Cardinality(InPc("take")') <= peak'
      /\ Cardinality(InPc("add")') \in Nat /\ Cardinality(InPc("add")') <= peak'
  <2>1. /\ Cardinality(InPc("take")') <= Cardinality(Acquiring')
        /\ Cardinality(InPc("add")') <= Cardinality(Acquiring')
        /\ Cardinality(InPc("take")') \in Nat /\ Cardinality(InPc("add")') \in Nat
      BY <1>b, FS_Subset, FS_CardinalityType
  <2> QED BY <1>a, <2>1
<1>d. /\ Cardinality(InPc("take")) \in Nat /\ IsFiniteSet(InPc("take"))
      /\ Cardinality(InPc("add")) \in Nat /\ IsFiniteSet(InPc("add"))
    BY InPcCounted
<1>e. ASSUME ~Choose(t) PROVE peak' = peak /\ peak' \in Nat /\ Cardinality(Acquiring') <= peak'
    BY <1>a, <1>e
<1>1. CASE RefillChecks(t) /\ due /\ tokens < Burst
  <2>1. /\ InPc("take")' = InPc("take") /\ tokens' = tokens
        /\ peak' = peak /\ peak' \in Nat /\ Cardinality(Acquiring') <= peak'
    <3>1. InPc("take")' = InPc("take") /\ tokens' = tokens /\ peak' = peak
        BY <1>1 DEF RefillChecks, InPc, IInv, ThreadsTyped
    <3> QED BY <3>1, <1>a
  <2>2. tokens + peak <= Burst - 1 + peak
      BY <1>1, ClientAssumption DEF BucketCounts
  <2> QED BY <2>1, <2>2, <1>c, <1>d, ClientAssumption DEF BucketCounts
<1>2. CASE RefillChecks(t) /\ ~(due /\ tokens < Burst)
  <2>1. InPc("take")' \subseteq InPc("take") /\ InPc("add")' \subseteq InPc("add")
      BY <1>2 DEF RefillChecks, InPc, IInv, ThreadsTyped
  <2>2. tokens' = tokens /\ peak' = peak
      BY <1>2 DEF RefillChecks
  <2>3. Acquiring' \subseteq Acquiring
      BY <1>2 DEF RefillChecks, Acquiring, IInv, ThreadsTyped
  <2> QED BY <2>1, <2>2, <2>3, BucketLeftAlone
<1>3. CASE RefillAdds(t)
  <2>1. InPc("take")' = InPc("take") /\ InPc("add")' = InPc("add") \ {t} /\ t \in InPc("add")
      BY <1>3 DEF RefillAdds, InPc, IInv, ThreadsTyped
  <2>2. Cardinality(InPc("add")') = Cardinality(InPc("add")) - 1
      BY <1>d, <2>1, FS_RemoveElement
  <2>3. tokens' = tokens + 1 /\ peak' = peak
      BY <1>3 DEF RefillAdds
  <2> QED BY <2>1, <2>2, <2>3, <1>a, <1>d, ClientAssumption DEF BucketCounts
<1>4. CASE AcquireLooks(t) /\ tokens > 0
  <2>1. InPc("add")' = InPc("add") /\ tokens' = tokens /\ peak' = peak
      BY <1>4 DEF AcquireLooks, InPc, IInv, ThreadsTyped, bucket
  <2> QED BY <2>1, <1>4, <1>a, <1>c, <1>d, ClientAssumption DEF BucketCounts
<1>5. CASE AcquireLooks(t) /\ ~(tokens > 0)
  <2>1. InPc("take")' \subseteq InPc("take") /\ InPc("add")' \subseteq InPc("add")
      BY <1>5 DEF AcquireLooks, InPc, IInv, ThreadsTyped
  <2>2. tokens' = tokens /\ peak' = peak
      BY <1>5 DEF AcquireLooks, bucket
  <2>3. Acquiring' \subseteq Acquiring
      BY <1>5 DEF AcquireLooks, Acquiring, IInv, ThreadsTyped
  <2> QED BY <2>1, <2>2, <2>3, BucketLeftAlone
<1>6. CASE AcquireTakes(t)
  <2>1. InPc("add")' = InPc("add") /\ InPc("take")' = InPc("take") \ {t} /\ t \in InPc("take")
      BY <1>6 DEF AcquireTakes, InPc, IInv, ThreadsTyped
  <2>2. Cardinality(InPc("take")') = Cardinality(InPc("take")) - 1
      BY <1>d, <2>1, FS_RemoveElement
  <2>3. tokens' = tokens - 1 /\ peak' = peak
      BY <1>6 DEF AcquireTakes
  <2> QED BY <2>1, <2>2, <2>3, <1>a, <1>d, ClientAssumption DEF BucketCounts
<1>7. CASE Choose(t)
  <2>1. InPc("take")' = InPc("take") /\ InPc("add")' = InPc("add") /\ tokens' = tokens
      BY <1>7 DEF Choose, Enter, InPc, IInv, ThreadsTyped
  <2> QED BY <2>1, <1>a, <1>d, ClientAssumption DEF BucketCounts
<1>8. CASE Skip(t) \/ GiveUp(t)
  <2>1. /\ InPc("take")' \subseteq InPc("take") /\ InPc("add")' \subseteq InPc("add")
        /\ Acquiring' \subseteq Acquiring
      BY <1>8 DEF Skip, GiveUp, InPc, Acquiring, IInv, ThreadsTyped
  <2>2. tokens' = tokens /\ peak' = peak
      BY <1>8 DEF Skip, GiveUp, bucket
  <2> QED BY <2>1, <2>2, BucketLeftAlone
<1>9. CASE Answered(t) \/ Refused(t) \/ Failed(t)
  <2>1. /\ InPc("take")' \subseteq InPc("take") /\ InPc("add")' \subseteq InPc("add")
        /\ Acquiring' \subseteq Acquiring
      BY <1>9 DEF Answered, Refused, Failed, Asked, InPc, Acquiring, IInv, ThreadsTyped
  <2>2. tokens' = tokens /\ peak' = peak
      BY <1>9 DEF Answered, Refused, Failed, bucket
  <2> QED BY <2>1, <2>2, BucketLeftAlone
<1> QED BY <1>1, <1>2, <1>3, <1>4, <1>5, <1>6, <1>7, <1>8, <1>9 DEF DoJSON

(* The other steps touch no token and bring nobody to acquire.             *)
LEMMA OthersCount ==
    ASSUME IInv, BucketCounts, [Next]_vars, ~\E t \in Threads : DoJSON(t)
    PROVE  BucketCounts'
<1>1. CASE \/ \E g \in Callers : Call(g) \/ Return(g)
           \/ \E g \in Listers : CallList(g) \/ Lists(g)
           \/ \E t \in PageThreads : Discard(t)
  <2>1. Settles
      BY <1>1, CallsSettle
  <2>2. NoCall.pc = "none" /\ Begun.pc = "next"
    <3>1. NoCall.pc = "none"
        BY DEF NoCall
    <3> QED BY <3>1 DEF Begun, NoCall
  <2>3. InPc("take")' \subseteq InPc("take") /\ InPc("add")' \subseteq InPc("add")
      BY <2>1, <2>2, ZenonT(40) DEF Settles, InPc, IInv, ThreadsTyped
  <2>4. Acquiring' \subseteq Acquiring
      BY <2>1, <2>2 DEF Settles, Acquiring, IInv, ThreadsTyped
  <2>5. tokens' = tokens /\ peak' = peak
      BY <1>1 DEF Call, Return, Lists, ListFails, ReturnList, FirstPage, Collect, Discard,
                  CallList, bucket
  <2> QED BY <2>3, <2>4, <2>5, BucketLeftAlone
<1>2. CASE TokenDue \/ (\E ep \in Endpoints : CoolDown(ep)) \/ UNCHANGED vars
    BY <1>2, BucketLeftAlone DEF TokenDue, CoolDown, vars, bucket, InPc, Acquiring
<1> QED BY <1>1, <1>2 DEF Next

(* The bucket with what is about to go or to come keeps its bounds.        *)
THEOREM BucketCounted == Spec => []BucketCounts
<1>1. Init => BucketCounts
  <2> SUFFICES ASSUME Init PROVE BucketCounts
      OBVIOUS
  <2>1. NoCall.pc = "none"
      BY DEF NoCall
  <2>2. InPc("take") = {} /\ InPc("add") = {} /\ Acquiring = {}
      BY <2>1 DEF Init, InPc, Acquiring
  <2>3. /\ Cardinality(InPc("take")) = 0 /\ Cardinality(InPc("add")) = 0
        /\ Cardinality(Acquiring) = 0
      BY <2>2, FS_EmptySet
  <2> QED BY <2>3, ClientAssumption DEF Init, BucketCounts
<1>2. IInv /\ BucketCounts /\ [Next]_vars => BucketCounts'
    BY DoJSONCounts, OthersCount
<1> QED BY <1>1, <1>2, Invariant, PTL DEF Spec

(* acquire and refill: however the goroutines interleave, those of failed  *)
(* lists included, the bucket is overdrawn or overfull by less than the    *)
(* most of them that were ever in acquire together.                        *)
THEOREM BucketHolds == Spec => []BucketIsBounded
<1>1. BucketCounts => BucketIsBounded
  <2> SUFFICES ASSUME BucketCounts PROVE BucketIsBounded
      OBVIOUS
  <2>1. Cardinality(InPc("take")) \in Nat /\ Cardinality(InPc("add")) \in Nat
      BY InPcCounted
  <2> QED BY <2>1, ClientAssumption DEF BucketCounts, BucketIsBounded
<1> QED BY <1>1, BucketCounted, PTL

----------------------------------------------------------------------------
(***************************************************************************)
(* The types.  What a type says here that is not plain: the failures of an *)
(* endpoint are bounded, since an open breaker lets nobody in and those    *)
(* already past it are so many threads.                                    *)
(***************************************************************************)
PastTheBreaker(ep) == {t \in Threads : thread[t].pc \in Chosen /\ thread[t].i = ep}

FailuresAreLate ==
    \A ep \in Endpoints : opened[ep] # "no" =>
        failures[ep] + Cardinality(PastTheBreaker(ep)) <= Threshold + Cardinality(Threads) - 1

CallsTyped ==
    /\ list \in [Listers -> 0..MaxCalls]
    /\ due \in BOOLEAN /\ calls \in 0..MaxCalls

(* Those past the breaker can be counted.                                  *)
LEMMA PastCounted ==
    \A ep : /\ IsFiniteSet(PastTheBreaker(ep)) /\ Cardinality(PastTheBreaker(ep)) \in Nat
            /\ Cardinality(PastTheBreaker(ep)) <= Cardinality(Threads)
BY ThreadsFinite, FS_Subset, FS_CardinalityType DEF PastTheBreaker

(* An endpoint that nobody new gets past, and whose breaker and failures   *)
(* are as they were, keeps its bound.                                      *)
LEMMA LateFailuresLeftAlone ==
    ASSUME NEW ep \in Endpoints, IInv, FailuresAreLate,
           opened'[ep] # "no" => opened[ep] # "no",
           failures'[ep] = failures[ep],
           PastTheBreaker(ep)' \subseteq PastTheBreaker(ep)
    PROVE  opened'[ep] # "no" =>
             failures'[ep] + Cardinality(PastTheBreaker(ep)') <= Threshold + Cardinality(Threads) - 1
<1>1. /\ Cardinality(PastTheBreaker(ep)') <= Cardinality(PastTheBreaker(ep))
      /\ Cardinality(PastTheBreaker(ep)') \in Nat /\ Cardinality(PastTheBreaker(ep)) \in Nat
    BY PastCounted, FS_Subset, FS_CardinalityType
<1>2. failures[ep] \in Nat
    BY DEF IInv, BreakerTyped
<1> QED BY <1>1, <1>2, ThreadsFinite, ClientAssumption DEF FailuresAreLate

(* noteFailure and isOpen keep the bound of the failures.                  *)
LEMMA DoJSONLate ==
    ASSUME NEW t \in Threads, IInv, FailuresAreLate, DoJSON(t)
    PROVE  FailuresAreLate'
<1> SUFFICES ASSUME NEW ep \in Endpoints
             PROVE  opened'[ep] # "no" =>
                      failures'[ep] + Cardinality(PastTheBreaker(ep)')
                          <= Threshold + Cardinality(Threads) - 1
    BY DEF FailuresAreLate
<1> USE DEF At, Goto
<1>1. CASE Skip(t) \/ GiveUp(t) \/ RefillChecks(t) \/ RefillAdds(t) \/ AcquireLooks(t)
           \/ AcquireTakes(t) \/ Answered(t) \/ Refused(t)
  <2>1. UNCHANGED breaker
      BY <1>1 DEF Skip, GiveUp, RefillChecks, RefillAdds, AcquireLooks, AcquireTakes,
                  Answered, Refused
  <2>2. PastTheBreaker(ep)' \subseteq PastTheBreaker(ep)
    <3>1. CASE Skip(t) \/ GiveUp(t)
        BY <3>1 DEF Skip, GiveUp, PastTheBreaker, Chosen, IInv, ThreadsTyped
    <3>2. CASE RefillChecks(t) \/ RefillAdds(t) \/ AcquireLooks(t) \/ AcquireTakes(t)
      <4>1. PICK pc \in Chosen : thread' = [thread EXCEPT ![t].pc = pc]
          BY <3>2 DEF RefillChecks, RefillAdds, AcquireLooks, AcquireTakes, Chosen
      <4>2. thread[t].pc \in Chosen
          BY <3>2 DEF RefillChecks, RefillAdds, AcquireLooks, AcquireTakes, Chosen
      <4> QED BY <4>1, <4>2 DEF PastTheBreaker, IInv, ThreadsTyped
    <3>3. CASE Answered(t) \/ Refused(t)
        BY <3>3 DEF Answered, Refused, Asked, PastTheBreaker, Chosen, IInv, ThreadsTyped
    <3> QED BY <1>1, <3>1, <3>2, <3>3
  <2> QED BY <2>1, <2>2, LateFailuresLeftAlone DEF breaker
<1>2. CASE Choose(t)
  <2>1. CASE thread[t].i = ep
    <3>1. opened'[ep] = "no"
        BY <1>2, <2>1 DEF Choose, Enter, breaker, IInv, BreakerTyped
    <3> QED BY <3>1
  <2>2. CASE thread[t].i # ep
    <3>1. PastTheBreaker(ep)' \subseteq PastTheBreaker(ep)
        BY <1>2, <2>2 DEF Choose, Enter, PastTheBreaker, Chosen, IInv, ThreadsTyped
    <3>2. opened'[ep] = opened[ep] /\ failures'[ep] = failures[ep]
        BY <1>2, <2>2 DEF Choose, Enter, breaker, IInv, BreakerTyped
    <3> QED BY <3>1, <3>2, LateFailuresLeftAlone
  <2> QED BY <2>1, <2>2
<1>3. CASE Failed(t)
  <2>1. thread[t].pc = "sent" /\ thread' = Asked(t, FALSE)
      BY <1>3 DEF Failed
  <2>2. PastTheBreaker(ep)' \subseteq PastTheBreaker(ep) \ {t}
      BY <2>1 DEF Asked, PastTheBreaker, Chosen, IInv, ThreadsTyped
  <2>3. CASE thread[t].i # ep
    <3>1. opened'[ep] = opened[ep] /\ failures'[ep] = failures[ep]
        BY <1>3, <2>3 DEF Failed, IInv, BreakerTyped
    <3> QED BY <2>2, <3>1, LateFailuresLeftAlone
  <2>4. CASE thread[t].i = ep
    <3>1. t \in PastTheBreaker(ep)
        BY <2>1, <2>4 DEF PastTheBreaker, Chosen
    <3>2. Cardinality(PastTheBreaker(ep) \ {t}) = Cardinality(PastTheBreaker(ep)) - 1
        BY <3>1, PastCounted, FS_RemoveElement
    <3>3. Cardinality(PastTheBreaker(ep)') <= Cardinality(PastTheBreaker(ep) \ {t})
        BY <2>2, PastCounted, FS_Subset, FS_RemoveElement
    <3>4. /\ Cardinality(PastTheBreaker(ep)') \in Nat
          /\ Cardinality(PastTheBreaker(ep)') <= Cardinality(PastTheBreaker(ep)) - 1
          /\ Cardinality(PastTheBreaker(ep)) \in Nat
          /\ Cardinality(PastTheBreaker(ep)) <= Cardinality(Threads)
      <4>1. IsFiniteSet(PastTheBreaker(ep)')
          BY <2>2, PastCounted, FS_Subset, FS_RemoveElement
      <4> QED BY <3>2, <3>3, <4>1, PastCounted, FS_CardinalityType
    <3>5. failures'[ep] = failures[ep] + 1 /\ failures[ep] \in Nat
        BY <1>3, <2>4 DEF Failed, IInv, BreakerTyped
    <3>6. CASE opened[ep] # "no"
      <4>1. failures[ep] + Cardinality(PastTheBreaker(ep)) <= Threshold + Cardinality(Threads) - 1
          BY <3>6 DEF FailuresAreLate
      <4> QED BY <3>4, <3>5, <4>1, ThreadsFinite, ClientAssumption
    <3>7. CASE opened[ep] = "no"
      <4>1. failures[ep] < Threshold
          BY <3>7 DEF IInv, BreakerFollowsFailures
      <4> QED BY <3>4, <3>5, <4>1, ThreadsFinite, ClientAssumption
    <3> QED BY <3>6, <3>7
  <2> QED BY <2>3, <2>4
<1> QED BY <1>1, <1>2, <1>3 DEF DoJSON

(* The calls get nobody past a breaker, and a cooldown that is over lets   *)
(* nobody in by itself.                                                    *)
LEMMA OthersLate ==
    ASSUME IInv, FailuresAreLate, [Next]_vars, ~\E t \in Threads : DoJSON(t)
    PROVE  FailuresAreLate'
<1> SUFFICES ASSUME NEW ep \in Endpoints
             PROVE  opened'[ep] # "no" =>
                      failures'[ep] + Cardinality(PastTheBreaker(ep)')
                          <= Threshold + Cardinality(Threads) - 1
    BY DEF FailuresAreLate
<1>1. CASE \/ \E g \in Callers : Call(g) \/ Return(g)
           \/ \E g \in Listers : CallList(g) \/ Lists(g)
           \/ \E t \in PageThreads : Discard(t)
  <2>1. Settles /\ UNCHANGED breaker
      BY <1>1, CallsSettle
  <2>2. \A t \in Threads : thread'[t].pc \in Chosen => thread'[t] = thread[t]
    <3> SUFFICES ASSUME NEW t \in Threads, thread'[t].pc \in Chosen
                 PROVE  thread'[t] = thread[t]
        OBVIOUS
    <3>1. [thread[t] EXCEPT !.pc = "collect"].pc = "collect"
        BY DEF IInv, ThreadsTyped
    <3> QED BY <2>1, <3>1, NoCallIsTyped DEF Settles, Chosen
  <2>3. PastTheBreaker(ep)' \subseteq PastTheBreaker(ep)
      BY <2>2 DEF PastTheBreaker
  <2> QED BY <2>1, <2>3, LateFailuresLeftAlone DEF breaker
<1>2. CASE TokenDue \/ UNCHANGED vars
  <2>1. UNCHANGED breaker /\ PastTheBreaker(ep)' \subseteq PastTheBreaker(ep)
      BY <1>2 DEF TokenDue, vars, PastTheBreaker, breaker
  <2> QED BY <2>1, LateFailuresLeftAlone DEF breaker
<1>3. CASE \E e \in Endpoints : CoolDown(e)
  <2>1. PastTheBreaker(ep)' \subseteq PastTheBreaker(ep) /\ failures'[ep] = failures[ep]
      BY <1>3 DEF CoolDown, PastTheBreaker
  <2>2. opened'[ep] # "no" => opened[ep] # "no"
      BY <1>3 DEF CoolDown, IInv, BreakerTyped
  <2> QED BY <2>1, <2>2, LateFailuresLeftAlone
<1> QED BY <1>1, <1>2, <1>3 DEF Next

(* What keeps its type without more ado.                                   *)
LEMMA CallsStayTyped ==
    ASSUME IInv, CallsTyped, [Next]_vars
    PROVE  CallsTyped'
<1> USE DEF CallsTyped
<1>0. ASSUME NEW t \in Threads, DoJSON(t) PROVE calls' = calls /\ list' = list
    BY <1>0, DoJSONMoves DEF IInv, InList
<1>1. due' \in BOOLEAN
    BY DEF Next, DoJSON, Skip, Choose, GiveUp, RefillChecks, RefillAdds, AcquireLooks,
           AcquireTakes, Answered, Refused, Failed, Call, Return, Lists, ListFails, ReturnList,
           FirstPage, Collect, Discard, CallList, TokenDue, CoolDown, vars, bucket
<1>2. calls' \in 0..MaxCalls
  <2>1. calls' = calls \/ (calls < MaxCalls /\ calls' = calls + 1)
      BY <1>0 DEF Next, Lists, ListFails, ReturnList, FirstPage, Collect, Discard, CallList,
                  Call, Return, InList, TokenDue, CoolDown, vars
  <2> QED BY <2>1, ClientAssumption
<1>3. list' \in [Listers -> 0..MaxCalls]
  <2>1. CASE \E g \in Listers : CallList(g)
      BY <2>1, ClientAssumption DEF CallList
  <2>2. CASE \E g \in Listers : ListFails(g) \/ ReturnList(g)
      BY <2>2, ClientAssumption DEF ListFails, ReturnList
  <2>3. CASE ~\E g \in Listers : CallList(g) \/ ListFails(g) \/ ReturnList(g)
    <3>1. list' = list
        BY <1>0, <2>3 DEF Next, Lists, FirstPage, Collect, Discard, Call, Return, InList,
                          TokenDue, CoolDown, vars
    <3> QED BY <3>1
  <2> QED BY <2>1, <2>2, <2>3
<1> QED BY <1>1, <1>2, <1>3

(* The invariant that gives every variable its type.                       *)
TInv == FailuresAreLate /\ CallsTyped

THEOREM TypesHold == Spec => []TInv
<1>1. Init => TInv
  <2> SUFFICES ASSUME Init PROVE TInv
      OBVIOUS
  <2>1. FailuresAreLate
      BY DEF Init, FailuresAreLate
  <2>2. CallsTyped
    <3>1. 0 \in 0..MaxCalls
        BY ClientAssumption
    <3> QED BY <3>1 DEF Init, CallsTyped
  <2> QED BY <2>1, <2>2 DEF TInv
<1>2. IInv /\ TInv /\ [Next]_vars => TInv'
    BY DoJSONLate, OthersLate, CallsStayTyped DEF TInv
<1> QED BY <1>1, <1>2, Invariant, PTL DEF Spec

(* The client's state has its type for any number of callers and pages:    *)
(* the failures of an endpoint go past the threshold by less than there    *)
(* are goroutines, whatever comes in late.                                 *)
THEOREM TypeCorrect == Spec => []TypeOK
<1>1. IInv /\ TInv /\ BucketCounts => TypeOK
  <2> SUFFICES ASSUME IInv, TInv, BucketCounts PROVE TypeOK
      OBVIOUS
  <2>1. \A ep \in Endpoints : failures[ep] \in 0..(Threshold + Cardinality(Threads))
    <3> SUFFICES ASSUME NEW ep \in Endpoints
                 PROVE  failures[ep] \in 0..(Threshold + Cardinality(Threads))
        OBVIOUS
    <3>1. failures[ep] \in Nat /\ Cardinality(PastTheBreaker(ep)) \in Nat
        BY PastCounted DEF IInv, BreakerTyped
    <3>2. CASE opened[ep] = "no"
      <4>1. failures[ep] < Threshold
          BY <3>2 DEF IInv, BreakerFollowsFailures
      <4> QED BY <3>1, <4>1, ThreadsFinite, ClientAssumption
    <3>3. CASE opened[ep] # "no"
      <4>1. failures[ep] + Cardinality(PastTheBreaker(ep)) <= Threshold + Cardinality(Threads) - 1
          BY <3>3 DEF TInv, FailuresAreLate
      <4> QED BY <3>1, <4>1, ThreadsFinite, ClientAssumption
    <3> QED BY <3>2, <3>3
  <2>2. failures \in [Endpoints -> 0..(Threshold + Cardinality(Threads))]
      BY <2>1 DEF IInv, BreakerTyped
  <2> QED BY <2>2 DEF IInv, TInv, BucketCounts, BreakerTyped, ThreadsTyped, CallsTyped, TypeOK, Pcs
<1> QED BY <1>1, Invariant, TypesHold, BucketCounted, PTL
=============================================================================
