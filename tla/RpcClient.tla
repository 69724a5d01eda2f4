----------------------------- MODULE RpcClient -----------------------------
(***************************************************************************)
(* The client of one chain's nodes, shared by the goroutines that index    *)
(* it: a bucket of tokens that bounds the rate, a breaker per endpoint,    *)
(* the endpoints in turn until one answers, and lists whose pages are      *)
(* fetched by a goroutine each.                                            *)
(*                                                                         *)
(* A thread is one call of doJSON (doProtobuf is the same): that of a      *)
(* caller, or that of one further page of a list, which runs on when its   *)
(* list has failed and the caller may be at the next one.  Time is two     *)
(* facts: a token is due, and an endpoint's cooldown is over.              *)
(***************************************************************************)
EXTENDS Integers, FiniteSets

CONSTANTS
    Callers,    \* goroutines that call the client
    Listers,    \* those of them that ask for paged lists, the others do not
    Pages,      \* the pages of a list after the first
    N,          \* number of endpoints
    Burst,      \* tokens of a full bucket
    Threshold,  \* failures that open the breaker
    MaxCalls    \* bound on the calls

First == 1

ASSUME ClientAssumption ==
    /\ Callers # {} /\ IsFiniteSet(Callers) /\ Listers \subseteq Callers
    /\ IsFiniteSet(Pages) /\ First \notin Pages /\ MaxCalls \in Nat
    /\ N \in Nat \ {0} /\ Burst \in Nat \ {0} /\ Threshold \in Nat \ {0}

VARIABLES
    tokens,    \* the bucket, an atomic counter
    due,       \* refillEvery has passed since the last refill
    peak,      \* history: the most goroutines in acquire at once, at least 1
    failures,  \* per endpoint
    opened,    \* per endpoint: no entry, in its cooldown, or past it
    thread,    \* per thread: its call of doJSON
    list,      \* per lister: the call of its list, 0 if it wants none
    calls      \* calls begun so far

bucket == <<tokens, due, peak>>
breaker == <<failures, opened>>
vars == <<bucket, breaker, thread, list, calls>>

Endpoints == 1..N
\* The pages of the n-th call, if that is one of a list.
PageThreads == (1..MaxCalls) \X Pages
Threads == (Callers \X {First}) \cup PageThreads

NoCall == [pc |-> "none", i |-> 1, err |-> FALSE, asked |-> FALSE, answered |-> FALSE]
Begun == [NoCall EXCEPT !.pc = "next"]

Init ==
    /\ tokens = Burst
    /\ due = FALSE
    /\ peak = 1
    /\ failures = [ep \in Endpoints |-> 0]
    /\ opened = [ep \in Endpoints |-> "no"]
    /\ thread = [t \in Threads |-> NoCall]
    /\ list = [g \in Listers |-> 0]
    /\ calls = 0

Acquiring == {t \in Threads : thread[t].pc \in {"refill", "add", "look", "take"}}

At(t, pc) == thread[t].pc = pc
Goto(t, pc) == thread' = [thread EXCEPT ![t].pc = pc]
InList == UNCHANGED <<list, calls>>

----------------------------------------------------------------------------
(* The loop of doJSON.                                                     *)

(* isOpen: an endpoint in its cooldown is passed over; one that is past it *)
(* starts with no failures.  Then the goroutine enters acquire.            *)
Skip(t) ==
    /\ At(t, "next")
    /\ thread[t].i <= N
    /\ opened[thread[t].i] = "open"
    /\ thread' = [thread EXCEPT ![t].i = @ + 1]
    /\ InList /\ UNCHANGED <<bucket, breaker>>

Enter(t) ==
    /\ Goto(t, "refill")
    /\ peak' = IF Cardinality(Acquiring') > peak THEN Cardinality(Acquiring') ELSE peak

\* Mutant: isOpen forgets the entry and keeps the failures.
ChooseKeepsFailures(t) ==
    /\ At(t, "next")
    /\ thread[t].i <= N
    /\ opened[thread[t].i] # "open"
    /\ opened' = [opened EXCEPT ![thread[t].i] = "no"]
    /\ Enter(t)
    /\ InList /\ UNCHANGED <<tokens, due, failures>>

Choose(t) ==
    /\ At(t, "next")
    /\ thread[t].i <= N
    /\ \/ opened[thread[t].i] = "no" /\ UNCHANGED breaker
       \/ /\ opened[thread[t].i] = "over"
          /\ opened' = [opened EXCEPT ![thread[t].i] = "no"]
          /\ failures' = [failures EXCEPT ![thread[t].i] = 0]
    /\ Enter(t)
    /\ InList /\ UNCHANGED <<tokens, due>>

(* Once the endpoints are through the last error is returned, and it is    *)
(* nil if there was none.                                                  *)
\* Mutant: the endpoints are tried over and over.
GiveUpNever(t) ==
    /\ At(t, "next")
    /\ thread[t].i > N
    /\ thread' = [thread EXCEPT ![t].i = 1]
    /\ InList /\ UNCHANGED <<bucket, breaker>>

GiveUp(t) ==
    /\ At(t, "next")
    /\ thread[t].i > N
    /\ Goto(t, "done")
    /\ InList /\ UNCHANGED <<bucket, breaker>>

(* acquire: refill looks whether a token is due and there is room for it,  *)
(* and then adds it ...                                                    *)
\* Mutant: a token is added to a full bucket too.
RefillChecksNothing(t) ==
    /\ At(t, "refill")
    /\ Goto(t, IF due THEN "add" ELSE "look")
    /\ InList /\ UNCHANGED <<bucket, breaker>>

RefillChecks(t) ==
    /\ At(t, "refill")
    /\ IF due /\ tokens < Burst THEN Goto(t, "add") /\ due' = due
       ELSE Goto(t, "look") /\ due' = FALSE
    /\ InList /\ UNCHANGED <<tokens, peak, breaker>>

RefillAdds(t) ==
    /\ At(t, "add")
    /\ tokens' = tokens + 1
    /\ due' = FALSE
    /\ Goto(t, "look")
    /\ InList /\ UNCHANGED <<peak, breaker>>

(* ... and then a token is looked for, and taken in a step of its own.     *)
AcquireLooks(t) ==
    /\ At(t, "look")
    /\ Goto(t, IF tokens > 0 THEN "take" ELSE "refill")
    /\ InList /\ UNCHANGED <<bucket, breaker>>

AcquireTakes(t) ==
    /\ At(t, "take")
    /\ tokens' = tokens - 1
    /\ Goto(t, "sent")
    /\ InList /\ UNCHANGED <<due, peak, breaker>>

\* Mutant: the loop counts an endpoint that failed twice.
AskedSkips(t, answered) ==
    IF answered
    THEN [thread EXCEPT ![t].pc = "done", ![t].asked = TRUE, ![t].answered = TRUE]
    ELSE [thread EXCEPT ![t].pc = "next", ![t].asked = TRUE, ![t].err = TRUE,
                        ![t].i = @ + 2]

Asked(t, answered) ==
    IF answered
    THEN [thread EXCEPT ![t].pc = "done", ![t].asked = TRUE, ![t].answered = TRUE]
    ELSE [thread EXCEPT ![t].pc = "next", ![t].asked = TRUE, ![t].err = TRUE,
                        ![t].i = @ + 1]

Answered(t) ==
    /\ At(t, "sent")
    /\ thread' = Asked(t, TRUE)
    /\ InList /\ UNCHANGED <<bucket, breaker>>

\* Mutant: a refusal leaves lastErr as it was.
RefusedSilently(t) ==
    /\ At(t, "sent")
    /\ thread' = [thread EXCEPT ![t].pc = "next", ![t].asked = TRUE, ![t].i = @ + 1]
    /\ InList /\ UNCHANGED <<bucket, breaker>>

(* An answer that says no, or cannot be read, is not a failure ...         *)
Refused(t) ==
    /\ At(t, "sent")
    /\ thread' = Asked(t, FALSE)
    /\ InList /\ UNCHANGED <<bucket, breaker>>

(* ... but no answer, and an error of the server, are: noteFailure.        *)
Failed(t) ==
    \E ep \in {thread[t].i} :
        /\ At(t, "sent")
        /\ thread' = Asked(t, FALSE)
        /\ failures' = [failures EXCEPT ![ep] = @ + 1]
        /\ opened' = IF failures'[ep] >= Threshold
                     THEN [opened EXCEPT ![ep] = "open"] ELSE opened
        /\ InList /\ UNCHANGED bucket

DoJSON(t) ==
    \/ Skip(t) \/ Choose(t) \/ GiveUp(t)
    \/ RefillChecks(t) \/ RefillAdds(t) \/ AcquireLooks(t) \/ AcquireTakes(t)
    \/ Answered(t) \/ Refused(t) \/ Failed(t)

TokenDue == ~due /\ due' = TRUE /\ UNCHANGED <<tokens, peak, breaker, thread, list, calls>>

CoolDown(ep) ==
    /\ opened[ep] = "open"
    /\ opened' = [opened EXCEPT ![ep] = "over"]
    /\ UNCHANGED <<bucket, failures, thread, list, calls>>

----------------------------------------------------------------------------
(* The calls: ChainHead and Blob are one doJSON each.                      *)

IsIdle(g) == At(<<g, First>>, "none")
NilError(t) == At(t, "done") /\ ~thread[t].err
Returns(g) == thread' = [thread EXCEPT ![<<g, First>>] = NoCall]

Call(g) ==
    /\ g \notin Listers
    /\ IsIdle(g)
    /\ calls < MaxCalls
    /\ calls' = calls + 1
    /\ thread' = [thread EXCEPT ![<<g, First>>] = Begun]
    /\ UNCHANGED <<bucket, breaker, list>>

Return(g) ==
    /\ g \notin Listers
    /\ At(<<g, First>>, "done")
    /\ Returns(g)
    /\ InList /\ UNCHANGED <<bucket, breaker>>

(* A list is a doJSON for its first page ...                               *)
CallList(g) ==
    /\ IsIdle(g)
    /\ calls < MaxCalls
    /\ calls' = calls + 1
    /\ thread' = [thread EXCEPT ![<<g, First>>] = Begun]
    /\ list' = [list EXCEPT ![g] = calls + 1]
    /\ UNCHANGED <<bucket, breaker>>

(* ... which says what others there are: all of them here, or none.  No    *)
(* answer says nothing, and then there are none.                           *)
FirstPage(g, more) ==
    /\ NilError(<<g, First>>)
    /\ more => thread[<<g, First>>].answered
    /\ thread' = [t \in Threads |->
                    IF t = <<g, First>> THEN [thread[t] EXCEPT !.pc = "collect"]
                    ELSE IF more /\ t \in {list[g]} \X Pages THEN Begun ELSE thread[t]]
    /\ InList /\ UNCHANGED <<bucket, breaker>>

(* A page arrives, in any order; its goroutine is gone.                    *)
Collect(g, p) ==
    /\ At(<<g, First>>, "collect")
    /\ NilError(<<list[g], p>>)
    /\ thread' = [thread EXCEPT ![<<list[g], p>>] = NoCall]
    /\ InList /\ UNCHANGED <<bucket, breaker>>

(* The first error ends the call, whatever the other goroutines are at ... *)
ListFails(g) ==
    /\ \/ At(<<g, First>>, "done") /\ thread[<<g, First>>].err
       \/ /\ At(<<g, First>>, "collect")
          /\ \E p \in Pages : At(<<list[g], p>>, "done") /\ thread[<<list[g], p>>].err
    /\ Returns(g)
    /\ list' = [list EXCEPT ![g] = 0]
    /\ UNCHANGED <<bucket, breaker, calls>>

(* ... they go on by themselves, and what they bring is read by nobody.    *)
Discard(t) ==
    /\ \A g \in Listers : list[g] # t[1]
    /\ At(t, "done")
    /\ thread' = [thread EXCEPT ![t] = NoCall]
    /\ InList /\ UNCHANGED <<bucket, breaker>>

ReturnList(g) ==
    /\ At(<<g, First>>, "collect")
    /\ \A p \in Pages : At(<<list[g], p>>, "none")
    /\ Returns(g)
    /\ list' = [list EXCEPT ![g] = 0]
    /\ UNCHANGED <<bucket, breaker, calls>>

Lists(g) ==
    \/ ListFails(g) \/ ReturnList(g)
    \/ \E more \in BOOLEAN : FirstPage(g, more)
    \/ \E p \in Pages : Collect(g, p)

Next ==
    \/ \E t \in Threads : DoJSON(t)
    \/ \E g \in Callers : Call(g) \/ Return(g)
    \/ \E g \in Listers : CallList(g) \/ Lists(g)
    \/ \E t \in PageThreads : Discard(t)
    \/ TokenDue
    \/ \E ep \in Endpoints : CoolDown(ep)

(* The goroutines run, requests are answered or time out, and time passes. *)
Spec ==
    /\ Init
    /\ [][Next]_vars
    /\ \A t \in Threads : WF_vars(DoJSON(t))
    /\ \A g \in Callers \ Listers : WF_vars(Return(g))
    /\ \A g \in Listers : WF_vars(Lists(g))
    /\ WF_vars(TokenDue)

----------------------------------------------------------------------------
TypeOK ==
    /\ tokens \in Int
    /\ due \in BOOLEAN
    /\ peak \in Nat
    /\ failures \in [Endpoints -> 0..(Threshold + Cardinality(Threads))]
    /\ opened \in [Endpoints -> {"no", "open", "over"}]
    /\ thread \in [Threads ->
          [pc : {"none", "next", "refill", "add", "look", "take", "sent", "done", "collect"},
           i : 1..(N + 1), err : BOOLEAN, asked : BOOLEAN, answered : BOOLEAN]]
    /\ list \in [Listers -> 0..MaxCalls]
    /\ calls \in 0..MaxCalls

(* acquire: the bucket is overdrawn, or overfull, by no more than the most *)
(* goroutines that were ever in it together, short of the one that rightly *)
(* takes or adds; those a failed list has left behind count too.           *)
BucketIsBounded == 1 - peak <= tokens /\ tokens <= Burst - 1 + peak

(* The breaker and its counter agree, with failures that come in late and  *)
(* goroutines that close it at the same time.                              *)
BreakerFollowsFailures ==
    \A ep \in Endpoints : opened[ep] = "no" <=> failures[ep] < Threshold

(* A call without an error has an answer, or found every endpoint open and *)
(* asked nobody; it never passes a failed request off as an empty answer.  *)
SilentOnlyIfNobodyAsked ==
    \A t \in Threads : NilError(t) => thread[t].answered \/ ~thread[t].asked

(* Every call returns, and every goroutine of a page gets through, though  *)
(* nobody may wait for it any more: none waits for ever for a token, a     *)
(* page or an endpoint.                                                    *)
CallsReturn ==
    /\ \A g \in Callers : []<>IsIdle(g)
    /\ \A t \in PageThreads : []<>(At(t, "none") \/ At(t, "done"))

(* What the client's comments say of it: ChainHead returns the current     *)
(* chain height, a list all of its pages.                                  *)
AnswersAreGiven == \A t \in Threads : NilError(t) => thread[t].answered
=============================================================================
