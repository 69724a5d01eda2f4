------------------------- MODULE BlockIndexingProofs -------------------------
(***************************************************************************)
(* The write path is correct for every set of heights, processes and       *)
(* goroutines: its invariants hold, and it implements BlockLedger.         *)
(*                                                                         *)
(* The invariants of the tables are not inductive alone: that a height is  *)
(* summarised before it is recorded is a fact about where the calls stand. *)
(* CallInv says, for each step a call may be at, what the tables already   *)
(* hold about its height; as no step takes a row away, the steps of the    *)
(* other calls preserve it.                                                *)
(***************************************************************************)
EXTENDS BlockIndexing, TLAPS

USE ConstantsAssumption

CallType == [pc : Steps, height : Heights \union {None}, epoch : 0 .. MaxEpoch]

\* What one call has established by the time it stands at a step.
CallOk(c) ==
    /\ ~At(c, "idle") => call[c].height \in Heights
    /\ At(c, "summary") => View(c) \in rows[call[c].height]
    /\ At(c, "record") \/ At(c, "publish") => call[c].height \in Summarised
    /\ At(c, "done") => call[c].height \in Stored

CallInv == \A c \in Callers : CallOk(c)

IInv ==
    /\ TypeOK
    /\ CallInv
    /\ SummaryCountsStoredRows
    /\ AnnouncedIsReadable
    /\ AckedIsStored

-----------------------------------------------------------------------------
(* Lemmas on one step of a call *)

LEMMA ViewType == \A c : View(c) \in Views /\ View(c) # None
  BY DEF View, Views

LEMMA NoCallType == NoCall \in CallType /\ NoCall.pc = "idle"
  BY DEF NoCall, CallType, Steps

\* Moving a call along, or ending it, keeps the calls well typed.
LEMMA CallTypes ==
  ASSUME NEW c \in Callers, NEW step \in Steps, call \in [Callers -> CallType],
         Goto(c, step) \/ Return(c)
  PROVE  call' \in [Callers -> CallType]
<1>1. CASE Goto(c, step)
  BY <1>1 DEF Goto, CallType
<1>2. CASE Return(c)
  BY <1>2, NoCallType DEF Return
<1> QED BY <1>1, <1>2

\* A step of a call leaves the other calls alone and keeps their type.
LEMMA StepCall ==
  ASSUME TypeOK, NEW c \in Callers, Step(c)
  PROVE  /\ call' \in [Callers -> CallType]
         /\ \A d \in Callers : d # c => call'[d] = call[d]
<1>0. call \in [Callers -> CallType]
  BY DEF TypeOK, CallType
<1>1. CASE \E h \in Heights : BlobArrives(c, h) \/ StartFetch(c, h)
  <2>1. epoch[Home[c]] \in 0 .. MaxEpoch
    BY DEF TypeOK
  <2>2. PICK h \in Heights, step \in {"lookup", "fetch"}, e \in 0 .. MaxEpoch :
            call' = [call EXCEPT ![c] = [pc |-> step, height |-> h, epoch |-> e]]
    BY <1>1, <2>1 DEF BlobArrives, StartFetch
  <2>3. [pc |-> step, height |-> h, epoch |-> e] \in CallType
    BY DEF CallType, Steps
  <2> QED BY <1>0, <2>2, <2>3
<1>2. CASE LookupChain(c)
  <2>1. epoch[Home[c]] \in 0 .. MaxEpoch
    BY DEF TypeOK
  <2>2. PICK e \in 0 .. MaxEpoch :
            call' = [call EXCEPT ![c].pc = "check", ![c].epoch = e]
    <3>1. call[c].epoch \in 0 .. MaxEpoch
      BY <1>0 DEF CallType
    <3> QED BY <1>0, <1>2, <2>1, <3>1 DEF LookupChain, CallType
  <2> QED BY <1>0, <2>2 DEF CallType, Steps
<1>3. CASE \E step \in Steps : Goto(c, step) \/ Return(c)
  <2>1. call' \in [Callers -> CallType]
    BY <1>0, <1>3, CallTypes
  <2>2. \A d \in Callers : d # c => call'[d] = call[d]
    BY <1>0, <1>3 DEF Goto, Return
  <2> QED BY <2>1, <2>2
<1> QED
  BY <1>1, <1>2, <1>3
     DEF Step, FetchBlob, FetchFails, ChainNotConfigured, HasBlock, BeginTx,
         StatementFails, Commit, Rollback, CommitUnanswered, BuildBlockSummary,
         BuildBlockSummaryFails, UpdateProgress, UpdateProgressFails, AfterRecord,
         PublishBlock, PublishBlockFails, ReturnNil, Steps

\* No step of a call takes away a row or a summary; a summary that appears
\* counts rows that are there.
LEMMA TablesGrow ==
  ASSUME IInv, NEW c \in Callers, Step(c)
  PROVE  /\ rows' \in [Heights -> SUBSET Views]
         /\ summary' \in [Heights -> Views \union {None}]
         /\ \A h \in Heights : rows[h] \subseteq rows'[h]
         /\ Stored \subseteq Stored'
         /\ Summarised \subseteq Summarised'
         /\ SummaryCountsStoredRows'
<1> USE DEF Stored, Summarised, SummaryCountsStoredRows
<1>0. TypeOK /\ CallOk(c) /\ SummaryCountsStoredRows
  BY DEF IInv, CallInv
<1>1. CASE UNCHANGED <<rows, summary>>
  BY <1>0, <1>1 DEF TypeOK
<1>2. CASE Commit(c) \/ CommitUnanswered(c)
  <2>1. rows' = [rows EXCEPT ![call[c].height] = @ \union {View(c)}]
    BY <1>2 DEF Commit, CommitUnanswered, RowsWritten
  <2>2. summary' = summary
    BY <1>2 DEF Commit, CommitUnanswered
  <2>3. rows' \in [Heights -> SUBSET Views]
    BY <1>0, <2>1, ViewType DEF TypeOK
  <2>4. \A h \in Heights : rows[h] \subseteq rows'[h]
    BY <1>0, <2>1 DEF TypeOK
  <2> QED BY <1>0, <2>2, <2>3, <2>4 DEF TypeOK
<1>3. CASE BuildBlockSummary(c) \/ BuildBlockSummaryFails(c)
  <2>1. rows' = rows
    BY <1>3 DEF BuildBlockSummary, BuildBlockSummaryFails
  <2>2. CASE summary' = summary
    BY <1>0, <2>1, <2>2 DEF TypeOK
  <2>3. CASE summary' = SummaryWritten(c)
    <3>1. call[c].height \in Heights /\ View(c) \in rows[call[c].height]
      BY <1>0, <1>3 DEF BuildBlockSummary, BuildBlockSummaryFails, CallOk, At
    <3>2. summary' = [summary EXCEPT ![call[c].height] = View(c)]
      BY <2>3 DEF SummaryWritten
    <3>3. summary' \in [Heights -> Views \union {None}]
      BY <1>0, <3>2, ViewType DEF TypeOK
    <3>4. \A h \in Heights : summary'[h] = IF h = call[c].height THEN View(c) ELSE summary[h]
      BY <1>0, <3>2 DEF TypeOK
    <3> QED BY <1>0, <2>1, <3>1, <3>3, <3>4, ViewType DEF TypeOK
  <2> QED
    BY <1>3, <2>2, <2>3 DEF BuildBlockSummary, BuildBlockSummaryFails
<1> QED
  BY <1>1, <1>2, <1>3
     DEF Step, BlobArrives, StartFetch, LookupChain, FetchBlob, FetchFails,
         ChainNotConfigured, HasBlock, BeginTx, StatementFails, Rollback,
         UpdateProgress, UpdateProgressFails, PublishBlock, PublishBlockFails,
         ReturnNil, tables

\* The call that moves has established what its new step requires.
LEMMA MoverOk ==
  ASSUME IInv, NEW c \in Callers, Step(c)
  PROVE  CallOk(c)'
<1>0. TypeOK /\ CallOk(c) /\ call \in [Callers -> CallType]
  BY DEF IInv, CallInv, TypeOK, CallType
<1>1. ~At(c, "idle") => call[c].height \in Heights
  BY <1>0 DEF CallOk
<1>2. CASE Return(c)
  <2>1. call'[c].pc = "idle"
    BY <1>0, <1>2, NoCallType DEF Return
  <2> QED BY <2>1 DEF CallOk, At
<1>3. CASE \E h \in Heights : BlobArrives(c, h) \/ StartFetch(c, h)
  <2>1. PICK h \in Heights : BlobArrives(c, h) \/ StartFetch(c, h)
    BY <1>3
  <2>2. call'[c].height = h /\ call'[c].pc \in {"lookup", "fetch"}
    BY <1>0, <2>1 DEF BlobArrives, StartFetch
  <2> QED BY <2>2 DEF CallOk, At
<1>4. CASE LookupChain(c)
  <2>1. call'[c].height = call[c].height /\ call'[c].pc = "check"
    BY <1>0, <1>4 DEF LookupChain, CallType
  <2> QED BY <1>1, <1>4, <2>1 DEF LookupChain, CallOk, At
<1>5. \A step \in Steps : Goto(c, step) =>
        call'[c].height = call[c].height /\ call'[c].pc = step
  BY <1>0 DEF Goto, CallType
<1>6. CASE FetchBlob(c) \/ BeginTx(c)
  BY <1>1, <1>5, <1>6 DEF FetchBlob, BeginTx, CallOk, At, Steps
<1>7. CASE HasBlock(c)
  <2>1. rows' = rows /\ call[c].height \in Heights
    BY <1>1, <1>7 DEF HasBlock, tables, At
  <2>2. CASE rows[call[c].height] # {}
    BY <1>5, <1>7, <2>1, <2>2 DEF HasBlock, CallOk, At, Steps, Stored
  <2>3. CASE rows[call[c].height] = {}
    BY <1>5, <1>7, <2>1, <2>3 DEF HasBlock, CallOk, At, Steps
  <2> QED BY <2>2, <2>3
<1>8. CASE Commit(c)
  <2>1. View(c) \in rows'[call[c].height] /\ call[c].height \in Heights
    BY <1>0, <1>1, <1>8 DEF Commit, RowsWritten, TypeOK, At
  <2> QED BY <1>5, <1>8, <2>1 DEF Commit, CallOk, At, Steps, View
<1>9. CASE BuildBlockSummary(c)
  <2>1. summary'[call[c].height] = View(c) /\ call[c].height \in Heights
    BY <1>0, <1>1, <1>9 DEF BuildBlockSummary, SummaryWritten, TypeOK, At
  <2> QED
    BY <1>5, <1>9, <2>1, ViewType
       DEF BuildBlockSummary, CallOk, At, Steps, Summarised
<1>10. CASE \/ UpdateProgress(c) \/ UpdateProgressFails(c)
            \/ PublishBlock(c) \/ PublishBlockFails(c)
  <2>1. /\ call[c].height \in Summarised
        /\ UNCHANGED <<rows, summary>>
    BY <1>0, <1>10
       DEF UpdateProgress, UpdateProgressFails, PublishBlock, PublishBlockFails,
           CallOk, At, tables
  <2>2. call[c].height \in Stored' /\ call[c].height \in Summarised'
    BY <2>1, <1>0 DEF IInv, SummaryCountsStoredRows, Stored, Summarised
  <2>3. /\ call'[c].height = call[c].height
        /\ call'[c].pc \in {"publish", "done"}
    BY <1>5, <1>10
       DEF UpdateProgress, UpdateProgressFails, PublishBlock, PublishBlockFails,
           AfterRecord, Steps
  <2> QED BY <2>2, <2>3 DEF CallOk, At, Summarised
<1> QED
  BY <1>2, <1>3, <1>4, <1>6, <1>7, <1>8, <1>9, <1>10
     DEF Step, FetchFails, ChainNotConfigured, StatementFails, Rollback,
         CommitUnanswered, BuildBlockSummaryFails, ReturnNil,
         BuildBlockSummary

-----------------------------------------------------------------------------
(* The inductive invariant *)

LEMMA InitIInv == Init => IInv
<1> SUFFICES ASSUME Init PROVE IInv
  OBVIOUS
<1>1. TypeOK
  BY DEF Init, TypeOK, NoCall, Steps, Views
<1>2. CallInv
  BY DEF Init, CallInv, CallOk, At, NoCall
<1>3. SummaryCountsStoredRows /\ AnnouncedIsReadable /\ AckedIsStored
  BY DEF Init, SummaryCountsStoredRows, AnnouncedIsReadable, AckedIsStored,
         Stored, Summarised
<1> QED BY <1>1, <1>2, <1>3 DEF IInv

\* A step of a call preserves the inductive invariant.
LEMMA StepIInv ==
  ASSUME IInv, NEW c \in Callers, Step(c)
  PROVE  IInv'
<1>0. TypeOK /\ CallOk(c) /\ AnnouncedIsReadable /\ AckedIsStored
  BY DEF IInv, CallInv
<1>1. /\ call' \in [Callers -> CallType]
      /\ \A d \in Callers : d # c => call'[d] = call[d]
  BY <1>0, StepCall
<1>2. /\ rows' \in [Heights -> SUBSET Views]
      /\ summary' \in [Heights -> Views \union {None}]
      /\ \A h \in Heights : rows[h] \subseteq rows'[h]
      /\ Stored \subseteq Stored'
      /\ Summarised \subseteq Summarised'
      /\ SummaryCountsStoredRows'
  BY TablesGrow
<1>3. CallInv'
  <2> SUFFICES ASSUME NEW d \in Callers PROVE CallOk(d)'
    BY DEF CallInv
  <2>1. CASE d = c
    BY <2>1, MoverOk
  <2>2. CASE d # c
    <3>1. CallOk(d) /\ call'[d] = call[d]
      BY <1>1, <2>2 DEF IInv, CallInv
    <3>2. At(d, "summary") => call[d].height \in Heights
      BY <3>1 DEF CallOk, At
    <3> QED BY <1>2, <3>1, <3>2 DEF CallOk, At, View
  <2> QED BY <2>1, <2>2
<1>4. progress' \union published' \subseteq Stored' \intersect Summarised'
  <2>1. CASE UNCHANGED <<progress, published>>
    BY <1>0, <1>2, <2>1 DEF AnnouncedIsReadable
  <2>2. CASE UpdateProgress(c) \/ PublishBlock(c)
    <3>1. /\ call[c].height \in Summarised
          /\ progress' \union published'
               \subseteq progress \union published \union {call[c].height}
      BY <1>0, <2>2 DEF UpdateProgress, PublishBlock, CallOk, At
    <3>2. call[c].height \in Stored
      BY <3>1 DEF IInv, SummaryCountsStoredRows, Stored, Summarised
    <3> QED BY <1>0, <1>2, <3>1, <3>2 DEF AnnouncedIsReadable
  <2> QED
    BY <2>1, <2>2
       DEF Step, BlobArrives, StartFetch, FetchBlob, FetchFails, LookupChain,
           ChainNotConfigured, HasBlock, BeginTx, StatementFails, Commit,
           Rollback, CommitUnanswered, BuildBlockSummary,
           BuildBlockSummaryFails, UpdateProgressFails, PublishBlockFails,
           ReturnNil, tables
<1>5. acked' \subseteq Stored'
  <2>1. CASE acked' = acked
    BY <1>0, <1>2, <2>1 DEF AckedIsStored
  <2>2. CASE ReturnNil(c)
    BY <1>0, <1>2, <2>2 DEF ReturnNil, CallOk, At, AckedIsStored
  <2> QED
    BY <2>1, <2>2
       DEF Step, BlobArrives, StartFetch, FetchBlob, FetchFails, LookupChain,
           ChainNotConfigured, HasBlock, BeginTx, StatementFails, Commit,
           Rollback, CommitUnanswered, BuildBlockSummary,
           BuildBlockSummaryFails, UpdateProgress, UpdateProgressFails,
           PublishBlock, PublishBlockFails
<1>6. UNCHANGED <<pool, epoch>>
  BY DEF Step, BlobArrives, StartFetch, FetchBlob, FetchFails, LookupChain,
         ChainNotConfigured, HasBlock, BeginTx, StatementFails, Commit,
         Rollback, CommitUnanswered, BuildBlockSummary,
         BuildBlockSummaryFails, UpdateProgress, UpdateProgressFails,
         PublishBlock, PublishBlockFails, ReturnNil, chain
<1>7. TypeOK'
  BY <1>0, <1>1, <1>2, <1>4, <1>5, <1>6
     DEF TypeOK, CallType, Stored
<1> QED
  BY <1>2, <1>3, <1>4, <1>5, <1>7 DEF IInv, AnnouncedIsReadable, AckedIsStored

\* So does a step of the chain's life in a process.
LEMMA LifecycleIInv ==
  ASSUME IInv, NEW p \in Processes, Lifecycle(p)
  PROVE  IInv'
<1>0. TypeOK /\ CallInv
  BY DEF IInv
<1>1. UNCHANGED <<rows, summary, progress, published, acked>>
  BY DEF Lifecycle, AddChain, RemoveChainBegin, RemoveChainEnd, Crash, tables
<1>2. /\ pool' \in [Processes -> {"none", "open", "closing"}]
      /\ epoch' \in [Processes -> 0 .. MaxEpoch]
  BY <1>0 DEF TypeOK, Lifecycle, AddChain, RemoveChainBegin, RemoveChainEnd, Crash
<1>3. CASE call' = call
  BY <1>0, <1>1, <1>2, <1>3
     DEF IInv, TypeOK, CallInv, CallOk, At, SummaryCountsStoredRows,
         AnnouncedIsReadable, AckedIsStored, Stored, Summarised
<1>4. CASE Crash(p)
  <2>1. call' = [c \in Callers |-> IF Home[c] = p THEN NoCall ELSE call[c]]
    BY <1>4 DEF Crash
  <2>2. call' \in [Callers -> CallType]
    BY <1>0, <2>1, NoCallType DEF TypeOK, CallType
  <2>3. CallInv'
    <3> SUFFICES ASSUME NEW c \in Callers PROVE CallOk(c)'
      BY DEF CallInv
    <3>1. call'[c] = NoCall \/ call'[c] = call[c]
      BY <2>1
    <3>2. CASE call'[c] = NoCall
      BY <3>2, NoCallType DEF CallOk, At
    <3>3. CASE call'[c] = call[c]
      BY <1>0, <1>1, <3>3 DEF CallInv, CallOk, At, Stored, Summarised
    <3> QED BY <3>1, <3>2, <3>3
  <2> QED
    BY <1>0, <1>1, <1>2, <2>2, <2>3
       DEF IInv, TypeOK, CallType, SummaryCountsStoredRows,
           AnnouncedIsReadable, AckedIsStored, Stored, Summarised
<1> QED
  BY <1>3, <1>4 DEF Lifecycle, AddChain, RemoveChainBegin, RemoveChainEnd

LEMMA NextIInv == IInv /\ [Next]_vars => IInv'
<1> SUFFICES ASSUME IInv, [Next]_vars PROVE IInv'
  OBVIOUS
<1>1. CASE \E c \in Callers : Step(c)
  BY <1>1, StepIInv
<1>2. CASE \E p \in Processes : Lifecycle(p)
  BY <1>2, LifecycleIInv
<1>3. CASE UNCHANGED vars
  BY <1>3
     DEF vars, IInv, TypeOK, CallInv, CallOk, At, SummaryCountsStoredRows,
         AnnouncedIsReadable, AckedIsStored, Stored, Summarised
<1> QED BY <1>1, <1>2, <1>3 DEF Next

LEMMA Invariance == Spec => []IInv
  BY InitIInv, NextIInv, PTL DEF Spec

-----------------------------------------------------------------------------
(* The theorems *)

\* The state of the write path stays well typed: in particular the tables
\* only ever hold heights, whatever call is cut short.
THEOREM TypeCorrect == Spec => []TypeOK
<1>1. IInv => TypeOK
  BY DEF IInv
<1> QED BY <1>1, Invariance, PTL

\* Nothing reported as indexed is missing from chain_N.blocks.
THEOREM AckedStaysStored == Spec => []AckedIsStored
<1>1. IInv => AckedIsStored
  BY DEF IInv
<1> QED BY <1>1, Invariance, PTL

\* Every summary row counts a conversion that is in the tables.
THEOREM SummariesCountStoredRows == Spec => []SummaryCountsStoredRows
<1>1. IInv => SummaryCountsStoredRows
  BY DEF IInv
<1> QED BY <1>1, Invariance, PTL

\* Whoever follows index_progress or the blocks topic finds the block and its
\* summary.
THEOREM AnnouncementsAreReadable == Spec => []AnnouncedIsReadable
<1>1. IInv => AnnouncedIsReadable
  BY DEF IInv
<1> QED BY <1>1, Invariance, PTL

-----------------------------------------------------------------------------
(* Transactions and the pool *)

LEMMA TxStep ==
  ASSUME TypeOK, TxHoldsItsPool, NEW c \in Callers, Step(c)
  PROVE  TxHoldsItsPool'
<1>1. /\ UNCHANGED <<pool, epoch>>
      /\ call'[c].pc = "tx" => BeginTx(c)
  <2>0. call \in [Callers -> CallType]
    BY DEF TypeOK, CallType
  <2>1. \A step : Goto(c, step) => call'[c].pc = step
    BY <2>0 DEF Goto, CallType
  <2>2. Return(c) => call'[c].pc = "idle"
    BY <2>0, NoCallType DEF Return
  <2>3. CASE \E h \in Heights : BlobArrives(c, h) \/ StartFetch(c, h)
    BY <2>0, <2>3 DEF BlobArrives, StartFetch, chain
  <2>4. CASE LookupChain(c)
    BY <2>0, <2>4 DEF LookupChain, CallType, chain
  <2>5. CASE HasBlock(c) \/ UpdateProgress(c) \/ UpdateProgressFails(c)
    BY <2>1, <2>5 DEF HasBlock, UpdateProgress, UpdateProgressFails, AfterRecord, chain
  <2> QED
    BY <2>1, <2>2, <2>3, <2>4, <2>5
       DEF Step, FetchBlob, FetchFails, ChainNotConfigured, BeginTx, StatementFails,
           Commit, Rollback, CommitUnanswered, BuildBlockSummary,
           BuildBlockSummaryFails, PublishBlock, PublishBlockFails, ReturnNil, chain
<1>2. BeginTx(c) => PoolUsable(c) /\ call'[c].epoch = call[c].epoch
  BY DEF BeginTx, Goto, TypeOK
<1>3. \A d \in Callers : d # c => call'[d] = call[d]
  BY StepCall
<1> QED BY <1>1, <1>2, <1>3 DEF TxHoldsItsPool, At, PoolUsable

LEMMA TxLifecycle ==
  ASSUME TypeOK, TxHoldsItsPool, NEW p \in Processes, Lifecycle(p)
  PROVE  TxHoldsItsPool'
<1> USE DEF TypeOK, TxHoldsItsPool, At
<1>1. CASE AddChain(p)
  BY <1>1 DEF AddChain
<1>2. CASE RemoveChainBegin(p)
  BY <1>2 DEF RemoveChainBegin
<1>3. CASE RemoveChainEnd(p)
  BY <1>3 DEF RemoveChainEnd
<1>4. CASE Crash(p)
  BY <1>4, NoCallType DEF Crash
<1> QED BY <1>1, <1>2, <1>3, <1>4 DEF Lifecycle

\* A removal and a new start of the chain never leave a transaction behind on
\* a pool that is gone.
THEOREM TransactionsHoldTheirPool == Spec => []TxHoldsItsPool
<1>1. Init => TxHoldsItsPool
  BY DEF Init, TxHoldsItsPool, At, NoCall
<1>2. IInv /\ TxHoldsItsPool /\ [Next]_vars => TxHoldsItsPool'
  <2> SUFFICES ASSUME TypeOK, TxHoldsItsPool, [Next]_vars
               PROVE  TxHoldsItsPool'
    BY DEF IInv
  <2>1. CASE UNCHANGED vars
    BY <2>1 DEF vars, TxHoldsItsPool, At
  <2> QED BY <2>1, TxStep, TxLifecycle DEF Next
<1> QED BY <1>1, <1>2, Invariance, PTL DEF Spec

-----------------------------------------------------------------------------
(* The refinement *)

\* Every step of a call is a step of the ledger, or none.
LEMMA StepRefines ==
  ASSUME IInv, NEW c \in Callers, Step(c)
  PROVE  [Ledger!Next]_(Ledger!ledger)
<1> DEFINE h == call[c].height
<1> USE DEF Ledger!ledger
<1>0. TypeOK /\ CallOk(c)
  BY DEF IInv, CallInv
<1>1. ~At(c, "idle") => h \in Heights
  BY <1>0 DEF CallOk
<1>2. Summarised \subseteq Stored
  BY DEF IInv, SummaryCountsStoredRows, Stored, Summarised
<1>3. CASE Commit(c) \/ CommitUnanswered(c)
  <2>1. /\ h \in Heights
        /\ rows' = RowsWritten(c)
        /\ UNCHANGED <<summary, progress, published, acked>>
    BY <1>1, <1>3 DEF Commit, CommitUnanswered, At
  <2>2. \A k \in Heights :
            rows'[k] = IF k = h THEN rows[k] \union {View(c)} ELSE rows[k]
    BY <1>0, <2>1 DEF RowsWritten, TypeOK
  <2>3. \A k \in Heights : rows'[k] # {} <=> (rows[k] # {} \/ k = h)
    BY <2>2
  <2>4. Stored' = Stored \union {h}
    BY <2>1, <2>3 DEF Stored
  <2>5. Ledger!Store(h)
    BY <2>1, <2>4 DEF Ledger!Store, Summarised
  <2> QED BY <2>1, <2>5 DEF Ledger!Next
<1>4. CASE BuildBlockSummary(c) \/ BuildBlockSummaryFails(c)
  <2>1. /\ h \in Heights /\ View(c) \in rows[h]
        /\ UNCHANGED <<rows, progress, published, acked>>
    BY <1>0, <1>1, <1>4 DEF BuildBlockSummary, BuildBlockSummaryFails, CallOk, At
  <2>2. CASE summary' = SummaryWritten(c)
    <3>1. Summarised' = Summarised \union {h}
      BY <1>0, <2>1, <2>2, ViewType DEF SummaryWritten, Summarised, TypeOK
    <3>2. Ledger!Summarise(h)
      BY <2>1, <3>1 DEF Ledger!Summarise, Stored
    <3> QED BY <2>1, <3>2 DEF Ledger!Next
  <2>3. CASE summary' = summary
    BY <2>1, <2>3 DEF Stored, Summarised
  <2> QED
    BY <1>4, <2>2, <2>3 DEF BuildBlockSummary, BuildBlockSummaryFails
<1>5. CASE UpdateProgress(c)
  <2>1. h \in Summarised /\ h \in Heights
    BY <1>0, <1>1, <1>5 DEF UpdateProgress, CallOk, At
  <2>2. Ledger!Record(h)
    BY <1>5, <2>1 DEF UpdateProgress, Ledger!Record, Stored, Summarised
  <2> QED BY <2>1, <2>2 DEF Ledger!Next
<1>6. CASE PublishBlock(c)
  <2>1. h \in Summarised /\ h \in Heights
    BY <1>0, <1>1, <1>6 DEF PublishBlock, CallOk, At
  <2>2. Ledger!Announce(h)
    BY <1>6, <2>1 DEF PublishBlock, Ledger!Announce, Stored, Summarised
  <2> QED BY <2>1, <2>2 DEF Ledger!Next
<1>7. CASE ReturnNil(c)
  <2>1. h \in Stored /\ h \in Heights
    BY <1>0, <1>1, <1>7 DEF ReturnNil, CallOk, At
  <2>2. Ledger!Confirm(h)
    BY <1>7, <2>1 DEF ReturnNil, Ledger!Confirm, Stored, Summarised, tables
  <2> QED BY <2>1, <2>2 DEF Ledger!Next
<1>8. CASE UNCHANGED <<tables, acked>>
  BY <1>8 DEF tables, Stored, Summarised
<1> QED
  BY <1>3, <1>4, <1>5, <1>6, <1>7, <1>8
     DEF Step, BlobArrives, StartFetch, FetchBlob, FetchFails, LookupChain,
         ChainNotConfigured, HasBlock, BeginTx, StatementFails, Rollback,
         UpdateProgressFails, PublishBlockFails

\* The write path implements the ledger: readers of chain_N, index_progress and
\* the blocks topic can rely on its order of events however calls interleave,
\* fail, or lose the chain under them.
THEOREM Implements == Spec => ImplementsLedger
<1>1. Init => Ledger!Init
  BY DEF Init, Ledger!Init, Stored, Summarised
<1>2. IInv /\ [Next]_vars => [Ledger!Next]_(Ledger!ledger)
  <2> SUFFICES ASSUME IInv, [Next]_vars PROVE [Ledger!Next]_(Ledger!ledger)
    OBVIOUS
  <2>1. CASE \E p \in Processes : Lifecycle(p)
    BY <2>1
       DEF Lifecycle, AddChain, RemoveChainBegin, RemoveChainEnd, Crash, tables,
           Ledger!ledger, Stored, Summarised
  <2>2. CASE UNCHANGED vars
    BY <2>2 DEF vars, Ledger!ledger, Stored, Summarised
  <2> QED BY <2>1, <2>2, StepRefines DEF Next
<1> QED BY <1>1, <1>2, Invariance, PTL DEF Spec, ImplementsLedger, Ledger!Spec
=============================================================================
