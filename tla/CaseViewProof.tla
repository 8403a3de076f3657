---------------------------- MODULE CaseViewProof ----------------------------
(***************************************************************************)
(* What an operator is shown of a case, for any number of open requests    *)
(* and of lost attempts: however the five queries of a page interleave     *)
(* with the commits of the case, the page does not contradict itself. All  *)
(* of it holds whatever activities go on writing after their timeout.      *)
(***************************************************************************)
EXTENDS CaseView, CaseOutcomeProof

-----------------------------------------------------------------------------
(* A reader changes nothing, so whatever holds of a case holds of a case   *)
(* that is being read.                                                     *)

LEMMA ReadersAreSteps == [ViewNext]_viewVars => [Next]_vars
BY DEF ViewNext, LoadExceptionCaseDetail, GetExceptionCaseDetail,
   GetLatestAIRecords, ListApprovalDecisions, ListEvidenceRecords,
   ListExecutionRecords, Query, viewVars

LEMMA ReadersAreHarmless == ViewSpec => Spec
<1>1. ViewInit => Init
  BY DEF ViewInit
<1> QED
  BY <1>1, ReadersAreSteps, PTL DEF ViewSpec, Spec

LEMMA ReadCaseInvariance == ViewSpec => []CaseInv
BY ReadersAreHarmless, CaseInvariance, PTL

(* Which query comes when, and what it leaves on the page.                 *)
QueryStep(n) ==
    /\ view.next = n
    /\ view'.next = n + 1
    /\ UNCHANGED vars
    /\ view'.row = IF n = 1 THEN row ELSE view.row
    /\ view'.plans = IF n = 2 THEN plans ELSE view.plans
    /\ view'.classified = IF n = 2 THEN classifications > 0 ELSE view.classified
    /\ view'.decisions = IF n = 3 THEN decisions ELSE view.decisions
    /\ view'.evidence = IF n = 4 THEN evidence ELSE view.evidence
    /\ view'.executions = IF n = 5 THEN executions ELSE view.executions

LEMMA QueriesInOrder ==
    /\ DOMAIN Queries = 1 .. 5 /\ Len(Queries) = 5
    /\ Queries[1] = "case" /\ Queries[2] = "ai_records"
    /\ Queries[3] = "decisions" /\ Queries[4] = "evidence"
    /\ Queries[5] = "executions"
BY DEF Queries

LEMMA Reading ==
    ASSUME view \in CaseDetail, LoadExceptionCaseDetail
    PROVE  \E n \in 1 .. 5 : QueryStep(n)
<1>0. view.next \in 1 .. 6
  BY QueriesInOrder DEF CaseDetail
<1> USE <1>0, QueriesInOrder DEF Query, CaseDetail, QueryStep
<1>1. CASE GetExceptionCaseDetail
  <2>1. view.next = 1
    BY <1>1 DEF GetExceptionCaseDetail
  <2> QED
    BY <1>1, <2>1 DEF GetExceptionCaseDetail
<1>2. CASE GetLatestAIRecords
  <2>1. view.next = 2
    BY <1>2 DEF GetLatestAIRecords
  <2> QED
    BY <1>2, <2>1 DEF GetLatestAIRecords
<1>3. CASE ListApprovalDecisions
  <2>1. view.next = 3
    BY <1>3 DEF ListApprovalDecisions
  <2> QED
    BY <1>3, <2>1 DEF ListApprovalDecisions
<1>4. CASE ListEvidenceRecords
  <2>1. view.next = 4
    BY <1>4 DEF ListEvidenceRecords
  <2> QED
    BY <1>4, <2>1 DEF ListEvidenceRecords
<1>5. CASE ListExecutionRecords
  <2>1. view.next = 5
    BY <1>5 DEF ListExecutionRecords
  <2> QED
    BY <1>5, <2>1 DEF ListExecutionRecords
<1> QED
  BY <1>1, <1>2, <1>3, <1>4, <1>5 DEF LoadExceptionCaseDetail

(* Either a query is answered, or the case goes on under the reader.       *)
LEMMA ViewSteps ==
    ASSUME view \in CaseDetail, [ViewNext]_viewVars
    PROVE  (\E n \in 1 .. 5 : QueryStep(n)) \/ (UNCHANGED view /\ [Next]_vars)
BY Reading DEF ViewNext, viewVars

(* The page is well typed, whatever is read when.                          *)
LEMMA ViewTypeInit == ViewInit => view \in CaseDetail
<1> SUFFICES ASSUME ViewInit PROVE view \in CaseDetail
  OBVIOUS
<1>1. row \in CaseRow
  BY TypeInit DEF ViewInit, TypeInv, TypeOK
<1> QED
  BY <1>1, QueriesInOrder DEF ViewInit, CaseDetail

LEMMA ViewTypeStep ==
    ASSUME TypeInv, view \in CaseDetail, [ViewNext]_viewVars
    PROVE  (view \in CaseDetail)'
<1>0. /\ row \in CaseRow /\ plans \in Seq(Advice)
      /\ decisions \in Seq(ApprovalDecisionType)
      /\ evidence \in Seq(EvidenceStatus)
      /\ executions \in Seq(ExecutionRecord)
      /\ (classifications > 0) \in BOOLEAN
  BY DEF TypeInv, TypeOK
<1>1. LoadExceptionCaseDetail => view.next \in 1 .. 5
  BY QueriesInOrder DEF LoadExceptionCaseDetail, GetExceptionCaseDetail,
     GetLatestAIRecords, ListApprovalDecisions, ListEvidenceRecords,
     ListExecutionRecords, Query
<1>2. CaseDetail =
        [next: 1 .. 6, row: CaseRow, plans: Seq(Advice), classified: BOOLEAN,
         decisions: Seq(ApprovalDecisionType), evidence: Seq(EvidenceStatus),
         executions: Seq(ExecutionRecord)]
  BY QueriesInOrder DEF CaseDetail
<1>3. view.next \in 1 .. 5 => view.next + 1 \in 1 .. 6
  OBVIOUS
<1> DEFINE Rows == CaseRow
           Plans == Seq(Advice)
           Decisions == Seq(ApprovalDecisionType)
           Evidence == Seq(EvidenceStatus)
           Executions == Seq(ExecutionRecord)
           Nexts == 1 .. 6
           next == view.next + 1
<1>4. /\ view \in [next: Nexts, row: Rows, plans: Plans, classified: BOOLEAN,
                   decisions: Decisions, evidence: Evidence,
                   executions: Executions]
      /\ LoadExceptionCaseDetail => next \in Nexts
      /\ row \in Rows /\ plans \in Plans /\ decisions \in Decisions
      /\ evidence \in Evidence /\ executions \in Executions
  BY <1>0, <1>1, <1>2, <1>3
<1> SUFFICES view' \in [next: Nexts, row: Rows, plans: Plans,
                       classified: BOOLEAN, decisions: Decisions,
                       evidence: Evidence, executions: Executions]
  BY <1>2, QueriesInOrder DEF CaseDetail
<1>5. CASE LoadExceptionCaseDetail
  <2>1. \/ view' = [view EXCEPT !.next = next, !.row = row]
        \/ view' = [view EXCEPT !.next = next, !.plans = plans,
                               !.classified = classifications > 0]
        \/ view' = [view EXCEPT !.next = next, !.decisions = decisions]
        \/ view' = [view EXCEPT !.next = next, !.evidence = evidence]
        \/ view' = [view EXCEPT !.next = next, !.executions = executions]
    BY <1>5 DEF LoadExceptionCaseDetail, GetExceptionCaseDetail,
       GetLatestAIRecords, ListApprovalDecisions, ListEvidenceRecords,
       ListExecutionRecords
  <2>2. PICK some \in BOOLEAN : some = (classifications > 0)
    BY <1>0
  <2> HIDE DEF Rows, Plans, Decisions, Evidence, Executions, Nexts, next
  <2> QED
    BY <1>4, <1>5, <2>1, <2>2
<1>6. CASE UNCHANGED view
  BY <1>4, <1>6
<1> QED
  BY <1>5, <1>6 DEF ViewNext, viewVars

LEMMA ViewTypeInvariance == ViewSpec => [](view \in CaseDetail)
<1>1. CaseInv /\ view \in CaseDetail /\ [ViewNext]_viewVars
        => (view \in CaseDetail)'
  BY ViewTypeStep DEF CaseInv
<1> QED
  BY <1>1, ViewTypeInit, ReadCaseInvariance, PTL DEF ViewSpec

(* A page holds rows and records of the case, at every query.              *)
THEOREM PagesAreTyped == ViewSpec => []ViewTypeOK
<1>1. CaseInv /\ view \in CaseDetail => ViewTypeOK
  BY DEF CaseInv, TypeInv, ViewTypeOK
<1> QED
  BY <1>1, ReadCaseInvariance, ViewTypeInvariance, PTL

-----------------------------------------------------------------------------
(* Verdicts. A page that says approved or rejected is explained by a       *)
(* decision on it because the row is read first, decisions are only ever   *)
(* added, and the row never shows a verdict nobody has given (RowVerdict). *)

PageVerdict ==
    view.row.approval \in Verdicts =>
        /\ view.next \in 2 .. 3 => Given(decisions, view.row.approval)
        /\ view.next > 3 => Given(view.decisions, view.row.approval)

LEMMA PageVerdictStep ==
    ASSUME TypeInv, RowVerdict, view \in CaseDetail, PageVerdict,
           [ViewNext]_viewVars
    PROVE  PageVerdict'
<1>0. view.next \in 1 .. 6
  BY QueriesInOrder DEF CaseDetail
<1>1. ASSUME NEW n \in 1 .. 5, QueryStep(n)
      PROVE  PageVerdict'
  BY <1>1 DEF QueryStep, PageVerdict, RowVerdict, vars, tables
<1>2. ASSUME UNCHANGED view, [Next]_vars
      PROVE  PageVerdict'
  BY <1>2, GivenStays DEF PageVerdict
<1> QED
  BY <1>1, <1>2, ViewSteps

LEMMA PageVerdictInvariance == ViewSpec => []PageVerdict
<1>1. ViewInit => PageVerdict
  BY DEF ViewInit, PageVerdict
<1>2. CaseInv /\ RowVerdict /\ view \in CaseDetail /\ PageVerdict
        /\ [ViewNext]_viewVars => PageVerdict'
  BY PageVerdictStep DEF CaseInv
<1> QED
  BY <1>1, <1>2, ReadCaseInvariance, ReadersAreHarmless, RowVerdictInvariance,
     ViewTypeInvariance, PTL DEF ViewSpec

(* An outcome of the review is never shown without a decision behind it,   *)
(* although the history is read after the row and may grow in between.     *)
THEOREM VerdictsAreExplained == ViewSpec => []VerdictIsShown
<1>1. view \in CaseDetail /\ PageVerdict => VerdictIsShown
  BY QueriesInOrder DEF PageVerdict, Verdicts, VerdictIsShown, Shown, Given,
     CaseDetail
<1> QED
  BY <1>1, ViewTypeInvariance, PageVerdictInvariance, PTL

(* The newest decision on the page is the verdict on the page, until a     *)
(* lost attempt has reopened the gate: without one there is no second      *)
(* decision (DecisionsPerGate), and what is on the page is a beginning of  *)
(* the history of the case.                                                *)
PageHistory == view.next > 3 => Len(view.decisions) <= Len(decisions)

LEMMA PageHistoryStep ==
    ASSUME TypeInv, view \in CaseDetail, PageHistory, [ViewNext]_viewVars
    PROVE  PageHistory'
<1>0. /\ view.next \in 1 .. 6 /\ Len(view.decisions) \in Nat
      /\ Len(decisions) \in Nat
  BY QueriesInOrder DEF CaseDetail, TypeInv, TypeOK
<1>1. ASSUME NEW n \in 1 .. 5, QueryStep(n)
      PROVE  PageHistory'
  BY <1>0, <1>1 DEF QueryStep, PageHistory, vars, tables
<1>2. ASSUME UNCHANGED view, [Next]_vars
      PROVE  PageHistory'
  <2>1. Len(decisions) <= Len(decisions') /\ Len(decisions') \in Nat
    BY <1>2, DecisionsGrow, TypeStep DEF TypeInv, TypeOK
  <2> QED
    BY <1>0, <1>2, <2>1 DEF PageHistory
<1> QED
  BY <1>1, <1>2, ViewSteps

LEMMA PageHistoryInvariance == ViewSpec => []PageHistory
<1>1. ViewInit => PageHistory
  BY DEF ViewInit, PageHistory
<1>2. CaseInv /\ view \in CaseDetail /\ PageHistory /\ [ViewNext]_viewVars
        => PageHistory'
  BY PageHistoryStep DEF CaseInv
<1> QED
  BY <1>1, <1>2, ReadCaseInvariance, ViewTypeInvariance, PTL DEF ViewSpec

(* The form that repeats a signal posts the verdict the page shows.        *)
THEOREM RetriesRepeatThePage == ViewSpec => []RetryRepeatsWhatIsShown
<1>1. CaseInv /\ view \in CaseDetail /\ PageVerdict /\ PageHistory
        => RetryRepeatsWhatIsShown
  <2> SUFFICES ASSUME CaseInv, view \in CaseDetail, PageVerdict, PageHistory,
                      Shown, OffersRetry, faults = 0
               PROVE  TargetState(Last(view.decisions)) = view.row.approval
    BY DEF RetryRepeatsWhatIsShown
  <2>1. view.next > 3 /\ view.decisions \in Seq(ApprovalDecisionType)
    BY QueriesInOrder DEF Shown, CaseDetail
  <2>2. Len(decisions) <= 1 /\ Len(decisions) \in Nat
    BY DEF CaseInv, DecisionsPerGate, Current, TypeInv, TypeOK
  <2>3. Len(view.decisions) <= 1
    BY <2>1, <2>2 DEF PageHistory
  <2>4. PICK i \in DOMAIN view.decisions :
          TargetState(view.decisions[i]) = view.row.approval
    BY <2>1 DEF PageVerdict, OffersRetry, Verdicts, Given
  <2>5. i = 1 /\ Len(view.decisions) = 1
    <3>1. PICK n \in Nat : n = Len(view.decisions)
      BY <2>1
    <3>2. i \in 1 .. n /\ n <= 1
      BY <2>1, <2>3, <2>4, <3>1
    <3>3. i = 1 /\ n = 1
      BY <3>2
    <3> QED
      BY <3>1, <3>3
  <2> QED
    BY <2>4, <2>5 DEF Last
<1> QED
  BY <1>1, ReadCaseInvariance, ViewTypeInvariance, PageVerdictInvariance,
     PageHistoryInvariance, PTL

-----------------------------------------------------------------------------
(* Outcomes. The execution state on the page was read three commits and    *)
(* four queries apart from the records that have to back it. Once a row    *)
(* shows an outcome nobody executes any more (ResultInv), so that the      *)
(* records read later are the records there were: what the page says stays *)
(* backed by the tables until the tables are read.                         *)

PageOutcome ==
    /\ view.next \in 2 .. 5 => Backed(view.row.execution)
    /\ view.next > 3 /\ view.row.execution = "skipped" =>
         \E i \in DOMAIN view.decisions : view.decisions[i] = "rejected"
    /\ view.next > 5 =>
         /\ view.row.execution = "started" => view.executions # <<>>
         /\ view.row.execution \in {"succeeded", "failed"} =>
              /\ Len(view.executions) = 1
              /\ view.executions[1].status = view.row.execution
         /\ view.row.execution = "skipped" => view.executions = <<>>

LEMMA PageOutcomeStep ==
    ASSUME TypeInv, OnceInv, ResultInv, view \in CaseDetail, PageOutcome,
           [ViewNext]_viewVars
    PROVE  PageOutcome'
<1>0. view.next \in 1 .. 6
  BY QueriesInOrder DEF CaseDetail
<1> DEFINE e == view.row.execution
<1>1. ASSUME NEW n \in 1 .. 5, QueryStep(n)
      PROVE  PageOutcome'
  <2>0. /\ view.next = n /\ view'.next = n + 1
        /\ UNCHANGED <<row, decisions, executions, wf, attempts>>
    BY <1>1 DEF QueryStep, vars, tables
  <2>1. \A x : Backed(x)' <=> Backed(x)
    BY <2>0 DEF Backed, Ended, Executing, Rejected
  <2>2. CASE n = 1
    <3>1. view'.row = row /\ view'.next = 2
      BY <1>1, <2>0, <2>2 DEF QueryStep
    <3>2. Backed(row.execution)
      BY DEF ResultInv
    <3>3. PICK x : x = row.execution
      OBVIOUS
    <3>4. Backed(x)' /\ view'.row.execution = x
      BY <2>1, <3>1, <3>2, <3>3
    <3>5. Backed(view.row.execution)'
      BY <3>4
    <3> QED
      BY <3>1, <3>5 DEF PageOutcome
  <2>3. CASE n \in 2 .. 5
    <3>0. view'.row = view.row
      BY <1>1, <2>3 DEF QueryStep
    <3>1. PICK x : x = view.row.execution
      OBVIOUS
    <3>2. Backed(x)
      BY <2>0, <2>3, <3>1 DEF PageOutcome
    <3>3. Backed(view.row.execution)'
      BY <2>1, <3>0, <3>1, <3>2
    <3>4. view'.next > 3 /\ x = "skipped" =>
            \E i \in DOMAIN view'.decisions : view'.decisions[i] = "rejected"
      <4>1. CASE n = 2
        BY <2>0, <4>1
      <4>2. CASE n = 3
        BY <1>1, <3>2, <4>2 DEF QueryStep, Backed, Rejected
      <4>3. CASE n \in 4 .. 5
        BY <1>1, <2>0, <3>1, <4>3 DEF QueryStep, PageOutcome
      <4> QED
        BY <2>3, <4>1, <4>2, <4>3
    <3>5. view'.next > 5 => n = 5 /\ view'.executions = executions
      BY <1>1, <2>0, <2>3 DEF QueryStep
    <3> QED
      BY <3>0, <3>1, <3>2, <3>3, <3>4, <3>5 DEF PageOutcome, Backed
  <2> QED
    BY <2>2, <2>3
<1>2. ASSUME UNCHANGED view, [Next]_vars
      PROVE  PageOutcome'
  <2>1. PICK x : x = view.row.execution
    OBVIOUS
  <2>2. view.next \in 2 .. 5 => Backed(x)'
    BY <1>2, <2>1, BackedStays DEF PageOutcome
  <2>3. view'.next \in 2 .. 5 => Backed(view.row.execution)'
    BY <1>2, <2>1, <2>2
  <2> QED
    BY <1>2, <2>3 DEF PageOutcome
<1> QED
  BY <1>1, <1>2, ViewSteps

LEMMA PageOutcomeInvariance == ViewSpec => []PageOutcome
<1>1. ViewInit => PageOutcome
  BY DEF ViewInit, PageOutcome
<1>2. CaseInv /\ ResultInv /\ view \in CaseDetail /\ PageOutcome
        /\ [ViewNext]_viewVars => PageOutcome'
  BY PageOutcomeStep DEF CaseInv
<1> QED
  BY <1>1, <1>2, ReadCaseInvariance, ReadersAreHarmless, ResultInvariance,
     ViewTypeInvariance, PTL DEF ViewSpec

(* The execution state on a page is backed by the records on the same      *)
(* page, whatever is committed between the queries.                        *)
THEOREM OutcomesAreBacked == ViewSpec => []OutcomeIsShown
<1>1. view \in CaseDetail /\ PageOutcome => OutcomeIsShown
  <2> SUFFICES ASSUME view \in CaseDetail, PageOutcome, Shown
               PROVE  OutcomeIsShown
    BY DEF OutcomeIsShown
  <2>1. view.next > 5 /\ view.next > 3
    BY QueriesInOrder DEF Shown, CaseDetail
  <2>2. view.row.execution \in {"succeeded", "failed"} =>
          /\ view.executions # <<>>
          /\ Last(view.executions).status = view.row.execution
    <3>1. Len(view.executions) = 1 => view.executions # <<>>
      <4> SUFFICES ASSUME view.executions = <<>> PROVE Len(view.executions) = 0
        OBVIOUS
      <4>1. Len(<<>>) = 0
        OBVIOUS
      <4> QED
        BY <4>1
    <3> QED
      BY <2>1, <3>1 DEF PageOutcome, Last
  <2> QED
    BY <2>1, <2>2 DEF PageOutcome, OutcomeIsShown
<1> QED
  BY <1>1, ViewTypeInvariance, PageOutcomeInvariance, PTL

-----------------------------------------------------------------------------
(* What is reviewed. A page that offers the decision forms was begun after *)
(* the gate. By then the case is classified and has a plan, and nobody     *)
(* adds evidence any more. A late attempt may still add a plan; but an     *)
(* executor takes the newest, and while no decision is on the page none    *)
(* has taken any, so that no action is older than the plan on the page.    *)

ClassifiedInv ==
    /\ wf.step \notin {"collect_evidence", "classify_exception"}
         => classifications > 0
    /\ \A s \in Slots :
         Doing(s, "classify_exception") /\ attempts[s].pc = "returned"
           => classifications > 0
PlannedInv ==
    /\ wf.step \in FromGate => plans # <<>>
    /\ \A s \in Slots :
         Doing(s, "generate_remediation_plan") /\ attempts[s].pc = "returned"
           => plans # <<>>

(* The action is that of one of the plans from the n-th on.                *)
NotOlder(n, history, action) ==
    \E j \in n .. Len(history) : action = PermittedAction(history[j])
ActionsNotOlder(n) ==
    /\ \A s \in Slots :
         Executing(s) /\ attempts[s].pc \in {"create", "mark", "call"}
           => NotOlder(n, plans, attempts[s].action)
    /\ \A i \in DOMAIN executions : NotOlder(n, plans, executions[i].action)

PageReview ==
    view.row.approval = "pending" =>
        /\ view.next > 1 => wf.step \in FromGate /\ row.risk # "low"
        /\ view.next > 2 =>
             /\ view.classified
             /\ Len(view.plans) \in 1 .. Len(plans)
        /\ view.next > 3 /\ view.decisions = <<>> =>
             ActionsNotOlder(Len(view.plans))
        /\ view.next > 4 => view.evidence = evidence

LEMMA ClassifiedOnlyGrows ==
    ASSUME TypeInv, [Next]_vars
    PROVE  classifications > 0 => classifications' > 0
<1>1. classifications \in Nat
  BY DEF TypeInv, TypeOK
<1>2. classifications' \in {classifications, classifications + 1}
  BY DEF Next, ApiStep, AttemptStep, WorkflowStep, Fault, vars, tables, reviewed,
     StartWorkflow, StartRefused, LinkWorkflow, IngestDies, CheckDecision,
     RecordDecision, RetryDecision, SignalDelivered, SignalFails,
     CollectEvidence, StoreEvidenceItem, ClassifyException,
     GenerateRemediationPlan, EvaluateApprovalGate, FinalizeApprovalDecision,
     ApplyDecision, FinalizeRaises, ReadCase, SkipExecution, BlockExecution,
     CreateExecutionRecord, MarkStarted, AdapterMisconfigured, CallAdapter,
     RecordOutcome, CloseCase, ResultDiscarded, WorkflowAdvances, WaitSatisfied,
     WorkflowCompletes, RetryAfterError, AttemptLost
<1> QED
  BY <1>1, <1>2

(* The workflow leaves classify_exception with the result of an attempt.   *)
LEMMA ClassifiedInvStep ==
    ASSUME TypeInv, OnceInv, ClassifiedInv, [Next]_vars
    PROVE  ClassifiedInv'
<1>0. /\ TypeOK /\ Current \in Slots /\ attempts \in [Slots -> Attempt]
      /\ classifications \in Nat
  BY CurrentIsSlot DEF TypeInv, TypeOK
<1>1. CASE UNCHANGED vars \/ ApiStep \/ WorkflowStep \/ Fault
  <2>1. \A s \in Slots :
          (Doing(s, "classify_exception") /\ attempts[s].pc = "returned")'
             => classifications' > 0
    BY <1>1, OffTheWorker, ClassifiedOnlyGrows
    DEF Untouched, Doing, ClassifiedInv
  <2>2. CASE WorkflowAdvances
    <3>1. /\ wf.step = attempts[Current].act
          /\ attempts[Current].pc = "returned"
          /\ wf'.step = NextStep(wf.step)
      BY <1>0, <2>2 DEF WorkflowAdvances, OnceInv, StepKnown, IdleMeansNone,
         TypeOK
    <3>2. wf'.step \notin {"collect_evidence", "classify_exception"}
            => wf.step # "collect_evidence"
      BY <3>1 DEF NextStep
    <3>3. wf.step = "classify_exception" => classifications > 0
      BY <1>0, <3>1 DEF ClassifiedInv, Doing
    <3>4. wf.step \notin {"collect_evidence", "classify_exception"}
            => classifications > 0
      BY DEF ClassifiedInv
    <3> QED
      BY <2>1, <3>2, <3>3, <3>4, ClassifiedOnlyGrows DEF ClassifiedInv
  <2>3. CASE ~WorkflowAdvances
    <3>1. wf'.step = wf.step \/ wf.step = "wait"
      BY <1>0, <1>1, <2>3 DEF vars, ApiStep, WorkflowStep, Fault, AttemptLost,
         StartWorkflow, StartRefused, LinkWorkflow, IngestDies, CheckDecision,
         RecordDecision, RetryDecision, SignalDelivered, SignalFails,
         WaitSatisfied, WorkflowCompletes, RetryAfterError, TypeOK
    <3> QED
      BY <2>1, <3>1, ClassifiedOnlyGrows DEF ClassifiedInv
  <2> QED
    BY <2>2, <2>3
<1>2. ASSUME NEW s \in Slots, AttemptStep(s)
      PROVE  ClassifiedInv'
  <2>1. CASE ClassifyException(s)
    <3>1. classifications' > 0
      BY <1>0, <2>1 DEF ClassifyException
    <3> QED
      BY <3>1 DEF ClassifiedInv
  <2>2. CASE ~ClassifyException(s)
    <3>1. ~Doing(s, "classify_exception") \/ ResultDiscarded(s)
      BY <1>2, <2>2 DEF AttemptStep, At, Doing, CollectEvidence,
         StoreEvidenceItem, GenerateRemediationPlan, EvaluateApprovalGate,
         FinalizeApprovalDecision, ApplyDecision, FinalizeRaises, ReadCase,
         SkipExecution, BlockExecution, CreateExecutionRecord, MarkStarted,
         AdapterMisconfigured, CallAdapter, RecordOutcome, CloseCase
    <3>2. attempts'[s].act # "classify_exception"
      BY <1>0, <1>2, <3>1, ByTheWorker, IdleType DEF ResultDiscarded, Doing
    <3> QED
      BY <1>2, <3>2, ByTheWorker, ClassifiedOnlyGrows DEF ClassifiedInv, Doing
  <2> QED
    BY <2>1, <2>2
<1> QED
  BY <1>1, <1>2 DEF Next

LEMMA ClassifiedInvariance == Spec => []ClassifiedInv
<1>1. Init => ClassifiedInv
  BY IdleType DEF Init, NewCase, ClassifiedInv, Doing
<1>2. CaseInv /\ ClassifiedInv /\ [Next]_vars => ClassifiedInv'
  BY ClassifiedInvStep DEF CaseInv
<1> QED
  BY <1>1, <1>2, CaseInvariance, PTL DEF Spec

(* It leaves generate_remediation_plan in the same way with a plan; and    *)
(* plans are only ever added.                                              *)
LEMMA WritersOfPlans ==
    ASSUME [Next]_vars
    PROVE  plans' = plans \/ \E s \in Slots : GenerateRemediationPlan(s)
BY DEF Next, ApiStep, AttemptStep, WorkflowStep, Fault, vars, tables, reviewed,
   StartWorkflow, StartRefused, LinkWorkflow, IngestDies, CheckDecision,
   RecordDecision, RetryDecision, SignalDelivered, SignalFails, CollectEvidence,
   StoreEvidenceItem, ClassifyException, EvaluateApprovalGate,
   FinalizeApprovalDecision, ApplyDecision, FinalizeRaises, ReadCase,
   SkipExecution, BlockExecution, CreateExecutionRecord, MarkStarted,
   AdapterMisconfigured, CallAdapter, RecordOutcome, CloseCase,
   ResultDiscarded, WorkflowAdvances, WaitSatisfied, WorkflowCompletes,
   RetryAfterError, AttemptLost

LEMMA PlansGrow ==
    ASSUME TypeInv, [Next]_vars
    PROVE  /\ Len(plans) \in Nat /\ Len(plans') \in Nat
           /\ Len(plans) <= Len(plans')
           /\ \A j \in 1 .. Len(plans) : plans'[j] = plans[j]
           /\ plans # <<>> => plans' # <<>>
<1>1. plans \in Seq(Advice)
  BY DEF TypeInv, TypeOK
<1>2. CASE plans' = plans
  BY <1>1, <1>2
<1>3. ASSUME NEW s \in Slots, GenerateRemediationPlan(s)
      PROVE  \E advice \in Advice : plans' = Append(plans, advice)
  BY <1>3, DomainsHold DEF GenerateRemediationPlan, Domains, Advice
<1>4. ASSUME NEW advice \in Advice, plans' = Append(plans, advice)
      PROVE  /\ Len(plans) \in Nat /\ Len(plans') \in Nat
             /\ Len(plans) <= Len(plans')
             /\ \A j \in 1 .. Len(plans) : plans'[j] = plans[j]
             /\ plans' # <<>>
  <2>1. Len(plans') = Len(plans) + 1 /\ Len(plans) \in Nat
    BY <1>1, <1>4
  <2>2. \A j \in 1 .. Len(plans) : plans'[j] = plans[j]
    BY <1>1, <1>4
  <2>3. plans' # <<>>
    BY <1>1, <1>4
  <2> QED
    BY <2>1, <2>2, <2>3
<1> QED
  BY <1>2, <1>3, <1>4, WritersOfPlans

LEMMA PlannedInvStep ==
    ASSUME TypeInv, OnceInv, PlannedInv, [Next]_vars
    PROVE  PlannedInv'
<1>0. TypeOK /\ Current \in Slots /\ attempts \in [Slots -> Attempt]
  BY CurrentIsSlot DEF TypeInv, TypeOK
<1>1. CASE UNCHANGED vars \/ ApiStep \/ WorkflowStep \/ Fault
  <2>1. \A s \in Slots :
          (Doing(s, "generate_remediation_plan") /\ attempts[s].pc = "returned")'
             => plans' # <<>>
    BY <1>1, OffTheWorker, PlansGrow DEF Untouched, Doing, PlannedInv
  <2>2. CASE WorkflowAdvances
    <3>1. /\ wf.step = attempts[Current].act
          /\ attempts[Current].pc = "returned"
          /\ wf'.step = NextStep(wf.step)
      BY <1>0, <2>2 DEF WorkflowAdvances, OnceInv, StepKnown, IdleMeansNone,
         TypeOK
    <3>2. wf'.step \in FromGate =>
            wf.step = "generate_remediation_plan" \/ wf.step \in FromGate
      BY <3>1, <1>0 DEF NextStep, FromGate, FromFinalize, TypeOK, Step, Activity
    <3>3. wf.step = "generate_remediation_plan" => plans # <<>>
      BY <1>0, <3>1 DEF PlannedInv, Doing
    <3> QED
      BY <2>1, <3>2, <3>3, PlansGrow DEF PlannedInv
  <2>3. CASE ~WorkflowAdvances
    <3>1. wf'.step = wf.step \/ wf.step = "wait"
      BY <1>0, <1>1, <2>3 DEF vars, ApiStep, WorkflowStep, Fault, AttemptLost,
         StartWorkflow, StartRefused, LinkWorkflow, IngestDies, CheckDecision,
         RecordDecision, RetryDecision, SignalDelivered, SignalFails,
         WaitSatisfied, WorkflowCompletes, RetryAfterError, TypeOK
    <3>2. wf.step = "wait" => wf.step \in FromGate
      BY DEF FromGate
    <3> QED
      BY <2>1, <3>1, <3>2, PlansGrow DEF PlannedInv
  <2> QED
    BY <2>2, <2>3
<1>2. ASSUME NEW s \in Slots, AttemptStep(s)
      PROVE  PlannedInv'
  <2>1. CASE GenerateRemediationPlan(s)
    <3>1. plans \in Seq(Advice)
      BY <1>0 DEF TypeOK
    <3>2. plans' # <<>>
      BY <3>1, <2>1 DEF GenerateRemediationPlan
    <3> QED
      BY <3>2 DEF PlannedInv
  <2>2. CASE ~GenerateRemediationPlan(s)
    <3>1. ~Doing(s, "generate_remediation_plan") \/ ResultDiscarded(s)
      BY <1>2, <2>2 DEF AttemptStep, At, Doing, CollectEvidence,
         StoreEvidenceItem, ClassifyException, EvaluateApprovalGate,
         FinalizeApprovalDecision, ApplyDecision, FinalizeRaises, ReadCase,
         SkipExecution, BlockExecution, CreateExecutionRecord, MarkStarted,
         AdapterMisconfigured, CallAdapter, RecordOutcome, CloseCase
    <3>2. attempts'[s].act # "generate_remediation_plan"
      BY <1>0, <1>2, <3>1, ByTheWorker, IdleType DEF ResultDiscarded, Doing
    <3> QED
      BY <1>2, <3>2, ByTheWorker, PlansGrow DEF PlannedInv, Doing
  <2> QED
    BY <2>1, <2>2
<1> QED
  BY <1>1, <1>2 DEF Next

LEMMA PlannedInvariance == Spec => []PlannedInv
<1>1. Init => PlannedInv
  BY IdleType DEF Init, NewCase, PlannedInv, Doing, FromGate, FromFinalize
<1>2. CaseInv /\ PlannedInv /\ [Next]_vars => PlannedInv'
  BY PlannedInvStep DEF CaseInv
<1> QED
  BY <1>1, <1>2, CaseInvariance, PTL DEF Spec

(* Nobody adds to the evidence that has been reviewed.                     *)
LEMMA EvidenceIsComplete ==
    ASSUME TypeInv, OnceInv, ReachedInv, wf.step \in FromGate, [Next]_vars
    PROVE  evidence' = evidence /\ wf'.step \in FromGate
<1>1. wf.step # "collect_evidence"
  BY DEF FromGate, FromFinalize
<1>2. evidence' = evidence
  BY <1>1, WritersOfEvidence DEF ReachedInv, Reached
<1> QED
  BY <1>2, StepsForward

(* An action that is not older than a plan stays so.                       *)
LEMMA NotOlderStays ==
    ASSUME TypeInv, [Next]_vars, NEW n \in Nat \ {0}, NEW action,
           NotOlder(n, plans, action)
    PROVE  NotOlder(n, plans', action)
<1>1. PICK j \in n .. Len(plans) : action = PermittedAction(plans[j])
  BY DEF NotOlder
<1>2. j \in n .. Len(plans') /\ plans'[j] = plans[j]
  BY <1>1, PlansGrow
<1> QED
  BY <1>1, <1>2 DEF NotOlder

(* An executor takes the newest plan.                                      *)
LEMMA NewestIsNotOlder ==
    ASSUME TypeInv, NEW n \in Nat \ {0}, n <= Len(plans)
    PROVE  NotOlder(n, plans, PermittedAction(LatestAdvice))
<1>1. plans \in Seq(Advice)
  BY DEF TypeInv, TypeOK
<1>2. plans # <<>> /\ Len(plans) \in n .. Len(plans)
  BY <1>1
<1>3. LatestAdvice = plans[Len(plans)]
  BY <1>2 DEF LatestAdvice, Last
<1> QED
  BY <1>2, <1>3 DEF NotOlder

LEMMA ActionsNotOlderStep ==
    ASSUME TypeInv, OnceInv, NEW n \in Nat \ {0}, n <= Len(plans),
           ActionsNotOlder(n), [Next]_vars
    PROVE  ActionsNotOlder(n)'
<1>0. /\ attempts \in [Slots -> Attempt] /\ executions \in Seq(ExecutionRecord)
  BY DEF TypeInv, TypeOK
<1> DEFINE Fine(a) == NotOlder(n, plans', a)
<1>1. \A a : NotOlder(n, plans, a) => Fine(a)
  BY NotOlderStays
<1>2. /\ \A s \in Slots :
           Executing(s) /\ attempts[s].pc \in {"create", "mark", "call"}
             => Fine(attempts[s].action)
      /\ \A i \in DOMAIN executions : Fine(executions[i].action)
  BY <1>1 DEF ActionsNotOlder
<1> SUFFICES /\ \A t \in Slots :
                  /\ attempts'[t].act = "execute_action"
                  /\ attempts'[t].pc \in {"create", "mark", "call"}
                  => Fine(attempts'[t].action)
             /\ \A i \in DOMAIN executions' : Fine(executions'[i].action)
  BY DEF ActionsNotOlder, Executing
<1>3. Fine(PermittedAction(LatestAdvice))
  BY <1>1, NewestIsNotOlder
<1> HIDE DEF Fine
<1>4. CASE UNCHANGED vars \/ ApiStep \/ WorkflowStep \/ Fault
  <2>1. executions' = executions
    BY <1>4 DEF vars, tables, ApiStep, WorkflowStep, Fault, StartWorkflow,
       StartRefused, LinkWorkflow, IngestDies, CheckDecision, RecordDecision,
       RetryDecision, SignalDelivered, SignalFails, WorkflowAdvances,
       WaitSatisfied, WorkflowCompletes, RetryAfterError, AttemptLost
  <2> QED
    BY <1>2, <1>4, <2>1, OffTheWorker DEF Untouched, Executing
<1>5. ASSUME NEW s \in Slots, AttemptStep(s), ~Executing(s)
      PROVE  /\ executions' = executions
             /\ attempts'[s].act # "execute_action"
             /\ \A t \in Slots : t # s => attempts'[t] = attempts[t]
  <2>1. executions' = executions
    BY <1>5 DEF Executing, AttemptStep, At, CollectEvidence,
       StoreEvidenceItem, ClassifyException, GenerateRemediationPlan,
       EvaluateApprovalGate, FinalizeApprovalDecision, ApplyDecision,
       FinalizeRaises, ReadCase, SkipExecution, BlockExecution,
       CreateExecutionRecord, MarkStarted, AdapterMisconfigured, CallAdapter,
       RecordOutcome, CloseCase, ResultDiscarded, tables
  <2> QED
    BY <1>5, <2>1, ByTheWorker DEF Executing
<1>6. ASSUME NEW s \in Slots, AttemptStep(s), Executing(s)
      PROVE  /\ attempts'[s].pc \in {"create", "mark", "call"}
                  => Fine(attempts'[s].action)
             /\ \A i \in DOMAIN executions' : Fine(executions'[i].action)
  <2>1. attempts[s] \in Attempt
    BY <1>0
  <2>2. attempts[s].pc \in {"create", "mark", "call"} => Fine(attempts[s].action)
    BY <1>2, <1>6
  <2>3. CASE ReadCase(s)
    <3>1. executions' = executions
      BY <2>3 DEF ReadCase, tables
    <3>2. CASE Goto(s, "returned")
      BY <1>2, <3>1, <3>2, SlotMoves
    <3>3. CASE ~Goto(s, "returned")
      <4> DEFINE d == ExecutionDecision(row.approval)
                 pc == IF d = "execute" THEN "create" ELSE d
                 a == PermittedAction(LatestAdvice)
      <4>1. attempts' = [attempts EXCEPT ![s].pc = pc, ![s].action = a]
        BY <2>3, <3>3 DEF ReadCase
      <4> HIDE DEF d, pc, a
      <4>2. attempts'[s].action = a
        BY <1>0, <2>1, <4>1 DEF Attempt
      <4> QED
        BY <1>2, <1>3, <3>1, <4>2 DEF a
    <3> QED
      BY <3>2, <3>3
  <2>4. CASE SkipExecution(s) \/ BlockExecution(s) \/ CloseCase(s)
    <3>1. Goto(s, "returned") /\ executions' = executions
      BY <2>4 DEF SkipExecution, BlockExecution, CloseCase
    <3> QED
      BY <1>2, <3>1, SlotMoves
  <2>5. CASE CreateExecutionRecord(s)
    <3>1. /\ attempts[s].pc = "create"
          /\ executions' = Append(executions, [action |-> attempts[s].action,
                                               status |-> "started"])
          /\ attempts' = [attempts EXCEPT ![s].pc = "mark",
                                          ![s].ref = Len(executions')]
      BY <2>5 DEF CreateExecutionRecord, At
    <3>2. attempts'[s].action = attempts[s].action
      BY <1>0, <2>1, <3>1 DEF Attempt
    <3>3. ASSUME NEW i \in DOMAIN executions'
          PROVE  Fine(executions'[i].action)
      <4>1. i \in 1 .. Len(executions) + 1 /\ Len(executions) \in Nat
        BY <1>0, <3>1
      <4>2. CASE i \in 1 .. Len(executions)
        <5>1. i \in DOMAIN executions /\ executions'[i] = executions[i]
          BY <1>0, <3>1, <4>2
        <5> QED
          BY <1>2, <5>1
      <4>3. CASE i = Len(executions) + 1
        <5>1. executions'[i].action = attempts[s].action
          BY <1>0, <3>1, <4>3
        <5> QED
          BY <2>2, <3>1, <5>1
      <4> QED
        BY <4>1, <4>2, <4>3
    <3> QED
      BY <2>2, <3>1, <3>2, <3>3
  <2>6. CASE MarkStarted(s)
    <3>1. /\ attempts[s].pc = "mark" /\ Goto(s, "call")
          /\ executions' = executions
      BY <2>6 DEF MarkStarted, At
    <3>2. attempts'[s].action = attempts[s].action
      BY <1>0, <2>1, <3>1 DEF Goto, Attempt
    <3> QED
      BY <1>2, <2>2, <3>1, <3>2
  <2>7. CASE AdapterMisconfigured(s) \/ CallAdapter(s)
    <3>1. /\ executions' = executions
          /\ \E outcome : attempts' = [attempts EXCEPT ![s].pc = "record",
                                                 ![s].outcome = outcome]
      BY <2>7 DEF AdapterMisconfigured, CallAdapter, tables
    <3>2. attempts'[s].pc = "record"
      BY <1>0, <2>1, <3>1 DEF Attempt
    <3> QED
      BY <1>2, <3>1, <3>2
  <2>8. CASE RecordOutcome(s)
    <3>1. /\ Goto(s, "close")
          /\ executions' =
               [executions EXCEPT ![attempts[s].ref].status = attempts[s].outcome]
      BY <2>8 DEF RecordOutcome
    <3>2. ASSUME NEW i \in DOMAIN executions'
          PROVE  Fine(executions'[i].action)
      <4>1. i \in DOMAIN executions
        BY <3>1
      <4>2. executions[i] \in ExecutionRecord
        BY <1>0, <4>1, ElementOfSeq
      <4>3. executions'[i].action = executions[i].action
        BY <3>1, <4>1, <4>2 DEF ExecutionRecord
      <4> QED
        BY <1>2, <4>1, <4>3
    <3> QED
      BY <3>1, <3>2, SlotMoves
  <2>9. CASE ResultDiscarded(s)
    <3>1. executions' = executions /\ attempts'[s].pc = "idle"
      BY <1>0, <2>9, IdleType DEF ResultDiscarded, tables
    <3> QED
      BY <1>2, <3>1
  <2> QED
    BY <1>6, <2>3, <2>4, <2>5, <2>6, <2>7, <2>8, <2>9
    DEF Executing, AttemptStep, At, CollectEvidence, StoreEvidenceItem,
       ClassifyException, GenerateRemediationPlan, EvaluateApprovalGate,
       FinalizeApprovalDecision, ApplyDecision, FinalizeRaises
<1>7. ASSUME NEW s \in Slots, AttemptStep(s)
      PROVE  /\ \A t \in Slots :
                  /\ attempts'[t].act = "execute_action"
                  /\ attempts'[t].pc \in {"create", "mark", "call"}
                  => Fine(attempts'[t].action)
             /\ \A i \in DOMAIN executions' : Fine(executions'[i].action)
  <2>1. \A t \in Slots : t # s => attempts'[t] = attempts[t]
    BY <1>7, ByTheWorker
  <2> QED
    BY <1>2, <1>5, <1>6, <1>7, <2>1 DEF Executing
<1> QED
  BY <1>4, <1>7 DEF Next

(* While the risk asks for a decision and there is none, nobody has        *)
(* executed anything or is about to.                                       *)
LEMMA NothingTakenYet ==
    ASSUME TypeInv, GateInv, row.risk # "low", decisions = <<>>, NEW n
    PROVE  ActionsNotOlder(n)
<1>1. ~Permitted
  BY DEF Permitted, Approved
<1>2. executions = <<>>
  BY <1>1 DEF GateInv, ExecutionNeedsApproval
<1>3. \A s \in Slots : attempts[s].pc \notin {"create", "mark", "call"}
  BY <1>1 DEF GateInv, ExecutorIsPermitted
<1> QED
  BY <1>2, <1>3 DEF ActionsNotOlder

LEMMA PageReviewStep ==
    ASSUME CaseInv, ClassifiedInv, PlannedInv, view \in CaseDetail, PageReview,
           [ViewNext]_viewVars
    PROVE  PageReview'
<1>0. /\ view.next \in 1 .. 6 /\ Len(view.plans) \in Nat
      /\ plans \in Seq(Advice) /\ TypeInv /\ OnceInv /\ GateInv /\ ReachedInv
      /\ GateHasRun
  BY QueriesInOrder DEF CaseDetail, CaseInv, TypeInv, TypeOK, HistoryInv
<1>1. ASSUME NEW n \in 1 .. 5, QueryStep(n), view'.row.approval = "pending"
      PROVE  PageReview'
  <2>0. /\ view.next = n /\ view'.next = n + 1
        /\ UNCHANGED <<row, plans, evidence, wf, executions, attempts>>
    BY <1>1 DEF QueryStep, vars, tables, reviewed
  <2>1. CASE n = 1
    <3>1. row.approval = "pending" => wf.step \in FromGate /\ row.risk # "low"
      BY <1>0 DEF GateHasRun, GateInv, StateMeansPolicy
    <3> QED
      BY <1>1, <2>0, <2>1, <3>1 DEF QueryStep, PageReview
  <2> SUFFICES ASSUME n \in 2 .. 5 PROVE PageReview'
    BY <2>1
  <2>2. /\ view'.row = view.row /\ wf.step \in FromGate /\ row.risk # "low"
        /\ n # 2 => /\ view'.classified = view.classified
                    /\ view'.plans = view.plans
        /\ n # 3 => view'.decisions = view.decisions
        /\ n # 4 => view'.evidence = view.evidence
    BY <1>1, <2>0 DEF QueryStep, PageReview
  <2>3. view'.classified /\ Len(view'.plans) \in 1 .. Len(plans)
    <3>1. CASE n = 2
      <4>1. classifications > 0 /\ plans # <<>>
        BY <2>2 DEF ClassifiedInv, PlannedInv, FromGate, FromFinalize
      <4>2. view'.plans = plans /\ view'.classified = (classifications > 0)
        BY <1>1, <3>1 DEF QueryStep
      <4>3. Len(plans) \in 1 .. Len(plans)
        BY <1>0, <4>1
      <4> QED
        BY <4>1, <4>2, <4>3
    <3>2. CASE n # 2
      BY <1>1, <2>0, <2>2, <3>2 DEF PageReview
    <3> QED
      BY <3>1, <3>2
  <2>4. n >= 3 /\ view'.decisions = <<>> => ActionsNotOlder(Len(view'.plans))
    <3>1. CASE n = 3
      <4>1. view'.decisions = decisions
        BY <1>1, <3>1 DEF QueryStep
      <4> QED
        BY <1>0, <2>2, <4>1, NothingTakenYet
    <3>2. CASE n \in 4 .. 5
      BY <1>1, <2>0, <2>2, <3>2 DEF PageReview
    <3> QED
      BY <3>1, <3>2
  <2>5. n >= 4 => view'.evidence = evidence
    <3>1. CASE n = 4
      BY <1>1, <3>1 DEF QueryStep
    <3>2. CASE n = 5
      BY <1>1, <2>0, <2>2, <3>2 DEF PageReview
    <3> QED
      BY <3>1, <3>2
  <2>6. ActionsNotOlder(Len(view'.plans)) => ActionsNotOlder(Len(view.plans))'
    <3>1. PICK k : k = Len(view'.plans)
      OBVIOUS
    <3> QED
      BY <2>0, <3>1 DEF ActionsNotOlder, Executing
  <2> QED
    BY <2>0, <2>2, <2>3, <2>4, <2>5, <2>6 DEF PageReview
<1>2. ASSUME UNCHANGED view, [Next]_vars
      PROVE  PageReview'
  <2>1. wf.step \in FromGate => evidence' = evidence /\ wf'.step \in FromGate
    BY <1>0, <1>2, EvidenceIsComplete
  <2>2. row'.risk = row.risk
    BY <1>0, <1>2, PermittedGrows
  <2>3. /\ view.next > 2 => view.next > 1
        /\ view.next > 3 => view.next > 2 /\ view.next > 1
        /\ view.next > 4 => view.next > 1
    BY <1>0
  <2>4. Len(plans) <= Len(plans') /\ Len(plans) \in Nat /\ Len(plans') \in Nat
    BY <1>0, <1>2, PlansGrow
  <2>5. PICK n : n = Len(view.plans)
    OBVIOUS
  <2>6. n \in 1 .. Len(plans) /\ ActionsNotOlder(n) => ActionsNotOlder(n)'
    <3> SUFFICES ASSUME n \in 1 .. Len(plans), ActionsNotOlder(n)
                 PROVE  ActionsNotOlder(n)'
      OBVIOUS
    <3>1. n \in Nat \ {0} /\ n <= Len(plans)
      BY <2>4
    <3> QED
      BY <1>0, <1>2, <3>1, ActionsNotOlderStep
  <2>7. n \in 1 .. Len(plans) => n \in 1 .. Len(plans')
    BY <2>4
  <2>8. ActionsNotOlder(n)' => ActionsNotOlder(Len(view.plans))'
    BY <1>2, <2>5 DEF ActionsNotOlder
  <2> QED
    BY <1>2, <2>1, <2>2, <2>3, <2>5, <2>6, <2>7, <2>8 DEF PageReview
<1>3. view'.row.approval # "pending" => PageReview'
  BY DEF PageReview
<1> QED
  BY <1>1, <1>2, <1>3, ViewSteps

LEMMA PageReviewInvariance == ViewSpec => []PageReview
<1>1. ViewInit => PageReview
  BY DEF ViewInit, PageReview
<1>2. CaseInv /\ ClassifiedInv /\ PlannedInv /\ view \in CaseDetail
        /\ PageReview /\ [ViewNext]_viewVars => PageReview'
  BY PageReviewStep
<1> QED
  BY <1>1, <1>2, ReadCaseInvariance, ReadersAreHarmless, ClassifiedInvariance,
     PlannedInvariance, ViewTypeInvariance, PTL DEF ViewSpec

(* What an operator decides on is complete, and what is carried out after  *)
(* a first decision is never older than the plan on the page, although a   *)
(* late answer of the model may be newer.                                  *)
THEOREM WhatIsReviewedIsExecuted == ViewSpec => []ReviewedIsExecuted
<1>1. view \in CaseDetail /\ PageReview => ReviewedIsExecuted
  <2> SUFFICES ASSUME view \in CaseDetail, PageReview, Shown, OffersDecision
               PROVE  /\ view.classified
                      /\ view.evidence = evidence
                      /\ view.plans # <<>>
                      /\ view.decisions = <<>> =>
                           \A i \in DOMAIN executions :
                             NotOlder(Len(view.plans), plans,
                                      executions[i].action)
    BY DEF ReviewedIsExecuted, NotOlder
  <2>1. view.next > 2 /\ view.next > 3 /\ view.next > 4
    BY QueriesInOrder DEF Shown, CaseDetail
  <2>2. view.classified /\ view.evidence = evidence
    BY <2>1 DEF PageReview, OffersDecision
  <2>3. view.plans # <<>>
    <3>1. Len(view.plans) \in 1 .. Len(plans)
      BY <2>1 DEF PageReview, OffersDecision
    <3>2. Len(<<>>) = 0
      OBVIOUS
    <3> QED
      BY <3>1, <3>2
  <2>4. view.decisions = <<>> => ActionsNotOlder(Len(view.plans))
    BY <2>1 DEF PageReview, OffersDecision
  <2> QED
    BY <2>2, <2>3, <2>4 DEF ActionsNotOlder
<1> QED
  BY <1>1, PageReviewInvariance, ViewTypeInvariance, PTL

=============================================================================
