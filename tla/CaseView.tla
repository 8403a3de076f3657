------------------------------ MODULE CaseView ------------------------------
(***************************************************************************)
(* What an operator is shown of a case: load_exception_case_detail reads   *)
(* the row, the model's records, the decisions, the evidence and the       *)
(* executions with one query each. The queries of a page run in a thread   *)
(* of the API, under PostgreSQL's READ COMMITTED, so every writer of       *)
(* CaseResolution may commit between two of them: a page mixes several     *)
(* states of the case. The page stays open while the case goes on. One     *)
(* reader is modelled, who opens one page at any time: reading changes no  *)
(* table and readers do not see each other.                                *)
(***************************************************************************)
EXTENDS CaseResolution

VARIABLE
    view              \* the next query, and what the queries have returned

viewVars == <<vars, view>>

(* Mutant of Queries: the row is read after the records that explain it.   *)
RowLast == <<"ai_records", "decisions", "evidence", "executions", "case">>

(* The order of the queries of a page.                                     *)
Queries == <<"case", "ai_records", "decisions", "evidence", "executions">>

CaseDetail ==
    [next: 1 .. (Len(Queries) + 1), row: CaseRow, plans: Seq(Advice),
     classified: BOOLEAN, decisions: Seq(ApprovalDecisionType),
     evidence: Seq(EvidenceStatus), executions: Seq(ExecutionRecord)]

ViewTypeOK == TypeOK /\ view \in CaseDetail

(* Nothing is read yet; what stands in the fields is not shown.            *)
ViewInit ==
    /\ Init
    /\ view = [next |-> 1, row |-> row, plans |-> <<>>, classified |-> FALSE,
               decisions |-> <<>>, evidence |-> <<>>, executions |-> <<>>]

Query(table) ==
    /\ view.next \in DOMAIN Queries
    /\ Queries[view.next] = table
    /\ UNCHANGED vars

GetExceptionCaseDetail ==
    /\ Query("case")
    /\ view' = [view EXCEPT !.next = @ + 1, !.row = row]

(* Both kinds come from one query; of each the newest is shown.            *)
GetLatestAIRecords ==
    /\ Query("ai_records")
    /\ view' = [view EXCEPT !.next = @ + 1, !.plans = plans,
                            !.classified = classifications > 0]

ListApprovalDecisions ==
    /\ Query("decisions")
    /\ view' = [view EXCEPT !.next = @ + 1, !.decisions = decisions]

ListEvidenceRecords ==
    /\ Query("evidence")
    /\ view' = [view EXCEPT !.next = @ + 1, !.evidence = evidence]

ListExecutionRecords ==
    /\ Query("executions")
    /\ view' = [view EXCEPT !.next = @ + 1, !.executions = executions]

LoadExceptionCaseDetail ==
    \/ GetExceptionCaseDetail \/ GetLatestAIRecords \/ ListApprovalDecisions
    \/ ListEvidenceRecords \/ ListExecutionRecords

ViewNext == LoadExceptionCaseDetail \/ (Next /\ UNCHANGED view)

ViewSpec == ViewInit /\ [][ViewNext]_viewVars
-----------------------------------------------------------------------------
(* The page.                                                               *)

Shown == view.next > Len(Queries)

(* The plan on the page: what the newest remediation record recommends; a  *)
(* failed or invalid one is shown as a failure and recommends nothing.     *)
LatestRemediation == IF view.plans = <<>> THEN NoAction ELSE Last(view.plans)

(* The forms an approver is offered: two to decide, or one to repeat the   *)
(* newest decision on the page.                                            *)
OffersDecision == view.row.approval = "pending"
OffersRetry ==
    /\ view.row.lifecycle = "started"
    /\ view.decisions # <<>>
    /\ view.row.approval \in {"approved", "rejected"}
-----------------------------------------------------------------------------
(* A page that says approved or rejected lists a decision that says so,    *)
(* although the history is read after the row and while decisions are      *)
(* being recorded: an outcome is never shown without who is behind it.     *)
VerdictIsShown ==
    Shown /\ view.row.approval \in {"approved", "rejected"} =>
        \E i \in DOMAIN view.decisions :
            TargetState(view.decisions[i]) = view.row.approval

(* The execution state on the page is backed by the execution records on   *)
(* the same page, which are read four queries later: a state of started or *)
(* later has a record, a final state is that record's, and a case that was *)
(* skipped has a rejection and no record.                                  *)
OutcomeIsShown ==
    Shown =>
        /\ view.row.execution \in {"started", "succeeded", "failed"}
             => view.executions # <<>>
        /\ view.row.execution \in {"succeeded", "failed"}
             => Last(view.executions).status = view.row.execution
        /\ view.row.execution = "skipped"
             => /\ view.executions = <<>>
                /\ \E i \in DOMAIN view.decisions : view.decisions[i] = "rejected"

(* What an operator is asked to decide on is complete, although the row is *)
(* read first: a page with the decision forms shows a classification, a    *)
(* plan and all the evidence there will ever be. And while nobody has      *)
(* decided, the action executed later is never older than the page: it is  *)
(* the plan shown there or an answer of the model that came after it.      *)
ReviewedIsExecuted ==
    Shown /\ OffersDecision =>
        /\ view.classified
        /\ view.evidence = evidence
        /\ view.plans # <<>>
        /\ view.decisions = <<>> =>
             \A i \in DOMAIN executions :
                \E j \in Len(view.plans) .. Len(plans) :
                    executions[i].action = PermittedAction(plans[j])

(* The form that repeats a signal posts the verdict the page shows as the  *)
(* state of the case, although the two come from different queries, unless *)
(* a lost attempt has reopened the gate.                                   *)
RetryRepeatsWhatIsShown ==
    Shown /\ OffersRetry /\ faults = 0
        => TargetState(Last(view.decisions)) = view.row.approval
-----------------------------------------------------------------------------
(* What the documents say and the code does not keep: README.md's "execute *)
(* approved actions". The action carried out for a case is the one on the  *)
(* page it was decided from, or manual triage when that page shows none. A *)
(* model call that outlives its timeout appends its plan after the page    *)
(* was read, and execute_action takes the newest.                          *)
ApprovedIsExecuted ==
    Shown /\ OffersDecision /\ view.decisions = <<>> =>
        \A i \in DOMAIN executions :
            executions[i].action = PermittedAction(LatestRemediation)
=============================================================================
