--------------------------- MODULE CaseResolution ---------------------------
(***************************************************************************)
(* One exception case, from the commit of its row to the end of its        *)
(* workflow. Four kinds of actor share the case:                           *)
(*   - the API process: the create_exception handler, and the approve and  *)
(*     reject handlers, whose only points of suspension are the calls to   *)
(*     the Temporal server (every database call in them is synchronous);   *)
(*   - the Temporal server (external), which runs the workflow's steps,    *)
(*     hands each activity to a worker, times attempts out and retries;    *)
(*   - the worker, which executes the six activities commit by commit;     *)
(*   - PostgreSQL, whose tables are the variables below.                   *)
(* Cases share no state, so one case stands for all of them.               *)
(*                                                                         *)
(* Everything between two commits, or between a commit and a call that     *)
(* leaves the process, is a point where another actor may run. A function  *)
(* that commits whatever it has read is one step; the two that commit      *)
(* because of what they have read (create_approval_decision and            *)
(* apply_approval_decision) are two steps, the read and the commit: they   *)
(* take no lock, and the API and the worker are different processes.       *)
(***************************************************************************)
EXTENDS Domain, Integers, Sequences

CONSTANTS
    Operators,        \* approve/reject requests that may be open at once
    MaxFaults,        \* activity attempts that may be lost in a behaviour
    LateActivities,   \* activities whose timed-out attempts may go on writing
    StartAmbiguous,   \* whether a start may be accepted and its reply lost
    EvidenceResults,  \* what the evidence adapter may return
    AdvisedActions    \* what the AI provider may recommend

ASSUME MaxFaultsAssumption == MaxFaults \in Nat
ASSUME SwitchesAssumption == StartAmbiguous \in BOOLEAN
ASSUME EvidenceAssumption == EvidenceResults \subseteq Seq(EvidenceStatus)
ASSUME AdviceAssumption == AdvisedActions \subseteq ExecutionAction

VARIABLES
    row,              \* the exception_cases row
    evidence,         \* the statuses of evidence_records, oldest first
    classifications,  \* the number of classification records
    plans,            \* the advice of the remediation records, oldest first
    decisions,        \* approval_decisions, oldest first; the index is the id
    executions,       \* execution_records, oldest first; the index is the id
    effects,          \* the actions handed to the execution adapter
    ingest,           \* where the create_exception handler is
    req,              \* per open request, the decision it is signalling or 0
    checked,          \* a decision found admissible and not yet committed
    wf,               \* the workflow: status, step, _approval_decision_id
    attempts,         \* the activity attempts, one slot per attempt lost + 1
    faults            \* how many attempts have been lost

api == <<ingest, req, checked>>
reviewed == <<evidence, classifications, plans>>
tables == <<row, reviewed, decisions, executions>>
vars == <<tables, effects, api, wf, attempts, faults>>

-----------------------------------------------------------------------------
(* Vocabulary of the control state.                                        *)

Activity ==
    {"collect_evidence", "classify_exception", "generate_remediation_plan",
     "evaluate_approval_gate", "finalize_approval_decision", "execute_action"}
Step == Activity \cup {"wait"}

ASSUME LateAssumption == LateActivities \subseteq Activity

(* The activities that await something: the evidence or the execution      *)
(* adapter, or the model, whose client waits ten minutes before it gives   *)
(* up. The server's thirty seconds pass without the attempt hearing of it, *)
(* and its retry runs beside it on the same event loop. The other two,     *)
(* which decide, are done in one go: on one worker their first attempt is  *)
(* over before its retry begins.                                           *)
Awaiting ==
    {"collect_evidence", "classify_exception", "generate_remediation_plan",
     "execute_action"}
OneWorker == LateActivities \subseteq Awaiting

(* Mutants of SingleAttempt: one of its retry policies is forgotten.       *)
ExecutionRetried == {"collect_evidence"}
EvidenceRetried == {"execute_action"}

(* The two activities scheduled with RetryPolicy(maximum_attempts=1); the  *)
(* others have Temporal's default policy, which retries without limit.     *)
SingleAttempt == {"collect_evidence", "execute_action"}

ExecutePc == {"skip", "block", "create", "mark", "call", "record", "close"}
Pc == {"idle", "ready", "store", "apply", "raised", "returned"} \cup ExecutePc

Slots == 1 .. (MaxFaults + 1)

(* The slot of the attempt whose result the server still waits for; the    *)
(* slots below it hold the attempts it has given up.                       *)
Current == faults + 1

CaseRow ==
    [risk: RiskLevel, status: ExceptionStatus,
     lifecycle: WorkflowLifecycleState, approval: ApprovalState,
     execution: ExecutionState, linked: BOOLEAN]

(* The two columns a decision sets, as a session has loaded them.          *)
DecisionColumns == [approval: ApprovalState, status: ExceptionStatus]
NothingLoaded == [approval |-> "pending_policy", status |-> "ingested"]
Loaded == [approval |-> row.approval, status |-> row.status]

(* The commit of a decision: the session's flush writes only the columns   *)
(* that differ from what was loaded, over what the row has become since.   *)
DecisionCommitted(loaded, target) ==
    [row EXCEPT !.approval = IF loaded.approval = target THEN @ ELSE target,
                !.status = IF loaded.status = "in_review" THEN @ ELSE "in_review"]

Attempt ==
    [act: Activity \cup {"none"}, pc: Pc, items: Seq(EvidenceStatus), ref: Nat,
     loaded: DecisionColumns, action: Advice,
     outcome: {"none", "failed", "succeeded"}]

Checked == [decision: ApprovalDecisionType \cup {"none"}, loaded: DecisionColumns]
NothingChecked == [decision |-> "none", loaded |-> NothingLoaded]

ExecutionRecord == [action: ExecutionAction, status: ExecutionRecordStatus]

Started(act, ref) ==
    [act |-> act, pc |-> "ready", items |-> <<>>, ref |-> ref,
     loaded |-> NothingLoaded, action |-> NoAction, outcome |-> "none"]
Idle == [Started("none", 0) EXCEPT !.pc = "idle"]

At(s, act, pc) == attempts[s].act = act /\ attempts[s].pc = pc
Goto(s, pc) == attempts' = [attempts EXCEPT ![s].pc = pc]
Last(seq) == seq[Len(seq)]

(* The advice of the newest remediation record, if there is one.           *)
LatestAdvice == IF plans = <<>> THEN NoAction ELSE Last(plans)

TypeOK ==
    /\ row \in CaseRow
    /\ evidence \in Seq(EvidenceStatus)
    /\ classifications \in Nat
    /\ plans \in Seq(Advice)
    /\ decisions \in Seq(ApprovalDecisionType)
    /\ executions \in Seq(ExecutionRecord)
    /\ effects \in Seq(ExecutionAction)
    /\ ingest \in {"persisted", "started", "refused", "done", "dead"}
    /\ req \in [Operators -> Nat]
    /\ checked \in Checked
    /\ wf \in [status: {"absent", "running", "completed", "failed"},
               step: Step, signal: Nat]
    /\ attempts \in [Slots -> Attempt]
    /\ faults \in 0 .. MaxFaults

(* A case as it has just been created, before any other step is taken.     *)
NewCase ==
    /\ row \in [risk: RiskLevel, status: {"ingested"}, lifecycle: {"started"},
                approval: {"pending_policy"}, execution: {"pending"},
                linked: {FALSE}]
    /\ evidence = <<>>
    /\ classifications = 0
    /\ plans = <<>>
    /\ decisions = <<>>
    /\ executions = <<>>
    /\ effects = <<>>
    /\ req = [o \in Operators |-> 0]
    /\ checked = NothingChecked
    /\ wf = [status |-> "absent", step |-> "collect_evidence", signal |-> 0]
    /\ faults = 0

(* create_exception has committed the row and is about to call Temporal.   *)
Init ==
    /\ NewCase
    /\ ingest = "persisted"
    /\ attempts = [s \in Slots |-> Idle]

-----------------------------------------------------------------------------
(* The API process: create_exception after its first commit.               *)

(* Temporal accepts the start and schedules the first activity. The reply  *)
(* may be lost: the handler then sees an RPCError although the workflow    *)
(* runs.                                                                   *)
StartWorkflow ==
    /\ ingest = "persisted"
    /\ \/ ingest' = "started"
       \/ StartAmbiguous /\ ingest' = "refused"
    /\ wf' = [wf EXCEPT !.status = "running"]
    /\ attempts' = [attempts EXCEPT ![Current] = Started("collect_evidence", 0)]
    /\ UNCHANGED <<tables, effects, req, checked, faults>>

StartRefused ==
    /\ ingest = "persisted"
    /\ ingest' = "refused"
    /\ UNCHANGED <<tables, effects, req, checked, wf, attempts, faults>>

(* The handler links the case, whatever the workflow has done meanwhile.   *)
LinkWorkflow ==
    /\ ingest \in {"started", "refused"}
    /\ row' = [row EXCEPT !.linked = TRUE,
                          !.lifecycle = IF ingest = "started" THEN "started"
                                                              ELSE "failed"]
    /\ ingest' = "done"
    /\ UNCHANGED <<reviewed, decisions, executions, effects, req, checked, wf,
                   attempts, faults>>

(* The process dies, or the call raises what the handler does not catch.   *)
IngestDies ==
    /\ ingest \in {"persisted", "started", "refused"}
    /\ ingest' = "dead"
    /\ UNCHANGED <<tables, effects, req, checked, wf, attempts, faults>>

-----------------------------------------------------------------------------
(* The API process: submit_approval_decision, up to the signal.            *)

(* Mutant of CheckDecision: a decided case takes further decisions.        *)
CheckNothing(d) ==
    /\ checked = NothingChecked
    /\ \E o \in Operators : req[o] = 0
    /\ row.linked
    /\ row.approval \in {"pending", "approved", "rejected"}
    /\ checked' = [decision |-> d, loaded |-> Loaded]
    /\ UNCHANGED <<tables, effects, ingest, req, wf, attempts, faults>>

(* A new decision: admissible only while the case waits for one. One API   *)
(* process serves all requests, and this handler does not suspend before   *)
(* it has committed: no other request is checked in between. (A process    *)
(* that dies in between has changed nothing.)                              *)
CheckDecision(d) ==
    /\ checked = NothingChecked
    /\ \E o \in Operators : req[o] = 0
    /\ row.linked
    /\ row.approval = "pending"
    /\ checked' = [decision |-> d, loaded |-> Loaded]
    /\ UNCHANGED <<tables, effects, ingest, req, wf, attempts, faults>>

RecordDecision(o) ==
    /\ req[o] = 0
    /\ checked # NothingChecked
    /\ decisions' = Append(decisions, checked.decision)
    /\ row' = DecisionCommitted(checked.loaded, TargetState(checked.decision))
    /\ req' = [req EXCEPT ![o] = Len(decisions')]
    /\ checked' = NothingChecked
    /\ UNCHANGED <<reviewed, executions, effects, ingest, wf, attempts, faults>>

(* Mutant of RetryAccepted: the history read from its wrong end.           *)
OldestDecisionCompared(d) ==
    /\ row.linked
    /\ row.approval = TargetState(d)
    /\ row.lifecycle = "started"
    /\ decisions # <<>>
    /\ decisions[1] = d

(* The same decision again, to repeat a signal that may not have arrived.  *)
RetryAccepted(d) ==
    /\ row.linked
    /\ row.approval = TargetState(d)
    /\ row.lifecycle = "started"
    /\ decisions # <<>>
    /\ Last(decisions) = d

RetryDecision(o, d) ==
    /\ req[o] = 0
    /\ checked = NothingChecked
    /\ RetryAccepted(d)
    /\ req' = [req EXCEPT ![o] = Len(decisions)]
    /\ UNCHANGED <<tables, effects, ingest, checked, wf, attempts, faults>>

(* The server accepts the signal and the workflow's handler stores the id; *)
(* whether the reply then reaches the API makes no difference to any state.*)
SignalDelivered(o) ==
    /\ req[o] # 0
    /\ wf.status = "running"
    /\ wf' = [wf EXCEPT !.signal = req[o]]
    /\ req' = [req EXCEPT ![o] = 0]
    /\ UNCHANGED <<tables, effects, ingest, checked, attempts, faults>>

(* No connection, no such running workflow, or the API process dies.       *)
SignalFails(o) ==
    /\ req[o] # 0
    /\ req' = [req EXCEPT ![o] = 0]
    /\ UNCHANGED <<tables, effects, ingest, checked, wf, attempts, faults>>

-----------------------------------------------------------------------------
(* The worker: collect_evidence.                                           *)

(* The adapter answers, or raises: then one failed COLLECTION_ATTEMPT      *)
(* record is what remains to be stored.                                    *)
CollectEvidence(s) ==
    /\ At(s, "collect_evidence", "ready")
    /\ \E items \in EvidenceResults \cup {<<"failed">>} :
         attempts' = [attempts EXCEPT
                        ![s].items = items,
                        ![s].pc = IF items = <<>> THEN "returned" ELSE "store"]
    /\ UNCHANGED <<tables, effects, api, wf, faults>>

(* One commit per item.                                                    *)
StoreEvidenceItem(s) ==
    /\ At(s, "collect_evidence", "store")
    /\ LET items == attempts[s].items IN
         /\ items # <<>>
         /\ evidence' = Append(evidence, Head(items))
         /\ attempts' = [attempts EXCEPT
                           ![s].items = Tail(items),
                           ![s].pc = IF Len(items) = 1 THEN "returned"
                                                       ELSE "store"]
    /\ UNCHANGED <<row, classifications, plans, decisions, executions, effects,
                   api, wf, faults>>

(* The worker: classify_exception and generate_remediation_plan. The model *)
(* call is between a read and the commit; what it answers is arbitrary, so *)
(* reading earlier allows nothing more than is allowed here.               *)
ClassifyException(s) ==
    /\ At(s, "classify_exception", "ready")
    /\ classifications' = classifications + 1
    /\ Goto(s, "returned")
    /\ UNCHANGED <<row, evidence, plans, decisions, executions, effects, api,
                   wf, faults>>

GenerateRemediationPlan(s) ==
    /\ At(s, "generate_remediation_plan", "ready")
    /\ \E advice \in AdvisedActions \cup {NoAction} :
         plans' = Append(plans, advice)
    /\ Goto(s, "returned")
    /\ UNCHANGED <<row, evidence, classifications, decisions, executions,
                   effects, api, wf, faults>>

(* The worker: evaluate_approval_gate writes the row whatever it holds.    *)
EvaluateApprovalGate(s) ==
    /\ At(s, "evaluate_approval_gate", "ready")
    /\ row' = [row EXCEPT
                 !.approval = IF RequiresApproval(row.risk) THEN "pending"
                                                            ELSE "not_required",
                 !.execution = "pending",
                 !.status = "in_review",
                 !.lifecycle = "started"]
    /\ Goto(s, "returned")
    /\ UNCHANGED <<reviewed, decisions, executions, effects, api, wf, faults>>

(* Mutant of Applicable: the state check too strict.                       *)
ApplicableToPendingOnly(id) ==
    id \in DOMAIN decisions /\ row.approval = "pending"

(* The worker: finalize_approval_decision applies the decision it was      *)
(* given, or raises when the case holds another one.                       *)
Applicable(id) ==
    /\ id \in DOMAIN decisions
    /\ row.approval \in {"pending", TargetState(decisions[id])}

FinalizeApprovalDecision(s) ==
    /\ At(s, "finalize_approval_decision", "ready")
    /\ Applicable(attempts[s].ref)
    /\ attempts' = [attempts EXCEPT ![s].pc = "apply", ![s].loaded = Loaded]
    /\ UNCHANGED <<tables, effects, api, wf, faults>>

ApplyDecision(s) ==
    /\ At(s, "finalize_approval_decision", "apply")
    /\ row' = DecisionCommitted(attempts[s].loaded,
                                TargetState(decisions[attempts[s].ref]))
    /\ Goto(s, "returned")
    /\ UNCHANGED <<reviewed, decisions, executions, effects, api, wf, faults>>

FinalizeRaises(s) ==
    /\ At(s, "finalize_approval_decision", "ready")
    /\ ~Applicable(attempts[s].ref)
    /\ Goto(s, "raised")
    /\ UNCHANGED <<tables, effects, api, wf, faults>>

-----------------------------------------------------------------------------
(* The worker: execute_action.                                             *)

(* update_exception_case_state as this activity calls it.                  *)
CaseMarked(execution, lifecycle, status) ==
    [row EXCEPT !.execution = execution, !.lifecycle = lifecycle,
                !.status = status]

(* Reads the case, its newest execution and its newest plan, and decides.  *)
ReadCase(s) ==
    /\ At(s, "execute_action", "ready")
    /\ LET decision == ExecutionDecision(row.approval) IN
         IF executions # <<>> /\ row.execution \in {"started", "succeeded"}
           THEN Goto(s, "returned")
           ELSE attempts' = [attempts EXCEPT
                  ![s].pc = IF decision = "execute" THEN "create" ELSE decision,
                  ![s].action = PermittedAction(LatestAdvice)]
    /\ UNCHANGED <<tables, effects, api, wf, faults>>

SkipExecution(s) ==
    /\ At(s, "execute_action", "skip")
    /\ row' = CaseMarked("skipped", "completed", "resolved")
    /\ Goto(s, "returned")
    /\ UNCHANGED <<reviewed, decisions, executions, effects, api, wf, faults>>

BlockExecution(s) ==
    /\ At(s, "execute_action", "block")
    /\ row' = CaseMarked("pending", "failed", "in_review")
    /\ Goto(s, "returned")
    /\ UNCHANGED <<reviewed, decisions, executions, effects, api, wf, faults>>

(* Mutant of CreateExecutionRecord: the record is built but not committed. *)
ExecutionRecordNotSaved(s) ==
    /\ At(s, "execute_action", "create")
    /\ Goto(s, "mark")
    /\ UNCHANGED <<tables, effects, api, wf, faults>>

CreateExecutionRecord(s) ==
    /\ At(s, "execute_action", "create")
    /\ executions' = Append(executions, [action |-> attempts[s].action,
                                         status |-> "started"])
    /\ attempts' = [attempts EXCEPT ![s].pc = "mark",
                                    ![s].ref = Len(executions')]
    /\ UNCHANGED <<row, reviewed, decisions, effects, api, wf, faults>>

MarkStarted(s) ==
    /\ At(s, "execute_action", "mark")
    /\ row' = CaseMarked("started", "started", "in_review")
    /\ Goto(s, "call")
    /\ UNCHANGED <<reviewed, decisions, executions, effects, api, wf, faults>>

(* The adapter cannot be built: nothing leaves the process.                *)
AdapterMisconfigured(s) ==
    /\ At(s, "execute_action", "call")
    /\ attempts' = [attempts EXCEPT ![s].pc = "record", ![s].outcome = "failed"]
    /\ UNCHANGED <<tables, effects, api, wf, faults>>

CallAdapter(s) ==
    /\ At(s, "execute_action", "call")
    /\ effects' = Append(effects, attempts[s].action)
    /\ \E outcome \in {"failed", "succeeded"} :
         attempts' = [attempts EXCEPT ![s].pc = "record", ![s].outcome = outcome]
    /\ UNCHANGED <<tables, api, wf, faults>>

RecordOutcome(s) ==
    /\ At(s, "execute_action", "record")
    /\ LET id == attempts[s].ref IN
         /\ id \in DOMAIN executions
         /\ executions' = [executions EXCEPT ![id].status = attempts[s].outcome]
    /\ Goto(s, "close")
    /\ UNCHANGED <<row, reviewed, decisions, effects, api, wf, faults>>

(* Mutant of CloseCase: the failure path marks the case like the success.  *)
CloseAsSucceeded(s) ==
    /\ At(s, "execute_action", "close")
    /\ row' = CaseMarked("succeeded", "completed", "resolved")
    /\ Goto(s, "returned")
    /\ UNCHANGED <<reviewed, decisions, executions, effects, api, wf, faults>>

CloseCase(s) ==
    /\ At(s, "execute_action", "close")
    /\ row' = IF attempts[s].outcome = "succeeded"
                THEN CaseMarked("succeeded", "completed", "resolved")
                ELSE CaseMarked("failed", "failed", "in_review")
    /\ Goto(s, "returned")
    /\ UNCHANGED <<reviewed, decisions, executions, effects, api, wf, faults>>

-----------------------------------------------------------------------------
(* Temporal: the workflow's control flow and the fate of attempts.         *)

(* Mutant of NextStep: the gate is evaluated before the plan exists.       *)
GateBeforePlan(act) ==
    CASE act = "collect_evidence" -> "classify_exception"
      [] act = "classify_exception" -> "evaluate_approval_gate"
      [] act = "evaluate_approval_gate" -> "generate_remediation_plan"
      [] act = "generate_remediation_plan" ->
           IF RequiresApproval(row.risk) THEN "wait" ELSE "execute_action"
      [] OTHER -> "execute_action"

NextStep(act) ==
    CASE act = "collect_evidence" -> "classify_exception"
      [] act = "classify_exception" -> "generate_remediation_plan"
      [] act = "generate_remediation_plan" -> "evaluate_approval_gate"
      [] act = "evaluate_approval_gate" ->
           IF RequiresApproval(row.risk) THEN "wait" ELSE "execute_action"
      [] OTHER -> "execute_action"

(* The result of the current attempt arrives and the run goes on to the    *)
(* next activity, or to the wait for a signal.                             *)
WorkflowAdvances ==
    LET act == attempts[Current].act
        next == NextStep(act)
    IN  /\ attempts[Current].pc = "returned"
        /\ act # "execute_action"
        /\ wf' = [wf EXCEPT !.step = next]
        /\ attempts' = [attempts EXCEPT
                          ![Current] = IF next = "wait" THEN Idle
                                                        ELSE Started(next, 0)]
        /\ UNCHANGED <<tables, effects, api, faults>>

(* wait_condition holds: the run continues with the id stored by now.      *)
WaitSatisfied ==
    /\ wf.status = "running"
    /\ wf.step = "wait"
    /\ wf.signal # 0
    /\ wf' = [wf EXCEPT !.step = "finalize_approval_decision"]
    /\ attempts' = [attempts EXCEPT
                      ![Current] = Started("finalize_approval_decision", wf.signal)]
    /\ UNCHANGED <<tables, effects, api, faults>>

WorkflowCompletes ==
    /\ At(Current, "execute_action", "returned")
    /\ wf' = [wf EXCEPT !.status = "completed"]
    /\ attempts' = [attempts EXCEPT ![Current] = Idle]
    /\ UNCHANGED <<tables, effects, api, faults>>

(* An attempt that raised is run again after a backoff.                    *)
RetryAfterError ==
    /\ attempts[Current].pc = "raised"
    /\ Goto(Current, "ready")
    /\ UNCHANGED <<tables, effects, api, wf, faults>>

(* The server gives the current attempt up: its worker died, it outlived   *)
(* start_to_close_timeout, its result was lost, or it raised an exception  *)
(* the activity does not handle. A late attempt goes on running: nothing   *)
(* in the code heartbeats, so it never learns that it has been given up.   *)
(* Retryable activities get a new attempt, the others fail the workflow.   *)
AttemptLost(late) ==
    LET lost == attempts[Current]
        again == lost.act \notin SingleAttempt
    IN  /\ faults < MaxFaults
        /\ lost.act # "none"
        /\ late => lost.act \in LateActivities
        /\ faults' = faults + 1
        /\ wf' = IF again THEN wf ELSE [wf EXCEPT !.status = "failed"]
        /\ attempts' = [attempts EXCEPT
             ![Current] = IF late THEN lost ELSE Idle,
             ![Current + 1] = IF again THEN Started(lost.act,
                                IF lost.act = "finalize_approval_decision"
                                  THEN lost.ref ELSE 0)
                              ELSE Idle]
        /\ UNCHANGED <<tables, effects, api>>

(* A late attempt ends: the server ignores its result or its error.        *)
ResultDiscarded(s) ==
    /\ s < Current
    /\ attempts[s].pc \in {"returned", "raised"}
    /\ attempts' = [attempts EXCEPT ![s] = Idle]
    /\ UNCHANGED <<tables, effects, api, wf, faults>>

-----------------------------------------------------------------------------
ApiStep ==
    \/ StartWorkflow \/ StartRefused \/ LinkWorkflow \/ IngestDies
    \/ \E o \in Operators :
         \/ \E d \in ApprovalDecisionType : RetryDecision(o, d)
         \/ RecordDecision(o) \/ SignalDelivered(o) \/ SignalFails(o)
    \/ \E d \in ApprovalDecisionType : CheckDecision(d)

AttemptStep(s) ==
    \/ CollectEvidence(s) \/ StoreEvidenceItem(s) \/ ClassifyException(s)
    \/ GenerateRemediationPlan(s) \/ EvaluateApprovalGate(s)
    \/ FinalizeApprovalDecision(s) \/ ApplyDecision(s) \/ FinalizeRaises(s)
    \/ ReadCase(s) \/ SkipExecution(s) \/ BlockExecution(s)
    \/ CreateExecutionRecord(s) \/ MarkStarted(s) \/ AdapterMisconfigured(s)
    \/ CallAdapter(s) \/ RecordOutcome(s) \/ CloseCase(s) \/ ResultDiscarded(s)

WorkflowStep ==
    WorkflowAdvances \/ WaitSatisfied \/ WorkflowCompletes \/ RetryAfterError

Fault == \E late \in BOOLEAN : AttemptLost(late)

Next == ApiStep \/ (\E s \in Slots : AttemptStep(s)) \/ WorkflowStep \/ Fault

Spec == Init /\ [][Next]_vars

(* Workers keep polling and the server keeps dispatching: both survive     *)
(* restarts (docker-compose.yml restarts them), so a step that stays       *)
(* possible is taken. Nothing is assumed of operators or of the network    *)
(* between the API and Temporal.                                           *)
FairSpec ==
    /\ Spec
    /\ \A s \in Slots : WF_vars(AttemptStep(s))
    /\ WF_vars(WorkflowStep)
-----------------------------------------------------------------------------
(* What the system promises.                                               *)

Closed == wf.status \in {"completed", "failed"}
Approved == \E i \in DOMAIN decisions : decisions[i] = "approved"
Permitted == row.risk = "low" \/ Approved

(* Nothing is handed to the execution adapter, and no execution record is  *)
(* opened, for a medium or high risk case no operator has approved:        *)
(* execute_action acts on an approval_state read several commits earlier.  *)
ExecutionNeedsApproval == effects # <<>> \/ executions # <<>> => Permitted

(* A case is executed at most once, whatever attempts are lost: the retry  *)
(* limit on execute_action is all that protects the adapter, since the     *)
(* activity's own early return misses a crash between its first commits    *)
(* and an execution that failed.                                           *)
AtMostOnce == Len(executions) <= 1 /\ Len(effects) <= 1

(* Write-ahead: what the adapter is asked to do stands in a committed      *)
(* execution record before, so a crash right after the call leaves a trace.*)
EffectIsRecorded ==
    \A i \in DOMAIN effects :
        i \in DOMAIN executions /\ executions[i].action = effects[i]

(* While the workflow waits and has no signal for a case the operators     *)
(* have decided, repeating the decision is accepted: operations.md's       *)
(* "Retry the same approve/reject action to reconcile the workflow signal  *)
(* path". Only a start whose reply was lost closes this path: its case     *)
(* says failed although the workflow runs.                                 *)
ReconcileOffered ==
    /\ wf.status = "running"
    /\ wf.step = "wait"
    /\ wf.signal = 0
    /\ row.lifecycle # "failed"
    /\ row.approval \in {"approved", "rejected"}
    => \E d \in ApprovalDecisionType : RetryAccepted(d)

(* Operators cannot contradict each other in a run without faults: every   *)
(* decision after the first costs a lost attempt, which makes the gate     *)
(* open again.                                                             *)
DecisionsPerGate == Len(decisions) <= Current

(* A workflow that completed leaves an outcome in the row, and the row's   *)
(* columns and the execution record, written in separate commits, agree on *)
(* it: skipped, for a rejected case, when there is no record, otherwise    *)
(* what the record says; resolved unless the execution failed.             *)
OutcomeAgrees ==
    wf.status = "completed" =>
        /\ IF executions = <<>>
             THEN row.execution = "skipped"
                  /\ \E i \in DOMAIN decisions : decisions[i] = "rejected"
             ELSE /\ row.execution = Last(executions).status
                  /\ row.execution \in {"succeeded", "failed"}
        /\ row.status = "resolved" <=> row.execution # "failed"

(* The evidence is complete before the first model call and is never added *)
(* to afterwards, even by attempts that outlived their timeout.            *)
EvidenceFrozen == [][classifications > 0 => UNCHANGED evidence]_vars

(* An outcome is final: once the row says succeeded, failed or skipped,    *)
(* no later commit of any activity changes it.                             *)
OutcomeIsFinal ==
    [][row.execution \in {"succeeded", "failed", "skipped"}
         => row'.execution = row.execution]_vars

(* A low risk case needs nobody: once its workflow runs, it closes.        *)
LowRiskCloses == (wf.status = "running" /\ row.risk = "low") ~> Closed

(* As long as the operators decided once, a delivered signal closes the    *)
(* workflow: finalize_approval_decision tolerates the approval_state the   *)
(* API has written already.                                                *)
SignalCloses ==
    [](Len(decisions) <= 1) => ((wf.signal # 0) ~> Closed)

(* The detailed system implements the abstract promise.                    *)
Gated == INSTANCE GatedExecution WITH
    risk <- row.risk, verdicts <- decisions, performed <- effects
ImplementsGate == Gated!Spec

-----------------------------------------------------------------------------
(* What the documents say and the code does not keep; each is the property *)
(* of a run that shows how.                                                *)

(* README.md: "rejected cases stop without execution". A lost gate attempt *)
(* lets an older approval be applied over a newer rejection.               *)
RejectedNeverExecutes ==
    [][effects' # effects /\ decisions # <<>> => Last(decisions) = "approved"]_vars

(* architecture.md: "Workflow state must remain explicit and inspectable": *)
(* when nobody is active any more, the row of a completed workflow does    *)
(* not say started.                                                        *)
CompletionIsVisible ==
    wf.status = "completed" /\ ingest \in {"done", "dead"}
        => row.lifecycle # "started"

(* architecture.md: "workflow linkage is stored back on the exception      *)
(* record". A case that waits for a decision, and whose handler is over,   *)
(* can be given one: both endpoints refuse a case that is not linked.      *)
WaitingCaseTakesDecisions ==
    /\ wf.status = "running" /\ wf.step = "wait"
    /\ row.approval = "pending"
    /\ ingest \in {"done", "dead"}
    => row.linked
=============================================================================
