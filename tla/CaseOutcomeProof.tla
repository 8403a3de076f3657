-------------------------- MODULE CaseOutcomeProof --------------------------
(***************************************************************************)
(* How a case ends, for any number of open requests and of lost attempts.  *)
(* What the row says of the execution is backed by records and decisions,  *)
(* whoever writes late. On one worker, whose attempts to decide are over   *)
(* when the server gives them up while every other may go on writing       *)
(* (OneWorker), the outcome is moreover final, and a workflow that         *)
(* completed leaves the same outcome in the row and in the record: a gate  *)
(* that ran late would set both back.                                      *)
(***************************************************************************)
EXTENDS CaseHistoryProof

Rejected == \E i \in DOMAIN decisions : decisions[i] = "rejected"
Verdicts == {"approved", "rejected"}
Deciding == {"evaluate_approval_gate", "finalize_approval_decision"}
Outcomes == {"succeeded", "failed", "skipped"}

LEMMA GateInvariance == Spec => []GateInv
BY GateInit, GateStep, TypeInvariance, PTL DEF Spec

CaseInv ==
    /\ TypeInv /\ OnceInv /\ GateInv /\ ReachedInv /\ NothingClassified
    /\ HistoryInv /\ DecisionsPerGate

LEMMA CaseInvariance == Spec => []CaseInv
BY TypeInvariance, OnceInvariance, GateInvariance, ReachedInvariance,
   HistoryInvariance, DecisionsNeedAGate, PTL DEF CaseInv

-----------------------------------------------------------------------------
(* Verdicts. The row never shows a verdict nobody has given: the approved  *)
(* half of that is GateInv's, the other half is proved here, for late      *)
(* finalize attempts as well.                                              *)

Given(history, state) ==
    \E i \in DOMAIN history : TargetState(history[i]) = state
RowVerdict == row.approval \in Verdicts => Given(decisions, row.approval)

(* The history of decisions only grows, at its end.                        *)
LEMMA DecisionsGrow ==
    ASSUME TypeInv, [Next]_vars
    PROVE  /\ Len(decisions) <= Len(decisions')
           /\ \A i \in DOMAIN decisions :
                i \in DOMAIN decisions' /\ decisions'[i] = decisions[i]
<1>1. decisions \in Seq(ApprovalDecisionType)
  BY DEF TypeInv, TypeOK
<1>2. CASE decisions' = decisions
  BY <1>1, <1>2
<1>3. ASSUME NEW o \in Operators, RecordDecision(o)
      PROVE  /\ Len(decisions) <= Len(decisions')
             /\ \A i \in DOMAIN decisions :
                  i \in DOMAIN decisions' /\ decisions'[i] = decisions[i]
  <2>1. /\ decisions' = Append(decisions, checked.decision)
        /\ checked.decision \in ApprovalDecisionType
    BY <1>3 DEF RecordDecision, TypeInv, TypeOK, CheckedMeans, Checked
  <2> QED
    BY <1>1, <2>1, AppendProperties
<1> QED
  BY <1>2, <1>3, WritersOfDecisions

LEMMA GivenStays ==
    ASSUME TypeInv, [Next]_vars, NEW state, Given(decisions, state)
    PROVE  Given(decisions', state)
BY DecisionsGrow DEF Given

(* Who writes the approval state.                                          *)
LEMMA WritersOfApproval ==
    ASSUME TypeInv, [Next]_vars
    PROVE  \/ row'.approval = row.approval
           \/ row'.approval \in {"pending", "not_required"}
           \/ \E o \in Operators : RecordDecision(o)
           \/ \E s \in Slots : ApplyDecision(s)
<1>1. \/ row' = row \/ LinkWorkflow
      \/ \E o \in Operators : RecordDecision(o)
      \/ \E s \in Slots : EvaluateApprovalGate(s) \/ ApplyDecision(s)
      \/ \E s \in Slots : SkipExecution(s) \/ BlockExecution(s)
                          \/ MarkStarted(s) \/ CloseCase(s)
  BY DEF Next, ApiStep, AttemptStep, WorkflowStep, Fault, vars, tables,
     StartWorkflow, StartRefused, IngestDies, CheckDecision, RetryDecision,
     SignalDelivered, SignalFails, CollectEvidence, StoreEvidenceItem,
     ClassifyException, GenerateRemediationPlan, FinalizeApprovalDecision,
     FinalizeRaises, ReadCase, CreateExecutionRecord, AdapterMisconfigured,
     CallAdapter, RecordOutcome, ResultDiscarded, WorkflowAdvances,
     WaitSatisfied, WorkflowCompletes, RetryAfterError, AttemptLost
<1>2. row \in CaseRow
  BY DEF TypeInv, TypeOK
<1> QED
  BY <1>1, <1>2 DEF LinkWorkflow, EvaluateApprovalGate, SkipExecution,
     BlockExecution, MarkStarted, CloseCase, CaseMarked, CaseRow

LEMMA RowVerdictStep ==
    ASSUME TypeInv, GateInv, HistoryInv, RowVerdict, [Next]_vars
    PROVE  RowVerdict'
<1>0. TypeOK /\ row \in CaseRow /\ decisions \in Seq(ApprovalDecisionType)
  BY DEF TypeInv, TypeOK
<1>1. CASE row'.approval = row.approval
  BY <1>1, GivenStays DEF RowVerdict
<1>2. CASE row'.approval \in {"pending", "not_required"}
  BY <1>2 DEF RowVerdict, Verdicts
<1>3. ASSUME NEW o \in Operators, RecordDecision(o)
      PROVE  RowVerdict'
  <2>1. /\ decisions' = Append(decisions, checked.decision)
        /\ checked.decision \in ApprovalDecisionType
        /\ row'.approval = checked.decision
    BY <1>3, Recorded DEF HistoryInv
  <2>2. /\ Len(decisions) + 1 \in DOMAIN decisions'
        /\ decisions'[Len(decisions) + 1] = checked.decision
    BY <1>0, <2>1, AppendProperties
  <2>3. TargetState(checked.decision) = checked.decision
    BY <2>1 DEF TargetState, ApprovalDecisionType
  <2> QED
    BY <2>1, <2>2, <2>3 DEF RowVerdict, Given
<1>4. ASSUME NEW s \in Slots, ApplyDecision(s), row'.approval # row.approval
      PROVE  RowVerdict'
  <2>1. /\ attempts[s].ref \in DOMAIN decisions
        /\ decisions' = decisions
    BY <1>4 DEF ApplyDecision, At, GateInv, FinalizerHoldsDecision
  <2>2. PICK target \in {"approved", "rejected"} :
          target = TargetState(decisions[attempts[s].ref])
    BY PolicyTypes
  <2>3. row'.approval = target
    BY <1>0, <1>4, <2>2, DecisionCommittedType DEF ApplyDecision, ApprovalState
  <2> QED
    BY <2>1, <2>2, <2>3 DEF RowVerdict, Given
<1>5. \/ row'.approval = row.approval
      \/ row'.approval \in {"pending", "not_required"}
      \/ \E o \in Operators : RecordDecision(o)
      \/ \E s \in Slots : ApplyDecision(s)
  BY <1>0, WritersOfApproval
<1> QED
  BY <1>1, <1>2, <1>3, <1>4, <1>5

LEMMA RowVerdictInvariance == Spec => []RowVerdict
<1>1. Init => RowVerdict
  BY DEF Init, NewCase, RowVerdict, Verdicts
<1>2. CaseInv /\ RowVerdict /\ [Next]_vars => RowVerdict'
  BY RowVerdictStep DEF CaseInv
<1> QED
  BY <1>1, <1>2, CaseInvariance, PTL DEF Spec

(* Verdicts are only ever added.                                           *)
LEMMA RejectedGrows == ASSUME TypeInv, [Next]_vars, Rejected PROVE Rejected'
<1>1. decisions \in Seq(ApprovalDecisionType)
  BY DEF TypeInv, TypeOK
<1>2. CASE decisions' = decisions
  BY <1>2 DEF Rejected
<1>3. ASSUME NEW o \in Operators, RecordDecision(o)
      PROVE  Rejected'
  <2>1. /\ decisions' = Append(decisions, checked.decision)
        /\ checked.decision \in ApprovalDecisionType
    BY <1>3 DEF RecordDecision, TypeInv, TypeOK, CheckedMeans, Checked
  <2> QED
    BY <1>1, <2>1, AppendProperties DEF Rejected
<1> QED
  BY <1>2, <1>3, WritersOfDecisions

-----------------------------------------------------------------------------
(* Outcomes. Once the row shows an outcome nobody executes any more; and   *)
(* how far the one executor has come tells what a row it is about to write *)
(* will be backed by.                                                      *)

Ended ==
    /\ wf.step = "execute_action"
    /\ \A s \in Slots : Executing(s) => attempts[s].pc = "returned"
Backed(execution) ==
    /\ execution = "started" => executions # <<>>
    /\ execution \in Outcomes => Ended
    /\ execution \in {"succeeded", "failed"} =>
         Len(executions) = 1 /\ executions[1].status = execution
    /\ execution = "skipped" => executions = <<>> /\ Rejected
ExecutorKnown ==
    \A s \in Slots : Executing(s) =>
        /\ attempts[s].pc = "skip" => Rejected
        /\ attempts[s].pc \in {"mark", "call", "record", "close"} =>
             Len(executions) = 1 /\ attempts[s].ref = 1
        /\ attempts[s].pc = "close" => executions[1].status = attempts[s].outcome
ResultInv == ExecutorKnown /\ Backed(row.execution)

LEMMA RejectedIsExplained ==
    ASSUME TypeInv, RowVerdict, row.approval = "rejected" PROVE Rejected
<1>1. PICK i \in DOMAIN decisions : TargetState(decisions[i]) = "rejected"
  BY DEF RowVerdict, Verdicts, Given
<1>2. decisions[i] \in ApprovalDecisionType
  BY ElementOfSeq DEF TypeInv, TypeOK
<1> QED
  BY <1>1, <1>2 DEF Rejected, TargetState, ApprovalDecisionType

(* A step of the worker moves one attempt.                                 *)
LEMMA ByTheWorker ==
    ASSUME TypeInv, NEW s \in Slots, AttemptStep(s)
    PROVE  /\ wf' = wf /\ faults' = faults
           /\ \A t \in Slots : t # s => attempts'[t] = attempts[t]
           /\ attempts'[s].act \in {attempts[s].act, "none"}
<1>1. attempts \in [Slots -> Attempt]
  BY DEF TypeInv, TypeOK
<1>2. wf' = wf /\ faults' = faults
  BY DEF AttemptStep, CollectEvidence, StoreEvidenceItem, ClassifyException,
     GenerateRemediationPlan, EvaluateApprovalGate, FinalizeApprovalDecision,
     ApplyDecision, FinalizeRaises, ReadCase, SkipExecution, BlockExecution,
     CreateExecutionRecord, MarkStarted, AdapterMisconfigured, CallAdapter,
     RecordOutcome, CloseCase, ResultDiscarded
<1>3. \A t \in Slots : t # s => attempts'[t] = attempts[t]
  BY <1>1 DEF AttemptStep, CollectEvidence, StoreEvidenceItem, Goto,
     ClassifyException, GenerateRemediationPlan, EvaluateApprovalGate,
     FinalizeApprovalDecision, ApplyDecision, FinalizeRaises, ReadCase,
     SkipExecution, BlockExecution, CreateExecutionRecord, MarkStarted,
     AdapterMisconfigured, CallAdapter, RecordOutcome, CloseCase,
     ResultDiscarded
<1>4. attempts'[s].act \in {attempts[s].act, "none"}
  BY AttemptSchedulesNothing DEF NothingScheduled, SlotStays
<1> QED
  BY <1>2, <1>3, <1>4

(* Nobody else moves an attempt that executes, and whoever schedules       *)
(* execute_action does it once.                                            *)
Untouched(t) ==
    \/ attempts'[t] = attempts[t]
    \/ /\ attempts'[t].pc \in {"idle", "ready"}
       /\ attempts'[t].act = "execute_action" => wf.step # "execute_action"

LEMMA OffTheWorker ==
    ASSUME TypeInv, OnceInv, UNCHANGED vars \/ ApiStep \/ WorkflowStep \/ Fault
    PROVE  \A t \in Slots : Untouched(t)
<1>0. Current \in Slots /\ attempts \in [Slots -> Attempt] /\ TypeOK
  BY CurrentIsSlot DEF TypeInv, TypeOK
<1>1. CASE UNCHANGED attempts
  BY <1>1 DEF Untouched
<1>2. CASE StartWorkflow
  <2>1. "collect_evidence" \in Activity
    BY DEF Activity
  <2> QED
    BY <1>0, <1>2, <2>1, StartedType DEF StartWorkflow, Untouched
<1>3. CASE WorkflowAdvances
  <2> DEFINE act == attempts[Current].act
             next == NextStep(act)
  <2>1. /\ attempts[Current].pc = "returned" /\ act # "execute_action"
        /\ attempts' = [attempts EXCEPT
              ![Current] = IF next = "wait" THEN Idle ELSE Started(next, 0)]
    BY <1>3 DEF WorkflowAdvances
  <2>2. wf.step # "execute_action"
    BY <1>0, <2>1 DEF OnceInv, IdleMeansNone, StepKnown
  <2>3. next = "wait" \/ next \in Activity
    BY DEF NextStep, Activity
  <2> HIDE DEF next
  <2> QED
    BY <1>0, <2>1, <2>2, <2>3, IdleType, StartedType DEF Untouched
<1>4. CASE WaitSatisfied
  <2>1. "finalize_approval_decision" \in Activity /\ wf.signal \in Nat
    BY <1>0 DEF Activity, TypeOK
  <2> QED
    BY <1>0, <1>4, <2>1, StartedType DEF WaitSatisfied, Untouched
<1>5. CASE WorkflowCompletes
  BY <1>0, <1>5, IdleType DEF WorkflowCompletes, Untouched
<1>6. CASE RetryAfterError
  <2>1. attempts[Current].pc = "raised" /\ Goto(Current, "ready")
    BY <1>6 DEF RetryAfterError
  <2>2. ~Executing(Current)
    BY <1>0, <2>1 DEF OnceInv, Progress
  <2>3. \A t \in Slots : t # Current => attempts'[t] = attempts[t]
    BY <1>0, <2>1 DEF Goto
  <2>4. /\ attempts'[Current].pc = "ready"
        /\ attempts'[Current].act # "execute_action"
    BY <1>0, <2>1, <2>2 DEF Goto, Attempt, Executing
  <2> QED
    BY <2>3, <2>4 DEF Untouched
<1>7. CASE Fault
  <2>1. PICK late : AttemptLost(late)
    BY <1>7 DEF Fault
  <2> DEFINE lost == attempts[Current]
             again == lost.act \notin SingleAttempt
             ref == IF lost.act = "finalize_approval_decision" THEN lost.ref ELSE 0
             kept == IF late THEN lost ELSE Idle
             fresh == IF again THEN Started(lost.act, ref) ELSE Idle
  <2>2. /\ lost.act # "none"
        /\ attempts' = [attempts EXCEPT ![Current] = kept, ![Current + 1] = fresh]
    BY <2>1 DEF AttemptLost
  <2>3. lost.act \in Activity /\ ref \in Nat
    BY <1>0, <2>2 DEF Attempt
  <2>4. fresh.pc \in {"idle", "ready"} /\ fresh.act # "execute_action"
    <3>1. CASE again
      <4>1. fresh = Started(lost.act, ref) /\ lost.act # "execute_action"
        BY <3>1 DEF SingleAttempt
      <4> HIDE DEF lost, again, ref, fresh
      <4>2. Started(lost.act, ref).act = lost.act /\ Started(lost.act, ref).pc = "ready"
        BY <2>3, StartedType
      <4> QED
        BY <4>1, <4>2
    <3>2. CASE ~again
      BY <3>2, IdleType
    <3> QED
      BY <3>1, <3>2
  <2>5. kept = attempts[Current] \/ kept = Idle
    OBVIOUS
  <2> HIDE DEF lost, again, ref, kept, fresh
  <2> QED
    BY <1>0, <2>2, <2>4, <2>5, IdleType DEF Untouched
<1>8. \/ UNCHANGED attempts \/ StartWorkflow \/ WorkflowAdvances \/ WaitSatisfied
      \/ WorkflowCompletes \/ RetryAfterError \/ Fault
  BY DEF vars, ApiStep, WorkflowStep, StartRefused, LinkWorkflow, IngestDies,
     CheckDecision, RecordDecision, RetryDecision, SignalDelivered, SignalFails
<1> QED
  BY <1>1, <1>2, <1>3, <1>4, <1>5, <1>6, <1>7, <1>8

(* Who writes the execution records, and what the others leave in the row. *)
LEMMA WritersOfExecutions ==
    ASSUME TypeInv, [Next]_vars
    PROVE  \/ executions' = executions
           \/ \E s \in Slots : CreateExecutionRecord(s) \/ RecordOutcome(s)
BY DEF Next, ApiStep, AttemptStep, WorkflowStep, Fault, vars, tables,
   StartWorkflow, StartRefused, LinkWorkflow, IngestDies, CheckDecision,
   RecordDecision, RetryDecision, SignalDelivered, SignalFails, CollectEvidence,
   StoreEvidenceItem, ClassifyException, GenerateRemediationPlan,
   EvaluateApprovalGate, FinalizeApprovalDecision, ApplyDecision,
   FinalizeRaises, ReadCase, SkipExecution, BlockExecution, MarkStarted,
   AdapterMisconfigured, CallAdapter, CloseCase, ResultDiscarded,
   WorkflowAdvances, WaitSatisfied, WorkflowCompletes, RetryAfterError,
   AttemptLost

LEMMA RecordsStay ==
    ASSUME TypeInv, [Next]_vars, executions # <<>> PROVE executions' # <<>>
<1>1. executions \in Seq(ExecutionRecord) /\ executions' \in Seq(ExecutionRecord)
  BY TypeStep DEF TypeInv, TypeOK
<1>2. ASSUME NEW s \in Slots, CreateExecutionRecord(s)
      PROVE  executions' # <<>>
  BY <1>1, <1>2 DEF CreateExecutionRecord
<1>3. ASSUME NEW s \in Slots, RecordOutcome(s)
      PROVE  executions' # <<>>
  <2>1. DOMAIN executions' = DOMAIN executions
    BY <1>3 DEF RecordOutcome
  <2>2. attempts[s].ref \in DOMAIN executions'
    BY <1>3, <2>1 DEF RecordOutcome
  <2> QED
    BY <1>1, <2>2
<1> QED
  BY <1>2, <1>3, WritersOfExecutions

(* Where nobody executes any more, nobody executes again.                  *)
LEMMA EndedStays ==
    ASSUME TypeInv, OnceInv, [Next]_vars, Ended
    PROVE  Ended' /\ executions' = executions
<1>1. wf'.step = "execute_action"
  BY StepsForward DEF Ended
<1>2. executions' = executions
  <2> SUFFICES ASSUME NEW s \in Slots, CreateExecutionRecord(s) \/ RecordOutcome(s)
               PROVE  FALSE
    BY WritersOfExecutions
  <2> QED
    BY DEF CreateExecutionRecord, RecordOutcome, At, Ended, Executing
<1>3. CASE UNCHANGED vars \/ ApiStep \/ WorkflowStep \/ Fault
  <2>1. \A t \in Slots : Untouched(t)
    BY <1>3, OffTheWorker
  <2> QED
    BY <1>1, <1>2, <2>1 DEF Untouched, Ended, Executing
<1>4. ASSUME NEW s \in Slots, AttemptStep(s)
      PROVE  Ended'
  <2>1. Executing(s) => attempts'[s].act = "none"
    <3> SUFFICES ASSUME Executing(s) PROVE attempts'[s].act = "none"
      OBVIOUS
    <3>1. attempts[s].pc = "returned" /\ attempts[s].act = "execute_action"
      BY DEF Ended, Executing
    <3>2. ResultDiscarded(s)
      BY <1>4, <3>1 DEF AttemptStep, At, CollectEvidence, StoreEvidenceItem,
         ClassifyException, GenerateRemediationPlan, EvaluateApprovalGate,
         FinalizeApprovalDecision, ApplyDecision, FinalizeRaises, ReadCase,
         SkipExecution, BlockExecution, CreateExecutionRecord, MarkStarted,
         AdapterMisconfigured, CallAdapter, RecordOutcome, CloseCase
    <3> QED
      BY <3>2, IdleType DEF ResultDiscarded, TypeInv, TypeOK
  <2> QED
    BY <1>1, <1>4, <2>1, ByTheWorker DEF Ended, Executing
<1> QED
  BY <1>2, <1>3, <1>4 DEF Next

LEMMA BackedStays ==
    ASSUME TypeInv, OnceInv, [Next]_vars, NEW execution, Backed(execution)
    PROVE  Backed(execution)'
<1>1. execution = "started" => executions' # <<>>
  BY RecordsStay DEF Backed
<1>2. execution \in Outcomes => Ended' /\ executions' = executions
  BY EndedStays DEF Backed
<1>3. execution = "skipped" => Rejected'
  BY RejectedGrows DEF Backed
<1>4. execution \in {"succeeded", "failed", "skipped"} => execution \in Outcomes
  BY DEF Outcomes
<1> QED
  BY <1>1, <1>2, <1>3, <1>4 DEF Backed

(* Where an attempt moves to.                                              *)
LEMMA SlotMoves ==
    ASSUME TypeInv, NEW s \in Slots, NEW pc, Goto(s, pc)
    PROVE  /\ attempts'[s].act = attempts[s].act /\ attempts'[s].pc = pc
           /\ attempts'[s].ref = attempts[s].ref
           /\ attempts'[s].outcome = attempts[s].outcome
BY DEF TypeInv, TypeOK, Goto, Attempt

(* A step that leaves the records and the row's outcome alone, of anybody  *)
(* but the executor.                                                       *)
LEMMA ResultQuiet ==
    ASSUME TypeInv, OnceInv, ResultInv, [Next]_vars,
           row'.execution \in {row.execution, "pending"},
           executions' = executions,
           \A t \in Slots : \/ attempts'[t] = attempts[t]
                            \/ attempts'[t].act # "execute_action"
                            \/ attempts'[t].pc \in {"idle", "ready"}
    PROVE  ResultInv'
<1>1. ExecutorKnown'
  <2> SUFFICES ASSUME NEW t \in Slots, Executing(t)',
                      attempts'[t].pc \notin {"idle", "ready"}
               PROVE  /\ attempts'[t].pc = "skip" => Rejected'
                      /\ attempts'[t].pc \in {"mark", "call", "record", "close"} =>
                           Len(executions') = 1 /\ attempts'[t].ref = 1
                      /\ attempts'[t].pc = "close" =>
                           executions'[1].status = attempts'[t].outcome
    BY DEF ExecutorKnown
  <2>1. attempts'[t] = attempts[t] /\ Executing(t)
    BY DEF Executing
  <2> QED
    BY <2>1, RejectedGrows DEF ResultInv, ExecutorKnown
<1>2. Backed(row.execution)'
  <2>1. PICK execution : execution = row.execution
    OBVIOUS
  <2>2. Backed(execution)'
    BY <2>1, BackedStays DEF ResultInv
  <2>3. CASE row'.execution = execution
    BY <2>2, <2>3
  <2>4. CASE row'.execution = "pending"
    BY <2>4 DEF Backed, Outcomes
  <2> QED
    BY <2>1, <2>3, <2>4
<1> QED
  BY <1>1, <1>2 DEF ResultInv

(* The executor leaves something other than an outcome in the row.         *)
LEMMA NoOutcomeYet ==
    ASSUME TypeInv, OnceInv, ResultInv, NEW s \in Slots, Executing(s),
           attempts[s].pc # "returned"
    PROVE  row.execution \in {"pending", "started"}
<1>1. row.execution \in ExecutionState
  BY DEF TypeInv, TypeOK, CaseRow
<1>2. row.execution \notin Outcomes
  BY DEF ResultInv, Backed, Ended
<1> QED
  BY <1>1, <1>2 DEF ExecutionState, Outcomes

LEMMA ResultByExecution ==
    ASSUME TypeInv, OnceInv, RowVerdict, ResultInv, [Next]_vars,
           NEW s \in Slots, AttemptStep(s), Executing(s)
    PROVE  ResultInv'
<1>0. /\ TypeOK /\ attempts \in [Slots -> Attempt] /\ attempts[s] \in Attempt
      /\ row \in CaseRow /\ executions \in Seq(ExecutionRecord)
      /\ executions' \in Seq(ExecutionRecord)
      /\ wf'.step = "execute_action"
  BY TypeStep, ByTheWorker DEF TypeInv, TypeOK, OnceInv, StepKnown
<1>1. \A t \in Slots : t # s => attempts'[t] = attempts[t] /\ ~Executing(t)
  BY ByTheWorker DEF OnceInv, OneExecutor
<1>2. attempts[s].pc \in BeforeRecord => executions = <<>>
  BY DEF OnceInv, Progress
<1> DEFINE Mine ==
              /\ attempts'[s].pc = "skip" => Rejected'
              /\ attempts'[s].pc \in {"mark", "call", "record", "close"} =>
                   Len(executions') = 1 /\ attempts'[s].ref = 1
              /\ attempts'[s].pc = "close" =>
                   executions'[1].status = attempts'[s].outcome
<1>3. Mine => ExecutorKnown'
  BY <1>1 DEF ExecutorKnown, Executing
<1>4. attempts'[s].pc = "returned" => Ended'
  BY <1>0, <1>1 DEF Ended, Executing
<1>5. ASSUME row' = row, attempts[s].pc # "returned"
      PROVE  Backed(row.execution)'
  <2>1. row'.execution \in {"pending", "started"}
    BY <1>5, NoOutcomeYet
  <2>2. row.execution = "started" => executions' # <<>>
    BY RecordsStay DEF ResultInv, Backed
  <2> QED
    BY <1>5, <2>1, <2>2 DEF Backed, Outcomes
<1> HIDE DEF Mine
<1>6. CASE ReadCase(s)
  <2>1. /\ attempts[s].pc = "ready" /\ row' = row /\ executions = <<>>
        /\ executions' = executions
    BY <1>0, <1>2, <1>6 DEF ReadCase, At, tables, BeforeRecord
  <2> DEFINE d == ExecutionDecision(row.approval)
             pc == IF d = "execute" THEN "create" ELSE d
  <2>2. PICK x : attempts' = [attempts EXCEPT ![s].pc = pc, ![s].action = x]
    BY <1>6, <2>1 DEF ReadCase
  <2>3. /\ pc \in {"create", "skip", "block"}
        /\ pc = "skip" => row.approval = "rejected"
    BY PolicyTypes DEF ExecutionDecision
  <2> HIDE DEF d, pc
  <2>4. attempts'[s].pc = pc
    BY <1>0, <2>2 DEF Attempt
  <2>5. pc = "skip" => Rejected'
    BY <2>3, RejectedIsExplained, RejectedGrows
  <2>6. Mine
    BY <2>3, <2>4, <2>5 DEF Mine
  <2> QED
    BY <1>3, <1>5, <2>1, <2>6 DEF ResultInv
<1>7. CASE SkipExecution(s)
  <2>1. /\ attempts[s].pc = "skip" /\ Goto(s, "returned")
        /\ row' = CaseMarked("skipped", "completed", "resolved")
        /\ executions' = executions /\ executions = <<>>
    BY <1>0, <1>2, <1>7 DEF SkipExecution, At, BeforeRecord
  <2>2. attempts'[s].pc = "returned"
    BY <2>1, SlotMoves
  <2>3. row'.execution = "skipped" /\ Rejected'
    BY <1>0, <2>1, RejectedGrows DEF CaseMarked, CaseRow, ResultInv, ExecutorKnown
  <2> QED
    BY <1>3, <1>4, <2>1, <2>2, <2>3 DEF Mine, ResultInv, Backed
<1>8. CASE BlockExecution(s)
  <2>1. /\ Goto(s, "returned")
        /\ row' = CaseMarked("pending", "failed", "in_review")
    BY <1>8 DEF BlockExecution
  <2>2. attempts'[s].pc = "returned"
    BY <2>1, SlotMoves
  <2>3. row'.execution = "pending"
    BY <1>0, <2>1 DEF CaseMarked, CaseRow
  <2> QED
    BY <1>3, <2>2, <2>3 DEF Mine, ResultInv, Backed, Outcomes
<1>9. CASE CreateExecutionRecord(s)
  <2>1. /\ attempts[s].pc = "create" /\ row' = row /\ executions = <<>>
        /\ executions' = Append(executions, [action |-> attempts[s].action,
                                             status |-> "started"])
        /\ attempts' = [attempts EXCEPT ![s].pc = "mark",
                                        ![s].ref = Len(executions')]
    BY <1>0, <1>2, <1>9 DEF CreateExecutionRecord, At, BeforeRecord
  <2>2. Len(executions') = 1
    BY <2>1
  <2>3. attempts'[s].pc = "mark" /\ attempts'[s].ref = 1
    BY <1>0, <2>1, <2>2 DEF Attempt
  <2>4. Mine
    BY <2>2, <2>3 DEF Mine
  <2> QED
    BY <1>3, <1>5, <2>1, <2>4 DEF ResultInv
<1>10. CASE MarkStarted(s)
  <2>1. /\ attempts[s].pc = "mark" /\ Goto(s, "call")
        /\ row' = CaseMarked("started", "started", "in_review")
        /\ executions' = executions
    BY <1>0, <1>10 DEF MarkStarted, At
  <2>2. attempts'[s].pc = "call" /\ attempts'[s].ref = attempts[s].ref
    BY <2>1, SlotMoves
  <2>3. Len(executions) = 1 /\ attempts[s].ref = 1
    BY <2>1 DEF ResultInv, ExecutorKnown
  <2>4. row'.execution = "started"
    BY <1>0, <2>1 DEF CaseMarked, CaseRow
  <2>5. Backed(row.execution)'
    <3>1. executions # <<>>
      <4> SUFFICES ASSUME executions = <<>> PROVE FALSE
        OBVIOUS
      <4>1. Len(<<>>) = 0
        OBVIOUS
      <4>2. Len(executions) = 0
        BY <4>1
      <4> QED
        BY <2>3, <4>2
    <3>2. executions' # <<>>
      BY <2>1, <3>1
    <3> QED
      BY <2>4, <3>2 DEF Backed, Outcomes
  <2>6. Mine
    BY <2>1, <2>2, <2>3 DEF Mine
  <2> QED
    BY <1>3, <2>5, <2>6 DEF ResultInv
<1>11. CASE AdapterMisconfigured(s) \/ CallAdapter(s)
  <2>1. /\ attempts[s].pc = "call" /\ row' = row /\ executions' = executions
        /\ \E outcome : attempts' = [attempts EXCEPT ![s].pc = "record",
                                               ![s].outcome = outcome]
    BY <1>0, <1>11 DEF AdapterMisconfigured, CallAdapter, At, tables
  <2>2. attempts'[s].pc = "record" /\ attempts'[s].ref = attempts[s].ref
    BY <1>0, <2>1 DEF Attempt
  <2>3. Mine
    BY <2>1, <2>2 DEF Mine, ResultInv, ExecutorKnown
  <2> QED
    BY <1>3, <1>5, <2>1, <2>3 DEF ResultInv
<1>12. CASE RecordOutcome(s)
  <2>1. /\ attempts[s].pc = "record" /\ row' = row /\ Goto(s, "close")
        /\ executions' =
             [executions EXCEPT ![attempts[s].ref].status = attempts[s].outcome]
    BY <1>0, <1>12 DEF RecordOutcome, At
  <2>2. Len(executions) = 1 /\ attempts[s].ref = 1
    BY <2>1 DEF ResultInv, ExecutorKnown
  <2>3. /\ attempts'[s].pc = "close" /\ attempts'[s].ref = attempts[s].ref
        /\ attempts'[s].outcome = attempts[s].outcome
    BY <2>1, SlotMoves
  <2>4. executions[1] \in ExecutionRecord /\ DOMAIN executions = 1 .. 1
    <3>1. 1 \in 1 .. Len(executions) /\ DOMAIN executions = 1 .. Len(executions)
      BY <1>0, <2>2
    <3>2. executions[1] \in ExecutionRecord
      BY <1>0, <3>1, ElementOfSeq
    <3> QED
      BY <2>2, <3>1, <3>2
  <2>5. executions'[1].status = attempts[s].outcome /\ Len(executions') = 1
    <3>1. DOMAIN executions' = 1 .. 1
      BY <2>1, <2>4
    <3> QED
      BY <1>0, <2>1, <2>2, <2>4, <3>1 DEF ExecutionRecord
  <2>6. Mine
    BY <2>2, <2>3, <2>5 DEF Mine
  <2> QED
    BY <1>3, <1>5, <2>1, <2>6 DEF ResultInv
<1>13. CASE CloseCase(s)
  <2>1. /\ attempts[s].pc = "close" /\ Goto(s, "returned")
        /\ row' = IF attempts[s].outcome = "succeeded"
                    THEN CaseMarked("succeeded", "completed", "resolved")
                    ELSE CaseMarked("failed", "failed", "in_review")
        /\ executions' = executions
    BY <1>0, <1>13 DEF CloseCase, At
  <2>2. /\ Len(executions) = 1
        /\ executions[1].status = attempts[s].outcome
        /\ attempts[s].outcome \in {"failed", "succeeded"}
    BY <2>1 DEF ResultInv, ExecutorKnown, TypeInv, OutcomeKnown
  <2>3. attempts'[s].pc = "returned"
    BY <2>1, SlotMoves
  <2>4. row'.execution = attempts[s].outcome
    BY <1>0, <2>1, <2>2 DEF CaseMarked, CaseRow
  <2>5. Backed(row.execution)'
    BY <1>4, <2>1, <2>2, <2>3, <2>4 DEF Backed
  <2>6. Mine
    BY <2>3 DEF Mine
  <2> QED
    BY <1>3, <2>5, <2>6 DEF ResultInv
<1>14. CASE ResultDiscarded(s)
  <2>1. /\ row' = row /\ executions' = executions
        /\ attempts'[s].act = "none"
    BY <1>0, <1>14, IdleType DEF ResultDiscarded, tables
  <2> QED
    BY <1>1, <2>1, ResultQuiet
<1>15. \/ ReadCase(s) \/ SkipExecution(s) \/ BlockExecution(s)
       \/ CreateExecutionRecord(s) \/ MarkStarted(s) \/ AdapterMisconfigured(s)
       \/ CallAdapter(s) \/ RecordOutcome(s) \/ CloseCase(s) \/ ResultDiscarded(s)
  BY DEF Executing, AttemptStep, At, CollectEvidence, StoreEvidenceItem,
     ClassifyException, GenerateRemediationPlan, EvaluateApprovalGate,
     FinalizeApprovalDecision, ApplyDecision, FinalizeRaises
<1> QED
  BY <1>6, <1>7, <1>8, <1>9, <1>10, <1>11, <1>12, <1>13, <1>14, <1>15

LEMMA ResultStep ==
    ASSUME TypeInv, OnceInv, RowVerdict, ResultInv, [Next]_vars
    PROVE  ResultInv'
<1>0. row \in CaseRow
  BY DEF TypeInv, TypeOK
<1>1. CASE UNCHANGED vars \/ ApiStep \/ WorkflowStep \/ Fault
  <2>1. row'.execution = row.execution /\ executions' = executions
    BY <1>0, <1>1 DEF vars, tables, ApiStep, WorkflowStep, Fault,
       StartWorkflow, StartRefused, LinkWorkflow, IngestDies, CheckDecision,
       RecordDecision, RetryDecision, SignalDelivered, SignalFails,
       WorkflowAdvances, WaitSatisfied, WorkflowCompletes, RetryAfterError,
       AttemptLost, DecisionCommitted, CaseRow
  <2> QED
    BY <1>1, <2>1, OffTheWorker, ResultQuiet DEF Untouched
<1>2. ASSUME NEW s \in Slots, AttemptStep(s), ~Executing(s)
      PROVE  ResultInv'
  <2>1. /\ row'.execution \in {row.execution, "pending"}
        /\ executions' = executions
    BY <1>0, <1>2 DEF Executing, AttemptStep, At, CollectEvidence,
       StoreEvidenceItem, ClassifyException, GenerateRemediationPlan,
       EvaluateApprovalGate, FinalizeApprovalDecision, ApplyDecision,
       FinalizeRaises, ReadCase, SkipExecution, BlockExecution,
       CreateExecutionRecord, MarkStarted, AdapterMisconfigured, CallAdapter,
       RecordOutcome, CloseCase, ResultDiscarded, DecisionCommitted, tables,
       CaseRow
  <2> QED
    BY <1>2, <2>1, ByTheWorker, ResultQuiet DEF Executing
<1>3. ASSUME NEW s \in Slots, AttemptStep(s), Executing(s)
      PROVE  ResultInv'
  BY <1>3, ResultByExecution
<1> QED
  BY <1>1, <1>2, <1>3 DEF Next

LEMMA ResultInvariance == Spec => []ResultInv
<1>1. Init => ResultInv
  BY IdleType DEF Init, NewCase, ResultInv, ExecutorKnown, Executing, Backed,
     Outcomes
<1>2. CaseInv /\ RowVerdict /\ ResultInv /\ [Next]_vars => ResultInv'
  BY ResultStep DEF CaseInv
<1> QED
  BY <1>1, <1>2, CaseInvariance, RowVerdictInvariance, PTL DEF Spec

-----------------------------------------------------------------------------
(* Attempts on one worker. An attempt to decide that was given up is gone: *)
(* the server's current attempt is the only one that may decide.           *)

Now == attempts[Current]

DecidersAreCurrent ==
    \A s \in Slots : s # Current => attempts[s].act \notin Deciding

LEMMA DecidersInit == Init => DecidersAreCurrent
BY IdleType DEF Init, NewCase, DecidersAreCurrent, Deciding

(* What the loss of an attempt leaves.                                     *)
LEMMA Lost ==
    ASSUME OneWorker, TypeInv, OnceInv, DecidersAreCurrent, Fault
    PROVE  /\ wf'.step = wf.step
           /\ UNCHANGED <<tables, effects, api>>
           /\ DecidersAreCurrent'
           /\ Now'.pc \in {"idle", "ready"}
<1>0. TypeOK /\ Current \in Slots /\ attempts \in [Slots -> Attempt]
  BY CurrentIsSlot DEF TypeInv, TypeOK
<1>1. PICK late \in BOOLEAN : AttemptLost(late)
  BY DEF Fault
<1> DEFINE lost == attempts[Current]
           again == lost.act \notin SingleAttempt
           ref == IF lost.act = "finalize_approval_decision" THEN lost.ref ELSE 0
           kept == IF late THEN lost ELSE Idle
           fresh == IF again THEN Started(lost.act, ref) ELSE Idle
<1>2. /\ faults < MaxFaults
      /\ lost.act # "none"
      /\ late => lost.act \in LateActivities
      /\ faults' = faults + 1
      /\ wf' = IF again THEN wf ELSE [wf EXCEPT !.status = "failed"]
      /\ attempts' = [attempts EXCEPT ![Current] = kept, ![Current + 1] = fresh]
      /\ UNCHANGED <<tables, effects, api>>
  BY <1>1 DEF AttemptLost
<1>3. PICK n \in Slots : n = Current + 1 /\ n # Current
  BY <1>2, <1>0, DomainsHold DEF TypeOK, Current, Slots, Domains
<1>4. Current' = n
  BY <1>2, <1>3 DEF Current
<1>5. wf'.step = wf.step
  BY <1>2, <1>0 DEF TypeOK
<1>6. lost \in Attempt /\ lost.act \in Activity /\ ref \in Nat
  BY <1>2, <1>0 DEF Attempt
<1>7. fresh.pc \in {"idle", "ready"}
  <2>1. CASE again
    <3>1. fresh = Started(lost.act, ref)
      BY <2>1
    <3> HIDE DEF lost, ref, fresh, again
    <3> QED
      BY <1>6, <3>1, StartedType
  <2>2. CASE ~again
    BY <2>2, IdleType
  <2> QED
    BY <2>1, <2>2
<1>8. kept.act \notin Deciding
  <2>1. late => lost.act \in Awaiting
    BY <1>2 DEF OneWorker
  <2> QED
    BY <2>1, IdleType DEF Awaiting, Deciding
<1> HIDE DEF lost, again, ref, kept, fresh
<1>9. /\ attempts'[n] = fresh
      /\ attempts'[Current] = kept
      /\ \A t \in Slots : t \notin {n, Current} => attempts'[t] = attempts[t]
  BY <1>2, <1>3, <1>0
<1>10. DecidersAreCurrent'
  BY <1>4, <1>8, <1>9 DEF DecidersAreCurrent
<1>11. Now' = fresh
  BY <1>4, <1>9 DEF Now
<1> QED
  BY <1>2, <1>5, <1>7, <1>10, <1>11

LEMMA DecidersStep ==
    ASSUME OneWorker, TypeInv, OnceInv, DecidersAreCurrent, [Next]_vars
    PROVE  DecidersAreCurrent'
<1>1. CASE Fault
  BY <1>1, Lost
<1>2. CASE ~Fault
  <2>1. faults' = faults
    BY <1>2 DEF Next, ApiStep, AttemptStep, WorkflowStep, vars,
       StartWorkflow, StartRefused, LinkWorkflow, IngestDies, CheckDecision,
       RecordDecision, RetryDecision, SignalDelivered, SignalFails,
       CollectEvidence, StoreEvidenceItem, ClassifyException,
       GenerateRemediationPlan, EvaluateApprovalGate, FinalizeApprovalDecision,
       ApplyDecision, FinalizeRaises, ReadCase, SkipExecution, BlockExecution,
       CreateExecutionRecord, MarkStarted, AdapterMisconfigured, CallAdapter,
       RecordOutcome, CloseCase, ResultDiscarded, WorkflowAdvances,
       WaitSatisfied, WorkflowCompletes, RetryAfterError
  <2>2. faults \in Nat
    BY DomainsHold DEF TypeInv, TypeOK, Domains
  <2>3. NothingScheduled \/ \E act \in Step : Schedules(act)
    BY <2>1, <2>2, Scheduling DEF ScheduledAgain
  <2> QED
    BY <2>1, <2>3 DEF NothingScheduled, SlotStays, Schedules,
       DecidersAreCurrent, Deciding, Current
<1> QED
  BY <1>1, <1>2

LEMMA DecidersInvariance ==
    ASSUME OneWorker PROVE Spec => []DecidersAreCurrent
<1>1. TypeInv /\ OnceInv /\ DecidersAreCurrent /\ [Next]_vars
        => DecidersAreCurrent'
  BY DecidersStep
<1> QED
  BY <1>1, DecidersInit, TypeInvariance, OnceInvariance, PTL DEF Spec

(* Whoever takes a step of a decision is the current attempt, at the       *)
(* workflow's step.                                                        *)
LEMMA WhoDecides ==
    ASSUME TypeInv, OnceInv, DecidersAreCurrent, NEW s \in Slots,
           attempts[s].act \in Deciding
    PROVE  s = Current /\ wf.step = attempts[s].act
BY DEF DecidersAreCurrent, Deciding, OnceInv, StepKnown

-----------------------------------------------------------------------------
(* How a case ends. The approval state is settled before execute_action is *)
(* scheduled, so that it is never blocked: by the gate, when the risk is   *)
(* low, and by finalize_approval_decision, which leaves the decision it    *)
(* was given or keeps a newer one.                                         *)

PendingInReview ==
    /\ row.approval = "pending" => row.status = "in_review"
    /\ checked # NothingChecked => checked.loaded.status = "in_review"
RejectedMeans == row.approval = "rejected" => Rejected
Settled == wf.step = "execute_action" => row.approval \in Verdicts \cup {"not_required"}
GateIsDone ==
    Now.act = "evaluate_approval_gate" /\ Now.pc = "returned" /\ row.risk = "low"
        => row.approval = "not_required"
FinalizeIsDone ==
    Now.act = "finalize_approval_decision" /\ Now.pc = "returned"
        => row.approval \in Verdicts
FinalizeWillBeDone ==
    Now.act = "finalize_approval_decision" /\ Now.pc = "apply"
        => row.approval \in Verdicts \/ Now.loaded.approval = "pending"
SettledInv ==
    /\ PendingInReview /\ RejectedMeans /\ Settled /\ GateIsDone
    /\ FinalizeIsDone /\ FinalizeWillBeDone

LEMMA SettledInit == Init => SettledInv
<1> SUFFICES ASSUME Init PROVE SettledInv
  OBVIOUS
<1>1. Current \in Slots
  BY DomainsHold DEF Init, NewCase, Current, Slots, Domains
<1>2. Now.act = "none"
  BY <1>1, IdleType DEF Init, NewCase, Now
<1> QED
  BY <1>2 DEF Init, NewCase, SettledInv, PendingInReview, RejectedMeans,
     Settled, GateIsDone, FinalizeIsDone, FinalizeWillBeDone

(* A step that neither settles nor unsettles anything.                     *)
LEMMA SettledQuiet ==
    ASSUME TypeInv, SettledInv, [Next]_vars,
           row'.approval = row.approval,
           row'.status = row.status \/ row.approval # "pending",
           checked' \in {checked, NothingChecked},
           wf'.step = "execute_action" => wf.step = "execute_action",
           \/ Now' = Now
           \/ Now'.act \notin Deciding
           \/ Now'.pc \notin {"returned", "apply"}
    PROVE  SettledInv'
<1>1. row'.risk = row.risk
  BY PermittedGrows
<1>2. PendingInReview' /\ RejectedMeans' /\ Settled'
  BY RejectedGrows DEF SettledInv, PendingInReview, RejectedMeans, Settled
<1>3. GateIsDone' /\ FinalizeIsDone' /\ FinalizeWillBeDone'
  BY <1>1 DEF SettledInv, GateIsDone, FinalizeIsDone, FinalizeWillBeDone, Deciding
<1> QED
  BY <1>2, <1>3 DEF SettledInv

(* The commits of the API.                                                 *)
LEMMA SettledByApi ==
    ASSUME TypeInv, OnceInv, GateInv, HistoryInv, SettledInv, [Next]_vars, ApiStep
    PROVE  SettledInv'
<1>0. /\ TypeOK /\ Current \in Slots /\ attempts \in [Slots -> Attempt]
      /\ row \in CaseRow
  BY CurrentIsSlot DEF TypeInv, TypeOK
<1>1. CASE StartWorkflow
  <2>1. /\ Current' = Current /\ row' = row /\ checked' = checked
        /\ wf'.step = wf.step
    BY <1>0, <1>1 DEF StartWorkflow, tables, Current, TypeOK
  <2>2. "collect_evidence" \in Activity
    BY DEF Activity
  <2>3. Now'.pc = "ready"
    BY <1>0, <1>1, <2>1, <2>2, StartedType DEF StartWorkflow, Now
  <2> QED
    BY <2>1, <2>3, SettledQuiet
<1>2. ASSUME NEW o \in Operators, RecordDecision(o)
      PROVE  SettledInv'
  <2>1. /\ row'.approval = checked.decision
        /\ checked.decision \in Verdicts
        /\ checked # NothingChecked /\ checked' = NothingChecked
        /\ decisions' = Append(decisions, checked.decision)
        /\ attempts' = attempts /\ faults' = faults
    BY <1>2, Recorded DEF HistoryInv, Verdicts, ApprovalDecisionType
  <2>2. PendingInReview' /\ Settled'
    BY <2>1 DEF PendingInReview, Settled, Verdicts
  <2>3. RejectedMeans'
    <3>1. decisions \in Seq(ApprovalDecisionType)
      BY <1>0 DEF TypeOK
    <3>2. /\ Len(decisions) + 1 \in DOMAIN decisions'
          /\ decisions'[Len(decisions) + 1] = checked.decision
      BY <2>1, <3>1, AppendProperties
    <3> QED
      BY <2>1, <3>2 DEF RejectedMeans, Rejected
  <2>4. row'.risk # "low"
    BY <2>1, PermittedGrows DEF GateInv, CheckedIsReviewed
  <2> QED
    BY <2>1, <2>2, <2>3, <2>4 DEF SettledInv, GateIsDone, FinalizeIsDone,
       FinalizeWillBeDone
<1>3. ASSUME NEW d \in ApprovalDecisionType, CheckDecision(d)
      PROVE  SettledInv'
  <2>1. /\ row' = row /\ decisions' = decisions /\ wf' = wf
        /\ attempts' = attempts /\ faults' = faults
        /\ checked'.loaded.status = row.status /\ row.approval = "pending"
    BY <1>3 DEF CheckDecision, tables, Loaded
  <2>2. Now' = Now
    BY <2>1 DEF Now, Current
  <2>3. PendingInReview' /\ RejectedMeans' /\ Settled'
    BY <2>1 DEF SettledInv, PendingInReview, RejectedMeans, Rejected, Settled
  <2>4. GateIsDone' /\ FinalizeIsDone' /\ FinalizeWillBeDone'
    BY <2>1, <2>2 DEF SettledInv, GateIsDone, FinalizeIsDone, FinalizeWillBeDone
  <2> QED
    BY <2>3, <2>4 DEF SettledInv
<1>4. CASE \/ StartRefused \/ LinkWorkflow \/ IngestDies
           \/ \E o \in Operators :
                \/ \E d \in ApprovalDecisionType : RetryDecision(o, d)
                \/ SignalDelivered(o) \/ SignalFails(o)
  <2>1. /\ row'.approval = row.approval /\ row'.status = row.status
        /\ checked' = checked /\ wf'.step = wf.step
        /\ attempts' = attempts /\ faults' = faults
    BY <1>0, <1>4 DEF StartRefused, LinkWorkflow, IngestDies, RetryDecision,
       SignalDelivered, SignalFails, tables, CaseRow, TypeOK
  <2>2. Now' = Now
    BY <2>1 DEF Now, Current
  <2> QED
    BY <2>1, <2>2, SettledQuiet
<1> QED
  BY <1>1, <1>2, <1>3, <1>4 DEF ApiStep

(* Where the one attempt moves to.                                         *)
LEMMA NowMoves ==
    ASSUME TypeInv, NEW pc, Goto(Current, pc), faults' = faults
    PROVE  /\ Now' = [Now EXCEPT !.pc = pc]
           /\ Now'.act = Now.act /\ Now'.pc = pc /\ Now'.ref = Now.ref
           /\ Now'.outcome = Now.outcome
<1>1. Current \in Slots /\ attempts \in [Slots -> Attempt] /\ Now \in Attempt
  BY CurrentIsSlot DEF TypeInv, TypeOK, Now
<1>2. Current' = Current
  BY DEF Current
<1>3. Now' = [Now EXCEPT !.pc = pc]
  BY <1>1, <1>2 DEF Goto, Now
<1> QED
  BY <1>1, <1>3 DEF Attempt

LEMMA SettledByAttempt ==
    ASSUME TypeInv, OnceInv, GateInv, DecidersAreCurrent, SettledInv,
           [Next]_vars, NEW s \in Slots, AttemptStep(s)
    PROVE  SettledInv'
<1>1. /\ TypeOK /\ Current' = Current /\ UNCHANGED wf /\ faults' = faults
      /\ attempts \in [Slots -> Attempt]
      /\ row \in CaseRow
  BY ByTheWorker DEF TypeInv, TypeOK, Current
<1>2. CASE attempts[s].act \notin Deciding
  <2>1. /\ row'.approval = row.approval /\ checked' = checked
        /\ row'.status = row.status \/ Executing(s)
    BY <1>1, <1>2 DEF AttemptStep, At, CollectEvidence, StoreEvidenceItem,
       ClassifyException, GenerateRemediationPlan, EvaluateApprovalGate,
       FinalizeApprovalDecision, ApplyDecision, FinalizeRaises, ReadCase,
       SkipExecution, BlockExecution, CreateExecutionRecord, MarkStarted,
       AdapterMisconfigured, CallAdapter, RecordOutcome, CloseCase,
       ResultDiscarded, Executing, Deciding, CaseMarked, tables, api, CaseRow
  <2>2. Executing(s) => row.approval # "pending"
    BY DEF OnceInv, StepKnown, SettledInv, Settled, Verdicts
  <2>3. Now' = Now \/ Now'.act \notin Deciding
    <3>1. Now' = attempts'[Current] /\ Current \in Slots
      BY <1>1, CurrentIsSlot DEF Now
    <3>2. CASE s = Current
      BY <1>2, <3>1, <3>2, ByTheWorker DEF Deciding
    <3>3. CASE s # Current
      <4>1. attempts'[Current] = attempts[Current]
        BY <3>1, <3>3, ByTheWorker
      <4> QED
        BY <3>1, <4>1 DEF Now
    <3> QED
      BY <3>2, <3>3
  <2> QED
    BY <1>1, <2>1, <2>2, <2>3, SettledQuiet
<1> SUFFICES ASSUME attempts[s].act \in Deciding
             PROVE  SettledInv'
  BY <1>2
<1>0. /\ s = Current /\ Now = attempts[s] /\ Now \in Attempt
      /\ wf.step = Now.act
      /\ TypeOK /\ Current' = Current /\ UNCHANGED wf /\ faults' = faults
      /\ attempts \in [Slots -> Attempt]
      /\ row \in CaseRow
  BY <1>1, WhoDecides DEF Now
<1>6. CASE FinalizeRaises(s)
  <2>1. UNCHANGED <<row, checked>> /\ Goto(Current, "raised")
    BY <1>0, <1>6 DEF FinalizeRaises, tables, api
  <2>2. Now'.pc = "raised"
    BY <1>0, <2>1, NowMoves
  <2> QED
    BY <1>0, <2>1, <2>2, SettledQuiet
<1>3. CASE EvaluateApprovalGate(s)
  <2>1. /\ Now.act = "evaluate_approval_gate"
        /\ Now' = [Now EXCEPT !.pc = "returned"]
        /\ Now'.act = Now.act
        /\ row'.status = "in_review"
        /\ row'.approval = IF RequiresApproval(row.risk) THEN "pending"
                                                        ELSE "not_required"
        /\ row'.risk = row.risk
        /\ UNCHANGED <<checked, decisions, wf>>
    BY <1>0, <1>3, NowMoves DEF EvaluateApprovalGate, At, api, CaseRow
  <2>2. PendingInReview' /\ RejectedMeans' /\ Settled'
    BY <1>0, <2>1 DEF SettledInv, PendingInReview, RejectedMeans, Settled
  <2>3. GateIsDone'
    BY <2>1 DEF GateIsDone, RequiresApproval
  <2>4. FinalizeIsDone' /\ FinalizeWillBeDone'
    BY <2>1 DEF FinalizeIsDone, FinalizeWillBeDone
  <2> QED
    BY <2>2, <2>3, <2>4 DEF SettledInv
<1>4. CASE FinalizeApprovalDecision(s)
  <2>1. /\ Now.act = "finalize_approval_decision"
        /\ row.approval \in {"pending"} \cup Verdicts
        /\ attempts' = [attempts EXCEPT ![s].pc = "apply", ![s].loaded = Loaded]
        /\ UNCHANGED <<row, checked, decisions, wf>>
    BY <1>0, <1>4, PolicyTypes DEF FinalizeApprovalDecision, At, tables, api,
       Applicable, Verdicts
  <2>2. /\ Now'.act = "finalize_approval_decision" /\ Now'.pc = "apply"
        /\ Now'.loaded.approval = row.approval
    BY <1>0, <2>1 DEF Now, Attempt, Loaded
  <2>3. PendingInReview' /\ RejectedMeans' /\ Settled'
    BY <2>1 DEF SettledInv, PendingInReview, RejectedMeans, Rejected, Settled
  <2>4. GateIsDone' /\ FinalizeIsDone' /\ FinalizeWillBeDone'
    BY <2>1, <2>2 DEF GateIsDone, FinalizeIsDone, FinalizeWillBeDone
  <2> QED
    BY <2>3, <2>4 DEF SettledInv
<1>5. CASE ApplyDecision(s)
  <2>1. PICK target : target = TargetState(decisions[Now.ref])
    OBVIOUS
  <2>2. /\ Now.act = "finalize_approval_decision" /\ Now.pc = "apply"
        /\ row' = DecisionCommitted(Now.loaded, target)
        /\ Goto(Current, "returned")
        /\ UNCHANGED <<checked, decisions, wf>>
    BY <1>0, <1>5, <2>1 DEF ApplyDecision, At, api
  <2>3. /\ Now' = [Now EXCEPT !.pc = "returned"]
        /\ Now'.act = Now.act /\ Now'.pc = "returned"
    BY <1>0, <2>2, NowMoves
  <2>4. target \in Verdicts
    BY <2>1, PolicyTypes DEF Verdicts
  <2>5. row'.approval = IF Now.loaded.approval = target THEN row.approval
                                                        ELSE target
    BY <1>0, <2>2 DEF DecisionCommitted, CaseRow
  <2>6. row'.approval \in Verdicts /\ row'.approval \in {row.approval, target}
    BY <2>2, <2>4, <2>5 DEF SettledInv, FinalizeWillBeDone, Verdicts
  <2>7. target = "rejected" => Rejected
    <3>1. Now.ref \in DOMAIN decisions
      BY <1>0, <2>2 DEF GateInv, FinalizerHoldsDecision
    <3>2. decisions[Now.ref] \in ApprovalDecisionType
      BY <1>0, <3>1, ElementOfSeq DEF TypeOK
    <3> QED
      BY <2>1, <3>1, <3>2 DEF TargetState, ApprovalDecisionType, Rejected
  <2>8. RejectedMeans'
    BY <2>2, <2>6, <2>7 DEF SettledInv, RejectedMeans, Rejected
  <2>9. PendingInReview' /\ Settled' /\ GateIsDone' /\ FinalizeIsDone'
        /\ FinalizeWillBeDone'
    BY <2>2, <2>3, <2>6 DEF SettledInv, PendingInReview, Settled, GateIsDone,
       FinalizeIsDone, FinalizeWillBeDone, Verdicts
  <2> QED
    BY <2>8, <2>9 DEF SettledInv
<1> QED
  BY <1>0, <1>3, <1>4, <1>5, <1>6 DEF AttemptStep, At, CollectEvidence,
     StoreEvidenceItem, ClassifyException, GenerateRemediationPlan, ReadCase,
     SkipExecution, BlockExecution, CreateExecutionRecord, MarkStarted,
     AdapterMisconfigured, CallAdapter, RecordOutcome, CloseCase,
     ResultDiscarded, Deciding, Slots

LEMMA SettledByWorkflow ==
    ASSUME TypeInv, OnceInv, SettledInv, [Next]_vars, WorkflowStep
    PROVE  SettledInv'
<1>0. /\ TypeOK /\ Current \in Slots /\ attempts \in [Slots -> Attempt]
      /\ row \in CaseRow /\ row.risk \in RiskLevel
      /\ Current' = Current /\ UNCHANGED <<row, checked, decisions, faults>>
  BY CurrentIsSlot DEF TypeInv, TypeOK, CaseRow, WorkflowStep, WorkflowAdvances,
     WaitSatisfied, WorkflowCompletes, RetryAfterError, tables, api, Current
<1>1. CASE WorkflowAdvances
  <2> DEFINE act == attempts[Current].act
             next == NextStep(act)
  <2>1. /\ Now.pc = "returned"
        /\ act # "execute_action"
        /\ wf' = [wf EXCEPT !.step = next]
        /\ attempts' = [attempts EXCEPT
              ![Current] = IF next = "wait" THEN Idle ELSE Started(next, 0)]
    BY <1>1 DEF WorkflowAdvances, Now
  <2>2. next = "wait" \/ next \in Activity
    BY DEF NextStep, Activity
  <2>3. act \in Activity /\ wf.step = act /\ wf'.step = next
    BY <2>1, <1>0 DEF OnceInv, IdleMeansNone, StepKnown, Attempt, TypeOK, Now
  <2>4. Now'.pc \in {"idle", "ready"}
    BY <1>0, <2>1, <2>2, IdleType, StartedType DEF Now
  <2>5. next = "execute_action" =>
          \/ act = "evaluate_approval_gate" /\ row.risk = "low"
          \/ act = "finalize_approval_decision"
    BY <1>0, <2>1, <2>3 DEF NextStep, Activity, RequiresApproval, RiskLevel
  <2>6. Settled'
    BY <1>0, <2>1, <2>3, <2>5 DEF SettledInv, GateIsDone, FinalizeIsDone, Settled,
       Now
  <2>7. PendingInReview' /\ RejectedMeans'
    BY <1>0 DEF SettledInv, PendingInReview, RejectedMeans, Rejected
  <2>8. GateIsDone' /\ FinalizeIsDone' /\ FinalizeWillBeDone'
    BY <2>4 DEF GateIsDone, FinalizeIsDone, FinalizeWillBeDone
  <2> QED
    BY <2>6, <2>7, <2>8 DEF SettledInv
<1>2. CASE WaitSatisfied
  <2>1. /\ wf'.step = "finalize_approval_decision"
        /\ wf.signal \in Nat /\ "finalize_approval_decision" \in Activity
    BY <1>0, <1>2 DEF WaitSatisfied, TypeOK, Activity
  <2>2. Now'.pc = "ready"
    BY <1>0, <1>2, <2>1, StartedType DEF WaitSatisfied, Now
  <2> QED
    BY <1>0, <2>1, <2>2, SettledQuiet
<1>3. CASE WorkflowCompletes
  <2>1. wf'.step = wf.step /\ Now'.pc = "idle"
    BY <1>0, <1>3, IdleType DEF WorkflowCompletes, Now, TypeOK
  <2> QED
    BY <1>0, <2>1, SettledQuiet
<1>4. CASE RetryAfterError
  <2>1. wf' = wf /\ Now'.pc = "ready"
    BY <1>0, <1>4, NowMoves DEF RetryAfterError
  <2> QED
    BY <1>0, <2>1, SettledQuiet
<1> QED
  BY <1>1, <1>2, <1>3, <1>4 DEF WorkflowStep

LEMMA SettledStep ==
    ASSUME OneWorker, TypeInv, OnceInv, GateInv, DecidersAreCurrent, HistoryInv,
           SettledInv, [Next]_vars
    PROVE  SettledInv'
<1>1. CASE UNCHANGED vars
  <2>1. Now' = Now
    BY <1>1 DEF vars, Now, Current
  <2> QED
    BY <1>1, <2>1, SettledQuiet DEF vars, tables, api
<1>2. CASE Fault
  BY <1>2, Lost, SettledQuiet DEF tables, api
<1> QED
  BY <1>1, <1>2, SettledByApi, SettledByAttempt, SettledByWorkflow DEF Next

LEMMA SettledInvariance == ASSUME OneWorker PROVE Spec => []SettledInv
<1>1. CaseInv /\ DecidersAreCurrent /\ SettledInv /\ [Next]_vars => SettledInv'
  BY SettledStep DEF CaseInv
<1> QED
  BY <1>1, SettledInit, CaseInvariance, DecidersInvariance, PTL DEF Spec

-----------------------------------------------------------------------------
(* An outcome in the row is backed (ResultInv), which means that nobody    *)
(* executes any more; as nobody decides any more either, it stays.         *)

Told ==
    /\ row.execution \in Outcomes
    /\ row.status = "resolved" <=> row.execution # "failed"
EndInv ==
    /\ \A s \in Slots : Executing(s) =>
         /\ attempts[s].pc # "block"
         /\ attempts[s].pc = "returned" => Told
    /\ wf.status = "completed" => Told

LEMMA OutcomeStays ==
    ASSUME TypeInv, OnceInv, DecidersAreCurrent, SettledInv, ResultInv,
           [Next]_vars, row.execution \in Outcomes
    PROVE  row'.execution = row.execution /\ row'.status = row.status
<1>0. row \in CaseRow /\ Ended
  BY DEF TypeInv, TypeOK, ResultInv, Backed
<1>1. \A s \in Slots : attempts[s].act \notin Deciding
  BY <1>0, WhoDecides DEF Ended, Deciding
<1>2. ASSUME NEW s \in Slots, AttemptStep(s)
      PROVE  row' = row
  BY <1>0, <1>1, <1>2 DEF Ended, Executing, Deciding, AttemptStep, At,
     CollectEvidence, StoreEvidenceItem, ClassifyException,
     GenerateRemediationPlan, EvaluateApprovalGate, FinalizeApprovalDecision,
     ApplyDecision, FinalizeRaises, ReadCase, SkipExecution, BlockExecution,
     CreateExecutionRecord, MarkStarted, AdapterMisconfigured, CallAdapter,
     RecordOutcome, CloseCase, ResultDiscarded, tables
<1>3. ASSUME NEW o \in Operators, RecordDecision(o)
      PROVE  row'.execution = row.execution /\ row'.status = row.status
  <2>1. checked.loaded.status = "in_review"
    BY <1>3 DEF RecordDecision, SettledInv, PendingInReview
  <2>2. PICK target : row' = DecisionCommitted(checked.loaded, target)
    BY <1>3 DEF RecordDecision
  <2> QED
    BY <1>0, <2>1, <2>2 DEF DecisionCommitted, CaseRow
<1>4. CASE /\ ApiStep \/ WorkflowStep \/ Fault \/ UNCHANGED vars
           /\ ~\E o \in Operators : RecordDecision(o)
  BY <1>0, <1>4 DEF vars, tables, ApiStep, WorkflowStep, Fault, StartWorkflow,
     StartRefused, LinkWorkflow, IngestDies, CheckDecision, RetryDecision,
     SignalDelivered, SignalFails, WorkflowAdvances, WaitSatisfied,
     WorkflowCompletes, RetryAfterError, AttemptLost, CaseRow
<1> QED
  BY <1>2, <1>3, <1>4 DEF Next

LEMMA EndStep ==
    ASSUME TypeInv, OnceInv, DecidersAreCurrent, SettledInv, ResultInv, EndInv,
           [Next]_vars
    PROVE  EndInv'
<1>0. /\ TypeOK /\ attempts \in [Slots -> Attempt] /\ row \in CaseRow
      /\ Current \in Slots
  BY CurrentIsSlot DEF TypeInv, TypeOK
<1>1. Told => Told'
  BY OutcomeStays DEF Told
<1>2. CASE UNCHANGED vars \/ ApiStep \/ WorkflowStep \/ Fault
  <2>1. \A s \in Slots : Executing(s)' =>
          /\ attempts'[s].pc # "block"
          /\ attempts'[s].pc = "returned" => Told'
    BY <1>1, <1>2, OffTheWorker DEF Untouched, Executing, EndInv
  <2>2. CASE WorkflowCompletes
    BY <1>0, <1>1, <2>1, <2>2 DEF WorkflowCompletes, At, Executing, EndInv
  <2>3. CASE ~WorkflowCompletes
    <3>1. wf'.status = "completed" => wf.status = "completed"
      BY <1>0, <1>2, <2>3 DEF vars, ApiStep, WorkflowStep, Fault, StartWorkflow,
         StartRefused, LinkWorkflow, IngestDies, CheckDecision, RecordDecision,
         RetryDecision, SignalDelivered, SignalFails, WorkflowAdvances,
         WaitSatisfied, RetryAfterError, AttemptLost, TypeOK
    <3> QED
      BY <1>1, <2>1, <3>1 DEF EndInv
  <2> QED
    BY <2>2, <2>3
<1>3. ASSUME NEW s \in Slots, AttemptStep(s)
      PROVE  EndInv'
  <2>0. /\ wf' = wf /\ attempts'[s].act \in {attempts[s].act, "none"}
        /\ \A t \in Slots : t # s => attempts'[t] = attempts[t]
    BY <1>3, ByTheWorker
  <2>1. (/\ Executing(s)' => attempts'[s].pc # "block"
         /\ Executing(s)' /\ attempts'[s].pc = "returned" => Told')
           => EndInv'
    BY <1>1, <2>0 DEF EndInv, Executing
  <2>2. CASE ~Executing(s)
    BY <2>0, <2>1, <2>2 DEF Executing
  <2>3. CASE ReadCase(s)
    <3>1. attempts[s].pc \in BeforeRecord /\ Executing(s)
      BY <2>3 DEF ReadCase, At, BeforeRecord, Executing
    <3>2. executions = <<>>
      BY <3>1 DEF OnceInv, Progress
    <3> DEFINE d == ExecutionDecision(row.approval)
               pc == IF d = "execute" THEN "create" ELSE d
    <3>3. PICK x : attempts' = [attempts EXCEPT ![s].pc = pc, ![s].action = x]
      BY <2>3, <3>2 DEF ReadCase
    <3>4. row.approval \in Verdicts \cup {"not_required"}
      BY <3>1 DEF OnceInv, StepKnown, SettledInv, Settled
    <3>5. pc \in {"create", "skip"}
      BY <3>4 DEF ExecutionDecision, Verdicts
    <3> HIDE DEF d, pc
    <3>6. attempts'[s].pc = pc
      BY <1>0, <3>3 DEF Attempt
    <3> QED
      BY <2>1, <3>5, <3>6
  <2>4. CASE BlockExecution(s)
    BY <2>4 DEF BlockExecution, At, EndInv, Executing
  <2>5. CASE SkipExecution(s)
    <3>1. row'.execution = "skipped" /\ row'.status = "resolved"
      BY <1>0, <2>5 DEF SkipExecution, CaseMarked, CaseRow
    <3>2. attempts'[s].pc = "returned"
      BY <2>5, SlotMoves DEF SkipExecution
    <3> QED
      BY <2>1, <3>1, <3>2 DEF Told, Outcomes
  <2>6. CASE CloseCase(s)
    <3>1. /\ row'.execution \in {"succeeded", "failed"}
          /\ row'.status = "resolved" <=> row'.execution # "failed"
      BY <1>0, <2>6 DEF CloseCase, CaseMarked, CaseRow
    <3>2. attempts'[s].pc = "returned"
      BY <2>6, SlotMoves DEF CloseCase
    <3> QED
      BY <2>1, <3>1, <3>2 DEF Told, Outcomes
  <2>7. CASE \/ CreateExecutionRecord(s) \/ MarkStarted(s) \/ CallAdapter(s)
             \/ AdapterMisconfigured(s) \/ RecordOutcome(s)
    <3>1. attempts'[s].pc \in {"mark", "call", "record", "close"}
      BY <1>0, <2>7 DEF CreateExecutionRecord, MarkStarted, CallAdapter,
         AdapterMisconfigured, RecordOutcome, Goto, Attempt
    <3> QED
      BY <2>1, <3>1
  <2>8. CASE ResultDiscarded(s)
    BY <1>0, <2>1, <2>8, IdleType DEF ResultDiscarded, Executing
  <2> QED
    BY <1>3, <2>2, <2>3, <2>4, <2>5, <2>6, <2>7, <2>8 DEF AttemptStep, At,
       CollectEvidence, StoreEvidenceItem, ClassifyException,
       GenerateRemediationPlan, EvaluateApprovalGate, FinalizeApprovalDecision,
       ApplyDecision, FinalizeRaises, Executing
<1> QED
  BY <1>2, <1>3 DEF Next

LEMMA EndInvariance == ASSUME OneWorker PROVE Spec => []EndInv
<1>1. Init => EndInv
  BY IdleType DEF Init, NewCase, EndInv, Executing
<1>2. CaseInv /\ DecidersAreCurrent /\ SettledInv /\ ResultInv /\ EndInv
        /\ [Next]_vars => EndInv'
  BY EndStep DEF CaseInv
<1> QED
  BY <1>1, <1>2, CaseInvariance, DecidersInvariance, SettledInvariance,
     ResultInvariance, PTL DEF Spec

(* A workflow that completed, through any number of lost attempts, leaves  *)
(* an outcome on which the row and the execution record agree; skipped     *)
(* only when an operator has rejected the case. On one worker: a late gate *)
(* of another one would set the row back.                                  *)
THEOREM OutcomesAgree == ASSUME OneWorker PROVE Spec => []OutcomeAgrees
<1>1. ResultInv /\ EndInv => OutcomeAgrees
  <2> SUFFICES ASSUME ResultInv, EndInv, wf.status = "completed"
               PROVE  /\ IF executions = <<>>
                           THEN row.execution = "skipped" /\ Rejected
                           ELSE /\ row.execution = Last(executions).status
                                /\ row.execution \in {"succeeded", "failed"}
                      /\ row.status = "resolved" <=> row.execution # "failed"
    BY DEF OutcomeAgrees, Rejected
  <2>1. Told /\ Backed(row.execution)
    BY DEF EndInv, ResultInv
  <2>2. CASE row.execution = "skipped"
    BY <2>1, <2>2 DEF Told, Backed
  <2>3. CASE row.execution \in {"succeeded", "failed"}
    <3>1. Len(executions) = 1 /\ executions[1].status = row.execution
      BY <2>1, <2>3 DEF Backed
    <3>2. executions # <<>>
      <4>1. Len(<<>>) = 0
        OBVIOUS
      <4> QED
        BY <3>1, <4>1
    <3> QED
      BY <2>1, <2>3, <3>1, <3>2 DEF Told, Last
  <2> QED
    BY <2>1, <2>2, <2>3 DEF Told, Outcomes
<1> QED
  BY <1>1, ResultInvariance, EndInvariance, PTL

(* The outcome in the row is final, whatever is lost or decided later and  *)
(* whatever attempt other than a decision writes late.                     *)
THEOREM OutcomesAreFinal == ASSUME OneWorker PROVE Spec => OutcomeIsFinal
<1>1. CaseInv /\ DecidersAreCurrent /\ SettledInv /\ ResultInv /\ [Next]_vars
        => [row.execution \in {"succeeded", "failed", "skipped"}
              => row'.execution = row.execution]_vars
  BY OutcomeStays DEF CaseInv, Outcomes
<1> QED
  BY <1>1, CaseInvariance, DecidersInvariance, SettledInvariance,
     ResultInvariance, PTL DEF Spec, OutcomeIsFinal

=============================================================================
