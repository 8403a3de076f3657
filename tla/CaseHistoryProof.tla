-------------------------- MODULE CaseHistoryProof --------------------------
(***************************************************************************)
(* What the tables of a case say about its history, for any number of open *)
(* requests and of lost attempts, late writers or not: the evidence is     *)
(* frozen before the first model call, every decision has a gate of its    *)
(* own, and a case that waits for a lost signal can be reconciled.         *)
(***************************************************************************)
EXTENDS CaseResolutionProof, FiniteSetTheorems

-----------------------------------------------------------------------------
(* None of the three is inductive. They rest on how far the workflow has   *)
(* come when an attempt may still be running, even one it has given up.    *)

FromFinalize == {"finalize_approval_decision", "execute_action"}
FromGate == FromFinalize \cup {"evaluate_approval_gate", "wait"}
Doing(s, act) == attempts[s].act = act

(* An attempt of an activity means that the workflow has reached it. The   *)
(* collector is special: it has one attempt, whose loss ends the workflow, *)
(* so the workflow that has gone on has none behind it.                    *)
Reached ==
    \A s \in Slots :
        /\ Doing(s, "collect_evidence") => wf.step = "collect_evidence"
        /\ Doing(s, "classify_exception") => wf.step # "collect_evidence"
        /\ Doing(s, "evaluate_approval_gate") => wf.step \in FromGate
        /\ Doing(s, "finalize_approval_decision") => wf.step \in FromFinalize
OneCollector ==
    \A s, t \in Slots :
        Doing(s, "collect_evidence") /\ Doing(t, "collect_evidence") => s = t
OnlyFinalizeRaises ==
    \A s \in Slots :
        attempts[s].pc = "raised" => Doing(s, "finalize_approval_decision")
NothingClassified == wf.step = "collect_evidence" => classifications = 0
ReachedInv == Reached /\ OneCollector /\ OnlyFinalizeRaises

(* What a slot does in a step that schedules nothing.                      *)
SlotStays(t) ==
    /\ attempts'[t].act \in {attempts[t].act, "none"}
    /\ attempts'[t].pc = "ready" => attempts[t].pc \in {"ready", "raised"}
    /\ attempts'[t].pc = "raised" =>
         attempts[t].pc = "raised" \/ Doing(t, "finalize_approval_decision")
NothingScheduled ==
    /\ wf'.step = wf.step
    /\ faults' = faults
    /\ \A t \in Slots : SlotStays(t)
Schedules(act) ==
    /\ \/ wf.step = "collect_evidence" /\ act = "collect_evidence"
          /\ \A t \in Slots : Doing(t, "none")
       \/ wf.step \in Activity \ {"execute_action"} /\ act = NextStep(wf.step)
          /\ Doing(Current, wf.step)
       \/ wf.step = "wait" /\ act = "finalize_approval_decision"
    /\ wf'.step = act
    /\ faults' = faults
    /\ attempts'[Current].act \in {act, "none"}
    /\ attempts'[Current].pc # "raised"
    /\ \A t \in Slots : t # Current => attempts'[t] = attempts[t]
ScheduledAgain ==
    /\ wf'.step = wf.step
    /\ faults' = faults + 1
    /\ Current + 1 \in Slots
    /\ Doing(Current, wf.step)
    /\ attempts'[Current + 1].act
         \in {"none"} \cup ({wf.step} \ SingleAttempt)
    /\ attempts'[Current + 1].pc # "raised"
    /\ \A t \in Slots : t # Current + 1 => SlotStays(t)

(* The worker schedules nothing.                                           *)
LEMMA AttemptSchedulesNothing ==
    ASSUME TypeInv, NEW s \in Slots, AttemptStep(s)
    PROVE  NothingScheduled
<1>0. attempts \in [Slots -> Attempt]
  BY DEF TypeInv, TypeOK
<1>1. attempts[s] \in Attempt /\ UNCHANGED <<wf, faults>>
  BY <1>0 DEF AttemptStep, CollectEvidence, StoreEvidenceItem,
     ClassifyException, GenerateRemediationPlan, EvaluateApprovalGate,
     FinalizeApprovalDecision, ApplyDecision, FinalizeRaises, ReadCase,
     SkipExecution, BlockExecution, CreateExecutionRecord, MarkStarted,
     AdapterMisconfigured, CallAdapter, RecordOutcome, CloseCase,
     ResultDiscarded
<1>2. \A t \in Slots : t # s => attempts'[t] = attempts[t]
  BY <1>0 DEF AttemptStep, CollectEvidence, StoreEvidenceItem,
     ClassifyException, GenerateRemediationPlan, EvaluateApprovalGate,
     FinalizeApprovalDecision, ApplyDecision, FinalizeRaises, ReadCase,
     SkipExecution, BlockExecution, CreateExecutionRecord, MarkStarted,
     AdapterMisconfigured, CallAdapter, RecordOutcome, CloseCase,
     ResultDiscarded, Goto
<1>3. SlotStays(s)
  <2>1. CASE CollectEvidence(s) \/ StoreEvidenceItem(s)
    BY <2>1, <1>0, <1>1 DEF CollectEvidence, StoreEvidenceItem, SlotStays,
       Attempt
  <2>2. CASE \/ ClassifyException(s) \/ GenerateRemediationPlan(s)
             \/ EvaluateApprovalGate(s) \/ ApplyDecision(s)
             \/ SkipExecution(s) \/ BlockExecution(s) \/ MarkStarted(s)
             \/ RecordOutcome(s) \/ CloseCase(s)
    <3>1. \E pc \in {"returned", "call", "close"} : Goto(s, pc)
      BY <2>2 DEF ClassifyException, GenerateRemediationPlan,
         EvaluateApprovalGate, ApplyDecision, SkipExecution, BlockExecution,
         MarkStarted, RecordOutcome, CloseCase
    <3> QED
      BY <3>1, <1>0, <1>1 DEF Goto, SlotStays, Attempt
  <2>3. CASE FinalizeApprovalDecision(s) \/ FinalizeRaises(s)
    BY <2>3, <1>0, <1>1 DEF FinalizeApprovalDecision, FinalizeRaises, At,
       Goto, SlotStays, Attempt, Doing
  <2>4. CASE ReadCase(s)
    <3> DEFINE d == ExecutionDecision(row.approval)
               pc == IF d = "execute" THEN "create" ELSE d
    <3>1. \/ Goto(s, "returned")
          \/ \E x : attempts' = [attempts EXCEPT ![s].pc = pc, ![s].action = x]
      BY <2>4 DEF ReadCase
    <3>2. pc \in {"create", "skip", "block"}
      BY PolicyTypes
    <3> HIDE DEF d, pc
    <3> QED
      BY <3>1, <3>2, <1>0, <1>1 DEF Goto, SlotStays, Attempt
  <2>5. CASE CreateExecutionRecord(s) \/ AdapterMisconfigured(s) \/ CallAdapter(s)
    BY <2>5, <1>0, <1>1 DEF CreateExecutionRecord, AdapterMisconfigured,
       CallAdapter, SlotStays, Attempt
  <2>6. CASE ResultDiscarded(s)
    BY <2>6, <1>0, IdleType DEF ResultDiscarded, SlotStays
  <2> QED
    BY <2>1, <2>2, <2>3, <2>4, <2>5, <2>6 DEF AttemptStep
<1> QED
  BY <1>1, <1>2, <1>3 DEF NothingScheduled, SlotStays

(* Every step does one of the three.                                       *)
LEMMA Scheduling ==
    ASSUME TypeInv, OnceInv, [Next]_vars
    PROVE  \/ NothingScheduled
           \/ \E act \in Step : Schedules(act)
           \/ ScheduledAgain
<1>0. TypeOK /\ Current \in Slots /\ attempts \in [Slots -> Attempt]
  BY CurrentIsSlot DEF TypeInv, TypeOK
<1>1. CASE UNCHANGED vars
  BY <1>1 DEF vars, NothingScheduled, SlotStays
<1>2. CASE ApiStep
  <2>1. CASE StartWorkflow
    <3>1. /\ wf.step = "collect_evidence"
          /\ wf'.step = wf.step
          /\ \A t \in Slots : Doing(t, "none")
      BY <2>1, <1>0 DEF StartWorkflow, OnceInv, NothingBeforeStart, TypeOK, Doing
    <3>2. "collect_evidence" \in Activity /\ "collect_evidence" \in Step
      BY DEF Activity, Step
    <3>3. Schedules("collect_evidence")
      BY <2>1, <3>1, <3>2, <1>0, StartedType DEF StartWorkflow, Schedules
    <3> QED
      BY <3>2, <3>3
  <2>2. CASE ~StartWorkflow
    <3>1. /\ attempts' = attempts /\ faults' = faults
          /\ wf'.step = wf.step
      BY <1>2, <2>2, <1>0 DEF ApiStep, StartRefused, LinkWorkflow, IngestDies,
         CheckDecision, RecordDecision, RetryDecision, SignalDelivered,
         SignalFails, TypeOK
    <3> QED
      BY <3>1 DEF NothingScheduled, SlotStays
  <2> QED
    BY <2>1, <2>2
<1>3. ASSUME NEW s \in Slots, AttemptStep(s)
      PROVE  NothingScheduled
  BY <1>3, AttemptSchedulesNothing
<1>4. CASE WorkflowStep
  <2>1. CASE WorkflowAdvances
    <3> DEFINE act == attempts[Current].act
               next == NextStep(act)
    <3>1. /\ attempts[Current].pc = "returned"
          /\ act # "execute_action"
          /\ wf' = [wf EXCEPT !.step = next]
          /\ attempts' = [attempts EXCEPT
                ![Current] = IF next = "wait" THEN Idle ELSE Started(next, 0)]
          /\ faults' = faults
      BY <2>1 DEF WorkflowAdvances
    <3>2. next = "wait" \/ next \in Activity
      BY DEF NextStep, Activity
    <3>3. act # "none" /\ act \in Activity /\ wf.step = act
      BY <3>1, <1>0 DEF OnceInv, IdleMeansNone, StepKnown, Attempt
    <3>4. wf'.step = next
      BY <3>1, <1>0 DEF TypeOK
    <3>5. /\ attempts'[Current].act \in {next, "none"}
          /\ attempts'[Current].pc # "raised"
      BY <3>1, <3>2, <1>0, IdleType, StartedType
    <3>6. Schedules(next)
      BY <3>1, <3>3, <3>4, <3>5, <1>0 DEF Schedules, Doing
    <3> QED
      BY <3>2, <3>6 DEF Step
  <2>2. CASE WaitSatisfied
    <3>1. /\ wf.step = "wait"
          /\ wf'.step = "finalize_approval_decision"
          /\ wf.signal \in Nat
          /\ "finalize_approval_decision" \in Activity
      BY <2>2, <1>0 DEF WaitSatisfied, TypeOK, Activity
    <3>2. Schedules("finalize_approval_decision")
      BY <2>2, <3>1, <1>0, StartedType DEF WaitSatisfied, Schedules
    <3> QED
      BY <3>1, <3>2 DEF Step
  <2>3. CASE WorkflowCompletes
    <3>1. wf'.step = wf.step
      BY <2>3, <1>0 DEF WorkflowCompletes, TypeOK
    <3> QED
      BY <2>3, <3>1, <1>0, IdleType DEF WorkflowCompletes, NothingScheduled,
         SlotStays
  <2>4. CASE RetryAfterError
    <3>1. attempts[Current] \in Attempt
      BY <1>0
    <3>2. \A t \in Slots : SlotStays(t)
      BY <2>4, <1>0, <3>1 DEF RetryAfterError, Goto, SlotStays, Attempt
    <3> QED
      BY <2>4, <3>2 DEF RetryAfterError, NothingScheduled
  <2> QED
    BY <1>4, <2>1, <2>2, <2>3, <2>4 DEF WorkflowStep
<1>5. CASE Fault
  <2>1. PICK late \in BOOLEAN : AttemptLost(late)
    BY <1>5 DEF Fault
  <2> DEFINE lost == attempts[Current]
             again == lost.act \notin SingleAttempt
             kept == IF late THEN lost ELSE Idle
             ref == IF lost.act = "finalize_approval_decision" THEN lost.ref ELSE 0
             fresh == IF again THEN Started(lost.act, ref) ELSE Idle
  <2>2. /\ faults < MaxFaults
        /\ lost.act # "none"
        /\ faults' = faults + 1
        /\ wf' = IF again THEN wf ELSE [wf EXCEPT !.status = "failed"]
        /\ attempts' = [attempts EXCEPT ![Current] = kept, ![Current + 1] = fresh]
    BY <2>1 DEF AttemptLost
  <2>3. /\ Current + 1 \in Slots
        /\ Current # Current + 1
    BY <2>2, <1>0, DomainsHold DEF TypeOK, Current, Slots, Domains
  <2>4. wf'.step = wf.step /\ wf.step = lost.act
    BY <2>2, <1>0 DEF TypeOK, OnceInv, StepKnown
  <2>5. lost \in Attempt /\ lost.act \in Activity /\ ref \in Nat
    BY <2>2, <1>0 DEF Attempt
  <2>6. /\ fresh.act \in {"none"} \cup ({lost.act} \ SingleAttempt)
        /\ fresh.pc # "raised"
    <3>1. CASE again
      <4>1. fresh = Started(lost.act, ref) /\ lost.act \notin SingleAttempt
        BY <3>1
      <4> HIDE DEF lost, ref, fresh, again
      <4>2. Started(lost.act, ref).act = lost.act /\ Started(lost.act, ref).pc = "ready"
        BY <2>5, StartedType
      <4>3. fresh.act = lost.act /\ fresh.pc = "ready"
        BY <4>1, <4>2
      <4> QED
        BY <4>1, <4>3
    <3>2. CASE ~again
      BY <3>2, IdleType
    <3> QED
      BY <3>1, <3>2
  <2> HIDE DEF lost, again, ref, fresh
  <2>7. /\ attempts'[Current + 1] = fresh
        /\ \A t \in Slots : t # Current + 1 =>
              attempts'[t] = attempts[t] \/ attempts'[t] = Idle
    BY <2>2, <2>3, <1>0 DEF lost
  <2>8. \A t \in Slots : t # Current + 1 => SlotStays(t)
    BY <2>7, IdleType DEF SlotStays
  <2>9. Doing(Current, wf.step)
    BY <2>4 DEF Doing, lost
  <2> QED
    BY <2>2, <2>3, <2>4, <2>6, <2>7, <2>8, <2>9 DEF ScheduledAgain
<1> QED
  BY <1>1, <1>2, <1>3, <1>4, <1>5 DEF Next

LEMMA ReachedInit == Init => ReachedInv /\ NothingClassified
BY IdleType DEF Init, NewCase, ReachedInv, Reached, OneCollector,
   OnlyFinalizeRaises, NothingClassified, Doing

LEMMA ReachedStep ==
    ASSUME TypeInv, OnceInv, OnceInv', ReachedInv, [Next]_vars
    PROVE  ReachedInv'
<1>0. Current \in Slots
  BY CurrentIsSlot DEF TypeInv
<1>1. \A s \in Slots : attempts'[s].pc = "raised" => ~Doing(s, "none")'
  BY DEF OnceInv, IdleMeansNone, Doing
<1>2. CASE NothingScheduled
  <2>1. Reached' /\ OneCollector'
    BY <1>2 DEF NothingScheduled, SlotStays, ReachedInv, Reached, OneCollector,
       Doing
  <2>2. OnlyFinalizeRaises'
    BY <1>1, <1>2 DEF NothingScheduled, SlotStays, ReachedInv,
       OnlyFinalizeRaises, Doing
  <2> QED
    BY <2>1, <2>2 DEF ReachedInv
<1>3. ASSUME NEW act \in Step, Schedules(act)
      PROVE  ReachedInv'
  <2>1. \A t \in Slots : t # Current => attempts'[t] = attempts[t]
    BY <1>3 DEF Schedules
  <2>2. OnlyFinalizeRaises'
    BY <1>3, <2>1 DEF Schedules, ReachedInv, OnlyFinalizeRaises, Doing
  <2>3. CASE wf.step = "collect_evidence" /\ act = "collect_evidence"
             /\ \A t \in Slots : Doing(t, "none")
    BY <1>3, <2>1, <2>2, <2>3 DEF Schedules, ReachedInv, Reached, OneCollector, Doing
  <2>4. CASE wf.step \in Activity \ {"execute_action"} /\ act = NextStep(wf.step)
             /\ Doing(Current, wf.step)
    <3>1. \A t \in Slots : t # Current => ~Doing(t, "collect_evidence")
      BY <2>4, <1>0 DEF ReachedInv, Reached, OneCollector, Doing
    <3>2. /\ act # "collect_evidence"
          /\ wf.step \in FromGate => act \in FromFinalize \cup {"wait"}
          /\ wf.step \in FromFinalize => act \in FromFinalize
          /\ act = "evaluate_approval_gate" => act \in FromGate
          /\ act # "finalize_approval_decision"
      BY <2>4 DEF NextStep, Activity, FromGate, FromFinalize
    <3>3. Reached' /\ OneCollector'
      BY <1>3, <2>1, <3>1, <3>2 DEF Schedules, ReachedInv, Reached, OneCollector,
         Doing, FromGate, FromFinalize
    <3> QED
      BY <2>2, <3>3 DEF ReachedInv
  <2>5. CASE wf.step = "wait" /\ act = "finalize_approval_decision"
    <3>1. Reached' /\ OneCollector'
      BY <1>3, <2>1, <2>5 DEF Schedules, ReachedInv, Reached, OneCollector,
         Doing, FromGate, FromFinalize
    <3> QED
      BY <2>2, <3>1 DEF ReachedInv
  <2> QED
    BY <1>3, <2>3, <2>4, <2>5 DEF Schedules
<1>4. CASE ScheduledAgain
  <2>1. OnlyFinalizeRaises'
    BY <1>1, <1>4 DEF ScheduledAgain, SlotStays, ReachedInv, OnlyFinalizeRaises,
       Doing
  <2>2. attempts'[Current + 1].act # "collect_evidence"
    BY <1>4 DEF ScheduledAgain, SingleAttempt
  <2>3. \A t \in Slots :
          Doing(t, "collect_evidence")' => Doing(t, "collect_evidence")
    BY <1>4, <2>2 DEF ScheduledAgain, SlotStays, Doing
  <2>4. OneCollector'
    BY <2>3 DEF ReachedInv, OneCollector
  <2>5. Reached'
    <3>1. \A t \in Slots : t # Current + 1 =>
            attempts'[t].act \in {attempts[t].act, "none"}
      BY <1>4 DEF ScheduledAgain, SlotStays
    <3>2. /\ attempts'[Current + 1].act \in {wf.step, "none"}
          /\ wf'.step = wf.step
      BY <1>4 DEF ScheduledAgain
    <3>3. \A t \in Slots : attempts'[t].act \in {attempts[t].act, wf.step, "none"}
      BY <3>1, <3>2
    <3> QED
      BY <2>2, <2>3, <3>2, <3>3 DEF ReachedInv, Reached, Doing, FromGate, FromFinalize
  <2> QED
    BY <2>1, <2>4, <2>5 DEF ReachedInv
<1> QED
  BY <1>2, <1>3, <1>4, Scheduling

(* Who writes the evidence and the classifications.                        *)
LEMMA WritersOfEvidence ==
    ASSUME [Next]_vars
    PROVE  /\ evidence' # evidence =>
                \E s \in Slots : Doing(s, "collect_evidence")
           /\ classifications' # classifications =>
                \E s \in Slots : Doing(s, "classify_exception")
BY DEF Next, ApiStep, AttemptStep, WorkflowStep, Fault, vars, tables, reviewed,
   StartWorkflow, StartRefused, LinkWorkflow, IngestDies, CheckDecision,
   RecordDecision, RetryDecision, SignalDelivered, SignalFails, CollectEvidence,
   StoreEvidenceItem, ClassifyException, GenerateRemediationPlan,
   EvaluateApprovalGate, FinalizeApprovalDecision, ApplyDecision,
   FinalizeRaises, ReadCase, SkipExecution, BlockExecution,
   CreateExecutionRecord, MarkStarted, AdapterMisconfigured, CallAdapter,
   RecordOutcome, CloseCase, ResultDiscarded, WorkflowAdvances, WaitSatisfied,
   WorkflowCompletes, RetryAfterError, AttemptLost, At, Doing

(* The workflow never comes back to its first step.                        *)
LEMMA ClassifiedStep ==
    ASSUME TypeInv, OnceInv, ReachedInv, NothingClassified, [Next]_vars
    PROVE  NothingClassified'
<1>1. wf'.step = "collect_evidence" => wf.step = "collect_evidence"
  BY Scheduling DEF NothingScheduled, ScheduledAgain, Schedules, NextStep
<1>2. wf.step = "collect_evidence" => classifications' = classifications
  BY WritersOfEvidence DEF ReachedInv, Reached
<1> QED
  BY <1>1, <1>2 DEF NothingClassified

LEMMA ReachedInvariance == Spec => [](ReachedInv /\ NothingClassified)
<1>1. TypeInv /\ OnceInv /\ OnceInv' /\ (ReachedInv /\ NothingClassified)
        /\ [Next]_vars => (ReachedInv /\ NothingClassified)'
  BY ReachedStep, ClassifiedStep
<1> QED
  BY <1>1, ReachedInit, TypeInvariance, OnceInvariance, PTL DEF Spec

(* Once the case has been classified no evidence is added, not even by an  *)
(* attempt that has outlived its timeout.                                  *)
THEOREM EvidenceIsFrozen == Spec => EvidenceFrozen
<1>1. ReachedInv /\ NothingClassified /\ [Next]_vars
        => [classifications > 0 => UNCHANGED evidence]_vars
  <2> SUFFICES ASSUME ReachedInv, NothingClassified, [Next]_vars,
                      classifications > 0
               PROVE  UNCHANGED evidence
    OBVIOUS
  <2>1. wf.step # "collect_evidence"
    BY DEF NothingClassified
  <2> QED
    BY <2>1, WritersOfEvidence DEF ReachedInv, Reached
<1> QED
  BY <1>1, ReachedInvariance, PTL DEF Spec, EvidenceFrozen

-----------------------------------------------------------------------------
(* The decisions. ReconcileOffered speaks of the row, of the history of    *)
(* decisions and of the workflow, which different actors write: the row    *)
(* shows the last decision as long as no finalize attempt can exist, it is *)
(* linked because no decision is found admissible before, and it says      *)
(* started because nothing but an execution says completed.                *)

GateHasRun == row.approval # "pending_policy" => wf.step \in FromGate
DecidedMeansLinked ==
    decisions # <<>> \/ checked # NothingChecked
        => row.linked /\ row.approval # "pending_policy"
CheckedPending ==
    checked # NothingChecked => checked.loaded.approval = "pending"
LastIsShown ==
    wf.step \notin FromFinalize /\ row.approval \in {"approved", "rejected"}
        => decisions # <<>> /\ row.approval = Last(decisions)
LifecycleStays ==
    wf.step # "execute_action" => row.lifecycle \in {"started", "failed"}
HistoryInv ==
    /\ GateHasRun /\ DecidedMeansLinked /\ CheckedPending /\ LastIsShown
    /\ LifecycleStays

(* The workflow only moves forward.                                        *)
LEMMA StepsForward ==
    ASSUME TypeInv, OnceInv, [Next]_vars
    PROVE  /\ wf.step \in FromGate => wf'.step \in FromGate
           /\ wf.step \in FromFinalize => wf'.step \in FromFinalize
           /\ wf.step = "execute_action" => wf'.step = "execute_action"
BY Scheduling DEF NothingScheduled, ScheduledAgain, Schedules, NextStep,
   FromGate, FromFinalize, Activity

(* The columns of the row an operator's answer depends on, and their       *)
(* writers.                                                                *)
LEMMA WritersOfTheRow ==
    ASSUME TypeInv, [Next]_vars
    PROVE  /\ row.linked => row'.linked
           /\ \/ row'.lifecycle \in {row.lifecycle, "started", "failed"}
              \/ \E s \in Slots : Doing(s, "execute_action")
           /\ \/ row'.approval = row.approval
              \/ /\ \E s \in Slots : EvaluateApprovalGate(s)
                 /\ row'.approval \in {"pending", "not_required"}
              \/ /\ \E s \in Slots : Doing(s, "finalize_approval_decision")
                 /\ row'.approval \in {"approved", "rejected"}
              \/ \E o \in Operators : RecordDecision(o)
<1>1. CASE UNCHANGED row
  BY <1>1
<1>2. CASE ~UNCHANGED row
  <2>1. \/ LinkWorkflow
        \/ \E o \in Operators : RecordDecision(o)
        \/ \E s \in Slots : EvaluateApprovalGate(s) \/ ApplyDecision(s)
        \/ \E s \in Slots : SkipExecution(s) \/ BlockExecution(s)
                            \/ MarkStarted(s) \/ CloseCase(s)
    BY <1>2 DEF Next, ApiStep, AttemptStep, WorkflowStep, Fault, vars, tables,
       StartWorkflow, StartRefused, IngestDies, CheckDecision, RetryDecision,
       SignalDelivered, SignalFails, CollectEvidence, StoreEvidenceItem,
       ClassifyException, GenerateRemediationPlan, FinalizeApprovalDecision,
       FinalizeRaises, ReadCase, CreateExecutionRecord, AdapterMisconfigured,
       CallAdapter, RecordOutcome, ResultDiscarded, WorkflowAdvances,
       WaitSatisfied, WorkflowCompletes, RetryAfterError, AttemptLost
  <2>2. row \in CaseRow
    BY DEF TypeInv, TypeOK
  <2>3. CASE LinkWorkflow
    BY <2>2, <2>3 DEF LinkWorkflow, CaseRow
  <2>4. CASE \E o \in Operators : RecordDecision(o)
    BY <2>2, <2>4 DEF RecordDecision, DecisionCommitted, CaseRow
  <2>5. CASE \E s \in Slots : EvaluateApprovalGate(s)
    BY <2>2, <2>5 DEF EvaluateApprovalGate, CaseRow
  <2>6. CASE \E s \in Slots : ApplyDecision(s)
    <3>1. PICK s \in Slots : ApplyDecision(s)
      BY <2>6
    <3> DEFINE target == TargetState(decisions[attempts[s].ref])
    <3>2. /\ Doing(s, "finalize_approval_decision")
          /\ row' = DecisionCommitted(attempts[s].loaded, target)
          /\ target \in {"approved", "rejected"}
      BY <3>1, PolicyTypes DEF ApplyDecision, At, Doing
    <3> HIDE DEF target
    <3> QED
      BY <2>2, <3>2 DEF DecisionCommitted, CaseRow
  <2>7. CASE \E s \in Slots : SkipExecution(s) \/ BlockExecution(s)
                              \/ MarkStarted(s) \/ CloseCase(s)
    BY <2>2, <2>7 DEF SkipExecution, BlockExecution, MarkStarted, CloseCase,
       CaseMarked, CaseRow, At, Doing
  <2> QED
    BY <2>1, <2>3, <2>4, <2>5, <2>6, <2>7
<1> QED
  BY <1>1, <1>2

(* A decision is written by its one commit, on what its check has left.    *)
LEMMA WritersOfDecisions ==
    ASSUME TypeInv, [Next]_vars
    PROVE  /\ \/ decisions' = decisions
              \/ \E o \in Operators : RecordDecision(o)
           /\ \/ checked' \in {checked, NothingChecked}
              \/ /\ row' = row /\ row.linked /\ row.approval = "pending"
                 /\ decisions' = decisions
                 /\ checked'.loaded.approval = "pending"
<1>1. decisions' = decisions \/ \E o \in Operators : RecordDecision(o)
  BY DEF Next, ApiStep, AttemptStep, WorkflowStep, Fault, vars, tables,
     StartWorkflow, StartRefused, LinkWorkflow, IngestDies, CheckDecision,
     RetryDecision, SignalDelivered, SignalFails, CollectEvidence,
     StoreEvidenceItem, ClassifyException, GenerateRemediationPlan,
     EvaluateApprovalGate, FinalizeApprovalDecision, ApplyDecision,
     FinalizeRaises, ReadCase, SkipExecution, BlockExecution,
     CreateExecutionRecord, MarkStarted, AdapterMisconfigured, CallAdapter,
     RecordOutcome, CloseCase, ResultDiscarded, WorkflowAdvances, WaitSatisfied,
     WorkflowCompletes, RetryAfterError, AttemptLost
<1>2. \/ checked' \in {checked, NothingChecked}
      \/ \E d \in ApprovalDecisionType : CheckDecision(d)
  BY DEF Next, ApiStep, AttemptStep, WorkflowStep, Fault, vars, api,
     StartWorkflow, StartRefused, LinkWorkflow, IngestDies, RecordDecision,
     RetryDecision, SignalDelivered, SignalFails, CollectEvidence,
     StoreEvidenceItem, ClassifyException, GenerateRemediationPlan,
     EvaluateApprovalGate, FinalizeApprovalDecision, ApplyDecision,
     FinalizeRaises, ReadCase, SkipExecution, BlockExecution,
     CreateExecutionRecord, MarkStarted, AdapterMisconfigured, CallAdapter,
     RecordOutcome, CloseCase, ResultDiscarded, WorkflowAdvances, WaitSatisfied,
     WorkflowCompletes, RetryAfterError, AttemptLost
<1>3. ASSUME NEW d \in ApprovalDecisionType, CheckDecision(d)
      PROVE  /\ row' = row /\ row.linked /\ row.approval = "pending"
             /\ decisions' = decisions
             /\ checked'.loaded.approval = "pending"
  BY <1>3 DEF CheckDecision, Loaded, tables
<1> QED
  BY <1>1, <1>2, <1>3

(* What the commit of a decision leaves.                                   *)
LEMMA Recorded ==
    ASSUME TypeInv, CheckedPending, NEW o \in Operators, RecordDecision(o)
    PROVE  /\ checked # NothingChecked /\ checked' = NothingChecked
           /\ checked.decision \in ApprovalDecisionType
           /\ decisions' = Append(decisions, checked.decision)
           /\ Len(decisions') = Len(decisions) + 1
           /\ decisions' # <<>> /\ Last(decisions') = checked.decision
           /\ row'.approval = checked.decision
           /\ row'.linked = row.linked /\ row'.lifecycle = row.lifecycle
           /\ attempts' = attempts /\ wf' = wf /\ faults' = faults
<1>1. checked # NothingChecked /\ checked.decision \in ApprovalDecisionType
  BY DEF RecordDecision, TypeInv, TypeOK, CheckedMeans, Checked
<1>2. TargetState(checked.decision) = checked.decision
  BY <1>1 DEF TargetState, ApprovalDecisionType
<1>3. row \in CaseRow /\ checked.loaded.approval = "pending"
  BY <1>1 DEF TypeInv, TypeOK, CheckedPending
<1>4. checked.decision # "pending"
  BY <1>1 DEF ApprovalDecisionType
<1>5. row' = DecisionCommitted(checked.loaded, checked.decision)
  BY <1>2 DEF RecordDecision
<1>6. /\ row'.approval = checked.decision
      /\ row'.linked = row.linked /\ row'.lifecycle = row.lifecycle
  BY <1>3, <1>4, <1>5 DEF DecisionCommitted, CaseRow
<1>7. /\ decisions \in Seq(ApprovalDecisionType)
      /\ decisions' = Append(decisions, checked.decision)
  BY DEF RecordDecision, TypeInv, TypeOK
<1>8. /\ Len(decisions') = Len(decisions) + 1
      /\ decisions' # <<>> /\ Last(decisions') = checked.decision
  BY <1>1, <1>7, AppendProperties DEF Last
<1> QED
  BY <1>1, <1>6, <1>7, <1>8 DEF RecordDecision

LEMMA HistoryInit == Init => HistoryInv
BY DEF Init, NewCase, HistoryInv, GateHasRun, DecidedMeansLinked,
   CheckedPending, LastIsShown, LifecycleStays, FromGate, FromFinalize

LEMMA HistoryStep ==
    ASSUME TypeInv, OnceInv, ReachedInv, HistoryInv, [Next]_vars
    PROVE  HistoryInv'
<1>0. /\ GateHasRun /\ DecidedMeansLinked /\ CheckedPending
      /\ LastIsShown /\ LifecycleStays
  BY DEF HistoryInv
<1>1. ASSUME NEW o \in Operators, RecordDecision(o)
      PROVE  HistoryInv'
  <2>1. row'.approval \in {"approved", "rejected"}
    BY <1>0, <1>1, Recorded DEF ApprovalDecisionType
  <2>2. row.linked /\ wf.step \in FromGate
    BY <1>0, <1>1, Recorded DEF DecidedMeansLinked, GateHasRun
  <2> QED
    BY <1>0, <1>1, <2>1, <2>2, Recorded DEF HistoryInv, GateHasRun,
       DecidedMeansLinked, CheckedPending, LastIsShown, LifecycleStays
<1>2. ASSUME ~\E o \in Operators : RecordDecision(o)
      PROVE  HistoryInv'
  <2>1. decisions' = decisions
    BY <1>2, WritersOfDecisions
  <2>2. \/ row'.approval = row.approval
        \/ /\ wf.step \in FromGate
           /\ row'.approval \in {"pending", "not_required"}
        \/ /\ wf.step \in FromFinalize
           /\ row'.approval \in {"approved", "rejected"}
    BY <1>2, WritersOfTheRow DEF ReachedInv, Reached, EvaluateApprovalGate, At, Doing
  <2>3. GateHasRun'
    BY <1>0, <2>2, StepsForward DEF GateHasRun, FromGate
  <2>4. DecidedMeansLinked'
    BY <1>0, <2>1, <2>2, WritersOfTheRow, WritersOfDecisions
    DEF DecidedMeansLinked
  <2>5. CheckedPending'
    BY <1>0, WritersOfDecisions DEF CheckedPending
  <2>6. LastIsShown'
    BY <1>0, <2>1, <2>2, StepsForward DEF LastIsShown
  <2>7. LifecycleStays'
    <3>1. wf'.step # "execute_action" => wf.step # "execute_action"
      BY StepsForward
    <3>2. wf.step # "execute_action" => \A s \in Slots : ~Doing(s, "execute_action")
      BY DEF OnceInv, StepKnown, Executing, Doing
    <3> QED
      BY <1>0, <3>1, <3>2, WritersOfTheRow DEF LifecycleStays
  <2> QED
    BY <2>3, <2>4, <2>5, <2>6, <2>7 DEF HistoryInv
<1> QED
  BY <1>1, <1>2

LEMMA HistoryInvariance == Spec => []HistoryInv
<1>1. TypeInv /\ OnceInv /\ ReachedInv /\ HistoryInv /\ [Next]_vars => HistoryInv'
  BY HistoryStep
<1> QED
  BY <1>1, HistoryInit, TypeInvariance, OnceInvariance, ReachedInvariance, PTL
     DEF Spec

(* A decided case whose workflow still waits without a signal accepts the  *)
(* same decision again, whatever attempts have been lost or run late.      *)
THEOREM ReconcileIsOffered == Spec => []ReconcileOffered
<1>1. TypeInv /\ HistoryInv => ReconcileOffered
  <2> SUFFICES ASSUME TypeInv, HistoryInv, wf.step = "wait",
                      row.lifecycle # "failed",
                      row.approval \in {"approved", "rejected"}
               PROVE  \E d \in ApprovalDecisionType : RetryAccepted(d)
    BY DEF ReconcileOffered
  <2>1. decisions # <<>> /\ row.approval = Last(decisions)
    BY DEF HistoryInv, LastIsShown, FromFinalize
  <2>2. row.linked /\ row.lifecycle = "started"
    BY <2>1 DEF HistoryInv, DecidedMeansLinked, LifecycleStays
  <2>3. TargetState(row.approval) = row.approval
    BY DEF TargetState
  <2>4. RetryAccepted(row.approval)
    BY <2>1, <2>2, <2>3 DEF RetryAccepted
  <2> QED
    BY <2>4 DEF ApprovalDecisionType
<1> QED
  BY <1>1, TypeInvariance, HistoryInvariance, PTL

-----------------------------------------------------------------------------
(* DecisionsPerGate counts. What a gate attempt that has still to write    *)
(* can make possible is counted with what operators have done already: the *)
(* decisions, the open question (a pending case, or a decision found       *)
(* admissible and not yet committed), and the gate attempts that have not  *)
(* written. Only a lost attempt adds to the sum.                           *)

GateAttempts == {s \in Slots : At(s, "evaluate_approval_gate", "ready")}
OpenQuestion ==
    IF row.approval = "pending" \/ checked # NothingChecked THEN 1 ELSE 0
GateSum == Len(decisions) + OpenQuestion + Cardinality(GateAttempts)
GatesInv == GateSum <= Current

LEMMA GateAttemptsFinite ==
    /\ IsFiniteSet(GateAttempts)
    /\ Cardinality(GateAttempts) \in Nat
<1>1. IsFiniteSet(Slots)
  BY FS_Interval, DomainsHold DEF Slots, Domains
<1>2. IsFiniteSet(GateAttempts)
  BY <1>1, FS_Subset DEF GateAttempts
<1> QED
  BY <1>2, FS_CardinalityType

LEMMA GatesInit == Init => GatesInv
<1> SUFFICES ASSUME Init PROVE GatesInv
  OBVIOUS
<1>1. GateAttempts = {}
  BY IdleType DEF Init, NewCase, GateAttempts, At
<1>2. Cardinality(GateAttempts) = 0
  BY <1>1, FS_EmptySet
<1>3. OpenQuestion = 0 /\ Len(decisions) = 0 /\ Current = 1
  BY DEF Init, NewCase, OpenQuestion, Current
<1> QED
  BY <1>2, <1>3 DEF GatesInv, GateSum

(* How many gate attempts that have not written a step leaves.             *)
LEMMA GateAttemptsMove ==
    ASSUME TypeInv, OnceInv, OnceInv', ReachedInv, [Next]_vars
    PROVE  \/ /\ Cardinality(GateAttempts') <= Cardinality(GateAttempts)
              /\ faults' = faults
           \/ /\ Cardinality(GateAttempts') <= Cardinality(GateAttempts) + 1
              /\ faults' = faults + 1
           \/ /\ Cardinality(GateAttempts') <= 1 /\ GateAttempts = {}
              /\ wf.step \notin FromGate
              /\ faults' = faults
<1>0. /\ IsFiniteSet(GateAttempts)
      /\ Cardinality(GateAttempts) \in Nat
      /\ Current \in Slots
  BY GateAttemptsFinite, CurrentIsSlot DEF TypeInv
<1>1. ASSUME NEW t \in Slots, SlotStays(t), t \in GateAttempts'
      PROVE  t \in GateAttempts
  <2>1. attempts'[t].act = "evaluate_approval_gate" /\ attempts'[t].pc = "ready"
    BY <1>1 DEF GateAttempts, At
  <2>2. /\ attempts[t].act = "evaluate_approval_gate"
        /\ attempts[t].pc \in {"ready", "raised"}
    BY <1>1, <2>1 DEF SlotStays
  <2>3. attempts[t].pc # "raised"
    BY <1>1, <2>2 DEF ReachedInv, OnlyFinalizeRaises, Doing
  <2> QED
    BY <1>1, <2>2, <2>3 DEF GateAttempts, At
<1>2. GateAttempts' \subseteq Slots
  BY DEF GateAttempts
<1>3. CASE NothingScheduled
  <2>1. GateAttempts' \subseteq GateAttempts
    BY <1>1, <1>2, <1>3 DEF NothingScheduled
  <2> QED
    BY <1>3, <2>1, <1>0, FS_Subset DEF NothingScheduled
<1>4. CASE ScheduledAgain
  <2>1. PICK n \in Slots : n = Current + 1
    BY <1>4 DEF ScheduledAgain
  <2>2. GateAttempts' \subseteq GateAttempts \cup {n}
    BY <1>1, <1>2, <1>4, <2>1 DEF ScheduledAgain
  <2>3. /\ IsFiniteSet(GateAttempts \cup {n})
        /\ Cardinality(GateAttempts \cup {n})
             \in {Cardinality(GateAttempts), Cardinality(GateAttempts) + 1}
    BY <1>0, FS_AddElement
  <2>4. Cardinality(GateAttempts') <= Cardinality(GateAttempts \cup {n})
    BY <2>2, <2>3, FS_Subset
  <2>5. Cardinality(GateAttempts') \in Nat
    BY <2>2, <2>3, FS_Subset, FS_CardinalityType
  <2>6. faults' = faults + 1
    BY <1>4 DEF ScheduledAgain
  <2> QED
    BY <1>0, <2>3, <2>4, <2>5, <2>6
<1>5. ASSUME NEW act \in Step, Schedules(act)
      PROVE  \/ GateAttempts' \subseteq GateAttempts
             \/ /\ Cardinality(GateAttempts') <= 1 /\ GateAttempts = {}
                /\ wf.step \notin FromGate
  <2>1. PICK c \in Slots : c = Current
    BY <1>0
  <2>2. /\ \A t \in Slots : t # c => attempts'[t] = attempts[t]
        /\ attempts'[c].act \in {act, "none"}
    BY <1>5, <2>1 DEF Schedules
  <2>3. CASE act # "evaluate_approval_gate"
    <3>1. c \notin GateAttempts'
      BY <2>2, <2>3 DEF GateAttempts, At
    <3>2. GateAttempts' \subseteq GateAttempts
      BY <2>2, <3>1 DEF GateAttempts, At
    <3> QED
      BY <3>2
  <2>4. CASE act = "evaluate_approval_gate"
    <3>1. wf.step \notin FromGate
      BY <1>5, <2>4 DEF Schedules, NextStep, FromGate, FromFinalize, Activity
    <3>2. GateAttempts = {}
      BY <3>1 DEF ReachedInv, Reached, GateAttempts, At, Doing
    <3>3. GateAttempts' \subseteq {c}
      BY <2>2, <3>2 DEF GateAttempts, At
    <3>4. IsFiniteSet({c}) /\ Cardinality({c}) = 1
      BY FS_Singleton
    <3>5. Cardinality(GateAttempts') <= 1
      BY <3>3, <3>4, FS_Subset
    <3> QED
      BY <3>1, <3>2, <3>5
  <2> QED
    BY <2>3, <2>4
<1>6. ASSUME NEW act \in Step, Schedules(act)
      PROVE  faults' = faults
  BY <1>6 DEF Schedules
<1>7. GateAttempts' \subseteq GateAttempts =>
        Cardinality(GateAttempts') <= Cardinality(GateAttempts)
  BY <1>0, FS_Subset
<1> HIDE DEF GateAttempts
<1> QED
  BY <1>3, <1>4, <1>5, <1>6, <1>7, Scheduling

(* The gate attempt that writes is one fewer.                              *)
LEMMA GateWrites ==
    ASSUME TypeInv, NEW s \in Slots, EvaluateApprovalGate(s)
    PROVE  /\ Cardinality(GateAttempts') = Cardinality(GateAttempts) - 1
           /\ faults' = faults /\ decisions' = decisions
<1>1. s \in GateAttempts /\ IsFiniteSet(GateAttempts)
  BY GateAttemptsFinite DEF EvaluateApprovalGate, GateAttempts
<1>2. attempts \in [Slots -> Attempt] /\ attempts[s] \in Attempt
  BY DEF TypeInv, TypeOK
<1>3. /\ attempts'[s].pc = "returned"
      /\ \A t \in Slots : t # s => attempts'[t] = attempts[t]
  BY <1>2 DEF EvaluateApprovalGate, Goto, Attempt
<1>4. GateAttempts' = GateAttempts \ {s}
  BY <1>3 DEF GateAttempts, At
<1>5. Cardinality(GateAttempts \ {s}) = Cardinality(GateAttempts) - 1
  BY <1>1, FS_RemoveElement
<1> QED
  BY <1>4, <1>5 DEF EvaluateApprovalGate

(* The sums that GatesStep compares.                                       *)
LEMMA Sums ==
    ASSUME NEW n \in Nat, NEW q \in {0, 1}, NEW r \in {0, 1}, NEW g \in Nat,
           NEW h \in Nat, NEW f \in Nat, n + q + g <= f + 1
    PROVE  /\ h = g - 1 => n + r + h <= f + 1
           /\ r <= q /\ h <= g => n + r + h <= f + 1
           /\ r <= q /\ h <= g + 1 => n + r + h <= (f + 1) + 1
           /\ r <= q /\ n = 0 /\ q = 0 /\ h <= 1 => n + r + h <= f + 1
OBVIOUS

LEMMA GatesStep ==
    ASSUME TypeInv, OnceInv, OnceInv', ReachedInv, HistoryInv, GatesInv,
           [Next]_vars
    PROVE  GatesInv'
<1> DEFINE n == Len(decisions)
           g == Cardinality(GateAttempts)
           h == Cardinality(GateAttempts')
           q == OpenQuestion
<1>1. /\ g \in Nat /\ h \in Nat /\ n \in Nat /\ n' \in Nat
      /\ faults \in Nat
  <2>1. TypeInv'
    BY TypeStep
  <2>2. /\ decisions \in Seq(ApprovalDecisionType)
        /\ decisions' \in Seq(ApprovalDecisionType)
        /\ faults \in Nat
    BY <2>1, DomainsHold DEF TypeInv, TypeOK, Domains
  <2>3. n \in Nat /\ n' \in Nat
    BY <2>2
  <2>4. g \in Nat
    BY GateAttemptsFinite
  <2>5. h \in Nat
    <3>1. IsFiniteSet(Slots) /\ GateAttempts' \subseteq Slots
      BY FS_Interval, DomainsHold DEF Slots, Domains, GateAttempts
    <3> QED
      BY <3>1, FS_Subset, FS_CardinalityType
  <2> QED
    BY <2>2, <2>3, <2>4, <2>5
<1>2. q \in {0, 1} /\ q' \in {0, 1}
  BY DEF OpenQuestion
<1>3. n + q + g <= faults + 1
  BY DEF GatesInv, GateSum, Current
<1>4. SUFFICES n' + q' + h <= faults' + 1
  BY DEF GatesInv, GateSum, Current
<1>5. ASSUME NEW o \in Operators, RecordDecision(o)
      PROVE  n' + q' + h <= faults' + 1
  <2>1. n' = n + 1 /\ faults' = faults
    BY <1>5, Recorded DEF HistoryInv
  <2>2. h = g
    BY <1>5, Recorded DEF HistoryInv, GateAttempts, At
  <2>3. q = 1
    BY <1>5, Recorded DEF HistoryInv, OpenQuestion
  <2>4. q' = 0
    BY <1>5, Recorded DEF HistoryInv, OpenQuestion, ApprovalDecisionType
  <2> HIDE DEF n, g, h, q
  <2> QED
    BY <1>1, <1>3, <2>1, <2>2, <2>3, <2>4
<1>6. ASSUME NEW s \in Slots, EvaluateApprovalGate(s)
      PROVE  n' + q' + h <= faults' + 1
  <2>1. h = g - 1 /\ n' = n /\ faults' = faults
    BY <1>6, GateWrites
  <2>2. n + q' + h <= faults + 1
    <3> HIDE DEF n, g, h, q
    <3> QED
      BY <1>1, <1>2, <1>3, <2>1, Sums
  <2> QED
    BY <2>1, <2>2
<1>7. ASSUME ~\E o \in Operators : RecordDecision(o),
             ~\E s \in Slots : EvaluateApprovalGate(s)
      PROVE  n' + q' + h <= faults' + 1
  <2>1. n' = n
    BY <1>7, WritersOfDecisions
  <2>2. row'.approval = "pending" => row.approval = "pending"
    BY <1>7, WritersOfTheRow
  <2>3. checked' # NothingChecked => checked # NothingChecked \/ row.approval = "pending"
    BY WritersOfDecisions
  <2>4. q' <= q
    <3>1. CASE q = 1
      BY <1>2, <3>1
    <3>2. CASE q # 1
      <4>1. row.approval # "pending" /\ checked = NothingChecked
        BY <3>2 DEF OpenQuestion
      <4>2. row'.approval # "pending" /\ checked' = NothingChecked
        BY <2>2, <2>3, <4>1
      <4>3. q' = 0
        BY <4>2 DEF OpenQuestion, NothingChecked, NothingLoaded
      <4> QED
        BY <1>2, <4>3
    <3> QED
      BY <3>1, <3>2
  <2>5. wf.step \notin FromGate => n = 0 /\ q = 0
    BY DEF HistoryInv, GateHasRun, DecidedMeansLinked, OpenQuestion
  <2>6. \/ h <= g /\ faults' = faults
        \/ h <= g + 1 /\ faults' = faults + 1
        \/ h <= 1 /\ wf.step \notin FromGate /\ faults' = faults
    BY GateAttemptsMove
  <2>7. CASE h <= g /\ faults' = faults
    <3>1. n + q' + h <= faults + 1
      <4> HIDE DEF n, g, h, q
      <4> QED
        BY <1>1, <1>2, <1>3, <2>4, <2>7, Sums
    <3> QED
      BY <2>1, <2>7, <3>1
  <2>8. CASE h <= g + 1 /\ faults' = faults + 1
    <3>1. n + q' + h <= (faults + 1) + 1
      <4> HIDE DEF n, g, h, q
      <4> QED
        BY <1>1, <1>2, <1>3, <2>4, <2>8, Sums
    <3> QED
      BY <2>1, <2>8, <3>1
  <2>9. CASE h <= 1 /\ wf.step \notin FromGate /\ faults' = faults
    <3>1. n + q' + h <= faults + 1
      <4> HIDE DEF n, g, h, q
      <4> QED
        BY <1>1, <1>2, <1>3, <2>4, <2>5, <2>9, Sums
    <3> QED
      BY <2>1, <2>9, <3>1
  <2> QED
    BY <2>6, <2>7, <2>8, <2>9
<1> QED
  BY <1>5, <1>6, <1>7

(* Operators cannot contradict each other without a lost attempt: every    *)
(* decision has had a gate attempt of its own, and the first is free.      *)
THEOREM DecisionsNeedAGate == Spec => []DecisionsPerGate
<1>1. TypeInv /\ GatesInv => DecisionsPerGate
  <2> SUFFICES ASSUME TypeInv, GatesInv PROVE DecisionsPerGate
    OBVIOUS
  <2> DEFINE n == Len(decisions)
             g == Cardinality(GateAttempts)
  <2>1. n \in Nat /\ g \in Nat /\ OpenQuestion \in {0, 1} /\ faults \in Nat
    BY GateAttemptsFinite, DomainsHold DEF TypeInv, TypeOK, OpenQuestion, Domains
  <2>2. n + OpenQuestion + g <= faults + 1
    BY DEF GatesInv, GateSum, Current
  <2>3. n <= faults + 1
    <3> HIDE DEF n, g
    <3> QED
      BY <2>1, <2>2
  <2> QED
    BY <2>3 DEF DecisionsPerGate, Current
<1>2. TypeInv /\ OnceInv /\ OnceInv' /\ ReachedInv /\ HistoryInv /\ GatesInv
        /\ [Next]_vars => GatesInv'
  BY GatesStep
<1> QED
  BY <1>1, <1>2, GatesInit, TypeInvariance, OnceInvariance, ReachedInvariance,
     HistoryInvariance, PTL DEF Spec

=============================================================================
