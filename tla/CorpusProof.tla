---------------------------- MODULE CorpusProof -----------------------------
(***************************************************************************)
(* Proofs about Corpus, for any selection of fixtures, any settings of the *)
(* process and every stage to stop at. A replay calls the activities of    *)
(* the workflow one after the other, so what they leave behind is known at *)
(* every place: that gives the types, the ends of a replay, the approval   *)
(* boundary and, with what the services answer, the outcome of a fixture   *)
(* and the expectations of the corpus.                                     *)
(***************************************************************************)
EXTENDS Corpus, CaseResolutionProof, FiniteSetTheorems

-----------------------------------------------------------------------------
(* How far a replay has come, told by the activity its driver awaits.      *)

Awaited == attempts[Current]
EvidenceIn == Awaited.act # "collect_evidence" \/ Awaited.pc = "returned"
Classified ==
    \/ Awaited.act \notin {"collect_evidence", "classify_exception"}
    \/ Awaited.act = "classify_exception" /\ Awaited.pc = "returned"
Planned ==
    \/ Awaited.act \in {"evaluate_approval_gate", "finalize_approval_decision",
                        "execute_action"}
    \/ Awaited.act = "generate_remediation_plan" /\ Awaited.pc = "returned"
GateIsOver == Awaited.act = "evaluate_approval_gate" /\ Awaited.pc = "returned"
Ruled == Awaited.act \in {"finalize_approval_decision", "execute_action"}
Executes(pcs) == Awaited.act = "execute_action" /\ Awaited.pc \in pcs

(* Where an activity is in a replay: none raises, and none is blocked.     *)
PcsOf(act) ==
    CASE act = "collect_evidence" -> {"ready", "store", "returned"}
      [] act = "finalize_approval_decision" -> {"ready", "apply", "returned"}
      [] act = "execute_action" ->
           {"ready", "skip", "create", "mark", "call", "record", "close", "returned"}
      [] OTHER -> {"ready", "returned"}

InStep ==
    /\ faults = 0
    /\ Awaited.act \in Activity
    /\ Awaited.pc \in PcsOf(Awaited.act)
    /\ driver.stage = Stage(Awaited.act)

(* What driver and settings say of each other, and why the driver left.    *)
Misfit ==
    /\ row.approval # "pending"
    /\ fixture.decision # "none" \/ fixture.until = "approval_decision"
Left ==
    /\ driver \in Driver
    /\ fixture \in Fixture
    /\ overridden = IF driver.pc = "running" THEN fixture.overrides ELSE {}
    /\ driver.pc = "stopped" => Awaited.pc = "returned"
    /\ driver.pc = "raised" => (GateIsOver /\ Misfit)

(* The records of the stages that are over.                                *)
Reviewed ==
    /\ classifications = IF Classified THEN 1 ELSE 0
    /\ Len(plans) = IF Planned THEN 1 ELSE 0
    /\ decisions = IF Ruled /\ fixture.decision # "none"
                     THEN <<fixture.decision>> ELSE <<>>

(* The verdict on the case: the gate's, and then the fixture's.            *)
GateState == IF RequiresApproval(row.risk) THEN "pending" ELSE "not_required"
Judged ==
    /\ (~GateIsOver /\ ~Ruled) => row.approval = "pending_policy"
    /\ GateIsOver => row.approval = GateState
    /\ Ruled =>
         IF fixture.decision = "none"
           THEN /\ ~RequiresApproval(row.risk)
                /\ row.approval = "not_required"
                /\ Awaited.act = "execute_action"
           ELSE /\ RequiresApproval(row.risk)
                /\ row.approval = fixture.decision
    /\ Awaited.act = "finalize_approval_decision" => Awaited.ref = 1

(* What has been executed at each place of execute_action.                 *)
Opened(status) == executions = <<[action |-> Awaited.action, status |-> status]>>
Untouched == executions = <<>> /\ effects = <<>>
AskedAtMostOnce == effects \in {<<>>, <<Awaited.action>>}
ClosedAs(outcome) ==
    /\ row.execution = outcome
    /\ row.lifecycle = IF outcome = "failed" THEN "failed" ELSE "completed"

Performed ==
    /\ (Awaited.act # "execute_action" \/ Executes({"ready", "skip", "create"}))
         => Untouched
    /\ (Awaited.act # "execute_action"
        \/ Executes({"ready", "skip", "create", "mark"}))
         => row.execution = "pending"
    /\ Executes({"skip"}) => row.approval = "rejected"
    /\ Executes({"create", "mark", "call", "record", "close"}) =>
         /\ row.approval # "rejected"
         /\ Awaited.action = PermittedAction(LatestAdvice)
    /\ Executes({"mark", "call"}) => (Opened("started") /\ effects = <<>>)
    /\ Executes({"record"}) => (Opened("started") /\ AskedAtMostOnce)
    /\ Executes({"mark", "call", "record"}) => Awaited.ref = 1
    /\ Executes({"close"}) => (Opened(Awaited.outcome) /\ AskedAtMostOnce)
    /\ Executes({"call", "record", "close"}) => row.execution = "started"
    /\ (Executes({"returned"}) /\ row.approval = "rejected") =>
         (Untouched /\ ClosedAs("skipped"))
    /\ (Executes({"returned"}) /\ row.approval # "rejected") =>
         /\ Opened(Awaited.outcome) /\ AskedAtMostOnce
         /\ Awaited.outcome \in {"failed", "succeeded"}
         /\ Awaited.action = PermittedAction(LatestAdvice)
         /\ ClosedAs(Awaited.outcome)

ReplayInv == TypeInv /\ InStep /\ Left /\ Reviewed /\ Judged /\ Performed

(* The fixture under replay and the settings it is replayed under.         *)
Used == Overriding(original, Entry.overrides)
Underway ==
    /\ corpus \in Seq(Entries) \ {<<>>}
    /\ original \in Settings
    /\ fixture = FixtureOf(Entry, fixture.until)
    /\ row.risk = Entry.request.risk
    /\ settings = IF driver.pc = "running" THEN Used ELSE original

(* What the services have answered, and what is left of their answers.     *)
Answered ==
    /\ ai = [classification |-> ai.classification, remediation |-> ai.remediation]
    /\ At(Current, "collect_evidence", "ready") => evidence = <<>>
    /\ At(Current, "collect_evidence", "store") =>
         evidence \o Awaited.items = Collected(Entry.request, Used, FALSE)
    /\ EvidenceIn => evidence = Collected(Entry.request, Used, FALSE)
    /\ Classified => ai.classification \in Classifications(Entry.request, Used)
    /\ Planned =>
         /\ ai.remediation \in
              Remediations(Entry.request, ai.classification, evidence, Used)
         /\ plans[1] = ai.remediation.action
    /\ (Executes({"record", "close", "returned"}) /\ row.approval # "rejected") =>
         Awaited.outcome = IF AdapterAnswer(Entry.request, Used) = "succeeded"
                             THEN "succeeded" ELSE "failed"

-----------------------------------------------------------------------------
(* An activity under way. Its steps are those of CaseResolution, so the    *)
(* lemma about the types of a step of the workflow applies to them.        *)

LEMMA ActivityIsStep ==
    ASSUME TypeInv, ActivityStep
    PROVE  /\ Next
           /\ TypeInv'
           /\ AttemptStep(Current)
           /\ driver.pc = "running"
           /\ UNCHANGED <<driver, fixture, overridden>>
<1>1. Current \in Slots
  BY CurrentIsSlot DEF TypeInv
<1>2. AttemptStep(Current)
  BY DEF ActivityStep
<1>3. Next
  BY <1>1, <1>2 DEF Next
<1> QED
  BY <1>2, <1>3, TypeStep DEF ActivityStep, replayVars

(* What a step makes of the attempt the driver awaits.                     *)
LEMMA AwaitedType ==
    ASSUME TypeInv, UNCHANGED faults
    PROVE  /\ Current \in Slots /\ attempts \in [Slots -> Attempt]
           /\ Current' = Current
           /\ Awaited \in Attempt
BY CurrentIsSlot DEF TypeInv, TypeOK, Current, Awaited

LEMMA GoesTo ==
    ASSUME TypeInv, UNCHANGED faults, NEW pc, Goto(Current, pc)
    PROVE  /\ Awaited'.pc = pc
           /\ Awaited'.act = Awaited.act
           /\ Awaited'.items = Awaited.items
           /\ Awaited'.ref = Awaited.ref
           /\ Awaited'.loaded = Awaited.loaded
           /\ Awaited'.action = Awaited.action
           /\ Awaited'.outcome = Awaited.outcome
BY AwaitedType DEF Goto, Awaited, Attempt

LEMMA GoesWithItems ==
    ASSUME TypeInv, UNCHANGED faults, NEW items, NEW pc,
           attempts' = [attempts EXCEPT ![Current].items = items,
                                        ![Current].pc = pc]
    PROVE  /\ Awaited'.pc = pc
           /\ Awaited'.act = Awaited.act
           /\ Awaited'.items = items
BY AwaitedType DEF Awaited, Attempt

LEMMA GoesWithLoaded ==
    ASSUME TypeInv, UNCHANGED faults, NEW loaded, NEW pc,
           attempts' = [attempts EXCEPT ![Current].pc = pc,
                                        ![Current].loaded = loaded]
    PROVE  /\ Awaited'.pc = pc
           /\ Awaited'.act = Awaited.act
           /\ Awaited'.ref = Awaited.ref
           /\ Awaited'.loaded = loaded
BY AwaitedType DEF Awaited, Attempt

LEMMA GoesWithAction ==
    ASSUME TypeInv, UNCHANGED faults, NEW action, NEW pc,
           attempts' = [attempts EXCEPT ![Current].pc = pc,
                                        ![Current].action = action]
    PROVE  /\ Awaited'.pc = pc
           /\ Awaited'.act = Awaited.act
           /\ Awaited'.action = action
BY AwaitedType DEF Awaited, Attempt

LEMMA GoesWithRef ==
    ASSUME TypeInv, UNCHANGED faults, NEW ref, NEW pc,
           attempts' = [attempts EXCEPT ![Current].pc = pc,
                                        ![Current].ref = ref]
    PROVE  /\ Awaited'.pc = pc
           /\ Awaited'.act = Awaited.act
           /\ Awaited'.action = Awaited.action
           /\ Awaited'.ref = ref
BY AwaitedType DEF Awaited, Attempt

LEMMA GoesWithOutcome ==
    ASSUME TypeInv, UNCHANGED faults, NEW outcome, NEW pc,
           attempts' = [attempts EXCEPT ![Current].pc = pc,
                                        ![Current].outcome = outcome]
    PROVE  /\ Awaited'.pc = pc
           /\ Awaited'.act = Awaited.act
           /\ Awaited'.action = Awaited.action
           /\ Awaited'.ref = Awaited.ref
           /\ Awaited'.outcome = outcome
BY AwaitedType DEF Awaited, Attempt

LEMMA Restarted ==
    ASSUME TypeInv, UNCHANGED faults, NEW act, NEW ref,
           attempts' = [attempts EXCEPT ![Current] = Started(act, ref)]
    PROVE  /\ Awaited' = Started(act, ref)
           /\ Awaited'.act = act
           /\ Awaited'.pc = "ready"
           /\ Awaited'.ref = ref
           /\ Awaited'.items = <<>>
BY AwaitedType DEF Awaited, Started

LEMMA Places ==
    /\ PcsOf("collect_evidence") = {"ready", "store", "returned"}
    /\ PcsOf("classify_exception") = {"ready", "returned"}
    /\ PcsOf("generate_remediation_plan") = {"ready", "returned"}
    /\ PcsOf("evaluate_approval_gate") = {"ready", "returned"}
    /\ PcsOf("finalize_approval_decision") = {"ready", "apply", "returned"}
    /\ PcsOf("execute_action") =
         {"ready", "skip", "create", "mark", "call", "record", "close", "returned"}
BY DEF PcsOf

LEMMA Stages ==
    /\ Stage("collect_evidence") = "evidence"
    /\ Stage("classify_exception") = "classification"
    /\ Stage("generate_remediation_plan") = "remediation"
    /\ Stage("evaluate_approval_gate") = "approval_gate"
    /\ Stage("finalize_approval_decision") = "approval_decision"
    /\ Stage("execute_action") = "execution"
BY DEF Stage

-----------------------------------------------------------------------------
(* The steps of the activities, one lemma for each.                        *)

LEMMA EvidenceSteps ==
    ASSUME ReplayInv, CollectEvidence(Current) \/ StoreEvidenceItem(Current),
           UNCHANGED <<driver, fixture, overridden>>
    PROVE  InStep' /\ Reviewed' /\ Judged' /\ Performed'
<1>1. /\ UNCHANGED <<row, classifications, plans, decisions, executions, effects,
                     faults>>
      /\ Awaited.act = "collect_evidence"
  BY DEF CollectEvidence, StoreEvidenceItem, tables, reviewed, At, Awaited
<1>2. /\ Awaited'.act = "collect_evidence"
      /\ Awaited'.pc \in {"store", "returned"}
  <2>1. CASE CollectEvidence(Current)
    <3>1. PICK items \in EvidenceResults \cup {<<"failed">>} :
             attempts' = [attempts EXCEPT
                        ![Current].items = items,
                        ![Current].pc = IF items = <<>> THEN "returned" ELSE "store"]
      BY <2>1 DEF CollectEvidence
    <3> QED
      BY <3>1, <1>1, GoesWithItems DEF ReplayInv
  <2>2. CASE StoreEvidenceItem(Current)
    <3>1. attempts' = [attempts EXCEPT
             ![Current].items = Tail(attempts[Current].items),
             ![Current].pc = IF Len(attempts[Current].items) = 1 THEN "returned"
                                                                 ELSE "store"]
      BY <2>2 DEF StoreEvidenceItem
    <3> QED
      BY <3>1, <1>1, GoesWithItems DEF ReplayInv
  <2> QED
    BY <2>1, <2>2
<1>3. InStep'
  BY <1>1, <1>2, Places DEF ReplayInv, InStep
<1>4. Reviewed'
  BY <1>1, <1>2 DEF ReplayInv, Reviewed, Classified, Planned, Ruled
<1>5. Judged'
  BY <1>1, <1>2 DEF ReplayInv, Judged, GateIsOver, Ruled
<1>6. Performed'
  BY <1>1, <1>2 DEF ReplayInv, Performed, Executes, Untouched
<1> QED
  BY <1>3, <1>4, <1>5, <1>6

LEMMA ClassificationStep ==
    ASSUME ReplayInv, ClassifyException(Current),
           UNCHANGED <<driver, fixture, overridden>>
    PROVE  InStep' /\ Reviewed' /\ Judged' /\ Performed'
<1>1. /\ UNCHANGED <<row, plans, decisions, executions, effects, faults>>
      /\ classifications' = classifications + 1
      /\ Awaited.act = "classify_exception" /\ Awaited.pc = "ready"
  BY DEF ClassifyException, At, Awaited
<1>2. Awaited'.act = "classify_exception" /\ Awaited'.pc = "returned"
  BY <1>1, GoesTo DEF ClassifyException, ReplayInv
<1>3. InStep'
  BY <1>1, <1>2, Places DEF ReplayInv, InStep
<1>4. Reviewed'
  BY <1>1, <1>2 DEF ReplayInv, Reviewed, Classified, Planned, Ruled
<1>5. Judged'
  BY <1>1, <1>2 DEF ReplayInv, Judged, GateIsOver, Ruled
<1>6. Performed'
  BY <1>1, <1>2 DEF ReplayInv, Performed, Executes, Untouched
<1> QED
  BY <1>3, <1>4, <1>5, <1>6

LEMMA RemediationStep ==
    ASSUME ReplayInv, GenerateRemediationPlan(Current),
           UNCHANGED <<driver, fixture, overridden>>
    PROVE  InStep' /\ Reviewed' /\ Judged' /\ Performed'
<1>1. /\ UNCHANGED <<row, classifications, decisions, executions, effects, faults>>
      /\ Awaited.act = "generate_remediation_plan" /\ Awaited.pc = "ready"
  BY DEF GenerateRemediationPlan, At, Awaited
<1>2. Awaited'.act = "generate_remediation_plan" /\ Awaited'.pc = "returned"
  BY <1>1, GoesTo DEF GenerateRemediationPlan, ReplayInv
<1>3. Len(plans') = 1
  <2>1. Len(plans) = 0 /\ plans \in Seq(Advice)
    BY <1>1 DEF ReplayInv, Reviewed, Planned, TypeInv, TypeOK
  <2>2. PICK advice : plans' = Append(plans, advice)
    BY DEF GenerateRemediationPlan
  <2> QED
    BY <2>1, <2>2
<1>4. InStep'
  BY <1>1, <1>2, Places DEF ReplayInv, InStep
<1>5. Reviewed'
  BY <1>1, <1>2, <1>3 DEF ReplayInv, Reviewed, Classified, Planned, Ruled
<1>6. Judged'
  BY <1>1, <1>2 DEF ReplayInv, Judged, GateIsOver, Ruled
<1>7. Performed'
  BY <1>1, <1>2 DEF ReplayInv, Performed, Executes, Untouched
<1> QED
  BY <1>4, <1>5, <1>6, <1>7

LEMMA GateStepOfReplay ==
    ASSUME ReplayInv, EvaluateApprovalGate(Current),
           UNCHANGED <<driver, fixture, overridden>>
    PROVE  InStep' /\ Reviewed' /\ Judged' /\ Performed'
<1>1. /\ UNCHANGED <<classifications, plans, decisions, executions, effects, faults>>
      /\ Awaited.act = "evaluate_approval_gate" /\ Awaited.pc = "ready"
  BY DEF EvaluateApprovalGate, reviewed, At, Awaited
<1>2. Awaited'.act = "evaluate_approval_gate" /\ Awaited'.pc = "returned"
  BY <1>1, GoesTo DEF EvaluateApprovalGate, ReplayInv
<1>3. /\ row'.risk = row.risk
      /\ row'.execution = "pending"
      /\ row'.approval = GateState
  BY DEF EvaluateApprovalGate, GateState, ReplayInv, TypeInv, TypeOK, CaseRow
<1>4. InStep'
  BY <1>1, <1>2, Places DEF ReplayInv, InStep
<1>5. Reviewed'
  BY <1>1, <1>2 DEF ReplayInv, Reviewed, Classified, Planned, Ruled
<1>6. Judged'
  BY <1>1, <1>2, <1>3 DEF ReplayInv, Judged, GateIsOver, Ruled, GateState
<1>7. Performed'
  BY <1>1, <1>2, <1>3 DEF ReplayInv, Performed, Executes, Untouched
<1> QED
  BY <1>4, <1>5, <1>6, <1>7

(* The decision that finalize_approval_decision is given is the one the    *)
(* row shows already.                                                      *)
LEMMA DecisionGiven ==
    ASSUME ReplayInv, Awaited.act = "finalize_approval_decision"
    PROVE  /\ Awaited.ref = 1
           /\ fixture.decision \in ApprovalDecisionType
           /\ decisions = <<fixture.decision>>
           /\ TargetState(decisions[1]) = row.approval
           /\ 1 \in DOMAIN decisions
           /\ Applicable(1)
<1>1. /\ Awaited.ref = 1
      /\ fixture.decision # "none"
      /\ row.approval = fixture.decision
  BY DEF ReplayInv, Judged, Ruled
<1>2. fixture.decision \in ApprovalDecisionType
  BY <1>1 DEF ReplayInv, Left, Fixture
<1>3. decisions = <<fixture.decision>>
  BY <1>1 DEF ReplayInv, Reviewed, Ruled
<1>4. 1 \in DOMAIN decisions /\ decisions[1] = fixture.decision
  BY <1>3
<1>5. TargetState(decisions[1]) = row.approval
  BY <1>1, <1>2, <1>4 DEF TargetState, ApprovalDecisionType
<1> QED
  BY <1>1, <1>2, <1>3, <1>4, <1>5 DEF Applicable

LEMMA FinalizeSteps ==
    ASSUME ReplayInv,
           \/ FinalizeApprovalDecision(Current)
           \/ ApplyDecision(Current)
           \/ FinalizeRaises(Current),
           UNCHANGED <<driver, fixture, overridden>>
    PROVE  /\ InStep' /\ Reviewed' /\ Judged' /\ Performed'
           /\ UNCHANGED row.risk
<1>1. /\ UNCHANGED <<evidence, classifications, plans, decisions, executions,
                     effects, faults>>
      /\ Awaited.act = "finalize_approval_decision"
  BY DEF FinalizeApprovalDecision, ApplyDecision, FinalizeRaises, tables,
         reviewed, At, Awaited
<1>2. /\ Awaited.ref = 1
      /\ Applicable(1)
      /\ TargetState(decisions[1]) = row.approval
  BY <1>1, DecisionGiven
<1>3. ~FinalizeRaises(Current)
  BY <1>2 DEF FinalizeRaises, Awaited
<1>4. /\ Awaited'.act = "finalize_approval_decision"
      /\ Awaited'.pc \in {"apply", "returned"}
      /\ Awaited'.ref = 1
      /\ row'.risk = row.risk
      /\ row'.approval = row.approval
      /\ row'.execution = row.execution
  <2>1. CASE FinalizeApprovalDecision(Current)
    <3>1. attempts' = [attempts EXCEPT ![Current].pc = "apply",
                                       ![Current].loaded = Loaded]
          /\ row' = row
      BY <2>1 DEF FinalizeApprovalDecision, tables
    <3> QED
      BY <3>1, <1>1, <1>2, GoesWithLoaded DEF ReplayInv
  <2>2. CASE ApplyDecision(Current)
    <3>1. Goto(Current, "returned")
      BY <2>2 DEF ApplyDecision
    <3>2. row' = DecisionCommitted(Awaited.loaded, row.approval)
      BY <2>2, <1>2 DEF ApplyDecision, Awaited
    <3>3. /\ row'.risk = row.risk
          /\ row'.approval = row.approval
          /\ row'.execution = row.execution
      BY <3>2 DEF DecisionCommitted, ReplayInv, TypeInv, TypeOK, CaseRow
    <3> QED
      BY <3>1, <3>3, <1>1, <1>2, GoesTo DEF ReplayInv
  <2> QED
    BY <1>3, <2>1, <2>2
<1>5. InStep'
  BY <1>1, <1>4, Places DEF ReplayInv, InStep
<1>6. Reviewed'
  BY <1>1, <1>4 DEF ReplayInv, Reviewed, Classified, Planned, Ruled
<1>7. Judged'
  BY <1>1, <1>4 DEF ReplayInv, Judged, GateIsOver, Ruled
<1>8. Performed'
  BY <1>1, <1>4 DEF ReplayInv, Performed, Executes, Untouched
<1> QED
  BY <1>4, <1>5, <1>6, <1>7, <1>8

-----------------------------------------------------------------------------
(* The steps of execute_action.                                            *)

(* What the steps of the last stage have in common.                        *)
LEMMA ExecutionFrame ==
    ASSUME ReplayInv, Awaited.act = "execute_action",
           Awaited'.act = "execute_action",
           UNCHANGED <<row.risk, row.approval, classifications, plans, decisions,
                       faults, driver, fixture, overridden>>,
           Awaited'.pc \in PcsOf("execute_action")
    PROVE  InStep' /\ Reviewed' /\ Judged'
<1>1. InStep'
  BY DEF ReplayInv, InStep
<1>2. Reviewed'
  BY DEF ReplayInv, Reviewed, Classified, Planned, Ruled
<1>3. Judged'
  BY DEF ReplayInv, Judged, GateIsOver, Ruled
<1> QED
  BY <1>1, <1>2, <1>3

(* The approval lets it skip or execute; it never blocks.                  *)
LEMMA RuledIsDecided ==
    ASSUME ReplayInv, Awaited.act = "execute_action"
    PROVE  /\ row.approval \in {"not_required", "approved", "rejected"}
           /\ ExecutionDecision(row.approval) =
                IF row.approval = "rejected" THEN "skip" ELSE "execute"
<1>1. row.approval \in {"not_required", "approved", "rejected"}
  BY DEF ReplayInv, Judged, Ruled, Left, Fixture, ApprovalDecisionType
<1> QED
  BY <1>1 DEF ExecutionDecision

LEMMA ReadCaseStep ==
    ASSUME ReplayInv, ReadCase(Current), UNCHANGED <<driver, fixture, overridden>>
    PROVE  InStep' /\ Reviewed' /\ Judged' /\ Performed'
<1>1. /\ UNCHANGED <<row, evidence, classifications, plans, decisions, executions,
                     effects, faults>>
      /\ Awaited.act = "execute_action" /\ Awaited.pc = "ready"
  BY DEF ReadCase, tables, reviewed, At, Awaited
<1>2. Untouched /\ row.execution = "pending"
  BY <1>1 DEF ReplayInv, Performed, Executes
<1>3. attempts' = [attempts EXCEPT
         ![Current].pc = IF row.approval = "rejected" THEN "skip" ELSE "create",
         ![Current].action = PermittedAction(LatestAdvice)]
  <2>1. attempts' = [attempts EXCEPT
          ![Current].pc = IF ExecutionDecision(row.approval) = "execute" THEN "create"
                          ELSE ExecutionDecision(row.approval),
          ![Current].action = PermittedAction(LatestAdvice)]
    BY <1>2 DEF ReadCase, Untouched
  <2>2. (IF ExecutionDecision(row.approval) = "execute" THEN "create"
                          ELSE ExecutionDecision(row.approval))
        = IF row.approval = "rejected" THEN "skip" ELSE "create"
    BY <1>1, RuledIsDecided
  <2> QED
    BY <2>1, <2>2
<1>4. /\ Awaited'.act = "execute_action"
      /\ Awaited'.pc = IF row.approval = "rejected" THEN "skip" ELSE "create"
      /\ Awaited'.action = PermittedAction(LatestAdvice)
  BY <1>1, <1>3, GoesWithAction DEF ReplayInv
<1>5. InStep' /\ Reviewed' /\ Judged'
  BY <1>1, <1>4, ExecutionFrame, Places
<1>6. LatestAdvice' = LatestAdvice
  BY <1>1 DEF LatestAdvice
<1>7. Performed'
  BY <1>1, <1>2, <1>4, <1>6 DEF ReplayInv, Performed, Executes, Untouched
<1> QED
  BY <1>5, <1>7

(* What update_exception_case_state leaves of the row.                     *)
LEMMA Marked ==
    ASSUME ReplayInv, NEW execution, NEW lifecycle, NEW status,
           row' = CaseMarked(execution, lifecycle, status)
    PROVE  /\ row'.risk = row.risk
           /\ row'.approval = row.approval
           /\ row'.execution = execution
           /\ row'.lifecycle = lifecycle
BY DEF CaseMarked, ReplayInv, TypeInv, TypeOK, CaseRow

LEMMA SkipStep ==
    ASSUME ReplayInv, SkipExecution(Current),
           UNCHANGED <<driver, fixture, overridden>>
    PROVE  InStep' /\ Reviewed' /\ Judged' /\ Performed'
<1>1. /\ UNCHANGED <<evidence, classifications, plans, decisions, executions,
                     effects, faults>>
      /\ Awaited.act = "execute_action" /\ Awaited.pc = "skip"
      /\ row' = CaseMarked("skipped", "completed", "resolved")
      /\ Goto(Current, "returned")
  BY DEF SkipExecution, reviewed, At, Awaited
<1>2. Awaited'.act = "execute_action" /\ Awaited'.pc = "returned"
  BY <1>1, GoesTo DEF ReplayInv
<1>3. /\ row'.risk = row.risk
      /\ row'.approval = row.approval
      /\ row'.execution = "skipped"
      /\ row'.lifecycle = "completed"
  BY <1>1, Marked
<1>4. InStep' /\ Reviewed' /\ Judged'
  BY <1>1, <1>2, <1>3, ExecutionFrame, Places
<1>5. Performed'
  BY <1>1, <1>2, <1>3 DEF ReplayInv, Performed, Executes, Untouched, ClosedAs
<1> QED
  BY <1>4, <1>5

LEMMA CreateStep ==
    ASSUME ReplayInv, CreateExecutionRecord(Current),
           UNCHANGED <<driver, fixture, overridden>>
    PROVE  InStep' /\ Reviewed' /\ Judged' /\ Performed'
<1>1. /\ UNCHANGED <<row, evidence, classifications, plans, decisions, effects,
                     faults>>
      /\ Awaited.act = "execute_action" /\ Awaited.pc = "create"
      /\ executions' = Append(executions, [action |-> Awaited.action,
                                           status |-> "started"])
      /\ attempts' = [attempts EXCEPT ![Current].pc = "mark",
                                      ![Current].ref = Len(executions')]
  BY DEF CreateExecutionRecord, reviewed, At, Awaited
<1>2. Untouched /\ row.execution = "pending" /\ row.approval # "rejected"
      /\ Awaited.action = PermittedAction(LatestAdvice)
  BY <1>1 DEF ReplayInv, Performed, Executes
<1>3. executions' = <<[action |-> Awaited.action, status |-> "started"]>>
  BY <1>1, <1>2 DEF Untouched
<1>4. Len(executions') = 1
  BY <1>3
<1>5. /\ Awaited'.act = "execute_action"
      /\ Awaited'.pc = "mark"
      /\ Awaited'.action = Awaited.action
      /\ Awaited'.ref = 1
  BY <1>1, <1>4, GoesWithRef DEF ReplayInv
<1>6. InStep' /\ Reviewed' /\ Judged'
  BY <1>1, <1>5, ExecutionFrame, Places
<1>7. LatestAdvice' = LatestAdvice
  BY <1>1 DEF LatestAdvice
<1>8. effects' = <<>>
  BY <1>1, <1>2 DEF Untouched
<1>9. Opened("started")'
  BY <1>3, <1>5 DEF Opened
<1>10. Performed'
  BY <1>1, <1>2, <1>5, <1>7, <1>8, <1>9 DEF Performed, Executes
<1> QED
  BY <1>6, <1>10

LEMMA MarkStep ==
    ASSUME ReplayInv, MarkStarted(Current),
           UNCHANGED <<driver, fixture, overridden>>
    PROVE  InStep' /\ Reviewed' /\ Judged' /\ Performed'
<1>1. /\ UNCHANGED <<evidence, classifications, plans, decisions, executions,
                     effects, faults>>
      /\ Awaited.act = "execute_action" /\ Awaited.pc = "mark"
      /\ row' = CaseMarked("started", "started", "in_review")
      /\ Goto(Current, "call")
  BY DEF MarkStarted, reviewed, At, Awaited
<1>2. /\ Awaited'.act = "execute_action" /\ Awaited'.pc = "call"
      /\ Awaited'.action = Awaited.action
      /\ Awaited'.ref = Awaited.ref
  BY <1>1, GoesTo DEF ReplayInv
<1>3. /\ row'.risk = row.risk
      /\ row'.approval = row.approval
      /\ row'.execution = "started"
  BY <1>1, Marked
<1>4. InStep' /\ Reviewed' /\ Judged'
  BY <1>1, <1>2, <1>3, ExecutionFrame, Places
<1>5. LatestAdvice' = LatestAdvice
  BY <1>1 DEF LatestAdvice
<1>6. Performed'
  BY <1>1, <1>2, <1>3, <1>5 DEF ReplayInv, Performed, Executes, Opened
<1> QED
  BY <1>4, <1>6

LEMMA CallStep ==
    ASSUME ReplayInv, AdapterMisconfigured(Current) \/ CallAdapter(Current),
           UNCHANGED <<driver, fixture, overridden>>
    PROVE  InStep' /\ Reviewed' /\ Judged' /\ Performed'
<1>1. /\ UNCHANGED <<row, evidence, classifications, plans, decisions, executions,
                     faults>>
      /\ Awaited.act = "execute_action" /\ Awaited.pc = "call"
      /\ effects' = effects \/ effects' = Append(effects, Awaited.action)
  BY DEF AdapterMisconfigured, CallAdapter, tables, reviewed, At, Awaited
<1>2. PICK outcome \in {"failed", "succeeded"} :
         attempts' = [attempts EXCEPT ![Current].pc = "record",
                                      ![Current].outcome = outcome]
  BY DEF AdapterMisconfigured, CallAdapter
<1>3. /\ Awaited'.act = "execute_action" /\ Awaited'.pc = "record"
      /\ Awaited'.action = Awaited.action
      /\ Awaited'.ref = Awaited.ref
  BY <1>1, <1>2, GoesWithOutcome DEF ReplayInv
<1>4. effects = <<>>
  BY <1>1 DEF ReplayInv, Performed, Executes
<1>5. AskedAtMostOnce'
  BY <1>1, <1>3, <1>4 DEF AskedAtMostOnce
<1>6. InStep' /\ Reviewed' /\ Judged'
  BY <1>1, <1>3, ExecutionFrame, Places
<1>7. LatestAdvice' = LatestAdvice
  BY <1>1 DEF LatestAdvice
<1>8. Performed'
  BY <1>1, <1>3, <1>5, <1>7 DEF ReplayInv, Performed, Executes, Opened
<1> QED
  BY <1>6, <1>8

LEMMA RecordStep ==
    ASSUME ReplayInv, RecordOutcome(Current),
           UNCHANGED <<driver, fixture, overridden>>
    PROVE  InStep' /\ Reviewed' /\ Judged' /\ Performed'
<1>1. /\ UNCHANGED <<row, evidence, classifications, plans, decisions, effects,
                     faults>>
      /\ Awaited.act = "execute_action" /\ Awaited.pc = "record"
      /\ executions' = [executions EXCEPT ![Awaited.ref].status = Awaited.outcome]
      /\ Goto(Current, "close")
  BY DEF RecordOutcome, reviewed, At, Awaited
<1>2. /\ Awaited'.act = "execute_action" /\ Awaited'.pc = "close"
      /\ Awaited'.action = Awaited.action
      /\ Awaited'.outcome = Awaited.outcome
  BY <1>1, GoesTo DEF ReplayInv
<1>3. Opened("started") /\ Awaited.ref = 1 /\ AskedAtMostOnce
  BY <1>1 DEF ReplayInv, Performed, Executes
<1>4. executions' = <<[action |-> Awaited.action, status |-> Awaited.outcome]>>
  <2>1. executions = <<[action |-> Awaited.action, status |-> "started"]>>
    BY <1>3 DEF Opened
  <2>2. /\ DOMAIN executions = {1}
        /\ executions[1] = [action |-> Awaited.action, status |-> "started"]
    BY <2>1
  <2>3. [executions[1] EXCEPT !.status = Awaited.outcome]
          = [action |-> Awaited.action, status |-> Awaited.outcome]
    BY <2>2
  <2>4. executions' = [executions EXCEPT
           ![1] = [action |-> Awaited.action, status |-> Awaited.outcome]]
    BY <1>1, <1>3, <2>2, <2>3
  <2> QED
    BY <2>1, <2>4
<1>5. Opened(Awaited.outcome)'
  BY <1>2, <1>4 DEF Opened
<1>6. AskedAtMostOnce'
  BY <1>1, <1>2, <1>3 DEF AskedAtMostOnce
<1>7. InStep' /\ Reviewed' /\ Judged'
  BY <1>1, <1>2, ExecutionFrame, Places
<1>8. LatestAdvice' = LatestAdvice
  BY <1>1 DEF LatestAdvice
<1>9. Performed'
  BY <1>1, <1>2, <1>5, <1>6, <1>8 DEF ReplayInv, Performed, Executes
<1> QED
  BY <1>7, <1>9

LEMMA CloseStep ==
    ASSUME ReplayInv, CloseCase(Current),
           UNCHANGED <<driver, fixture, overridden>>
    PROVE  InStep' /\ Reviewed' /\ Judged' /\ Performed'
<1>1. /\ UNCHANGED <<evidence, classifications, plans, decisions, executions,
                     effects, faults>>
      /\ Awaited.act = "execute_action" /\ Awaited.pc = "close"
      /\ row' = IF Awaited.outcome = "succeeded"
                  THEN CaseMarked("succeeded", "completed", "resolved")
                  ELSE CaseMarked("failed", "failed", "in_review")
      /\ Goto(Current, "returned")
  BY DEF CloseCase, reviewed, At, Awaited
<1>2. /\ Awaited'.act = "execute_action" /\ Awaited'.pc = "returned"
      /\ Awaited'.action = Awaited.action
      /\ Awaited'.outcome = Awaited.outcome
  BY <1>1, GoesTo DEF ReplayInv
<1>3. Awaited.outcome \in {"failed", "succeeded"}
  BY <1>1, CurrentIsSlot DEF ReplayInv, TypeInv, OutcomeKnown, Awaited
<1>4. /\ row'.risk = row.risk
      /\ row'.approval = row.approval
      /\ row'.execution = Awaited.outcome
      /\ row'.lifecycle = IF Awaited.outcome = "failed" THEN "failed"
                                                        ELSE "completed"
  <2>1. CASE Awaited.outcome = "succeeded"
    <3>1. row' = CaseMarked("succeeded", "completed", "resolved")
      BY <1>1, <2>1
    <3> QED
      BY <2>1, <3>1, Marked
  <2>2. CASE Awaited.outcome = "failed"
    <3>1. row' = CaseMarked("failed", "failed", "in_review")
      BY <1>1, <2>2
    <3> QED
      BY <2>2, <3>1, Marked
  <2> QED
    BY <1>3, <2>1, <2>2
<1>5. InStep' /\ Reviewed' /\ Judged'
  BY <1>1, <1>2, <1>4, ExecutionFrame, Places
<1>6. LatestAdvice' = LatestAdvice
  BY <1>1 DEF LatestAdvice
<1>7. (Opened(Awaited.outcome) /\ AskedAtMostOnce)'
  <2>1. Opened(Awaited.outcome) /\ AskedAtMostOnce
    BY <1>1 DEF ReplayInv, Performed, Executes
  <2> QED
    BY <1>1, <1>2, <2>1 DEF Opened, AskedAtMostOnce
<1>8. ClosedAs(Awaited.outcome)'
  BY <1>2, <1>4 DEF ClosedAs
<1>9. Performed'
  BY <1>1, <1>2, <1>3, <1>4, <1>6, <1>7, <1>8
     DEF ReplayInv, Performed, Executes
<1> QED
  BY <1>5, <1>9

(* The activity awaited takes a step: whatever it is, the replay goes on.  *)
LEMMA ActivityKeeps ==
    ASSUME ReplayInv, ActivityStep
    PROVE  ReplayInv'
<1>1. /\ TypeInv'
      /\ AttemptStep(Current)
      /\ driver.pc = "running"
      /\ UNCHANGED <<driver, fixture, overridden>>
  BY ActivityIsStep DEF ReplayInv
<1>2. Left'
  BY <1>1 DEF ReplayInv, Left
<1>3. ~BlockExecution(Current)
  BY Places DEF BlockExecution, At, ReplayInv, InStep, Awaited
<1>4. ~ResultDiscarded(Current)
  BY DEF ResultDiscarded, Current, ReplayInv, TypeInv, TypeOK
<1>5. InStep' /\ Reviewed' /\ Judged' /\ Performed'
  <2>1. CASE CollectEvidence(Current) \/ StoreEvidenceItem(Current)
    BY <1>1, <2>1, EvidenceSteps
  <2>2. CASE ClassifyException(Current)
    BY <1>1, <2>2, ClassificationStep
  <2>3. CASE GenerateRemediationPlan(Current)
    BY <1>1, <2>3, RemediationStep
  <2>4. CASE EvaluateApprovalGate(Current)
    BY <1>1, <2>4, GateStepOfReplay
  <2>5. CASE \/ FinalizeApprovalDecision(Current)
             \/ ApplyDecision(Current)
             \/ FinalizeRaises(Current)
    BY <1>1, <2>5, FinalizeSteps
  <2>6. CASE ReadCase(Current)
    BY <1>1, <2>6, ReadCaseStep
  <2>7. CASE SkipExecution(Current)
    BY <1>1, <2>7, SkipStep
  <2>8. CASE CreateExecutionRecord(Current)
    BY <1>1, <2>8, CreateStep
  <2>9. CASE MarkStarted(Current)
    BY <1>1, <2>9, MarkStep
  <2>10. CASE AdapterMisconfigured(Current) \/ CallAdapter(Current)
    BY <1>1, <2>10, CallStep
  <2>11. CASE RecordOutcome(Current)
    BY <1>1, <2>11, RecordStep
  <2>12. CASE CloseCase(Current)
    BY <1>1, <2>12, CloseStep
  <2> QED
    BY <1>1, <1>3, <1>4, <2>1, <2>2, <2>3, <2>4, <2>5, <2>6, <2>7, <2>8, <2>9,
       <2>10, <2>11, <2>12 DEF AttemptStep
<1> QED
  BY <1>1, <1>2, <1>5 DEF ReplayInv

-----------------------------------------------------------------------------
(* The driver: it leaves, or it calls the next activity.                   *)

LEMMA LeaveKeeps ==
    ASSUME ReplayInv, driver.pc = "running", NEW pc, Leave(pc),
           pc \in {"stopped", "raised", "failed"},
           pc = "stopped" => Awaited.pc = "returned",
           pc = "raised" => GateIsOver /\ Misfit
    PROVE  ReplayInv'
<1>1. /\ UNCHANGED <<row, evidence, classifications, plans, decisions, executions,
                     effects, ingest, req, checked, wf, attempts, faults, fixture>>
      /\ overridden' = {}
      /\ driver' = [driver EXCEPT !.pc = pc]
  BY DEF Leave, Restored, tables, reviewed, api
<1>2. Awaited' = Awaited
  BY <1>1 DEF Awaited, Current
<1>3. driver' \in Driver /\ driver'.pc = pc /\ driver'.stage = driver.stage
  BY <1>1 DEF ReplayInv, Left, Driver
<1>4. TypeInv'
  BY <1>1 DEF ReplayInv, TypeInv, TypeOK, ActionChosen, OutcomeKnown, CheckedMeans
<1>5. InStep'
  BY <1>1, <1>2, <1>3 DEF ReplayInv, InStep
<1>6. Left'
  BY <1>1, <1>2, <1>3 DEF ReplayInv, Left, GateIsOver, Misfit
<1>7. Reviewed'
  BY <1>1, <1>2 DEF ReplayInv, Reviewed, Classified, Planned, Ruled
<1>8. Judged'
  BY <1>1, <1>2 DEF ReplayInv, Judged, GateIsOver, GateState, Ruled
<1>9. Performed'
  <2>1. LatestAdvice' = LatestAdvice
    BY <1>1 DEF LatestAdvice
  <2> QED
    BY <1>1, <1>2, <2>1 DEF ReplayInv, Performed, Executes, Untouched, Opened,
       AskedAtMostOnce, ClosedAs
<1> QED
  BY <1>4, <1>5, <1>6, <1>7, <1>8, <1>9 DEF ReplayInv

(* What the call of an activity leaves, whatever it is.                    *)
LEMMA CallFrame ==
    ASSUME ReplayInv, NEW act \in Activity, NEW ref \in Nat, Call(act, ref)
    PROVE  /\ InStep' /\ UNCHANGED <<effects, ingest, req, checked, wf, faults>>
           /\ attempts' \in [Slots -> Attempt] /\ ActionChosen' /\ OutcomeKnown'
           /\ UNCHANGED <<fixture, overridden, driver.pc>>
           /\ driver' \in Driver
           /\ Awaited'.act = act /\ Awaited'.pc = "ready" /\ Awaited'.ref = ref
<1>1. /\ UNCHANGED <<effects, ingest, req, checked, wf, faults, fixture, overridden>>
      /\ attempts' = [attempts EXCEPT ![Current] = Started(act, ref)]
      /\ driver' = [driver EXCEPT !.stage = Stage(act)]
  BY DEF Call, api
<1>2. Awaited'.act = act /\ Awaited'.pc = "ready" /\ Awaited'.ref = ref
  BY <1>1, Restarted DEF ReplayInv
<1>3. Started(act, ref) \in Attempt /\ Started(act, ref).pc = "ready"
  BY StartedType
<1>4. attempts' \in [Slots -> Attempt] /\ ActionChosen' /\ OutcomeKnown'
  BY <1>1, <1>3, AwaitedType, SlotReplaced DEF ReplayInv
<1>5. Stage(act) \in ReplayStage
  BY Stages DEF Activity, ReplayStage
<1>6. driver' \in Driver /\ driver'.pc = driver.pc /\ driver'.stage = Stage(act)
  BY <1>1, <1>5 DEF ReplayInv, Left, Driver
<1>7. "ready" \in PcsOf(act)
  BY Places DEF Activity
<1>8. InStep'
  BY <1>1, <1>2, <1>6, <1>7 DEF ReplayInv, InStep
<1> QED
  BY <1>1, <1>2, <1>4, <1>6, <1>8

(* The next activity is called: the records of this one are there.         *)
LEMMA CallKeeps ==
    ASSUME ReplayInv, driver.pc = "running",
           NEW act \in Activity, Call(act, 0), UNCHANGED tables,
           Awaited.pc = "returned",
           \/ Awaited.act = "collect_evidence" /\ act = "classify_exception"
           \/ Awaited.act = "classify_exception" /\ act = "generate_remediation_plan"
           \/ Awaited.act = "generate_remediation_plan"
              /\ act = "evaluate_approval_gate"
           \/ Awaited.act = "evaluate_approval_gate" /\ act = "execute_action"
              /\ fixture.decision = "none" /\ row.approval # "pending"
           \/ Awaited.act = "finalize_approval_decision" /\ act = "execute_action"
    PROVE  ReplayInv'
<1>1. /\ InStep' /\ UNCHANGED <<effects, ingest, req, checked, wf, faults>>
      /\ attempts' \in [Slots -> Attempt] /\ ActionChosen' /\ OutcomeKnown'
      /\ UNCHANGED <<fixture, overridden, driver.pc>>
      /\ driver' \in Driver
      /\ Awaited'.act = act /\ Awaited'.pc = "ready" /\ Awaited'.ref = 0
  BY CallFrame
<1>2. UNCHANGED <<row, evidence, classifications, plans, decisions, executions>>
  BY DEF tables, reviewed
<1>3. TypeInv'
  BY <1>1, <1>2 DEF ReplayInv, TypeInv, TypeOK, CheckedMeans
<1>4. Left'
  BY <1>1 DEF ReplayInv, Left
<1>5. Reviewed'
  BY <1>1, <1>2 DEF ReplayInv, Reviewed, Classified, Planned, Ruled
<1>6. Judged'
  BY <1>1, <1>2 DEF ReplayInv, Judged, GateIsOver, GateState, Ruled
<1>7. Performed'
  BY <1>1, <1>2 DEF ReplayInv, Performed, Executes, Untouched
<1> QED
  BY <1>1, <1>3, <1>4, <1>5, <1>6, <1>7 DEF ReplayInv

LEMMA NextStageKeeps ==
    ASSUME ReplayInv, NEW stage \in ReplayStage, NextStage(stage)
    PROVE  ReplayInv'
<1>1. /\ driver.pc = "running" /\ driver.stage = stage
      /\ Awaited.pc = "returned"
      /\ Call(NextStep(Awaited.act), 0)
      /\ UNCHANGED tables
      /\ stage \in {"evidence", "classification", "remediation", "approval_decision"}
  BY DEF NextStage, Returned, Awaited
<1>2. /\ Awaited.act \in {"collect_evidence", "classify_exception",
                     "generate_remediation_plan", "finalize_approval_decision"}
  BY <1>1, Stages DEF ReplayInv, InStep, Activity
<1>3. /\ NextStep("collect_evidence") = "classify_exception"
      /\ NextStep("classify_exception") = "generate_remediation_plan"
      /\ NextStep("generate_remediation_plan") = "evaluate_approval_gate"
      /\ NextStep("finalize_approval_decision") = "execute_action"
  BY DEF NextStep
<1>4. NextStep(Awaited.act) \in Activity
  BY <1>2, <1>3 DEF Activity
<1> QED
  BY <1>1, <1>2, <1>3, <1>4, CallKeeps

(* The gate waits and the fixture has a decision.                          *)
LEMMA DecideKeeps ==
    ASSUME ReplayInv, DecideByFixture
    PROVE  /\ ReplayInv'
           /\ row.risk # "low" /\ UNCHANGED <<row.risk, effects>>
           /\ \E d \in ApprovalDecisionType : decisions' = Append(decisions, d)
<1>1. /\ driver.pc = "running" /\ driver.stage = "approval_gate"
      /\ Awaited.pc = "returned"
      /\ fixture.decision # "none"
      /\ row.approval = "pending"
      /\ decisions' = Append(decisions, fixture.decision)
      /\ row' = DecisionCommitted(Loaded, TargetState(fixture.decision))
      /\ Call("finalize_approval_decision", Len(decisions'))
      /\ UNCHANGED <<evidence, classifications, plans, executions>>
  BY DEF DecideByFixture, Returned, Awaited, reviewed
<1>2. Awaited.act = "evaluate_approval_gate"
  BY <1>1, Stages DEF ReplayInv, InStep, Activity
<1>3. decisions = <<>> /\ Untouched /\ row.execution = "pending"
      /\ RequiresApproval(row.risk)
  BY <1>1, <1>2 DEF ReplayInv, Reviewed, Ruled, Performed, Judged, GateIsOver,
     GateState
<1>4. fixture.decision \in ApprovalDecisionType
  BY <1>1 DEF ReplayInv, Left, Fixture
<1>5. decisions' = <<fixture.decision>> /\ Len(decisions') = 1
  BY <1>1, <1>3
<1>6. TargetState(fixture.decision) = fixture.decision
  BY <1>4 DEF TargetState, ApprovalDecisionType
<1>7. /\ row' \in CaseRow
      /\ row'.risk = row.risk
  BY <1>1, <1>4, <1>6, DecisionCommittedType
     DEF ReplayInv, TypeInv, ApprovalDecisionType, ApprovalState
<1>8. row'.approval = fixture.decision /\ row'.execution = "pending"
  BY <1>1, <1>3, <1>6 DEF DecisionCommitted, Loaded, ReplayInv, TypeInv, TypeOK,
     CaseRow
<1>9. "finalize_approval_decision" \in Activity /\ Len(decisions') \in Nat
  BY <1>5 DEF Activity
<1>10. /\ InStep' /\ UNCHANGED <<effects, ingest, req, checked, wf, faults>>
       /\ attempts' \in [Slots -> Attempt] /\ ActionChosen' /\ OutcomeKnown'
       /\ UNCHANGED <<fixture, overridden, driver.pc>>
       /\ driver' \in Driver
       /\ Awaited'.act = "finalize_approval_decision" /\ Awaited'.pc = "ready"
       /\ Awaited'.ref = 1
  BY <1>1, <1>5, <1>9, CallFrame
<1>11. decisions' \in Seq(ApprovalDecisionType)
  BY <1>4, <1>5
<1>12. TypeInv'
  BY <1>1, <1>7, <1>10, <1>11 DEF ReplayInv, TypeInv, TypeOK, CheckedMeans
<1>13. Left'
  BY <1>1, <1>10 DEF ReplayInv, Left
<1>14. Reviewed'
  BY <1>1, <1>2, <1>5, <1>10 DEF ReplayInv, Reviewed, Classified, Planned, Ruled
<1>15. Judged'
  BY <1>1, <1>3, <1>7, <1>8, <1>10 DEF Judged, GateIsOver, Ruled
<1>16. Performed'
  BY <1>1, <1>3, <1>8, <1>10 DEF Performed, Executes, Untouched
<1>17. row.risk # "low"
  BY <1>3 DEF RequiresApproval
<1> QED
  BY <1>1, <1>4, <1>7, <1>10, <1>12, <1>13, <1>14, <1>15, <1>16, <1>17
     DEF ReplayInv

LEMMA DriverKeeps ==
    ASSUME ReplayInv, DriverStep
    PROVE  ReplayInv'
<1>1. CASE ActivityFails
  <2>1. Awaited.pc # "raised"
    BY Places DEF ReplayInv, InStep, Activity
  <2>2. driver.pc = "running" /\ Leave("failed")
    BY <1>1, <2>1 DEF ActivityFails, Awaited
  <2> QED
    BY <2>2, LeaveKeeps
<1>2. ASSUME NEW stage \in ReplayStage, StopAfter(stage)
      PROVE  ReplayInv'
  <2>1. driver.pc = "running" /\ Awaited.pc = "returned" /\ Leave("stopped")
    BY <1>2 DEF StopAfter, Returned, Awaited
  <2> QED
    BY <2>1, LeaveKeeps
<1>3. CASE FixtureMisfits
  <2>1. /\ driver.pc = "running" /\ driver.stage = "approval_gate"
        /\ Awaited.pc = "returned"
        /\ Misfit
        /\ Leave("raised")
    BY <1>3 DEF FixtureMisfits, Returned, Awaited, Misfit
  <2>2. GateIsOver
    BY <2>1, Stages DEF ReplayInv, InStep, Activity, GateIsOver
  <2> QED
    BY <2>1, <2>2, LeaveKeeps
<1>4. CASE ExecuteUndecided
  <2>1. /\ driver.pc = "running" /\ driver.stage = "approval_gate"
        /\ Awaited.pc = "returned"
        /\ fixture.decision = "none" /\ row.approval # "pending"
        /\ Call("execute_action", 0)
        /\ UNCHANGED tables
    BY <1>4 DEF ExecuteUndecided, Returned, Awaited
  <2>2. Awaited.act = "evaluate_approval_gate"
    BY <2>1, Stages DEF ReplayInv, InStep, Activity
  <2>3. "execute_action" \in Activity
    BY DEF Activity
  <2> QED
    BY <2>1, <2>2, <2>3, CallKeeps
<1> QED
  BY <1>1, <1>2, <1>3, <1>4, NextStageKeeps, DecideKeeps DEF DriverStep

-----------------------------------------------------------------------------
(* The beginning of a replay, of the first fixture and of a later one.     *)

FreshCase ==
    /\ row \in [risk: RiskLevel, status: {"ingested"}, lifecycle: {"started"},
                approval: {"pending_policy"}, execution: {"pending"},
                linked: {FALSE}]
    /\ evidence = <<>> /\ classifications = 0 /\ plans = <<>>
    /\ decisions = <<>> /\ executions = <<>> /\ effects = <<>>
    /\ attempts = [s \in Slots |-> Started("collect_evidence", 0)]
    /\ driver = [pc |-> "running", stage |-> "evidence"]
    /\ fixture \in Fixture
    /\ overridden = fixture.overrides
    /\ faults = 0
ApiAndWorkflow ==
    /\ ingest \in {"persisted", "started", "refused", "done", "dead"}
    /\ req \in [Operators -> Nat]
    /\ checked \in Checked /\ CheckedMeans
    /\ wf \in [status: {"absent", "running", "completed", "failed"},
               step: Step, signal: Nat]

LEMMA FreshStart == FreshCase /\ ApiAndWorkflow => ReplayInv
<1> SUFFICES ASSUME FreshCase, ApiAndWorkflow PROVE ReplayInv
  OBVIOUS
<1>1. /\ Started("collect_evidence", 0) \in Attempt
      /\ Started("collect_evidence", 0).act = "collect_evidence"
      /\ Started("collect_evidence", 0).pc = "ready"
  BY StartedType DEF Activity
<1>2. faults = 0 /\ Current \in Slots
  BY DomainsHold DEF FreshCase, Current, Slots, Domains
<1>3. Awaited.act = "collect_evidence" /\ Awaited.pc = "ready"
  BY <1>1, <1>2 DEF FreshCase, Awaited
<1>4. row \in CaseRow /\ row.approval = "pending_policy" /\ row.execution = "pending"
  BY DEF FreshCase, CaseRow, ExceptionStatus, WorkflowLifecycleState,
     ApprovalState, ExecutionState
<1>5. attempts \in [Slots -> Attempt] /\ ActionChosen /\ OutcomeKnown
  BY <1>1 DEF FreshCase, ActionChosen, OutcomeKnown
<1>6. /\ evidence \in Seq(EvidenceStatus) /\ plans \in Seq(Advice)
      /\ decisions \in Seq(ApprovalDecisionType)
      /\ executions \in Seq(ExecutionRecord) /\ effects \in Seq(ExecutionAction)
  BY EmptySeq DEF FreshCase
<1>7. TypeInv
  BY <1>2, <1>4, <1>5, <1>6, DomainsHold
     DEF FreshCase, ApiAndWorkflow, TypeInv, TypeOK, Domains
<1>8. driver \in Driver /\ driver.pc = "running" /\ driver.stage = "evidence"
  BY DEF FreshCase, Driver, ReplayStage
<1>9. InStep
  BY <1>2, <1>3, <1>8, Places, Stages DEF InStep, Activity
<1>10. Left
  BY <1>8 DEF FreshCase, Left
<1>11. Reviewed
  BY <1>3 DEF FreshCase, Reviewed, Classified, Planned, Ruled
<1>12. Judged
  BY <1>3, <1>4 DEF Judged, GateIsOver, Ruled
<1>13. Performed
  BY <1>3, <1>4 DEF FreshCase, Performed, Executes, Untouched
<1> QED
  BY <1>7, <1>9, <1>10, <1>11, <1>12, <1>13 DEF ReplayInv

(* The fixtures still to come are valid, and none is missing.              *)
LEMMA EntryIsValid ==
    ASSUME corpus \in Seq(Entries) \ {<<>>}
    PROVE  Entry \in Entries /\ ValidEntry(Entry)
<1>1. Head(corpus) \in Entries
  BY HeadTailProperties
<1> QED
  BY <1>1, EntriesAssumption DEF Entry

LEMMA RestIsLeft ==
    ASSUME NEW S, NEW seq \in Seq(S), Len(seq) > 1
    PROVE  Tail(seq) \in Seq(S) \ {<<>>}
<1>1. Tail(seq) \in Seq(S) /\ Len(Tail(seq)) = Len(seq) - 1
  BY HeadTailProperties
<1>2. Len(Tail(seq)) # 0
  BY <1>1
<1>3. Tail(seq) # <<>>
  BY <1>2, EmptySeq
<1> QED
  BY <1>1, <1>3

LEMMA FixtureType ==
    ASSUME NEW entry, ValidEntry(entry), NEW until \in ReplayStage
    PROVE  /\ FixtureOf(entry, until) \in Fixture
           /\ FixtureOf(entry, until).overrides = DOMAIN entry.overrides
           /\ FixtureOf(entry, until).until = until
           /\ FixtureOf(entry, until).decision = entry.decision
           /\ entry.request.risk \in RiskLevel
BY DEF FixtureOf, ValidEntry, Fixture, Request

LEMMA CorpusBegins ==
    ASSUME CorpusInit
    PROVE  ReplayInv /\ Underway
<1>1. PICK s \in Selections :
         /\ corpus = s.corpus
         /\ original = s.settings
         /\ fixture = FixtureOf(Entry, s.until)
  BY DEF CorpusInit
<1>2. /\ corpus \in Seq(Entries) \ {<<>>}
      /\ original \in Settings
      /\ s.until \in ReplayStage
  BY <1>1, SelectionsAssumption
<1>3. ValidEntry(Entry)
  BY <1>2, EntryIsValid
<1>4. /\ fixture = FixtureOf(Entry, fixture.until)
      /\ fixture.until \in ReplayStage
  BY <1>1, <1>2, <1>3, FixtureType
<1>5. ReplayInit /\ row.risk = Entry.request.risk
      /\ settings = Overriding(original, Entry.overrides)
  BY DEF CorpusInit
<1>6. FreshCase
  BY <1>5 DEF ReplayInit, NewCase, FreshCase
<1>7. ApiAndWorkflow
  BY <1>5, NothingCheckedType DEF ReplayInit, NewCase, ApiAndWorkflow, CheckedMeans,
     Step, Activity
<1>8. driver.pc = "running"
  BY <1>6 DEF FreshCase
<1> QED
  BY <1>2, <1>4, <1>5, <1>6, <1>7, <1>8, FreshStart DEF Underway, Used

LEMMA NextFixtureBegins ==
    ASSUME ReplayInv, Underway, NextFixture
    PROVE  ReplayInv' /\ Underway' /\ FreshCase'
<1>1. /\ driver.pc = "stopped"
      /\ corpus' = Tail(corpus) /\ Len(corpus) > 1
      /\ original' = settings
      /\ settings' = Overriding(settings, Entry'.overrides)
      /\ fixture' = FixtureOf(Entry', fixture.until)
      /\ overridden' = DOMAIN Entry'.overrides
      /\ driver' = [pc |-> "running", stage |-> "evidence"]
      /\ row' = [risk |-> Entry'.request.risk, status |-> "ingested",
                 lifecycle |-> "started", approval |-> "pending_policy",
                 execution |-> "pending", linked |-> FALSE]
      /\ UNCHANGED <<ingest, req, checked, wf, faults>>
  BY DEF NextFixture, api
<1>2. corpus' \in Seq(Entries) \ {<<>>}
  <2>1. corpus \in Seq(Entries)
    BY DEF Underway
  <2> QED
    BY <1>1, <2>1, RestIsLeft
<1>3. ValidEntry(Entry')
  <2>1. Head(corpus') \in Entries
    BY <1>2, HeadTailProperties
  <2> QED
    BY <2>1, EntriesAssumption DEF Entry
<1>4. original' \in Settings
  BY <1>1 DEF Underway
<1>5. /\ fixture' \in Fixture
      /\ fixture'.overrides = overridden'
      /\ fixture' = FixtureOf(Entry', fixture'.until)
      /\ row'.risk = Entry'.request.risk /\ row'.risk \in RiskLevel
  BY <1>1, <1>3, FixtureType DEF ReplayInv, Left, Fixture
<1>6. FreshCase'
  BY <1>1, <1>5 DEF NextFixture, FreshCase, ReplayInv, InStep
<1>7. ApiAndWorkflow'
  BY <1>1 DEF ApiAndWorkflow, ReplayInv, TypeInv, TypeOK, CheckedMeans
<1>8. (FreshCase /\ ApiAndWorkflow => ReplayInv)'
  BY FreshStart, PTL
<1>9. driver'.pc = "running"
  BY <1>1
<1>10. Used' = settings'
  BY <1>1 DEF Used
<1>11. Underway'
  BY <1>2, <1>4, <1>5, <1>9, <1>10 DEF Underway
<1> QED
  BY <1>6, <1>7, <1>8, <1>11

-----------------------------------------------------------------------------
(* A step of the corpus is one of the activity, of the driver, or the next *)
(* fixture.                                                                *)

replayOfCorpus == <<vars, replayVars, corpusVars>>

LEMMA CorpusSteps ==
    ASSUME ReplayInv, Underway, CorpusNext
    PROVE  \/ ActivityStep /\ UNCHANGED <<corpus, settings, original>>
           \/ DriverStep /\ Drives
           \/ NextFixture
BY DEF CorpusNext, CollectsEvidence, Classifies, Plans, Acts, WorksAlone, Drives,
       corpusVars

(* Risk is a column that no activity and no driver writes.                 *)
LEMMA RiskStays ==
    ASSUME ReplayInv, ActivityStep \/ DriverStep
    PROVE  row'.risk = row.risk
<1>1. CASE ActivityStep
  <2>1. AttemptStep(Current)
    BY <1>1 DEF ActivityStep
  <2>2. CASE EvaluateApprovalGate(Current)
    BY <2>2 DEF EvaluateApprovalGate, ReplayInv, TypeInv, TypeOK, CaseRow
  <2>3. CASE ApplyDecision(Current)
    BY <2>3 DEF ApplyDecision, DecisionCommitted, ReplayInv, TypeInv, TypeOK, CaseRow
  <2>4. CASE SkipExecution(Current) \/ BlockExecution(Current)
             \/ MarkStarted(Current) \/ CloseCase(Current)
    BY <2>4, Marked DEF SkipExecution, BlockExecution, MarkStarted, CloseCase
  <2>5. CASE UNCHANGED row
    BY <2>5
  <2> QED
    BY <2>1, <2>2, <2>3, <2>4, <2>5 DEF AttemptStep, CollectEvidence,
       StoreEvidenceItem, ClassifyException, GenerateRemediationPlan,
       FinalizeApprovalDecision, FinalizeRaises, ReadCase, CreateExecutionRecord,
       AdapterMisconfigured, CallAdapter, RecordOutcome, ResultDiscarded, tables
<1>2. CASE DriverStep
  BY <1>2, DecideKeeps DEF DriverStep, ActivityFails, StopAfter, Leave, NextStage,
     FixtureMisfits, ExecuteUndecided, tables
<1> QED
  BY <1>1, <1>2

(* How the driver's step leaves the settings of the fixture.               *)
LEMMA SettingsFollow ==
    ASSUME ReplayInv, ReplayInv', Underway, Drives
    PROVE  Underway'
<1>1. /\ DriverStep
      /\ settings' = IF driver'.pc # "running" /\ overridden' = {} THEN original
                                                                   ELSE settings
      /\ UNCHANGED <<corpus, original>>
  BY DEF Drives
<1>2. driver.pc = "running" /\ fixture' = fixture
  BY <1>1 DEF DriverStep, ActivityFails, StopAfter, NextStage, DecideByFixture,
     FixtureMisfits, ExecuteUndecided, Leave, Call, Returned
<1>3. row'.risk = row.risk
  BY <1>1, RiskStays
<1>4. Entry' = Entry /\ Used' = Used
  BY <1>1 DEF Entry, Used
<1>5. driver'.pc # "running" => overridden' = {}
  BY DEF ReplayInv, Left
<1> QED
  BY <1>1, <1>2, <1>3, <1>4, <1>5 DEF Underway

LEMMA ReplayStep ==
    ReplayInv /\ Underway /\ [CorpusNext]_replayOfCorpus
      => (ReplayInv /\ Underway)'
<1> SUFFICES ASSUME ReplayInv, Underway, [CorpusNext]_replayOfCorpus
             PROVE  ReplayInv' /\ Underway'
  OBVIOUS
<1>1. CASE UNCHANGED replayOfCorpus
  <2>1. UNCHANGED <<row, evidence, classifications, plans, decisions, executions,
                    effects, ingest, req, checked, wf, attempts, faults, fixture,
                    driver, overridden, corpus, settings, original, ai>>
    BY <1>1 DEF replayOfCorpus, vars, tables, reviewed, api, replayVars, corpusVars
  <2>2. Awaited' = Awaited /\ LatestAdvice' = LatestAdvice
    BY <2>1 DEF Awaited, Current, LatestAdvice
  <2>3. TypeInv'
    BY <2>1 DEF ReplayInv, TypeInv, TypeOK, ActionChosen, OutcomeKnown, CheckedMeans
  <2>4. InStep' /\ Left' /\ Reviewed' /\ Judged'
    BY <2>1, <2>2 DEF ReplayInv, InStep, Left, GateIsOver, Misfit, Reviewed,
       Classified, Planned, Ruled, Judged, GateState
  <2>5. Performed'
    BY <2>1, <2>2 DEF ReplayInv, Performed, Executes, Untouched, Opened,
       AskedAtMostOnce, ClosedAs
  <2>6. Underway'
    BY <2>1 DEF Underway, Entry, Used
  <2> QED
    BY <2>3, <2>4, <2>5, <2>6 DEF ReplayInv
<1>2. CASE ActivityStep /\ UNCHANGED <<corpus, settings, original>>
  <2>1. ReplayInv' /\ row'.risk = row.risk /\ UNCHANGED <<driver, fixture>>
    BY <1>2, ActivityKeeps, RiskStays DEF ActivityStep, replayVars
  <2> QED
    BY <1>2, <2>1 DEF Underway, Entry, Used
<1>3. CASE DriverStep /\ Drives
  BY <1>3, DriverKeeps, SettingsFollow
<1>4. CASE NextFixture
  BY <1>4, NextFixtureBegins
<1> QED
  BY <1>1, <1>2, <1>3, <1>4, CorpusSteps

LEMMA ReplayInvariance == CorpusSpec => [](ReplayInv /\ Underway)
<1>1. CorpusInit => ReplayInv /\ Underway
  BY CorpusBegins
<1> QED
  BY <1>1, ReplayStep, PTL DEF CorpusSpec, replayOfCorpus

-----------------------------------------------------------------------------
(* What follows for every replay.                                          *)

(* The tables, the driver and the fixture's settings keep their types,     *)
(* whatever fixtures are selected and wherever a replay stops.             *)
THEOREM ReplaysAreTyped == CorpusSpec => []ReplayTypeOK
<1>1. ReplayInv => ReplayTypeOK
  <2> SUFFICES ASSUME ReplayInv PROVE ReplayTypeOK
    OBVIOUS
  <2>1. fixture.overrides \subseteq SettingsField
    BY OverridesAssumption DEF ReplayInv, Left, Fixture
  <2> QED
    BY <2>1 DEF ReplayInv, Left, TypeInv, ReplayTypeOK
<1> QED
  BY <1>1, ReplayInvariance, PTL

(* A replay raises only for a decision that its case does not take, or for *)
(* one that is asked for and missing: finalize_approval_decision, whose    *)
(* check repeats that of create_approval_decision, never does.             *)
THEOREM OnlyMisfitsRaise == CorpusSpec => []RaisesOnlyForAMisfit
<1>1. ReplayInv => RaisesOnlyForAMisfit
  <2> SUFFICES ASSUME ReplayInv, driver.pc = "raised"
               PROVE  /\ row.risk = "low"
                      /\ fixture.decision # "none"
                         \/ fixture.until = "approval_decision"
    BY DEF RaisesOnlyForAMisfit
  <2>1. GateIsOver /\ Misfit
    BY DEF ReplayInv, Left
  <2>2. ~RequiresApproval(row.risk)
    BY <2>1 DEF ReplayInv, Judged, GateState, Misfit
  <2>3. row.risk \in {"low", "medium", "high"}
    BY DEF ReplayInv, TypeInv, TypeOK, CaseRow, RiskLevel
  <2> QED
    BY <2>1, <2>2, <2>3 DEF RequiresApproval, Misfit
<1> QED
  BY <1>1, ReplayInvariance, PTL

(* A replay that stops has left the records of the stages up to the one it *)
(* names, no more and no fewer.                                            *)
THEOREM ReplaysStopWhereTheySay == CorpusSpec => []StopsWhereItSays
<1>1. ReplayInv => StopsWhereItSays
  <2> SUFFICES ASSUME ReplayInv, driver.pc = "stopped"
               PROVE  StopsWhereItSays
    BY DEF StopsWhereItSays
  <2>1. Awaited.pc = "returned" /\ Awaited.act \in Activity
        /\ driver.stage = Stage(Awaited.act)
    BY DEF ReplayInv, Left, InStep
  <2>2. /\ classifications = IF driver.stage = "evidence" THEN 0 ELSE 1
        /\ Len(plans) = IF driver.stage \in {"evidence", "classification"} THEN 0
                                                                          ELSE 1
    BY <2>1, Stages DEF ReplayInv, Reviewed, Classified, Planned, Activity
  <2>3. /\ driver.stage \in {"evidence", "classification", "remediation"}
             => row.approval = "pending_policy"
        /\ driver.stage = "approval_gate" => row.approval = GateState
        /\ driver.stage = "approval_decision" => row.approval = fixture.decision
        /\ driver.stage \in {"approval_decision", "execution"} =>
             row.approval \in {"not_required", "approved", "rejected"}
    BY <2>1, Stages DEF ReplayInv, Judged, GateIsOver, Ruled, Activity, Left,
       Fixture, ApprovalDecisionType
  <2>4. driver.stage \in ReplayStage
    BY DEF ReplayInv, Left, Driver
  <2>5. row.execution # "pending" <=> driver.stage = "execution"
    <3>1. driver.stage # "execution" => Awaited.act # "execute_action"
      BY <2>1, Stages
    <3>2. driver.stage = "execution" => Awaited.act = "execute_action"
      BY <2>1, Stages DEF Activity
    <3> QED
      BY <2>1, <3>1, <3>2 DEF ReplayInv, Performed, Executes, ClosedAs
  <2>6. GateState \in {"pending", "not_required"}
    BY DEF GateState
  <2> QED
    BY <2>2, <2>3, <2>4, <2>5, <2>6 DEF StopsWhereItSays, ReplayStage
<1> QED
  BY <1>1, ReplayInvariance, PTL

-----------------------------------------------------------------------------
(* The approval boundary. A decision of the fixture is Decide, the call of *)
(* the adapter is Perform, the next fixture begins a new case.             *)

LEMMA AskedWithPermission ==
    ASSUME ReplayInv, CallAdapter(Current)
    PROVE  Gated!Perform /\ UNCHANGED <<row, decisions>>
<1>1. /\ Awaited.act = "execute_action" /\ Awaited.pc = "call"
      /\ effects' = Append(effects, Awaited.action)
      /\ UNCHANGED <<row, decisions>>
  BY DEF CallAdapter, At, Awaited, tables
<1>2. effects = <<>> /\ row.approval # "rejected"
      /\ Awaited.action \in ExecutionAction
  BY <1>1, PolicyTypes DEF ReplayInv, Performed, Executes
<1>3. effects' = <<Awaited.action>>
  BY <1>1, <1>2
<1>4. Gated!Permitted
  <2>1. CASE fixture.decision = "none"
    <3>1. ~RequiresApproval(row.risk)
      BY <1>1, <2>1 DEF ReplayInv, Judged, Ruled
    <3>2. row.risk \in {"low", "medium", "high"}
      BY DEF ReplayInv, TypeInv, TypeOK, CaseRow, RiskLevel
    <3> QED
      BY <3>1, <3>2 DEF RequiresApproval, Gated!Permitted
  <2>2. CASE fixture.decision # "none"
    <3>1. decisions = <<fixture.decision>> /\ row.approval = fixture.decision
      BY <1>1, <2>2 DEF ReplayInv, Reviewed, Judged, Ruled
    <3>2. fixture.decision = "approved"
      BY <1>2, <2>2, <3>1 DEF ReplayInv, Left, Fixture, ApprovalDecisionType
    <3>3. 1 \in DOMAIN decisions /\ decisions[1] = "approved"
      BY <3>1, <3>2
    <3> QED
      BY <3>3 DEF Gated!Permitted
  <2> QED
    BY <2>1, <2>2
<1> QED
  BY <1>1, <1>2, <1>3, <1>4
     DEF Gated!Perform, Gated!ExecutionAction, ExecutionAction

LEMMA BoundaryKept ==
    ASSUME ReplayInv, Underway, [CorpusNext]_replayOfCorpus
    PROVE  \/ Gated!Next
           \/ NextFixture /\ (Gated!Init)'
           \/ UNCHANGED <<row.risk, decisions, effects>>
<1>1. CASE UNCHANGED replayOfCorpus
  BY <1>1 DEF replayOfCorpus, vars, tables
<1>2. CASE ActivityStep
  <2>1. AttemptStep(Current) /\ row'.risk = row.risk
    BY <1>2, RiskStays DEF ActivityStep
  <2>2. CASE CallAdapter(Current)
    BY <2>2, AskedWithPermission DEF Gated!Next
  <2>3. CASE UNCHANGED <<decisions, effects>>
    BY <2>1, <2>3
  <2> QED
    BY <2>1, <2>2, <2>3 DEF AttemptStep, CollectEvidence,
       StoreEvidenceItem, ClassifyException, GenerateRemediationPlan,
       EvaluateApprovalGate, FinalizeApprovalDecision, ApplyDecision,
       FinalizeRaises, ReadCase, SkipExecution, BlockExecution,
       CreateExecutionRecord, MarkStarted, AdapterMisconfigured, RecordOutcome,
       CloseCase, ResultDiscarded, tables
<1>3. CASE DriverStep
  <2>1. CASE DecideByFixture
    <3>1. /\ row.risk # "low" /\ UNCHANGED <<row.risk, effects>>
          /\ \E d \in ApprovalDecisionType : decisions' = Append(decisions, d)
      BY <2>1, DecideKeeps
    <3> QED
      BY <3>1 DEF Gated!Next, Gated!Decide, Gated!ApprovalDecisionType,
         ApprovalDecisionType
  <2>2. CASE UNCHANGED <<row, decisions, effects>>
    BY <2>2
  <2> QED
    BY <1>3, <2>1, <2>2 DEF DriverStep, ActivityFails, StopAfter, Leave, NextStage,
       FixtureMisfits, ExecuteUndecided, Call, tables
<1>4. CASE NextFixture
  <2>1. /\ row'.risk \in RiskLevel
        /\ decisions' = <<>> /\ effects' = <<>>
    BY <1>4, NextFixtureBegins DEF FreshCase
  <2>2. (Gated!Init)'
    BY <2>1 DEF Gated!Init, Gated!RiskLevel, RiskLevel
  <2> QED
    BY <1>4, <2>2
<1> QED
  BY <1>1, <1>2, <1>3, <1>4, CorpusSteps

(* Every case of a replay implements GatedExecution, although Temporal,    *)
(* the API and its checks are missing: no action without low risk or an    *)
(* approval, and one at most.                                              *)
THEOREM ReplaysKeepTheGate == CorpusSpec => EachCaseImplementsGate
<1>1. CorpusInit => Gated!Init
  <2> SUFFICES ASSUME CorpusInit PROVE Gated!Init
    OBVIOUS
  <2>1. ReplayInit
    BY DEF CorpusInit
  <2> QED
    BY <2>1 DEF ReplayInit, NewCase, Gated!Init, Gated!RiskLevel, RiskLevel
<1>2. (ReplayInv /\ Underway) /\ [CorpusNext]_replayOfCorpus
        => [Gated!Next \/ (NextFixture /\ (Gated!Init)')]_<<row.risk, decisions,
                                                            effects>>
  BY BoundaryKept
<1> QED
  BY <1>1, <1>2, ReplayInvariance, PTL
     DEF CorpusSpec, EachCaseImplementsGate, replayOfCorpus

-----------------------------------------------------------------------------
(* The answers of the services. They are what the settings of the fixture  *)
(* make of its request, whatever comes between the answer and its use.     *)

LEMMA NothingLeft ==
    ASSUME NEW S, NEW seq \in Seq(S), Len(seq) = 0
    PROVE  seq = <<>>
BY EmptySeq

LEMMA ItemMoves ==
    ASSUME NEW S, NEW stored \in Seq(S), NEW items \in Seq(S), items # <<>>
    PROVE  /\ Append(stored, Head(items)) \o Tail(items) = stored \o items
           /\ Append(stored, Head(items)) \in Seq(S)
           /\ Tail(items) \in Seq(S)
           /\ Len(items) = 1 => Append(stored, Head(items)) = stored \o items
<1>1. Head(items) \in S /\ Tail(items) \in Seq(S)
      /\ Len(Tail(items)) = Len(items) - 1
  BY HeadTailProperties
<1>2. Append(stored, Head(items)) = stored \o <<Head(items)>>
  BY <1>1, AppendIsConcat
<1>3. <<Head(items)>> \in Seq(S)
  BY <1>1
<1>4. <<Head(items)>> \o Tail(items) = items
  <2>1. <<Head(items)>> \o Tail(items) \in Seq(S)
        /\ Len(<<Head(items)>> \o Tail(items)) = Len(items)
    BY <1>1, <1>3
  <2>2. \A i \in 1 .. Len(items) : (<<Head(items)>> \o Tail(items))[i] = items[i]
    BY <1>1, <1>3
  <2> QED
    BY <2>1, <2>2, SeqEqual
<1>5. (stored \o <<Head(items)>>) \o Tail(items)
        = stored \o (<<Head(items)>> \o Tail(items))
  BY <1>1, <1>3, ConcatAssociative
<1>6. Append(stored, Head(items)) \in Seq(S)
  BY <1>1, AppendProperties
<1>7. ASSUME Len(items) = 1
      PROVE  Append(stored, Head(items)) = stored \o items
  <2>1. Len(Tail(items)) = 0
    BY <1>1, <1>7
  <2>2. Tail(items) = <<>>
    BY <1>1, <2>1, NothingLeft
  <2>3. Append(stored, Head(items)) \o Tail(items) = Append(stored, Head(items))
    BY <1>6, <2>2, ConcatEmptySeq
  <2> QED
    BY <1>2, <1>4, <1>5, <2>3
<1> QED
  BY <1>1, <1>2, <1>4, <1>5, <1>6, <1>7

LEMMA FreshIsAnswered == FreshCase /\ ai = NoRecords => Answered
<1> SUFFICES ASSUME FreshCase, ai = NoRecords PROVE Answered
  OBVIOUS
<1>1. faults = 0 /\ Current \in Slots
  BY DomainsHold DEF FreshCase, Current, Slots, Domains
<1>2. Awaited = Started("collect_evidence", 0)
  BY <1>1 DEF FreshCase, Awaited
<1>3. Awaited.act = "collect_evidence" /\ Awaited.pc = "ready"
  BY <1>2 DEF Started
<1>4. evidence = <<>>
  BY DEF FreshCase
<1>5. ai = [classification |-> ai.classification, remediation |-> ai.remediation]
  BY DEF NoRecords
<1> QED
  BY <1>3, <1>4, <1>5 DEF Answered, EvidenceIn, Classified, Planned, Executes, At,
     Awaited

(* Nothing that an answer is about changes while one fixture is replayed.  *)
LEMMA SameFixture ==
    ASSUME UNCHANGED <<corpus, original>>
    PROVE  Entry' = Entry /\ Used' = Used
BY DEF Entry, Used

LEMMA CollectsAnswered ==
    ASSUME ReplayInv, ReplayInv', Underway, Answered, CollectsEvidence
    PROVE  Answered'
<1>1. /\ Awaited.act = "collect_evidence" /\ Awaited.pc = "ready"
      /\ ActivityStep
      /\ attempts'[Current].items = Collected(Entry.request, settings, executions # <<>>)
      /\ UNCHANGED <<corpus, settings, original, ai>>
      /\ driver.pc = "running"
  BY DEF CollectsEvidence, At, Awaited, corpusVars, ActivityStep
<1>2. CollectEvidence(Current)
  BY <1>1 DEF ActivityStep, AttemptStep, At, Awaited, CollectEvidence,
     StoreEvidenceItem, ClassifyException, GenerateRemediationPlan,
     EvaluateApprovalGate, FinalizeApprovalDecision, ApplyDecision, FinalizeRaises,
     ReadCase, SkipExecution, BlockExecution, CreateExecutionRecord, MarkStarted,
     AdapterMisconfigured, CallAdapter, RecordOutcome, CloseCase, ResultDiscarded
<1>3. PICK items :
        attempts' = [attempts EXCEPT
                        ![Current].items = items,
                        ![Current].pc = IF items = <<>> THEN "returned" ELSE "store"]
  BY <1>2 DEF CollectEvidence
<1>4. UNCHANGED <<evidence, faults>>
  BY <1>2 DEF CollectEvidence, tables, reviewed
<1>5. /\ Awaited'.act = "collect_evidence"
      /\ Awaited'.pc = IF items = <<>> THEN "returned" ELSE "store"
      /\ Awaited'.items = items
  BY <1>1, <1>3, <1>4, GoesWithItems DEF ReplayInv
<1>6. executions = <<>>
  BY <1>1 DEF ReplayInv, Performed, Untouched
<1>7. settings = Used
  BY <1>1 DEF Underway
<1>8. items = Collected(Entry.request, Used, FALSE)
  <2>1. Current' = Current
    BY <1>4 DEF Current
  <2>2. Awaited'.items = attempts'[Current].items
    BY <2>1 DEF Awaited
  <2>3. (executions # <<>>) = FALSE
    BY <1>6
  <2>4. Awaited'.items = Collected(Entry.request, settings, FALSE)
    BY <1>1, <2>2, <2>3
  <2> QED
    BY <1>5, <1>7, <2>4
<1>9. evidence' = <<>>
  BY <1>1, <1>4 DEF Answered, At, Awaited
<1>10. evidence' \o items = items
  <2>1. items \in Seq(EvidenceStatus)
    BY <1>5, AwaitedType, <1>4 DEF ReplayInv, TypeInv, TypeOK, Attempt, Awaited, Current
  <2> QED
    BY <1>9, <2>1, ConcatEmptySeq
<1>11. Entry' = Entry /\ Used' = Used
  BY <1>1, SameFixture
<1>12. ai' = [classification |-> ai'.classification, remediation |-> ai'.remediation]
  BY <1>1 DEF Answered
<1>13. At(Current, "collect_evidence", "store")' =>
         evidence' \o Awaited'.items = Collected(Entry'.request, Used', FALSE)
  BY <1>5, <1>8, <1>10, <1>11
<1>14. EvidenceIn' => evidence' = Collected(Entry'.request, Used', FALSE)
  BY <1>5, <1>8, <1>9, <1>11 DEF EvidenceIn
<1>15. ~At(Current, "collect_evidence", "ready")'
  BY <1>5 DEF At, Awaited
<1> QED
  BY <1>5, <1>12, <1>13, <1>14, <1>15 DEF Answered, Classified, Planned, Executes

LEMMA StoresAnswered ==
    ASSUME ReplayInv, Underway, Answered, StoreEvidenceItem(Current),
           UNCHANGED corpusVars
    PROVE  Answered'
<1>1. /\ Awaited.act = "collect_evidence" /\ Awaited.pc = "store"
      /\ Awaited.items # <<>>
      /\ evidence' = Append(evidence, Head(Awaited.items))
      /\ attempts' = [attempts EXCEPT
            ![Current].items = Tail(Awaited.items),
            ![Current].pc = IF Len(Awaited.items) = 1 THEN "returned" ELSE "store"]
      /\ UNCHANGED <<corpus, original, ai, faults>>
  BY DEF StoreEvidenceItem, At, Awaited, corpusVars
<1>2. /\ Awaited'.act = "collect_evidence"
      /\ Awaited'.pc = IF Len(Awaited.items) = 1 THEN "returned" ELSE "store"
      /\ Awaited'.items = Tail(Awaited.items)
  BY <1>1, GoesWithItems DEF ReplayInv
<1>3. Awaited.items \in Seq(EvidenceStatus) /\ evidence \in Seq(EvidenceStatus)
  BY <1>1, AwaitedType DEF ReplayInv, TypeInv, TypeOK, Attempt
<1>4. evidence \o Awaited.items = Collected(Entry.request, Used, FALSE)
  BY <1>1 DEF Answered, At, Awaited
<1>5. /\ evidence' \o Awaited'.items = evidence \o Awaited.items
      /\ Len(Awaited.items) = 1 => evidence' = evidence \o Awaited.items
  <2>1. /\ Append(evidence, Head(Awaited.items)) \o Tail(Awaited.items)
             = evidence \o Awaited.items
        /\ Len(Awaited.items) = 1 =>
             Append(evidence, Head(Awaited.items)) = evidence \o Awaited.items
    <3>1. PICK items \in Seq(EvidenceStatus) : items = Awaited.items
      BY <1>3
    <3>2. PICK stored \in Seq(EvidenceStatus) : stored = evidence
      BY <1>3
    <3>3. items # <<>>
      BY <1>1, <3>1
    <3>4. /\ Append(stored, Head(items)) \o Tail(items) = stored \o items
          /\ Len(items) = 1 => Append(stored, Head(items)) = stored \o items
      BY <3>3, ItemMoves
    <3> QED
      BY <3>1, <3>2, <3>4
  <2> QED
    BY <1>1, <1>2, <2>1
<1>6. Entry' = Entry /\ Used' = Used
  BY <1>1, SameFixture
<1>7. EvidenceIn' => evidence' = Collected(Entry'.request, Used', FALSE)
  BY <1>2, <1>4, <1>5, <1>6 DEF EvidenceIn
<1>8. At(Current, "collect_evidence", "store")' =>
         evidence' \o Awaited'.items = Collected(Entry'.request, Used', FALSE)
  BY <1>4, <1>5, <1>6
<1>9. ~At(Current, "collect_evidence", "ready")'
  BY <1>2 DEF At, Awaited
<1>10. ai' = [classification |-> ai'.classification, remediation |-> ai'.remediation]
  BY <1>1 DEF Answered
<1> QED
  BY <1>2, <1>7, <1>8, <1>9, <1>10 DEF Answered, Classified, Planned, Executes

LEMMA ClassifiesAnswered ==
    ASSUME ReplayInv, Underway, Answered, Classifies
    PROVE  Answered'
<1>1. /\ Awaited.act = "classify_exception" /\ Awaited.pc = "ready"
      /\ ActivityStep
      /\ UNCHANGED <<corpus, original>>
      /\ driver.pc = "running"
  BY DEF Classifies, At, Awaited, ActivityStep
<1>2. PICK c \in Classifications(Entry.request, settings) :
         ai' = [ai EXCEPT !.classification = c]
  BY DEF Classifies
<1>3. ClassifyException(Current)
  BY <1>1 DEF ActivityStep, AttemptStep, At, Awaited, CollectEvidence,
     StoreEvidenceItem, ClassifyException, GenerateRemediationPlan,
     EvaluateApprovalGate, FinalizeApprovalDecision, ApplyDecision, FinalizeRaises,
     ReadCase, SkipExecution, BlockExecution, CreateExecutionRecord, MarkStarted,
     AdapterMisconfigured, CallAdapter, RecordOutcome, CloseCase, ResultDiscarded
<1>4. UNCHANGED <<evidence, faults>>
  BY <1>3 DEF ClassifyException
<1>5. Awaited'.act = "classify_exception" /\ Awaited'.pc = "returned"
  BY <1>1, <1>3, <1>4, GoesTo DEF ClassifyException, ReplayInv
<1>6. Entry' = Entry /\ Used' = Used /\ settings = Used
  BY <1>1, SameFixture DEF Underway
<1>7. /\ ai'.classification = c
      /\ ai' = [classification |-> ai'.classification,
                remediation |-> ai'.remediation]
  BY <1>2 DEF Answered
<1>8. evidence' = Collected(Entry'.request, Used', FALSE)
  BY <1>1, <1>4, <1>6 DEF Answered, EvidenceIn
<1>9. ai'.classification \in Classifications(Entry'.request, Used')
  BY <1>6, <1>7
<1> QED
  BY <1>5, <1>7, <1>8, <1>9 DEF Answered, At, Awaited, Classified, Planned, Executes

LEMMA PlansAnswered ==
    ASSUME ReplayInv, Underway, Answered, Plans
    PROVE  Answered'
<1>1. /\ Awaited.act = "generate_remediation_plan" /\ Awaited.pc = "ready"
      /\ ActivityStep
      /\ UNCHANGED <<corpus, original>>
      /\ driver.pc = "running"
  BY DEF Plans, At, Awaited, ActivityStep
<1>2. PICK p \in Remediations(Entry.request, ai.classification, evidence, settings) :
         /\ Last(plans') = p.action
         /\ ai' = [ai EXCEPT !.remediation = p]
  BY DEF Plans
<1>3. GenerateRemediationPlan(Current)
  BY <1>1 DEF ActivityStep, AttemptStep, At, Awaited, CollectEvidence,
     StoreEvidenceItem, ClassifyException, GenerateRemediationPlan,
     EvaluateApprovalGate, FinalizeApprovalDecision, ApplyDecision, FinalizeRaises,
     ReadCase, SkipExecution, BlockExecution, CreateExecutionRecord, MarkStarted,
     AdapterMisconfigured, CallAdapter, RecordOutcome, CloseCase, ResultDiscarded
<1>4. UNCHANGED <<evidence, faults>>
  BY <1>3 DEF GenerateRemediationPlan
<1>5. Awaited'.act = "generate_remediation_plan" /\ Awaited'.pc = "returned"
  BY <1>1, <1>3, <1>4, GoesTo DEF GenerateRemediationPlan, ReplayInv
<1>6. Entry' = Entry /\ Used' = Used /\ settings = Used
  BY <1>1, SameFixture DEF Underway
<1>7. /\ ai'.remediation = p
      /\ ai'.classification = ai.classification
      /\ ai' = [classification |-> ai'.classification,
                remediation |-> ai'.remediation]
  BY <1>2 DEF Answered
<1>8. evidence' = Collected(Entry'.request, Used', FALSE)
  BY <1>1, <1>4, <1>6 DEF Answered, EvidenceIn
<1>9. ai'.classification \in Classifications(Entry'.request, Used')
  BY <1>1, <1>6, <1>7 DEF Answered, Classified
<1>10. plans'[1] = p.action
  <2>1. plans \in Seq(Advice) /\ Len(plans) = 0
    BY <1>1 DEF ReplayInv, Reviewed, Planned, TypeInv, TypeOK
  <2>2. PICK advice : plans' = Append(plans, advice)
    BY <1>3 DEF GenerateRemediationPlan
  <2>3. Len(plans') = 1
    BY <2>1, <2>2
  <2> QED
    BY <1>2, <2>3 DEF Last
<1>11. ai'.remediation \in
          Remediations(Entry'.request, ai'.classification, evidence', Used')
  BY <1>2, <1>4, <1>6, <1>7
<1> QED
  BY <1>5, <1>7, <1>8, <1>9, <1>10, <1>11 DEF Answered, At, Awaited, Classified,
     Planned, Executes

LEMMA ActsAnswered ==
    ASSUME ReplayInv, Underway, Answered, Acts
    PROVE  Answered'
<1>1. /\ Awaited.act = "execute_action" /\ Awaited.pc = "call"
      /\ ActivityStep
      /\ attempts'[Current].outcome =
           (IF AdapterAnswer(Entry.request, settings) = "succeeded"
              THEN "succeeded" ELSE "failed")
      /\ UNCHANGED <<corpus, original, ai>>
      /\ driver.pc = "running"
  BY DEF Acts, At, Awaited, ActivityStep, corpusVars
<1>2. AdapterMisconfigured(Current) \/ CallAdapter(Current)
  BY <1>1 DEF ActivityStep, AttemptStep, At, Awaited, CollectEvidence,
     StoreEvidenceItem, ClassifyException, GenerateRemediationPlan,
     EvaluateApprovalGate, FinalizeApprovalDecision, ApplyDecision, FinalizeRaises,
     ReadCase, SkipExecution, BlockExecution, CreateExecutionRecord, MarkStarted,
     AdapterMisconfigured, CallAdapter, RecordOutcome, CloseCase, ResultDiscarded
<1>3. UNCHANGED <<evidence, plans, faults>>
  BY <1>2 DEF AdapterMisconfigured, CallAdapter, tables, reviewed
<1>4. PICK outcome \in {"failed", "succeeded"} :
         attempts' = [attempts EXCEPT ![Current].pc = "record",
                                      ![Current].outcome = outcome]
  BY <1>2 DEF AdapterMisconfigured, CallAdapter
<1>5. Awaited'.act = "execute_action" /\ Awaited'.pc = "record"
  BY <1>1, <1>3, <1>4, GoesWithOutcome DEF ReplayInv
<1>6. Entry' = Entry /\ Used' = Used /\ settings = Used
  BY <1>1, SameFixture DEF Underway
<1>7. Awaited'.outcome = IF AdapterAnswer(Entry'.request, Used') = "succeeded"
                           THEN "succeeded" ELSE "failed"
  <2>1. Current' = Current
    BY <1>3 DEF Current
  <2>2. Awaited'.outcome = attempts'[Current].outcome
    BY <2>1 DEF Awaited
  <2> QED
    BY <1>1, <1>6, <2>2
<1>8. EvidenceIn /\ Classified /\ Planned
  BY <1>1 DEF EvidenceIn, Classified, Planned
<1>9. /\ evidence' = Collected(Entry'.request, Used', FALSE)
      /\ ai'.classification \in Classifications(Entry'.request, Used')
      /\ ai'.remediation \in
           Remediations(Entry'.request, ai'.classification, evidence', Used')
      /\ plans'[1] = ai'.remediation.action
      /\ ai' = [classification |-> ai'.classification,
                remediation |-> ai'.remediation]
  BY <1>1, <1>3, <1>6, <1>8 DEF Answered
<1> QED
  BY <1>5, <1>7, <1>9 DEF Answered, At, Awaited

(* Once the evidence is in, what changes no record and asks no service     *)
(* leaves the answers as they are.                                         *)
LEMMA AnswersStand ==
    ASSUME Answered, UNCHANGED <<corpus, original, ai, evidence, plans>>,
           EvidenceIn, EvidenceIn',
           Classified' => Classified,
           Planned' => Planned,
           (Executes({"record", "close", "returned"})' /\ row'.approval # "rejected")
             => /\ Executes({"record", "close", "returned"})
                /\ row.approval # "rejected"
                /\ Awaited'.outcome = Awaited.outcome
    PROVE  Answered'
<1>1. Entry' = Entry /\ Used' = Used
  BY SameFixture
<1>2. evidence' = Collected(Entry'.request, Used', FALSE)
  BY <1>1 DEF Answered
<1>3. ~At(Current, "collect_evidence", "ready")'
      /\ ~At(Current, "collect_evidence", "store")'
  BY DEF EvidenceIn, At, Awaited
<1>4. Classified' => ai'.classification \in Classifications(Entry'.request, Used')
  BY <1>1 DEF Answered
<1>5. Planned' =>
         /\ ai'.remediation \in
              Remediations(Entry'.request, ai'.classification, evidence', Used')
         /\ plans'[1] = ai'.remediation.action
  BY <1>1 DEF Answered
<1>6. (Executes({"record", "close", "returned"})' /\ row'.approval # "rejected") =>
         Awaited'.outcome = IF AdapterAnswer(Entry'.request, Used') = "succeeded"
                              THEN "succeeded" ELSE "failed"
  BY <1>1 DEF Answered
<1>7. ai' = [classification |-> ai'.classification, remediation |-> ai'.remediation]
  BY DEF Answered
<1> QED
  BY <1>2, <1>3, <1>4, <1>5, <1>6, <1>7 DEF Answered

(* The later activities: none of them asks a service but the adapter.      *)
LEMMA LateMoves ==
    ASSUME ReplayInv, AttemptStep(Current),
           Awaited.act \in {"evaluate_approval_gate", "finalize_approval_decision",
                            "execute_action"},
           Awaited.pc # "call"
    PROVE  /\ UNCHANGED <<evidence, plans>>
           /\ Awaited'.act = Awaited.act
           /\ (Executes({"record", "close", "returned"})'
               /\ row'.approval # "rejected")
                => /\ Executes({"record", "close", "returned"})
                   /\ row.approval # "rejected"
                   /\ Awaited'.outcome = Awaited.outcome
<1>1. CASE EvaluateApprovalGate(Current)
  <2>1. /\ UNCHANGED <<evidence, plans, faults>>
        /\ Goto(Current, "returned")
        /\ Awaited.act = "evaluate_approval_gate"
    BY <1>1 DEF EvaluateApprovalGate, reviewed, At, Awaited
  <2>2. Awaited'.act = "evaluate_approval_gate"
    BY <2>1, GoesTo DEF ReplayInv
  <2> QED
    BY <2>1, <2>2 DEF Executes
<1>2. CASE FinalizeApprovalDecision(Current)
  <2>1. /\ UNCHANGED <<evidence, plans, faults>>
        /\ attempts' = [attempts EXCEPT ![Current].pc = "apply",
                                        ![Current].loaded = Loaded]
        /\ Awaited.act = "finalize_approval_decision"
    BY <1>2 DEF FinalizeApprovalDecision, tables, reviewed, At, Awaited
  <2>2. Awaited'.act = "finalize_approval_decision"
    BY <2>1, GoesWithLoaded DEF ReplayInv
  <2> QED
    BY <2>1, <2>2 DEF Executes
<1>3. CASE ApplyDecision(Current) \/ FinalizeRaises(Current)
  <2>1. /\ UNCHANGED <<evidence, plans, faults>>
        /\ \E pc \in Pc : Goto(Current, pc)
        /\ Awaited.act = "finalize_approval_decision"
    BY <1>3 DEF ApplyDecision, FinalizeRaises, tables, reviewed, At, Awaited, Pc
  <2>2. Awaited'.act = "finalize_approval_decision"
    BY <2>1, GoesTo DEF ReplayInv
  <2> QED
    BY <2>1, <2>2 DEF Executes
<1>4. CASE ReadCase(Current)
  <2>1. /\ UNCHANGED <<evidence, plans, faults>>
        /\ Awaited.act = "execute_action" /\ Awaited.pc = "ready"
    BY <1>4 DEF ReadCase, tables, reviewed, At, Awaited
  <2>2. executions = <<>>
    BY <2>1 DEF ReplayInv, Performed, Executes, Untouched
  <2>3. PICK pc \in {"create", "skip"} :
          attempts' = [attempts EXCEPT
             ![Current].pc = pc,
             ![Current].action = PermittedAction(LatestAdvice)]
    <3>1. ExecutionDecision(row.approval) =
            IF row.approval = "rejected" THEN "skip" ELSE "execute"
      BY <2>1, RuledIsDecided
    <3> QED
      BY <1>4, <2>2, <3>1 DEF ReadCase
  <2>4. Awaited'.act = "execute_action" /\ Awaited'.pc = pc
    BY <2>1, <2>3, GoesWithAction DEF ReplayInv
  <2> QED
    BY <2>1, <2>4 DEF Executes
<1>5. CASE SkipExecution(Current)
  <2>1. /\ UNCHANGED <<evidence, plans, faults>>
        /\ Awaited.act = "execute_action" /\ Awaited.pc = "skip"
        /\ row' = CaseMarked("skipped", "completed", "resolved")
        /\ Goto(Current, "returned")
    BY <1>5 DEF SkipExecution, reviewed, At, Awaited
  <2>2. Awaited'.act = "execute_action"
    BY <2>1, GoesTo DEF ReplayInv
  <2>3. row'.approval = row.approval
    BY <2>1, Marked
  <2>4. row.approval = "rejected"
    BY <2>1 DEF ReplayInv, Performed, Executes
  <2> QED
    BY <2>1, <2>2, <2>3, <2>4
<1>6. CASE CreateExecutionRecord(Current)
  <2>1. /\ UNCHANGED <<evidence, plans, faults>>
        /\ Awaited.act = "execute_action"
        /\ attempts' = [attempts EXCEPT ![Current].pc = "mark",
                                        ![Current].ref = Len(executions')]
    BY <1>6 DEF CreateExecutionRecord, reviewed, At, Awaited
  <2>2. Awaited'.act = "execute_action" /\ Awaited'.pc = "mark"
    BY <2>1, GoesWithRef DEF ReplayInv
  <2> QED
    BY <2>1, <2>2 DEF Executes
<1>7. CASE MarkStarted(Current)
  <2>1. /\ UNCHANGED <<evidence, plans, faults>>
        /\ Awaited.act = "execute_action"
        /\ Goto(Current, "call")
    BY <1>7 DEF MarkStarted, reviewed, At, Awaited
  <2>2. Awaited'.act = "execute_action" /\ Awaited'.pc = "call"
    BY <2>1, GoesTo DEF ReplayInv
  <2> QED
    BY <2>1, <2>2 DEF Executes
<1>8. CASE RecordOutcome(Current)
  <2>1. /\ UNCHANGED <<row, evidence, plans, faults>>
        /\ Awaited.act = "execute_action" /\ Awaited.pc = "record"
        /\ Goto(Current, "close")
    BY <1>8 DEF RecordOutcome, reviewed, At, Awaited
  <2>2. Awaited'.act = "execute_action" /\ Awaited'.outcome = Awaited.outcome
    BY <2>1, GoesTo DEF ReplayInv
  <2> QED
    BY <2>1, <2>2 DEF Executes
<1>9. CASE CloseCase(Current)
  <2>1. /\ UNCHANGED <<evidence, plans, faults>>
        /\ Awaited.act = "execute_action" /\ Awaited.pc = "close"
        /\ \E execution, lifecycle, status :
              row' = CaseMarked(execution, lifecycle, status)
        /\ Goto(Current, "returned")
    BY <1>9 DEF CloseCase, reviewed, At, Awaited
  <2>2. Awaited'.act = "execute_action" /\ Awaited'.outcome = Awaited.outcome
    BY <2>1, GoesTo DEF ReplayInv
  <2>3. row'.approval = row.approval
    BY <2>1, Marked
  <2> QED
    BY <2>1, <2>2, <2>3 DEF Executes
<1>10. ~BlockExecution(Current)
  BY Places DEF BlockExecution, At, ReplayInv, InStep, Awaited
<1>11. ~ResultDiscarded(Current)
  BY DEF ResultDiscarded, Current, ReplayInv, TypeInv, TypeOK
<1>12. /\ ~CollectEvidence(Current) /\ ~StoreEvidenceItem(Current)
       /\ ~ClassifyException(Current) /\ ~GenerateRemediationPlan(Current)
       /\ ~AdapterMisconfigured(Current) /\ ~CallAdapter(Current)
  BY DEF CollectEvidence, StoreEvidenceItem, ClassifyException,
     GenerateRemediationPlan, AdapterMisconfigured, CallAdapter, At, Awaited
<1> QED
  BY <1>1, <1>2, <1>3, <1>4, <1>5, <1>6, <1>7, <1>8, <1>9, <1>10, <1>11, <1>12
     DEF AttemptStep

LEMMA WorksAloneAnswered ==
    ASSUME ReplayInv, Underway, Answered, WorksAlone
    PROVE  Answered'
<1>1. /\ AttemptStep(Current)
      /\ UNCHANGED <<corpus, settings, original, ai>>
      /\ ~At(Current, "collect_evidence", "ready")
      /\ ~At(Current, "classify_exception", "ready")
      /\ ~At(Current, "generate_remediation_plan", "ready")
      /\ ~At(Current, "execute_action", "call")
  BY DEF WorksAlone, ActivityStep, corpusVars
<1>2. CASE StoreEvidenceItem(Current)
  BY <1>1, <1>2, StoresAnswered DEF corpusVars
<1>3. CASE ~StoreEvidenceItem(Current)
  <2>1. ~ResultDiscarded(Current)
    BY DEF ResultDiscarded, Current, ReplayInv, TypeInv, TypeOK
  <2>2. Awaited.act \in {"evaluate_approval_gate", "finalize_approval_decision",
                         "execute_action"}
    BY <1>1, <1>3, <2>1 DEF AttemptStep, At, Awaited, CollectEvidence,
       StoreEvidenceItem, ClassifyException, GenerateRemediationPlan,
       EvaluateApprovalGate, FinalizeApprovalDecision, ApplyDecision,
       FinalizeRaises, ReadCase, SkipExecution, BlockExecution,
       CreateExecutionRecord, MarkStarted, AdapterMisconfigured, CallAdapter,
       RecordOutcome, CloseCase
  <2>3. Awaited.pc # "call"
    BY <1>1, <2>2, Places DEF At, Awaited, ReplayInv, InStep
  <2>4. /\ UNCHANGED <<evidence, plans>>
        /\ Awaited'.act = Awaited.act
        /\ (Executes({"record", "close", "returned"})'
            /\ row'.approval # "rejected")
             => /\ Executes({"record", "close", "returned"})
                /\ row.approval # "rejected"
                /\ Awaited'.outcome = Awaited.outcome
    BY <1>1, <2>2, <2>3, LateMoves
  <2>5. EvidenceIn /\ EvidenceIn' /\ Classified /\ Planned
    BY <2>2, <2>4 DEF EvidenceIn, Classified, Planned
  <2> QED
    BY <1>1, <2>4, <2>5, AnswersStand
<1> QED
  BY <1>2, <1>3

(* The driver writes no answer, and calls an activity only when the one    *)
(* before it has returned.                                                 *)
LEMMA DriverMoves ==
    ASSUME ReplayInv, DriverStep
    PROVE  /\ UNCHANGED <<evidence, plans>>
           /\ \/ UNCHANGED <<row, Awaited>>
              \/ /\ Awaited.pc = "returned" /\ Awaited'.pc = "ready"
                 /\ \/ Awaited.act = "collect_evidence"
                       /\ Awaited'.act = "classify_exception"
                    \/ Awaited.act = "classify_exception"
                       /\ Awaited'.act = "generate_remediation_plan"
                    \/ Planned /\ Awaited'.act \in Activity \ {"collect_evidence"}
<1>1. ASSUME NEW pc, Leave(pc)
      PROVE  UNCHANGED <<evidence, plans, row, Awaited>>
  BY <1>1 DEF Leave, tables, reviewed, Awaited, Current
<1>2. CASE ActivityFails \/ FixtureMisfits
           \/ (\E stage \in ReplayStage : StopAfter(stage))
  BY <1>1, <1>2 DEF ActivityFails, FixtureMisfits, StopAfter
<1>3. ASSUME NEW act, NEW ref, Call(act, ref)
      PROVE  Awaited'.act = act /\ Awaited'.pc = "ready"
  BY <1>3, Restarted DEF Call, ReplayInv
<1>4. ASSUME NEW stage \in ReplayStage, NextStage(stage)
      PROVE  /\ UNCHANGED <<evidence, plans>>
             /\ Awaited.pc = "returned" /\ Awaited'.pc = "ready"
             /\ \/ Awaited.act = "collect_evidence"
                   /\ Awaited'.act = "classify_exception"
                \/ Awaited.act = "classify_exception"
                   /\ Awaited'.act = "generate_remediation_plan"
                \/ Planned /\ Awaited'.act \in Activity \ {"collect_evidence"}
  <2>1. /\ driver.stage = stage
        /\ Awaited.pc = "returned"
        /\ Call(NextStep(Awaited.act), 0)
        /\ UNCHANGED <<evidence, plans>>
        /\ stage \in {"evidence", "classification", "remediation",
                      "approval_decision"}
    BY <1>4 DEF NextStage, Returned, Awaited, tables, reviewed
  <2>2. /\ Awaited.act \in {"collect_evidence", "classify_exception",
                     "generate_remediation_plan", "finalize_approval_decision"}
    BY <2>1, Stages DEF ReplayInv, InStep, Activity
  <2>3. /\ NextStep("collect_evidence") = "classify_exception"
        /\ NextStep("classify_exception") = "generate_remediation_plan"
        /\ NextStep("generate_remediation_plan") = "evaluate_approval_gate"
        /\ NextStep("finalize_approval_decision") = "execute_action"
    BY DEF NextStep
  <2>4. Awaited'.act = NextStep(Awaited.act) /\ Awaited'.pc = "ready"
    BY <1>3, <2>1
  <2> QED
    BY <2>1, <2>2, <2>3, <2>4 DEF Planned, Activity
<1>5. CASE DecideByFixture \/ ExecuteUndecided
  <2>1. /\ driver.stage = "approval_gate"
        /\ Awaited.pc = "returned"
        /\ UNCHANGED <<evidence, plans>>
        /\ \E ref : Call("finalize_approval_decision", ref)
                    \/ Call("execute_action", ref)
    BY <1>5 DEF DecideByFixture, ExecuteUndecided, Returned, Awaited, tables,
       reviewed
  <2>2. Awaited.act = "evaluate_approval_gate"
    BY <2>1, Stages DEF ReplayInv, InStep, Activity
  <2>3. /\ Awaited'.act \in {"finalize_approval_decision", "execute_action"}
        /\ Awaited'.pc = "ready"
    BY <1>3, <2>1
  <2> QED
    BY <2>1, <2>2, <2>3 DEF Planned, Activity
<1> QED
  BY <1>2, <1>4, <1>5 DEF DriverStep

LEMMA AnswersKept ==
    ASSUME Answered,
           UNCHANGED <<corpus, original, ai, evidence, plans, row, Awaited>>
    PROVE  Answered'
<1>1. Entry' = Entry /\ Used' = Used
  BY SameFixture
<1> QED
  BY <1>1 DEF Answered, At, Awaited, EvidenceIn, Classified, Planned, Executes

LEMMA DrivesAnswered ==
    ASSUME ReplayInv, Underway, Answered, Drives
    PROVE  Answered'
<1>1. DriverStep /\ UNCHANGED <<corpus, original, ai>>
  BY DEF Drives
<1>2. UNCHANGED <<evidence, plans>>
  BY <1>1, DriverMoves
<1>3. CASE UNCHANGED <<row, Awaited>>
  BY <1>1, <1>2, <1>3, AnswersKept
<1>4. CASE /\ Awaited.pc = "returned" /\ Awaited'.pc = "ready"
           /\ \/ Awaited.act = "collect_evidence"
                 /\ Awaited'.act = "classify_exception"
              \/ Awaited.act = "classify_exception"
                 /\ Awaited'.act = "generate_remediation_plan"
              \/ Planned /\ Awaited'.act \in Activity \ {"collect_evidence"}
  <2>1. EvidenceIn /\ EvidenceIn'
    BY <1>4 DEF EvidenceIn
  <2>2. (Classified' => Classified) /\ (Planned' => Planned)
    BY <1>4 DEF Classified, Planned
  <2>3. ~Executes({"record", "close", "returned"})'
    BY <1>4 DEF Executes
  <2> QED
    BY <1>1, <1>2, <2>1, <2>2, <2>3, AnswersStand
<1> QED
  BY <1>1, <1>3, <1>4, DriverMoves

LEMMA AnsweredStep ==
    ReplayInv /\ Underway /\ Answered /\ ReplayInv' /\ [CorpusNext]_replayOfCorpus
      => Answered'
<1> SUFFICES ASSUME ReplayInv, Underway, Answered, ReplayInv',
                    [CorpusNext]_replayOfCorpus
             PROVE  Answered'
  OBVIOUS
<1>1. CASE UNCHANGED replayOfCorpus
  BY <1>1, AnswersKept DEF replayOfCorpus, vars, tables, reviewed, corpusVars,
     Awaited, Current
<1>2. CASE NextFixture
  <2>1. FreshCase' /\ ai' = NoRecords
    BY <1>2, NextFixtureBegins DEF NextFixture
  <2>2. (FreshCase /\ ai = NoRecords => Answered)'
    BY FreshIsAnswered, PTL
  <2>3. NoRecords' = NoRecords
    BY DEF NoRecords
  <2> QED
    BY <2>1, <2>2, <2>3
<1> QED
  BY <1>1, <1>2, CollectsAnswered, ClassifiesAnswered, PlansAnswered, ActsAnswered,
     WorksAloneAnswered, DrivesAnswered DEF CorpusNext

LEMMA AnsweredInvariance == CorpusSpec => []Answered
<1>1. CorpusInit => Answered
  <2> SUFFICES ASSUME CorpusInit PROVE Answered
    OBVIOUS
  <2>1. fixture \in Fixture
    BY DEF CorpusInit, ReplayInit
  <2>2. ReplayInit /\ ai = NoRecords
    BY DEF CorpusInit
  <2>3. FreshCase
    BY <2>2 DEF ReplayInit, NewCase, FreshCase
  <2> QED
    BY <2>2, <2>3, FreshIsAnswered
<1> QED
  BY <1>1, AnsweredStep, ReplayInvariance, PTL DEF CorpusSpec, replayOfCorpus

-----------------------------------------------------------------------------
(* The outcome of a fixture, from the answers and the places of the stages.*)

(* Every stored item has one of the two statuses that an outcome counts.   *)
LEMMA CountsAddUp ==
    ASSUME evidence \in Seq(EvidenceStatus)
    PROVE  /\ Count("succeeded") \in Nat /\ Count("failed") \in Nat
           /\ Count("succeeded") + Count("failed") = Len(evidence)
<1> DEFINE With(status) == {i \in DOMAIN evidence : evidence[i] = status}
<1>1. DOMAIN evidence = 1 .. Len(evidence) /\ Len(evidence) \in Nat
  BY LenProperties
<1>2. IsFiniteSet(DOMAIN evidence) /\ Cardinality(DOMAIN evidence) = Len(evidence)
  BY <1>1, FS_Interval
<1>3. With("succeeded") \cup With("failed") = DOMAIN evidence
  <2>1. \A i \in DOMAIN evidence : evidence[i] \in EvidenceStatus
    BY <1>1, ElementOfSeq
  <2> QED
    BY <2>1 DEF EvidenceStatus
<1>4. With("succeeded") \cap With("failed") = {}
  OBVIOUS
<1>5. IsFiniteSet(With("succeeded")) /\ IsFiniteSet(With("failed"))
  BY <1>2, FS_Subset
<1>6. Cardinality(With("succeeded")) \in Nat /\ Cardinality(With("failed")) \in Nat
  BY <1>5, FS_CardinalityType
<1> HIDE DEF With
<1>7. Cardinality(DOMAIN evidence)
        = Cardinality(With("succeeded")) + Cardinality(With("failed"))
          - Cardinality(With("succeeded") \cap With("failed"))
  BY <1>3, <1>5, FS_Union
<1>8. Cardinality(With("succeeded") \cap With("failed")) = 0
  BY <1>4, FS_EmptySet
<1>9. Cardinality(DOMAIN evidence)
        = Cardinality(With("succeeded")) + Cardinality(With("failed"))
  BY <1>6, <1>7, <1>8
<1> QED
  BY <1>2, <1>6, <1>9 DEF Count, With

(* The adapter's answer to a first collection is one to three items.       *)
LEMMA CollectedLength ==
    ASSUME NEW request, NEW used
    PROVE  Len(Collected(request, used, FALSE)) \in 1 .. 3
<1> DEFINE related == IF "force_related_lookup_failure" \in request.flags
                        THEN <<"failed">> ELSE <<>>
<1>1. related \in Seq(EvidenceStatus) /\ Len(related) \in {0, 1}
  <2>1. <<>> \in Seq(EvidenceStatus) /\ Len(<<>>) = 0
    BY EmptySeq
  <2>2. <<"failed">> \in Seq(EvidenceStatus) /\ Len(<<"failed">>) = 1
    BY DEF EvidenceStatus
  <2> QED
    BY <2>1, <2>2
<1>2. <<"succeeded", "succeeded">> \in Seq(EvidenceStatus)
      /\ Len(<<"succeeded", "succeeded">>) = 2
  BY DEF EvidenceStatus
<1> HIDE DEF related
<1>3. /\ <<"succeeded", "succeeded">> \o related \in Seq(EvidenceStatus)
      /\ Len(<<"succeeded", "succeeded">> \o related) = 2 + Len(related)
  BY <1>1, <1>2, ConcatProperties
<1>4. EvidenceItems(request, FALSE) = <<"succeeded", "succeeded">> \o related
  <2>1. EvidenceItems(request, FALSE)
          = (<<"succeeded", "succeeded">> \o related) \o <<>>
    BY DEF EvidenceItems, related
  <2> QED
    BY <1>3, <2>1, ConcatEmptySeq
<1>5. Len(EvidenceItems(request, FALSE)) = 2 + Len(related)
  BY <1>3, <1>4
<1>6. Len(EvidenceItems(request, FALSE)) \in 1 .. 3
  <2>1. PICK n \in {0, 1} : n = Len(related)
    BY <1>1
  <2>2. Len(EvidenceItems(request, FALSE)) = 2 + n
    BY <1>5, <2>1
  <2>3. 2 + n \in 1 .. 3
    OBVIOUS
  <2> QED
    BY <2>2, <2>3
<1>7. Len(<<"failed">>) \in 1 .. 3
  OBVIOUS
<1>8. Collected(request, used, FALSE) \in {EvidenceItems(request, FALSE), <<"failed">>}
  BY DEF Collected
<1> QED
  BY <1>6, <1>7, <1>8

(* A plan that succeeded is in the allowlist and is what is executed, any  *)
(* other becomes manual triage.                                            *)
LEMMA PlanPermitted ==
    ASSUME NEW request, NEW classification, NEW collected, NEW used,
           NEW p \in Remediations(request, classification, collected, used)
    PROVE  PermittedAction(p.action) =
             IF p.status = "succeeded" THEN p.action ELSE "manual_triage"
<1>1. /\ p.status \in {"succeeded", "failed"}
      /\ p.action \in ExecutionAction \cup {NoAction}
      /\ p.status = "failed" <=> p.action = NoAction
  BY DEF Remediations, Remediation, AIRecordStatus, Advice
<1>2. NoAction \notin ExecutionAction
  BY DEF NoAction, ExecutionAction
<1> QED
  BY <1>1, <1>2 DEF PermittedAction

(* The mock provider plans for the type that it finds itself.              *)
LEMMA HeuristicPlan ==
    ASSUME NEW request, NEW collected, NEW used, used.ai_provider = "mock",
           NEW c \in Classifications(request, used),
           NEW p \in Remediations(request, c, collected, used),
           p.status = "succeeded"
    PROVE  /\ p.action = ActionMap[NormalizedType(request)]
           /\ p.blockers = Blockers(request, collected)
<1>1. /\ p.status \in ProviderAnswers(used)
      /\ p.action = ActionMap[IF c.status = "succeeded" THEN c.type
                                                        ELSE request.type]
      /\ p.blockers = Blockers(request, collected)
  BY DEF Remediations
<1>2. ProviderAnswers(used) \subseteq {"succeeded"}
  <2>1. used.ai_enabled
    BY <1>1 DEF ProviderAnswers
  <2> QED
    BY <2>1 DEF ProviderAnswers
<1>3. c.status = "succeeded" /\ c.type = NormalizedType(request)
  BY <1>2 DEF Classifications
<1> QED
  BY <1>1, <1>3

LEMMA OutcomeFields ==
    /\ Outcome.approval = row.approval
    /\ Outcome.execution = row.execution
    /\ Outcome.lifecycle = row.lifecycle
    /\ Outcome.classification = ai.classification.status
    /\ Outcome.remediation = ai.remediation.status
    /\ Outcome.type = ai.classification.type
    /\ Outcome.advised = ai.remediation.action
    /\ Outcome.action = IF executions = <<>> THEN NoAction ELSE Last(executions).action
    /\ Outcome.record = IF executions = <<>> THEN "none" ELSE Last(executions).status
    /\ Outcome.succeeded = Count("succeeded")
    /\ Outcome.failed = Count("failed")
BY DEF Outcome

(* The verdict is the fixture's, unless the risk asks for none.            *)
LEMMA VerdictReached ==
    ASSUME ReplayInv, Underway, Awaited.act = "execute_action"
    PROVE  row.approval = IF Entry.request.risk = "low" THEN "not_required"
                                                        ELSE Entry.decision
<1>1. row.risk = Entry.request.risk /\ fixture = FixtureOf(Entry, fixture.until)
  BY DEF Underway, FixtureOf
<1>2. fixture.decision = Entry.decision
  BY <1>1 DEF FixtureOf
<1>3. row.risk \in {"low", "medium", "high"}
  BY DEF ReplayInv, TypeInv, TypeOK, CaseRow, RiskLevel
<1>4. IF fixture.decision = "none"
        THEN ~RequiresApproval(row.risk) /\ row.approval = "not_required"
        ELSE RequiresApproval(row.risk) /\ row.approval = fixture.decision
  BY DEF ReplayInv, Judged, Ruled
<1> QED
  BY <1>1, <1>2, <1>3, <1>4 DEF RequiresApproval

LEMMA OutcomeFollows ==
    ReplayInv /\ Underway /\ Answered => OutcomePredicted
<1> SUFFICES ASSUME ReplayInv, Underway, Answered, Replayed
             PROVE  OutcomePredicted
  BY DEF OutcomePredicted
<1> DEFINE verdict == IF Entry.request.risk = "low" THEN "not_required"
                                                    ELSE Entry.decision
           result == IF verdict = "rejected" THEN "skipped"
                     ELSE IF AdapterAnswer(Entry.request, Used) = "succeeded"
                          THEN "succeeded" ELSE "failed"
           planned == ai.remediation.status = "succeeded"
           typed == [Entry.request EXCEPT !.type = NormalizedType(Entry.request)]
<1>1. Awaited.act = "execute_action" /\ Awaited.pc = "returned"
  BY Stages DEF Replayed, ReplayInv, Left, InStep, Activity
<1>2. row.approval = verdict
  BY <1>1, VerdictReached
<1>3. /\ evidence = Collected(Entry.request, Used, FALSE)
      /\ ai.classification \in Classifications(Entry.request, Used)
      /\ ai.remediation \in
           Remediations(Entry.request, ai.classification, evidence, Used)
      /\ plans[1] = ai.remediation.action
      /\ row.approval # "rejected" =>
           Awaited.outcome = IF AdapterAnswer(Entry.request, Used) = "succeeded"
                               THEN "succeeded" ELSE "failed"
  BY <1>1 DEF Answered, EvidenceIn, Classified, Planned, Executes
<1>4. /\ row.execution = result
      /\ row.lifecycle = IF result = "failed" THEN "failed" ELSE "completed"
      /\ executions = IF result = "skipped" THEN <<>>
           ELSE <<[action |-> PermittedAction(LatestAdvice), status |-> result]>>
  <2>1. CASE row.approval = "rejected"
    BY <1>1, <1>2, <2>1 DEF ReplayInv, Performed, Executes, Untouched, ClosedAs
  <2>2. CASE row.approval # "rejected"
    <3>1. /\ Opened(Awaited.outcome)
          /\ Awaited.action = PermittedAction(LatestAdvice)
          /\ ClosedAs(Awaited.outcome)
      BY <1>1, <2>2 DEF ReplayInv, Performed, Executes
    <3>2. Awaited.outcome = result /\ result # "skipped"
      BY <1>2, <1>3, <2>2
    <3> QED
      BY <3>1, <3>2 DEF Opened, ClosedAs
  <2> QED
    BY <2>1, <2>2
<1>5. PermittedAction(LatestAdvice) =
        IF planned THEN ai.remediation.action ELSE "manual_triage"
  <2>1. Len(plans) = 1 /\ plans \in Seq(Advice)
    BY <1>1 DEF ReplayInv, Reviewed, Planned, TypeInv, TypeOK
  <2>2. plans # <<>>
    BY <2>1, EmptySeq
  <2>3. LatestAdvice = ai.remediation.action
    BY <1>3, <2>1, <2>2 DEF LatestAdvice, Last
  <2> QED
    BY <1>3, <2>3, PlanPermitted
<1>6. /\ Outcome.record = IF result = "skipped" THEN "none" ELSE result
      /\ Outcome.action = IF result = "skipped" THEN NoAction
                          ELSE IF planned THEN Outcome.advised
                          ELSE "manual_triage"
  <2>1. CASE result = "skipped"
    BY <1>4, <2>1, OutcomeFields
  <2>2. CASE result # "skipped"
    <3>1. executions = <<[action |-> PermittedAction(LatestAdvice),
                          status |-> result]>>
      BY <1>4, <2>2
    <3>2. /\ executions # <<>>
          /\ Last(executions).action = PermittedAction(LatestAdvice)
          /\ Last(executions).status = result
      BY <3>1 DEF Last
    <3> QED
      BY <1>5, <2>2, <3>2, OutcomeFields
  <2> QED
    BY <2>1, <2>2
<1>7. (planned /\ Used.ai_provider = "mock") =>
        /\ Outcome.advised = ActionMap[typed.type]
        /\ ai.remediation.blockers = Blockers(Entry.request, evidence)
  <2> SUFFICES ASSUME planned, Used.ai_provider = "mock"
               PROVE  /\ Outcome.advised = ActionMap[typed.type]
                      /\ ai.remediation.blockers = Blockers(Entry.request, evidence)
    OBVIOUS
  <2>1. Entry.request \in Request
    BY EntryIsValid DEF Underway, ValidEntry
  <2>2. typed.type = NormalizedType(Entry.request)
    BY <2>1 DEF Request
  <2>3. /\ ai.remediation.action = ActionMap[NormalizedType(Entry.request)]
        /\ ai.remediation.blockers = Blockers(Entry.request, evidence)
    <3>1. PICK c \in Classifications(Entry.request, Used) : c = ai.classification
      BY <1>3
    <3>2. PICK p \in Remediations(Entry.request, c, evidence, Used) :
            p = ai.remediation
      BY <1>3, <3>1
    <3>3. p.status = "succeeded"
      BY <3>2
    <3>4. /\ p.action = ActionMap[NormalizedType(Entry.request)]
          /\ p.blockers = Blockers(Entry.request, evidence)
      BY <3>3, HeuristicPlan
    <3> QED
      BY <3>2, <3>4
  <2> QED
    BY <2>2, <2>3, OutcomeFields
<1>8. Outcome.succeeded + Outcome.failed \in 1 .. 3
  <2>1. Count("succeeded") + Count("failed") = Len(evidence)
    BY CountsAddUp DEF ReplayInv, TypeInv, TypeOK
  <2> QED
    BY <1>3, <2>1, CollectedLength, OutcomeFields
<1>9. /\ Outcome.approval = verdict
      /\ Outcome.execution = result
      /\ Outcome.lifecycle = IF result = "failed" THEN "failed" ELSE "completed"
  BY <1>2, <1>4, OutcomeFields
<1> HIDE DEF verdict, result, planned, typed
<1> QED
  BY <1>6, <1>7, <1>8, <1>9 DEF OutcomePredicted, Used, verdict, result, planned,
     typed

(* Every replayed fixture comes out as its risk, its decision, its         *)
(* settings and its request say, for any corpus: the stages, their commits *)
(* and the failures of the services in between make no difference.         *)
THEOREM OutcomesArePredicted == CorpusSpec => []OutcomePredicted
BY OutcomeFollows, ReplayInvariance, AnsweredInvariance, PTL

-----------------------------------------------------------------------------
(* The fixtures of the corpus file: what the services answer to them, and  *)
(* that it is what they expect, in any order and between any others.       *)

(* The settings that a fixture's overrides leave.                          *)
LEMMA UsedSettings ==
    ASSUME Underway,
           NEW f \in {"ai_enabled", "ai_provider", "openai_api_key",
                      "evidence_adapter", "execution_adapter"}
    PROVE  Used[f] = IF f \in DOMAIN Entry.overrides THEN Entry.overrides[f]
                                                     ELSE original[f]
BY DEF Underway, Used, Overriding, Settings

LEMMA StopsAnswered ==
    ASSUME ReplayInv, Answered, Replayed
    PROVE  /\ evidence = Collected(Entry.request, Used, FALSE)
           /\ ai.classification \in Classifications(Entry.request, Used)
           /\ ai.remediation \in
                Remediations(Entry.request, ai.classification, evidence, Used)
<1>1. Awaited.act = "execute_action" /\ Awaited.pc = "returned"
  BY Stages DEF Replayed, ReplayInv, Left, InStep, Activity
<1> QED
  BY <1>1 DEF Answered, EvidenceIn, Classified, Planned

(* The mock provider answers, and keeps the type of a case that has one.   *)
LEMMA MockAnswers ==
    ASSUME NEW request, NEW collected, NEW used,
           used.ai_enabled, used.ai_provider = "mock", request.type # "unknown",
           NEW c \in Classifications(request, used),
           NEW p \in Remediations(request, c, collected, used)
    PROVE  /\ c.status = "succeeded" /\ c.type = request.type
           /\ p.status = "succeeded" /\ p.action = ActionMap[request.type]
<1>1. ProviderAnswers(used) = {"succeeded"}
  BY DEF ProviderAnswers
<1>2. NormalizedType(request) = request.type
  BY DEF NormalizedType
<1>3. c.status = "succeeded" /\ c.type = request.type
  BY <1>1, <1>2 DEF Classifications
<1>4. p.status = "succeeded"
  BY <1>1 DEF Remediations
<1> QED
  BY <1>2, <1>3, <1>4, HeuristicPlan

(* OpenAI without a key cannot be built.                                   *)
LEMMA NobodyAnswers ==
    ASSUME NEW request, NEW collected, NEW used,
           used.ai_provider = "openai", ~used.openai_api_key,
           NEW c \in Classifications(request, used),
           NEW p \in Remediations(request, c, collected, used)
    PROVE  /\ c.status = "failed" /\ c.type = NoType
           /\ p.status = "failed" /\ p.action = NoAction
<1>1. ProviderAnswers(used) = {"failed"}
  BY DEF ProviderAnswers
<1> QED
  BY <1>1 DEF Classifications, Remediations

(* The evidence of a case without flags, and of one whose related lookup   *)
(* fails.                                                                  *)
LEMMA TwoItems ==
    ASSUME NEW a, NEW b, NEW seq, seq = <<a, b>>
    PROVE  /\ Len(seq) = 2 /\ DOMAIN seq = {1, 2}
           /\ seq[1] = a /\ seq[2] = b
OBVIOUS

LEMMA ThreeItems ==
    ASSUME NEW a, NEW b, NEW c, NEW seq, seq = <<a, b>> \o <<c>>
    PROVE  /\ Len(seq) = 3 /\ DOMAIN seq = {1, 2, 3}
           /\ seq[1] = a /\ seq[2] = b /\ seq[3] = c
<1>1. <<a, b>> \in Seq({a, b, c}) /\ <<c>> \in Seq({a, b, c})
  OBVIOUS
<1>2. <<a, b>> \o <<c>> \in Seq({a, b, c}) /\ Len(<<a, b>> \o <<c>>) = 3
  BY <1>1
<1> QED
  BY <1>1, <1>2

LEMMA ItemsCollected ==
    ASSUME NEW request, NEW used, used.evidence_adapter = "mock"
    PROVE  /\ request.flags = {} =>
                Collected(request, used, FALSE) = <<"succeeded", "succeeded">>
           /\ request.flags = {"force_related_lookup_failure"} =>
                Collected(request, used, FALSE)
                  = <<"succeeded", "succeeded">> \o <<"failed">>
<1>1. <<"succeeded", "succeeded">> \in Seq(EvidenceStatus)
      /\ <<"failed">> \in Seq(EvidenceStatus)
  BY DEF EvidenceStatus
<1>2. <<"succeeded", "succeeded">> \o <<"failed">> \in Seq(EvidenceStatus)
  BY <1>1, ConcatProperties
<1>3. ASSUME request.flags = {}
      PROVE  Collected(request, used, FALSE) = <<"succeeded", "succeeded">>
  <2>1. Collected(request, used, FALSE)
          = (<<"succeeded", "succeeded">> \o <<>>) \o <<>>
    BY <1>3 DEF Collected, EvidenceItems
  <2> QED
    BY <1>1, <2>1, ConcatEmptySeq
<1>4. ASSUME request.flags = {"force_related_lookup_failure"}
      PROVE  Collected(request, used, FALSE)
               = <<"succeeded", "succeeded">> \o <<"failed">>
  <2>1. Collected(request, used, FALSE)
          = (<<"succeeded", "succeeded">> \o <<"failed">>) \o <<>>
    BY <1>4 DEF Collected, EvidenceItems
  <2> QED
    BY <1>2, <2>1, ConcatEmptySeq
<1> QED
  BY <1>3, <1>4

LEMMA CountsOfTwo ==
    ASSUME evidence \in Seq(EvidenceStatus), evidence = <<"succeeded", "succeeded">>
    PROVE  Count("succeeded") = 2 /\ Count("failed") = 0
<1>1. /\ Len(evidence) = 2 /\ DOMAIN evidence = {1, 2}
      /\ evidence[1] = "succeeded" /\ evidence[2] = "succeeded"
  BY TwoItems
<1>2. {i \in DOMAIN evidence : evidence[i] = "failed"} = {}
  BY <1>1
<1>3. Count("failed") = 0
  BY <1>2, FS_EmptySet DEF Count
<1>4. /\ Count("succeeded") \in Nat
      /\ Count("succeeded") + Count("failed") = Len(evidence)
  BY CountsAddUp
<1> QED
  BY <1>1, <1>3, <1>4

LEMMA CountsOfThree ==
    ASSUME evidence \in Seq(EvidenceStatus),
           evidence = <<"succeeded", "succeeded">> \o <<"failed">>
    PROVE  Count("succeeded") = 2 /\ Count("failed") = 1
<1>1. /\ Len(evidence) = 3 /\ DOMAIN evidence = {1, 2, 3}
      /\ evidence[1] = "succeeded" /\ evidence[2] = "succeeded"
      /\ evidence[3] = "failed"
  BY ThreeItems
<1>2. {i \in DOMAIN evidence : evidence[i] = "failed"} = {3}
  BY <1>1
<1>3. Count("failed") = 1
  BY <1>2, FS_Singleton DEF Count
<1>4. /\ Count("succeeded") \in Nat
      /\ Count("succeeded") + Count("failed") = Len(evidence)
  BY CountsAddUp
<1> QED
  BY <1>1, <1>3, <1>4

(* What the file says of its fixtures.                                     *)
LEMMA TheV1Cases ==
    /\ DOMAIN V1Cases = 1 .. 5
    /\ V1Cases[1] =
         [request |-> Fixed("provider_failure", "medium", {"payout", "provider"}, {}),
          overrides |-> NoOverrides, decision |-> "approved",
          expected |-> [Smooth("provider_failure", "retry_provider_after_validation")
                          EXCEPT !.approval = "approved"]]
    /\ V1Cases[2] =
         [request |-> Fixed("missing_document", "low", {"payout"}, {}),
          overrides |-> NoOverrides, decision |-> "none",
          expected |-> Smooth("missing_document", "request_missing_document")]
    /\ V1Cases[3] =
         [request |-> Fixed("duplicate_record_risk", "low", {"duplicate"},
                            {"force_related_lookup_failure"}),
          overrides |-> NoOverrides, decision |-> "none",
          expected |-> [Smooth("duplicate_record_risk", "review_duplicate_records")
                          EXCEPT !.failed = 1]]
    /\ V1Cases[4] =
         [request |-> Fixed("provider_failure", "low", {"payout", "provider"}, {}),
          overrides |-> [ai_provider |-> "openai", ai_model |-> "gpt-5.4-mini",
                         openai_api_key |-> FALSE],
          decision |-> "none",
          expected |-> [Smooth(NoType, NoAction)
                          EXCEPT !.action = "manual_triage",
                                 !.classification = "failed",
                                 !.remediation = "failed"]]
    /\ V1Cases[5] =
         [request |-> Fixed("provider_failure", "low", {"provider"}, {}),
          overrides |-> [execution_adapter |-> "other"], decision |-> "none",
          expected |-> [Smooth("provider_failure", "retry_provider_after_validation")
                          EXCEPT !.execution = "failed", !.lifecycle = "failed",
                                 !.record = "failed"]]
BY DEF V1Cases

(* A fixture that the mock services carry through to its end.              *)
LEMMA MockOutcome ==
    ASSUME ReplayInv, Underway, Answered, Replayed,
           Used.ai_enabled, Used.ai_provider = "mock",
           Entry.request.type \in ExceptionType \ {"unknown"},
           Entry.request.risk = "low" \/ Entry.decision = "approved",
           "force_execution_failure" \notin Entry.request.flags,
           NEW done, done = IF Used.execution_adapter = "mock" THEN "succeeded"
                                                               ELSE "failed"
    PROVE  /\ Outcome.approval = IF Entry.request.risk = "low" THEN "not_required"
                                                               ELSE "approved"
           /\ Outcome.execution = done /\ Outcome.record = done
           /\ Outcome.lifecycle = IF done = "failed" THEN "failed" ELSE "completed"
           /\ Outcome.classification = "succeeded"
           /\ Outcome.remediation = "succeeded"
           /\ Outcome.type = Entry.request.type
           /\ Outcome.advised = ActionMap[Entry.request.type]
           /\ Outcome.action = ActionMap[Entry.request.type]
<1>1. /\ ai.classification.status = "succeeded"
      /\ ai.classification.type = Entry.request.type
      /\ ai.remediation.status = "succeeded"
      /\ ai.remediation.action = ActionMap[Entry.request.type]
  <2>1. PICK c \in Classifications(Entry.request, Used) : c = ai.classification
    BY StopsAnswered
  <2>2. PICK p \in Remediations(Entry.request, c, evidence, Used) :
          p = ai.remediation
    BY <2>1, StopsAnswered
  <2>3. /\ c.status = "succeeded" /\ c.type = Entry.request.type
        /\ p.status = "succeeded" /\ p.action = ActionMap[Entry.request.type]
    BY MockAnswers
  <2> QED
    BY <2>1, <2>2, <2>3
<1>2. AdapterAnswer(Entry.request, Used) =
        IF done = "succeeded" THEN "succeeded" ELSE "misconfigured"
  BY DEF AdapterAnswer
<1>3. OutcomePredicted
  BY OutcomeFollows
<1>4. /\ Outcome.approval = IF Entry.request.risk = "low" THEN "not_required"
                                                          ELSE "approved"
      /\ Outcome.execution = done /\ Outcome.record = done
      /\ Outcome.lifecycle = IF done = "failed" THEN "failed" ELSE "completed"
      /\ Outcome.action = Outcome.advised
  BY <1>1, <1>2, <1>3 DEF OutcomePredicted, Used
<1> QED
  BY <1>1, <1>4, OutcomeFields

(* The fixture whose model cannot be built: a person is asked, in effect.  *)
LEMMA ModellessOutcome ==
    ASSUME ReplayInv, Underway, Answered, Replayed,
           Used.ai_provider = "openai", ~Used.openai_api_key,
           Used.execution_adapter = "mock", Entry.request.risk = "low",
           "force_execution_failure" \notin Entry.request.flags
    PROVE  /\ Outcome.approval = "not_required"
           /\ Outcome.execution = "succeeded" /\ Outcome.record = "succeeded"
           /\ Outcome.lifecycle = "completed"
           /\ Outcome.classification = "failed" /\ Outcome.remediation = "failed"
           /\ Outcome.type = NoType /\ Outcome.advised = NoAction
           /\ Outcome.action = "manual_triage"
<1>1. /\ ai.classification.status = "failed" /\ ai.classification.type = NoType
      /\ ai.remediation.status = "failed" /\ ai.remediation.action = NoAction
  <2>1. PICK c \in Classifications(Entry.request, Used) : c = ai.classification
    BY StopsAnswered
  <2>2. PICK p \in Remediations(Entry.request, c, evidence, Used) :
          p = ai.remediation
    BY <2>1, StopsAnswered
  <2>3. /\ c.status = "failed" /\ c.type = NoType
        /\ p.status = "failed" /\ p.action = NoAction
    BY NobodyAnswers
  <2> QED
    BY <2>1, <2>2, <2>3
<1>2. AdapterAnswer(Entry.request, Used) = "succeeded"
  BY DEF AdapterAnswer
<1>3. OutcomePredicted
  BY OutcomeFollows
<1>4. /\ Outcome.approval = "not_required"
      /\ Outcome.execution = "succeeded" /\ Outcome.record = "succeeded"
      /\ Outcome.lifecycle = "completed"
      /\ Outcome.action = "manual_triage"
  BY <1>1, <1>2, <1>3 DEF OutcomePredicted, Used
<1> QED
  BY <1>1, <1>4, OutcomeFields

(* The evidence counts of a fixture of the corpus.                         *)
LEMMA OutcomeCounts ==
    ASSUME ReplayInv, Underway, Answered, Replayed, Used.evidence_adapter = "mock"
    PROVE  /\ Entry.request.flags = {} =>
                Outcome.succeeded = 2 /\ Outcome.failed = 0
           /\ Entry.request.flags = {"force_related_lookup_failure"} =>
                Outcome.succeeded = 2 /\ Outcome.failed = 1
<1>1. evidence \in Seq(EvidenceStatus)
  BY DEF ReplayInv, TypeInv, TypeOK
<1>2. ASSUME Entry.request.flags = {}
      PROVE  Outcome.succeeded = 2 /\ Outcome.failed = 0
  <2>1. evidence = <<"succeeded", "succeeded">>
    BY <1>2, StopsAnswered, ItemsCollected
  <2> QED
    BY <1>1, <2>1, CountsOfTwo, OutcomeFields
<1>3. ASSUME Entry.request.flags = {"force_related_lookup_failure"}
      PROVE  Outcome.succeeded = 2 /\ Outcome.failed = 1
  <2>1. evidence = <<"succeeded", "succeeded">> \o <<"failed">>
    BY <1>3, StopsAnswered, ItemsCollected
  <2> QED
    BY <1>1, <2>1, CountsOfThree, OutcomeFields
<1> QED
  BY <1>2, <1>3

(* What a fixture of the corpus file expects is what comes out.            *)
LEMMA V1CaseMeets ==
    ASSUME ReplayInv, Underway, Answered, Replayed, MockServices(original),
           NEW k \in 1 .. 5, Entry = V1Cases[k]
    PROVE  Mismatches(Entry.expected) = {}
<1> DEFINE fields == {"approval", "execution", "lifecycle", "classification",
                      "remediation", "type", "advised", "action", "record",
                      "succeeded", "failed"}
<1>1. CASE k = 1
  <2>1. /\ Entry.request = Fixed("provider_failure", "medium",
                                 {"payout", "provider"}, {})
        /\ Entry.overrides = NoOverrides /\ Entry.decision = "approved"
        /\ Entry.expected = [Smooth("provider_failure",
                                    "retry_provider_after_validation")
                               EXCEPT !.approval = "approved"]
    BY <1>1, TheV1Cases
  <2>2. /\ Used.ai_enabled /\ Used.ai_provider = "mock"
        /\ Used.evidence_adapter = "mock" /\ Used.execution_adapter = "mock"
    BY <2>1, UsedSettings DEF NoOverrides, MockServices
  <2>3. /\ Entry.request.type = "provider_failure" /\ Entry.request.risk = "medium"
        /\ Entry.request.flags = {}
    BY <2>1 DEF Fixed
  <2>4. /\ Outcome.approval = "approved"
        /\ Outcome.execution = "succeeded" /\ Outcome.record = "succeeded"
        /\ Outcome.lifecycle = "completed"
        /\ Outcome.classification = "succeeded" /\ Outcome.remediation = "succeeded"
        /\ Outcome.type = "provider_failure"
        /\ Outcome.advised = "retry_provider_after_validation"
        /\ Outcome.action = "retry_provider_after_validation"
    BY <2>1, <2>2, <2>3, MockOutcome DEF ActionMap, ExceptionType
  <2>5. Outcome.succeeded = 2 /\ Outcome.failed = 0
    BY <2>2, <2>3, OutcomeCounts
  <2>6. DOMAIN Entry.expected = fields
    BY <2>1 DEF Smooth
  <2>7. \A f \in fields : Outcome[f] = Entry.expected[f]
    BY <2>1, <2>4, <2>5 DEF Smooth
  <2> QED
    BY <2>6, <2>7 DEF Mismatches
<1>2. CASE k = 2
  <2>1. /\ Entry.request = Fixed("missing_document", "low", {"payout"}, {})
        /\ Entry.overrides = NoOverrides
        /\ Entry.decision = "none"
        /\ Entry.expected = Smooth("missing_document", "request_missing_document")
    BY <1>2, TheV1Cases
  <2>2. /\ Used.ai_enabled /\ Used.ai_provider = "mock"
        /\ Used.evidence_adapter = "mock" /\ Used.execution_adapter = "mock"
    BY <2>1, UsedSettings DEF NoOverrides, MockServices
  <2>3. /\ Entry.request.type = "missing_document" /\ Entry.request.risk = "low"
        /\ Entry.request.flags = {}
    BY <2>1 DEF Fixed
  <2>4. /\ Outcome.approval = "not_required"
        /\ Outcome.execution = "succeeded" /\ Outcome.record = "succeeded"
        /\ Outcome.lifecycle = "completed"
        /\ Outcome.classification = "succeeded" /\ Outcome.remediation = "succeeded"
        /\ Outcome.type = "missing_document"
        /\ Outcome.advised = "request_missing_document"
        /\ Outcome.action = "request_missing_document"
    BY <2>1, <2>2, <2>3, MockOutcome DEF ActionMap, ExceptionType
  <2>5. Outcome.succeeded = 2 /\ Outcome.failed = 0
    BY <2>2, <2>3, OutcomeCounts
  <2>6. DOMAIN Entry.expected = fields
    BY <2>1 DEF Smooth
  <2>7. \A f \in fields : Outcome[f] = Entry.expected[f]
    BY <2>1, <2>4, <2>5 DEF Smooth
  <2> QED
    BY <2>6, <2>7 DEF Mismatches
<1>3. CASE k = 3
  <2>1. /\ Entry.request = Fixed("duplicate_record_risk", "low", {"duplicate"},
                                 {"force_related_lookup_failure"})
        /\ Entry.overrides = NoOverrides
        /\ Entry.decision = "none"
        /\ Entry.expected = [Smooth("duplicate_record_risk",
                                    "review_duplicate_records")
                               EXCEPT !.failed = 1]
    BY <1>3, TheV1Cases
  <2>2. /\ Used.ai_enabled /\ Used.ai_provider = "mock"
        /\ Used.evidence_adapter = "mock" /\ Used.execution_adapter = "mock"
    BY <2>1, UsedSettings DEF NoOverrides, MockServices
  <2>3. /\ Entry.request.type = "duplicate_record_risk" /\ Entry.request.risk = "low"
        /\ Entry.request.flags = {"force_related_lookup_failure"}
    BY <2>1 DEF Fixed
  <2>4. /\ Outcome.approval = "not_required"
        /\ Outcome.execution = "succeeded" /\ Outcome.record = "succeeded"
        /\ Outcome.lifecycle = "completed"
        /\ Outcome.classification = "succeeded" /\ Outcome.remediation = "succeeded"
        /\ Outcome.type = "duplicate_record_risk"
        /\ Outcome.advised = "review_duplicate_records"
        /\ Outcome.action = "review_duplicate_records"
    BY <2>1, <2>2, <2>3, MockOutcome DEF ActionMap, ExceptionType
  <2>5. Outcome.succeeded = 2 /\ Outcome.failed = 1
    BY <2>2, <2>3, OutcomeCounts
  <2>6. DOMAIN Entry.expected = fields
    BY <2>1 DEF Smooth
  <2>7. \A f \in fields : Outcome[f] = Entry.expected[f]
    BY <2>1, <2>4, <2>5 DEF Smooth
  <2> QED
    BY <2>6, <2>7 DEF Mismatches
<1>4. CASE k = 4
  <2>1. /\ Entry.request = Fixed("provider_failure", "low",
                                 {"payout", "provider"}, {})
        /\ Entry.overrides = [ai_provider |-> "openai", ai_model |-> "gpt-5.4-mini",
                              openai_api_key |-> FALSE]
        /\ Entry.decision = "none"
        /\ Entry.expected = [Smooth(NoType, NoAction)
                               EXCEPT !.action = "manual_triage",
                                      !.classification = "failed",
                                      !.remediation = "failed"]
    BY <1>4, TheV1Cases
  <2>2. /\ Used.ai_provider = "openai" /\ ~Used.openai_api_key
        /\ Used.evidence_adapter = "mock" /\ Used.execution_adapter = "mock"
    <3>1. /\ Used.ai_provider = "openai"
          /\ Used.evidence_adapter = "mock" /\ Used.execution_adapter = "mock"
      BY <2>1, UsedSettings DEF MockServices
    <3>2. Used["openai_api_key"] = Entry.overrides["openai_api_key"]
      BY <2>1, UsedSettings
    <3>3. Entry.overrides["openai_api_key"] = FALSE
      BY <2>1
    <3> QED
      BY <3>1, <3>2, <3>3
  <2>3. /\ Entry.request.type = "provider_failure" /\ Entry.request.risk = "low"
        /\ Entry.request.flags = {}
    BY <2>1 DEF Fixed
  <2>4. /\ Outcome.approval = "not_required"
        /\ Outcome.execution = "succeeded" /\ Outcome.record = "succeeded"
        /\ Outcome.lifecycle = "completed"
        /\ Outcome.classification = "failed" /\ Outcome.remediation = "failed"
        /\ Outcome.type = NoType
        /\ Outcome.advised = NoAction
        /\ Outcome.action = "manual_triage"
    BY <2>1, <2>2, <2>3, ModellessOutcome
  <2>5. Outcome.succeeded = 2 /\ Outcome.failed = 0
    BY <2>2, <2>3, OutcomeCounts
  <2>6. DOMAIN Entry.expected = fields
    BY <2>1 DEF Smooth
  <2>7. /\ Entry.expected.approval = "not_required"
        /\ Entry.expected.execution = "succeeded"
        /\ Entry.expected.lifecycle = "completed"
        /\ Entry.expected.classification = "failed"
        /\ Entry.expected.remediation = "failed"
        /\ Entry.expected.type = NoType
        /\ Entry.expected.advised = NoAction
        /\ Entry.expected.action = "manual_triage"
        /\ Entry.expected.record = "succeeded"
        /\ Entry.expected.succeeded = 2
        /\ Entry.expected.failed = 0
    BY <2>1 DEF Smooth
  <2>8. \A f \in fields : Outcome[f] = Entry.expected[f]
    BY <2>4, <2>5, <2>7
  <2> QED
    BY <2>6, <2>8 DEF Mismatches
<1>5. CASE k = 5
  <2>1. /\ Entry.request = Fixed("provider_failure", "low", {"provider"}, {})
        /\ Entry.overrides = [execution_adapter |-> "other"]
        /\ Entry.decision = "none"
        /\ Entry.expected = [Smooth("provider_failure",
                                    "retry_provider_after_validation")
                               EXCEPT !.execution = "failed", !.lifecycle = "failed",
                                      !.record = "failed"]
    BY <1>5, TheV1Cases
  <2>2. /\ Used.ai_enabled /\ Used.ai_provider = "mock"
        /\ Used.evidence_adapter = "mock" /\ Used.execution_adapter = "other"
    BY <2>1, UsedSettings DEF MockServices
  <2>3. /\ Entry.request.type = "provider_failure" /\ Entry.request.risk = "low"
        /\ Entry.request.flags = {}
    BY <2>1 DEF Fixed
  <2>4. /\ Outcome.approval = "not_required"
        /\ Outcome.execution = "failed" /\ Outcome.record = "failed"
        /\ Outcome.lifecycle = "failed"
        /\ Outcome.classification = "succeeded" /\ Outcome.remediation = "succeeded"
        /\ Outcome.type = "provider_failure"
        /\ Outcome.advised = "retry_provider_after_validation"
        /\ Outcome.action = "retry_provider_after_validation"
    BY <2>1, <2>2, <2>3, MockOutcome DEF ActionMap, ExceptionType
  <2>5. Outcome.succeeded = 2 /\ Outcome.failed = 0
    BY <2>2, <2>3, OutcomeCounts
  <2>6. DOMAIN Entry.expected = fields
    BY <2>1 DEF Smooth
  <2>7. /\ Entry.expected.approval = "not_required"
        /\ Entry.expected.execution = "failed"
        /\ Entry.expected.lifecycle = "failed"
        /\ Entry.expected.classification = "succeeded"
        /\ Entry.expected.remediation = "succeeded"
        /\ Entry.expected.type = "provider_failure"
        /\ Entry.expected.advised = "retry_provider_after_validation"
        /\ Entry.expected.action = "retry_provider_after_validation"
        /\ Entry.expected.record = "failed"
        /\ Entry.expected.succeeded = 2
        /\ Entry.expected.failed = 0
    BY <2>1 DEF Smooth
  <2>8. \A f \in fields : Outcome[f] = Entry.expected[f]
    BY <2>4, <2>5, <2>7
  <2> QED
    BY <2>6, <2>8 DEF Mismatches
<1> QED
  BY <1>1, <1>2, <1>3, <1>4, <1>5

-----------------------------------------------------------------------------
(* Between two fixtures the settings are the process's own, so that what   *)
(* the fixtures still to come expect is expected under the same settings.  *)

LEMMA ExpectingStep ==
    ReplayInv /\ Underway /\ Expecting(corpus, original)
      /\ [CorpusNext]_replayOfCorpus => Expecting(corpus, original)'
<1> SUFFICES ASSUME ReplayInv, Underway, Expecting(corpus, original),
                    [CorpusNext]_replayOfCorpus
             PROVE  Expecting(corpus', original')
  OBVIOUS
<1>1. CASE NextFixture
  <2>1. /\ corpus \in Seq(Entries) /\ Len(corpus) > 1
        /\ corpus' = Tail(corpus)
        /\ original' = settings /\ settings = original
    BY <1>1 DEF NextFixture, Underway
  <2>2. \A i \in DOMAIN corpus' : i + 1 \in DOMAIN corpus /\ corpus'[i] = corpus[i + 1]
    BY <2>1
  <2> QED
    BY <2>1, <2>2 DEF Expecting
<1>2. CASE UNCHANGED <<corpus, original>>
  BY <1>2 DEF Expecting
<1> QED
  BY <1>1, <1>2, CorpusSteps DEF Drives, replayOfCorpus, corpusVars

LEMMA ExpectedMet ==
    ASSUME ReplayInv, Underway, Answered, Expecting(corpus, original)
    PROVE  CorpusMeetsExpectations
<1> SUFFICES ASSUME Replayed PROVE Mismatches(Entry.expected) = {}
  BY DEF CorpusMeetsExpectations
<1>1. 1 \in DOMAIN corpus /\ Entry = corpus[1]
  <2>1. corpus \in Seq(Entries) /\ corpus # <<>>
    BY DEF Underway
  <2>2. Len(corpus) # 0
    BY <2>1, EmptySeq
  <2> QED
    BY <2>1, <2>2 DEF Entry
<1>2. CASE DOMAIN Entry.expected = {}
  BY <1>2 DEF Mismatches
<1>3. CASE Entry \in Range(V1Cases) /\ MockServices(original)
  <2>1. PICK k \in 1 .. 5 : Entry = V1Cases[k]
    BY <1>3, TheV1Cases DEF Range
  <2> QED
    BY <1>3, <2>1, V1CaseMeets
<1> QED
  BY <1>1, <1>2, <1>3 DEF Expecting

(* The fixtures of fixtures/v1_cases.json come out as they expect with the *)
(* mock services, whichever are selected, in whatever order, stopped after *)
(* whatever stage, and whatever other fixtures are replayed in between.    *)
THEOREM CorpusKeepsItsExpectations ==
    OnlyV1CasesExpect => (CorpusSpec => []CorpusMeetsExpectations)
<1>1. OnlyV1CasesExpect /\ CorpusInit => Expecting(corpus, original)
  BY DEF OnlyV1CasesExpect, CorpusInit
<1>2. ReplayInv /\ Underway /\ Answered /\ Expecting(corpus, original)
        => CorpusMeetsExpectations
  BY ExpectedMet
<1> QED
  BY <1>1, <1>2, ExpectingStep, ReplayInvariance, AnsweredInvariance, PTL
     DEF CorpusSpec, replayOfCorpus
=============================================================================
