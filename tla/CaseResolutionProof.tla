------------------------ MODULE CaseResolutionProof -------------------------
(***************************************************************************)
(* Proofs about CaseResolution, for every value of its constants: any      *)
(* number of open requests and of lost attempts, late writers or not.      *)
(* First type correctness; then nothing is executed without permission,    *)
(* and nothing is executed twice or unrecorded: the two invariants behind  *)
(* the implementation of GatedExecution, and the implementation itself.    *)
(***************************************************************************)
EXTENDS CaseResolution, SequenceTheorems, TLAPS

Domains ==
    /\ MaxFaults \in Nat
    /\ EvidenceResults \subseteq Seq(EvidenceStatus)
    /\ AdvisedActions \subseteq ExecutionAction

LEMMA DomainsHold == Domains
BY MaxFaultsAssumption, EvidenceAssumption, AdviceAssumption DEF Domains

-----------------------------------------------------------------------------
(* Type correctness. TypeOK alone is not inductive: an execution record    *)
(* takes its action and its outcome from the attempt that writes it, so    *)
(* such an attempt has to have chosen an action and to know the outcome,   *)
(* and a decision found admissible is a decision.                          *)

ActionChosen ==
    \A s \in Slots : attempts[s].pc \in {"create", "mark", "call"}
                        => attempts[s].action \in ExecutionAction
OutcomeKnown ==
    \A s \in Slots : attempts[s].pc \in {"record", "close"}
                        => attempts[s].outcome \in {"failed", "succeeded"}
CheckedMeans == checked # NothingChecked => checked.decision # "none"
TypeInv == TypeOK /\ ActionChosen /\ OutcomeKnown /\ CheckedMeans

LEMMA NothingLoadedType == NothingLoaded \in DecisionColumns
BY DEF NothingLoaded, DecisionColumns, ApprovalState, ExceptionStatus

LEMMA StartedType ==
    ASSUME NEW act \in Activity, NEW ref \in Nat
    PROVE  /\ Started(act, ref) \in Attempt
           /\ Started(act, ref).act = act
           /\ Started(act, ref).pc = "ready"
<1>1. NothingLoaded \in DecisionColumns
  BY NothingLoadedType
<1> QED
  BY <1>1 DEF Started, Attempt, Pc, Advice, NoAction

LEMMA IdleType ==
    Idle \in Attempt /\ Idle.act = "none" /\ Idle.pc = "idle"
<1>1. /\ Started("none", 0) \in Attempt
      /\ Started("none", 0).act = "none"
  BY NothingLoadedType DEF Started, Attempt, Pc, Advice, NoAction
<1> QED
  BY <1>1 DEF Idle, Attempt, Pc

LEMMA CurrentIsSlot == TypeOK => Current \in Slots
BY DomainsHold DEF TypeOK, Current, Slots, Domains

(* A step that replaces one slot by a well-typed attempt keeps the types.  *)
LEMMA SlotReplaced ==
    ASSUME TypeInv, NEW s \in Slots, NEW a \in Attempt,
           a.pc \in {"create", "mark", "call"} => a.action \in ExecutionAction,
           a.pc \in {"record", "close"} => a.outcome \in {"failed", "succeeded"},
           attempts' = [attempts EXCEPT ![s] = a]
    PROVE  attempts' \in [Slots -> Attempt] /\ ActionChosen' /\ OutcomeKnown'
BY DEF TypeInv, TypeOK, ActionChosen, OutcomeKnown

(* Moving a program counter to a place that needs nothing, or keeping it   *)
(* among places that need the same.                                        *)
LEMMA Moved ==
    ASSUME TypeInv, NEW s \in Slots, NEW pc \in Pc, Goto(s, pc),
           pc \in {"create", "mark", "call"}
              => attempts[s].pc \in {"create", "mark", "call"},
           pc \in {"record", "close"} => attempts[s].pc \in {"record", "close"}
    PROVE  attempts' \in [Slots -> Attempt] /\ ActionChosen' /\ OutcomeKnown'
BY DEF TypeInv, TypeOK, ActionChosen, OutcomeKnown, Goto, Attempt

LEMMA CaseMarkedType ==
    ASSUME TypeOK, NEW e \in ExecutionState, NEW l \in WorkflowLifecycleState,
           NEW st \in ExceptionStatus
    PROVE  CaseMarked(e, l, st) \in CaseRow
BY DEF TypeOK, CaseRow, CaseMarked

LEMMA PolicyTypes ==
    /\ \A x : PermittedAction(x) \in ExecutionAction
    /\ \A x : ExecutionDecision(x) \in {"skip", "execute", "block"}
    /\ \A x : TargetState(x) \in {"approved", "rejected"}
BY DEF PermittedAction, ExecutionDecision, TargetState, ExecutionAction

LEMMA NothingCheckedType == NothingChecked \in Checked
BY NothingLoadedType DEF NothingChecked, Checked

(* What a session loads and what the commit of a decision leaves.          *)
LEMMA LoadedType == TypeOK => Loaded \in DecisionColumns
BY DEF TypeOK, CaseRow, Loaded, DecisionColumns

LEMMA DecisionCommittedType ==
    ASSUME TypeOK, NEW loaded, NEW target \in ApprovalState
    PROVE  /\ DecisionCommitted(loaded, target) \in CaseRow
           /\ DecisionCommitted(loaded, target).risk = row.risk
           /\ DecisionCommitted(loaded, target).approval \in {row.approval, target}
BY DEF TypeOK, CaseRow, DecisionCommitted, ExceptionStatus

LEMMA TypeInit == Init => TypeInv
<1> SUFFICES ASSUME Init PROVE TypeInv
  OBVIOUS
<1>1. attempts \in [Slots -> Attempt] /\ ActionChosen /\ OutcomeKnown
  BY IdleType DEF Init, NewCase, ActionChosen, OutcomeKnown
<1>2. row \in CaseRow
  BY DEF Init, NewCase, CaseRow, ExceptionStatus, WorkflowLifecycleState,
         ApprovalState, ExecutionState
<1> QED
  BY <1>1, <1>2, DomainsHold, NothingCheckedType DEF Init, NewCase, TypeInv, TypeOK,
     Domains, Step, Activity, CheckedMeans

LEMMA TypeStep == TypeInv /\ [Next]_vars => TypeInv'
<1> SUFFICES ASSUME TypeInv, [Next]_vars PROVE TypeInv'
  OBVIOUS
<1> USE DomainsHold, CurrentIsSlot, PolicyTypes, IdleType DEF CheckedMeans
<1>0. TypeOK /\ Current \in Slots
  BY DEF TypeInv
<1>1. CASE UNCHANGED vars
  BY <1>1 DEF vars, tables, reviewed, api, TypeInv, TypeOK, ActionChosen,
              OutcomeKnown
<1>2. CASE ApiStep
  <2>1. CASE StartWorkflow
    <3>1. "collect_evidence" \in Activity
      BY DEF Activity
    <3>2. /\ attempts' \in [Slots -> Attempt]
          /\ ActionChosen'
          /\ OutcomeKnown'
      BY <2>1, <1>0, <3>1, StartedType, SlotReplaced DEF StartWorkflow
    <3> QED
      BY <2>1, <1>0, <3>2 DEF StartWorkflow, TypeInv, TypeOK, tables, reviewed
  <2>2. CASE StartRefused \/ IngestDies
    BY <2>2 DEF StartRefused, IngestDies, tables, reviewed, TypeInv, TypeOK,
                ActionChosen, OutcomeKnown
  <2>3. CASE LinkWorkflow
    <3>1. row' \in CaseRow
      BY <2>3, <1>0 DEF LinkWorkflow, TypeOK, CaseRow, WorkflowLifecycleState
    <3> QED
      BY <2>3, <3>1 DEF LinkWorkflow, reviewed, TypeInv, TypeOK, ActionChosen,
                        OutcomeKnown
  <2>4. ASSUME NEW o \in Operators, RecordDecision(o)
        PROVE  TypeInv'
    <3>1. checked.decision \in ApprovalDecisionType /\ checked' = NothingChecked
      <4>1. checked \in Checked /\ checked.decision # "none"
        BY <2>4, <1>0 DEF RecordDecision, TypeOK, TypeInv
      <4> QED
        BY <2>4, <4>1 DEF RecordDecision, Checked
    <3>2. row' \in CaseRow
      BY <2>4, <1>0, DecisionCommittedType DEF RecordDecision, ApprovalState
    <3>3. decisions' \in Seq(ApprovalDecisionType) /\ Len(decisions') \in Nat
      BY <2>4, <1>0, <3>1 DEF RecordDecision, TypeOK
    <3>4. req' \in [Operators -> Nat]
      BY <2>4, <1>0, <3>3 DEF RecordDecision, TypeOK
    <3>5. checked' \in Checked /\ CheckedMeans'
      BY <3>1, NothingCheckedType DEF CheckedMeans
    <3> QED
      BY <2>4, <3>2, <3>3, <3>4, <3>5 DEF RecordDecision, reviewed, TypeInv,
                                    TypeOK, ActionChosen, OutcomeKnown
  <2>5. ASSUME NEW o \in Operators, NEW d \in ApprovalDecisionType,
               RetryDecision(o, d)
        PROVE  TypeInv'
    <3>1. req' \in [Operators -> Nat]
      BY <2>5, <1>0 DEF RetryDecision, TypeOK
    <3> QED
      BY <2>5, <3>1 DEF RetryDecision, tables, reviewed, TypeInv, TypeOK,
                        ActionChosen, OutcomeKnown
  <2>6. ASSUME NEW o \in Operators, SignalDelivered(o) \/ SignalFails(o)
        PROVE  TypeInv'
    <3>1. req[o] \in Nat
      BY <1>0 DEF TypeOK
    <3> QED
      <4>1. /\ wf' = wf \/ wf' = [wf EXCEPT !.signal = req[o]]
            /\ req' = [req EXCEPT ![o] = 0]
            /\ UNCHANGED <<tables, effects, ingest, checked, attempts, faults>>
        BY <2>6 DEF SignalDelivered, SignalFails
      <4>2. wf' \in [status: {"absent", "running", "completed", "failed"},
                     step: Step, signal: Nat]
        BY <4>1, <3>1, <1>0 DEF TypeOK
      <4>3. req' \in [Operators -> Nat]
        BY <4>1, <1>0 DEF TypeOK
      <4> QED
        BY <4>1, <4>2, <4>3, <1>0 DEF tables, reviewed, TypeInv, TypeOK,
                                      ActionChosen, OutcomeKnown
  <2>7. ASSUME NEW d \in ApprovalDecisionType, CheckDecision(d)
        PROVE  TypeInv'
    <3>1. checked' \in Checked /\ checked'.decision # "none"
      BY <2>7, <1>0, LoadedType DEF CheckDecision, Checked, ApprovalDecisionType
    <3> QED
      BY <2>7, <3>1 DEF CheckDecision, CheckedMeans, tables, reviewed, TypeInv,
                        TypeOK, ActionChosen, OutcomeKnown
  <2> QED
    BY <1>2, <2>1, <2>2, <2>3, <2>4, <2>5, <2>6, <2>7 DEF ApiStep
<1>3. ASSUME NEW s \in Slots, AttemptStep(s)
      PROVE  TypeInv'
  <2>0. attempts[s] \in Attempt
    BY <1>0 DEF TypeOK
  <2>1. CASE CollectEvidence(s)
    <3>1. PICK items \in EvidenceResults \cup {<<"failed">>} :
            attempts' = [attempts EXCEPT
                           ![s].items = items,
                           ![s].pc = IF items = <<>> THEN "returned" ELSE "store"]
      BY <2>1 DEF CollectEvidence
    <3>2. items \in Seq(EvidenceStatus)
      <4>1. <<"failed">> \in Seq(EvidenceStatus)
        BY DEF EvidenceStatus
      <4> QED
        BY <4>1 DEF Domains
    <3>3. attempts' \in [Slots -> Attempt] /\ ActionChosen' /\ OutcomeKnown'
      <4> DEFINE a == [attempts[s] EXCEPT
                         !.items = items,
                         !.pc = IF items = <<>> THEN "returned" ELSE "store"]
      <4>1. attempts' = [attempts EXCEPT ![s] = a]
        BY <3>1, <1>0 DEF TypeOK
      <4>2. a \in Attempt /\ a.pc \in {"returned", "store"}
        BY <2>0, <3>2 DEF Attempt, Pc
      <4> HIDE DEF a
      <4> QED
        BY <4>1, <4>2, SlotReplaced
    <3> QED
      BY <2>1, <3>3, <1>0 DEF CollectEvidence, tables, reviewed, api, TypeInv, TypeOK
  <2>2. CASE StoreEvidenceItem(s)
    <3> DEFINE items == attempts[s].items
               a == [attempts[s] EXCEPT
                       !.items = Tail(items),
                       !.pc = IF Len(items) = 1 THEN "returned" ELSE "store"]
    <3>1. items \in Seq(EvidenceStatus) /\ items # <<>>
      BY <2>2, <2>0 DEF StoreEvidenceItem, Attempt
    <3>2. Head(items) \in EvidenceStatus /\ Tail(items) \in Seq(EvidenceStatus)
      BY <3>1
    <3>3. evidence' \in Seq(EvidenceStatus)
      BY <2>2, <1>0, <3>2 DEF StoreEvidenceItem, TypeOK
    <3>4. attempts' = [attempts EXCEPT ![s] = a]
      BY <2>2, <1>0 DEF StoreEvidenceItem, TypeOK
    <3>5. a \in Attempt /\ a.pc \in {"returned", "store"}
      BY <2>0, <3>2 DEF Attempt, Pc
    <3>6. attempts' \in [Slots -> Attempt] /\ ActionChosen' /\ OutcomeKnown'
      <4> HIDE DEF a
      <4> QED
        BY <3>4, <3>5, SlotReplaced
    <3> QED
      BY <2>2, <3>3, <3>6, <1>0 DEF StoreEvidenceItem, api, TypeInv, TypeOK
  <2>3. CASE ClassifyException(s)
    <3>1. attempts' \in [Slots -> Attempt] /\ ActionChosen' /\ OutcomeKnown'
      BY <2>3, Moved DEF ClassifyException, Pc
    <3> QED
      BY <2>3, <3>1, <1>0 DEF ClassifyException, api, TypeInv, TypeOK
  <2>4. CASE GenerateRemediationPlan(s)
    <3>1. attempts' \in [Slots -> Attempt] /\ ActionChosen' /\ OutcomeKnown'
      BY <2>4, Moved DEF GenerateRemediationPlan, Pc
    <3>2. plans' \in Seq(Advice)
      BY <2>4, <1>0 DEF GenerateRemediationPlan, TypeOK, Domains, Advice
    <3> QED
      BY <2>4, <3>1, <3>2, <1>0 DEF GenerateRemediationPlan, api, TypeInv, TypeOK
  <2>5. CASE EvaluateApprovalGate(s)
    <3>1. attempts' \in [Slots -> Attempt] /\ ActionChosen' /\ OutcomeKnown'
      BY <2>5, Moved DEF EvaluateApprovalGate, Pc
    <3>2. row' \in CaseRow
      BY <2>5, <1>0 DEF EvaluateApprovalGate, TypeOK, CaseRow, ApprovalState,
                        ExecutionState, ExceptionStatus, WorkflowLifecycleState
    <3> QED
      BY <2>5, <3>1, <3>2, <1>0 DEF EvaluateApprovalGate, reviewed, api, TypeInv,
                                    TypeOK
  <2>6. CASE FinalizeApprovalDecision(s)
    <3> DEFINE a == [attempts[s] EXCEPT !.pc = "apply", !.loaded = Loaded]
    <3>1. attempts' = [attempts EXCEPT ![s] = a]
      BY <2>6, <1>0 DEF FinalizeApprovalDecision, TypeOK
    <3>2. a \in Attempt /\ a.pc = "apply"
      BY <2>0, <1>0, LoadedType DEF Attempt, Pc
    <3>3. attempts' \in [Slots -> Attempt] /\ ActionChosen' /\ OutcomeKnown'
      <4> HIDE DEF a
      <4> QED
        BY <3>1, <3>2, SlotReplaced
    <3> QED
      BY <2>6, <3>3, <1>0 DEF FinalizeApprovalDecision, tables, reviewed, api,
                              TypeInv, TypeOK
  <2>7. CASE FinalizeRaises(s)
    <3>1. attempts' \in [Slots -> Attempt] /\ ActionChosen' /\ OutcomeKnown'
      BY <2>7, Moved DEF FinalizeRaises, Pc
    <3> QED
      BY <2>7, <3>1, <1>0 DEF FinalizeRaises, tables, reviewed, api, TypeInv, TypeOK
  <2>8. CASE ReadCase(s)
    <3>1. CASE Goto(s, "returned")
      BY <2>8, <3>1, <1>0, Moved DEF ReadCase, tables, reviewed, api, TypeInv,
                                     TypeOK, Pc
    <3>2. CASE ~Goto(s, "returned")
      <4> DEFINE d == ExecutionDecision(row.approval)
                 a == [attempts[s] EXCEPT
                         !.pc = IF d = "execute" THEN "create" ELSE d,
                         !.action = PermittedAction(LatestAdvice)]
      <4>1. attempts' = [attempts EXCEPT ![s] = a]
        BY <2>8, <3>2, <1>0 DEF ReadCase, TypeOK
      <4>2. d \in {"skip", "execute", "block"}
        OBVIOUS
      <4>3. /\ a \in Attempt
            /\ a.pc \in {"create", "skip", "block"}
            /\ a.action \in ExecutionAction
        <5> HIDE DEF d
        <5> QED
          BY <4>2, <2>0 DEF Attempt, Pc, ExecutePc, Advice
      <4>4. attempts' \in [Slots -> Attempt] /\ ActionChosen' /\ OutcomeKnown'
        <5> HIDE DEF a
        <5> QED
          BY <4>1, <4>3, SlotReplaced
      <4> QED
        BY <2>8, <4>4, <1>0 DEF ReadCase, tables, reviewed, api, TypeInv, TypeOK
    <3> QED
      BY <3>1, <3>2
  <2>9. CASE SkipExecution(s) \/ BlockExecution(s)
    <3>1. attempts' \in [Slots -> Attempt] /\ ActionChosen' /\ OutcomeKnown'
      BY <2>9, Moved DEF SkipExecution, BlockExecution, Pc
    <3>2. row' \in CaseRow
      BY <2>9, <1>0, CaseMarkedType DEF SkipExecution, BlockExecution,
         ExecutionState, WorkflowLifecycleState, ExceptionStatus
    <3> QED
      BY <2>9, <3>1, <3>2, <1>0 DEF SkipExecution, BlockExecution, reviewed, api,
                                    TypeInv, TypeOK
  <2>10. CASE CreateExecutionRecord(s)
    <3> DEFINE a == [attempts[s] EXCEPT !.pc = "mark", !.ref = Len(executions')]
    <3>1. attempts[s].action \in ExecutionAction
      BY <2>10 DEF CreateExecutionRecord, At, TypeInv, ActionChosen
    <3>2. executions' \in Seq(ExecutionRecord)
      BY <2>10, <1>0, <3>1 DEF CreateExecutionRecord, TypeOK, ExecutionRecord,
                               ExecutionRecordStatus
    <3>3. Len(executions') \in Nat
      BY <3>2
    <3>4. attempts' = [attempts EXCEPT ![s] = a]
      BY <2>10, <1>0 DEF CreateExecutionRecord, TypeOK
    <3>5. a \in Attempt /\ a.pc = "mark" /\ a.action \in ExecutionAction
      BY <2>0, <3>1, <3>3 DEF Attempt, Pc, ExecutePc
    <3>6. attempts' \in [Slots -> Attempt] /\ ActionChosen' /\ OutcomeKnown'
      <4> HIDE DEF a
      <4> QED
        BY <3>4, <3>5, SlotReplaced
    <3> QED
      BY <2>10, <3>2, <3>6, <1>0 DEF CreateExecutionRecord, reviewed, api,
                                     TypeInv, TypeOK
  <2>11. CASE MarkStarted(s)
    <3>1. attempts' \in [Slots -> Attempt] /\ ActionChosen' /\ OutcomeKnown'
      BY <2>11, Moved DEF MarkStarted, At, Pc, ExecutePc
    <3>2. row' \in CaseRow
      BY <2>11, <1>0, CaseMarkedType DEF MarkStarted, ExecutionState,
         WorkflowLifecycleState, ExceptionStatus
    <3> QED
      BY <2>11, <3>1, <3>2, <1>0 DEF MarkStarted, reviewed, api, TypeInv, TypeOK
  <2>12. CASE AdapterMisconfigured(s) \/ CallAdapter(s)
    <3>1. PICK outcome \in {"failed", "succeeded"} :
            attempts' = [attempts EXCEPT ![s].pc = "record",
                                         ![s].outcome = outcome]
      BY <2>12 DEF AdapterMisconfigured, CallAdapter
    <3> DEFINE a == [attempts[s] EXCEPT !.pc = "record", !.outcome = outcome]
    <3>2. attempts' = [attempts EXCEPT ![s] = a]
      BY <3>1, <1>0 DEF TypeOK
    <3>3. a \in Attempt /\ a.pc = "record" /\ a.outcome \in {"failed", "succeeded"}
      BY <2>0 DEF Attempt, Pc, ExecutePc
    <3>4. attempts' \in [Slots -> Attempt] /\ ActionChosen' /\ OutcomeKnown'
      <4> HIDE DEF a
      <4> QED
        BY <3>2, <3>3, SlotReplaced
    <3>5. attempts[s].action \in ExecutionAction
      BY <2>12 DEF AdapterMisconfigured, CallAdapter, At, TypeInv, ActionChosen
    <3>6. effects' \in Seq(ExecutionAction)
      <4>1. effects' = effects \/ effects' = Append(effects, attempts[s].action)
        BY <2>12 DEF AdapterMisconfigured, CallAdapter
      <4>2. effects \in Seq(ExecutionAction)
        BY <1>0 DEF TypeOK
      <4>3. Append(effects, attempts[s].action) \in Seq(ExecutionAction)
        BY <4>2, <3>5, AppendProperties
      <4> QED
        BY <4>1, <4>2, <4>3
    <3> QED
      BY <2>12, <3>4, <3>6, <1>0 DEF AdapterMisconfigured, CallAdapter, tables,
                                     reviewed, api, TypeInv, TypeOK
  <2>13. CASE RecordOutcome(s)
    <3>1. attempts' \in [Slots -> Attempt] /\ ActionChosen' /\ OutcomeKnown'
      BY <2>13, Moved DEF RecordOutcome, At, Pc, ExecutePc
    <3>2. attempts[s].outcome \in {"failed", "succeeded"}
      BY <2>13 DEF RecordOutcome, At, TypeInv, OutcomeKnown
    <3>3. executions' \in Seq(ExecutionRecord)
      <4> DEFINE id == attempts[s].ref
                 r == [executions[id] EXCEPT !.status = attempts[s].outcome]
      <4>1. id \in DOMAIN executions /\ executions \in Seq(ExecutionRecord)
        BY <2>13, <1>0 DEF RecordOutcome, TypeOK
      <4>2. executions' = [executions EXCEPT ![id] = r]
        BY <2>13 DEF RecordOutcome
      <4>3. executions[id] \in ExecutionRecord
        BY <4>1, ElementOfSeq
      <4>4. r \in ExecutionRecord
        BY <3>2, <4>3 DEF ExecutionRecord, ExecutionRecordStatus
      <4>5. id \in 1 .. Len(executions)
        BY <4>1
      <4> HIDE DEF id, r
      <4> QED
        BY <4>1, <4>2, <4>4, <4>5, ExceptSeq
    <3> QED
      BY <2>13, <3>1, <3>3, <1>0 DEF RecordOutcome, reviewed, api, TypeInv, TypeOK
  <2>14. CASE CloseCase(s)
    <3>1. attempts' \in [Slots -> Attempt] /\ ActionChosen' /\ OutcomeKnown'
      BY <2>14, Moved DEF CloseCase, Pc
    <3>2. row' \in CaseRow
      BY <2>14, <1>0, CaseMarkedType DEF CloseCase, ExecutionState,
         WorkflowLifecycleState, ExceptionStatus
    <3> QED
      BY <2>14, <3>1, <3>2, <1>0 DEF CloseCase, reviewed, api, TypeInv, TypeOK
  <2>15. CASE ResultDiscarded(s)
    <3>1. attempts' \in [Slots -> Attempt] /\ ActionChosen' /\ OutcomeKnown'
      BY <2>15, SlotReplaced DEF ResultDiscarded
    <3> QED
      BY <2>15, <3>1, <1>0 DEF ResultDiscarded, tables, reviewed, api, TypeInv, TypeOK
  <2>16. CASE ApplyDecision(s)
    <3>1. attempts' \in [Slots -> Attempt] /\ ActionChosen' /\ OutcomeKnown'
      BY <2>16, Moved DEF ApplyDecision, Pc
    <3>2. row' \in CaseRow
      BY <2>16, <1>0, DecisionCommittedType DEF ApplyDecision, ApprovalState
    <3> QED
      BY <2>16, <3>1, <3>2, <1>0 DEF ApplyDecision, reviewed, api, TypeInv, TypeOK
  <2> QED
    BY <1>3, <2>1, <2>2, <2>3, <2>4, <2>5, <2>6, <2>7, <2>8, <2>9, <2>10, <2>11,
       <2>12, <2>13, <2>14, <2>15, <2>16 DEF AttemptStep
<1>4. CASE WorkflowStep
  <2>0. attempts[Current] \in Attempt
    BY <1>0 DEF TypeOK
  <2>1. CASE WorkflowAdvances
    <3> DEFINE next == NextStep(attempts[Current].act)
    <3>1. next \in Step /\ (next = "wait" \/ next \in Activity)
      BY DEF NextStep, Step, Activity
    <3> HIDE DEF next
    <3>2. (IF next = "wait" THEN Idle ELSE Started(next, 0)) \in Attempt
      BY <3>1, StartedType
    <3>3. (IF next = "wait" THEN Idle ELSE Started(next, 0)).pc \in {"idle", "ready"}
      BY <3>1, StartedType
    <3>4. /\ wf' = [wf EXCEPT !.step = next]
          /\ attempts' = [attempts EXCEPT
                ![Current] = IF next = "wait" THEN Idle ELSE Started(next, 0)]
          /\ UNCHANGED <<tables, effects, api, faults>>
      BY <2>1 DEF WorkflowAdvances, next
    <3>5. attempts' \in [Slots -> Attempt] /\ ActionChosen' /\ OutcomeKnown'
      BY <1>0, <3>2, <3>3, <3>4, SlotReplaced
    <3> QED
      BY <3>1, <3>4, <3>5, <1>0 DEF tables, reviewed, api, TypeInv, TypeOK
  <2>2. CASE WaitSatisfied
    <3>1. "finalize_approval_decision" \in Activity /\ wf.signal \in Nat
      BY <1>0 DEF Activity, TypeOK
    <3>2. attempts' \in [Slots -> Attempt] /\ ActionChosen' /\ OutcomeKnown'
      BY <2>2, <1>0, <3>1, StartedType, SlotReplaced DEF WaitSatisfied
    <3> QED
      BY <2>2, <3>1, <3>2, <1>0 DEF WaitSatisfied, tables, reviewed, api, TypeInv,
                                    TypeOK, Step
  <2>3. CASE WorkflowCompletes
    <3>1. attempts' \in [Slots -> Attempt] /\ ActionChosen' /\ OutcomeKnown'
      BY <2>3, <1>0, SlotReplaced DEF WorkflowCompletes
    <3> QED
      BY <2>3, <3>1, <1>0 DEF WorkflowCompletes, tables, reviewed, api, TypeInv, TypeOK
  <2>4. CASE RetryAfterError
    <3>1. attempts' \in [Slots -> Attempt] /\ ActionChosen' /\ OutcomeKnown'
      BY <2>4, <1>0, Moved DEF RetryAfterError, Pc
    <3> QED
      BY <2>4, <3>1, <1>0 DEF RetryAfterError, tables, reviewed, api, TypeInv, TypeOK
  <2> QED
    BY <1>4, <2>1, <2>2, <2>3, <2>4 DEF WorkflowStep
<1>5. CASE Fault
  <2>1. PICK late \in BOOLEAN : AttemptLost(late)
    BY <1>5 DEF Fault
  <2> DEFINE lost == attempts[Current]
             again == lost.act \notin SingleAttempt
             kept == IF late THEN lost ELSE Idle
             fresh == IF again
                        THEN Started(lost.act,
                               IF lost.act = "finalize_approval_decision"
                                 THEN lost.ref ELSE 0)
                        ELSE Idle
  <2>2. /\ faults < MaxFaults
        /\ lost.act # "none"
        /\ faults' = faults + 1
        /\ wf' = IF again THEN wf ELSE [wf EXCEPT !.status = "failed"]
        /\ attempts' = [attempts EXCEPT ![Current] = kept, ![Current + 1] = fresh]
        /\ UNCHANGED <<tables, effects, api>>
    BY <2>1 DEF AttemptLost
  <2>3. Current + 1 \in Slots /\ faults' \in 0 .. MaxFaults
    BY <2>2, <1>0 DEF TypeOK, Current, Slots, Domains
  <2>4. lost \in Attempt /\ lost.act \in Activity /\ lost.ref \in Nat
    BY <2>2, <1>0 DEF TypeOK, Attempt
  <2>5. /\ kept \in Attempt
        /\ kept.pc \in {"create", "mark", "call"} => kept.action \in ExecutionAction
        /\ kept.pc \in {"record", "close"} => kept.outcome \in {"failed", "succeeded"}
    BY <2>4, <1>0 DEF TypeInv, ActionChosen, OutcomeKnown
  <2>6. fresh \in Attempt /\ fresh.pc \in {"ready", "idle"}
    <3>1. (IF lost.act = "finalize_approval_decision" THEN lost.ref ELSE 0) \in Nat
      BY <2>4
    <3> QED
      BY <2>4, <3>1, StartedType
  <2> HIDE DEF lost, kept, fresh, again
  <2>7. attempts' \in [Slots -> Attempt] /\ ActionChosen' /\ OutcomeKnown'
    BY <2>2, <2>3, <2>5, <2>6, <1>0 DEF TypeInv, TypeOK, ActionChosen, OutcomeKnown
  <2>8. wf' \in [status: {"absent", "running", "completed", "failed"},
                 step: Step, signal: Nat]
    BY <2>2, <1>0 DEF TypeOK
  <2> QED
    BY <2>2, <2>3, <2>7, <2>8, <1>0 DEF tables, reviewed, api, TypeInv, TypeOK
<1> QED
  BY <1>1, <1>2, <1>3, <1>4, <1>5 DEF Next

(* Every variable stays within its type, and an attempt that is about to   *)
(* write a record has what it writes.                                      *)
THEOREM TypeInvariance == Spec => []TypeInv
<1>1. Init => TypeInv
  BY TypeInit
<1>2. TypeInv /\ [Next]_vars => TypeInv'
  BY TypeStep
<1> QED
  BY <1>1, <1>2, PTL DEF Spec

(* The type invariant of the specification, for every value of the         *)
(* constants.                                                              *)
THEOREM TypeCorrect == Spec => []TypeOK
<1>1. TypeInv => TypeOK
  BY DEF TypeInv
<1> QED
  BY <1>1, TypeInvariance, PTL

-----------------------------------------------------------------------------
(* Permission. ExecutionNeedsApproval is not inductive: execute_action     *)
(* decides in one step and acts several commits later, on the approval     *)
(* state it found. What the state means has to be invariant, and an        *)
(* attempt that has decided to execute has to carry the permission along.  *)
(* Permission is never withdrawn, because decisions are only ever added.   *)
(* The reads that precede a commit have to stay true as well: a decision   *)
(* found admissible is one on a case under review, and a finalize attempt  *)
(* past its check holds a decision that exists.                            *)

StateMeansPolicy ==
    /\ row.approval = "not_required" => row.risk = "low"
    /\ row.approval = "pending" => row.risk # "low"
    /\ row.approval = "approved" => Approved
ExecutorIsPermitted ==
    \A s \in Slots : attempts[s].pc \in {"create", "mark", "call"} => Permitted
CheckedIsReviewed == checked # NothingChecked => row.risk # "low"
FinalizerHoldsDecision ==
    \A s \in Slots : attempts[s].pc = "apply" =>
        attempts[s].ref \in DOMAIN decisions
GateInv ==
    /\ StateMeansPolicy /\ ExecutorIsPermitted /\ ExecutionNeedsApproval
    /\ CheckedIsReviewed /\ FinalizerHoldsDecision

LEMMA GateInit == Init => GateInv
BY IdleType DEF Init, NewCase, GateInv, StateMeansPolicy, ExecutorIsPermitted,
                ExecutionNeedsApproval, CheckedIsReviewed, FinalizerHoldsDecision

(* The columns and tables the permission depends on, through any step.     *)
LEMMA PermittedGrows ==
    ASSUME TypeInv, [Next]_vars
    PROVE  /\ row'.risk = row.risk
           /\ DOMAIN decisions \subseteq DOMAIN decisions'
           /\ Approved => Approved'
           /\ Permitted => Permitted'
<1>1. row'.risk = row.risk
  <2>1. CASE UNCHANGED row
    BY <2>1
  <2>2. CASE ~UNCHANGED row
    BY <2>2 DEF Next, ApiStep, AttemptStep, WorkflowStep, Fault, vars, tables,
       DecisionCommitted, TypeInv, TypeOK, CaseRow, StartWorkflow, StartRefused, LinkWorkflow,
       IngestDies, CheckDecision, RecordDecision, RetryDecision,
       SignalDelivered, SignalFails, CollectEvidence, StoreEvidenceItem, ClassifyException,
       GenerateRemediationPlan, EvaluateApprovalGate, FinalizeApprovalDecision,
       ApplyDecision, FinalizeRaises, ReadCase, SkipExecution, BlockExecution,
       CaseMarked,
       CreateExecutionRecord, MarkStarted, AdapterMisconfigured, CallAdapter,
       RecordOutcome, CloseCase, ResultDiscarded, WorkflowAdvances,
       WaitSatisfied, WorkflowCompletes, RetryAfterError, AttemptLost
  <2> QED
    BY <2>1, <2>2
<1>2. \/ decisions' = decisions
      \/ /\ checked # NothingChecked
         /\ decisions' = Append(decisions, checked.decision)
  BY DEF Next, ApiStep, AttemptStep, WorkflowStep, Fault, vars, tables,
       StartWorkflow, StartRefused, LinkWorkflow,
       IngestDies, CheckDecision, RecordDecision, RetryDecision,
       SignalDelivered, SignalFails, CollectEvidence, StoreEvidenceItem, ClassifyException,
       GenerateRemediationPlan, EvaluateApprovalGate, FinalizeApprovalDecision,
       ApplyDecision, FinalizeRaises, ReadCase, SkipExecution, BlockExecution,
       CreateExecutionRecord, MarkStarted, AdapterMisconfigured, CallAdapter,
       RecordOutcome, CloseCase, ResultDiscarded, WorkflowAdvances,
       WaitSatisfied, WorkflowCompletes, RetryAfterError, AttemptLost
<1>3. checked # NothingChecked => checked.decision \in ApprovalDecisionType
  BY DEF TypeInv, TypeOK, CheckedMeans, Checked
<1>4. /\ DOMAIN decisions \subseteq DOMAIN decisions'
      /\ \A i \in DOMAIN decisions : decisions'[i] = decisions[i]
  <2>1. decisions \in Seq(ApprovalDecisionType)
    BY DEF TypeInv, TypeOK
  <2>2. CASE decisions' = Append(decisions, checked.decision) /\ checked # NothingChecked
    BY <1>3, <2>1, <2>2, AppendProperties
  <2> QED
    BY <1>2, <2>2
<1>5. Approved => Approved'
  BY <1>4 DEF Approved
<1> QED
  BY <1>1, <1>4, <1>5 DEF Permitted

(* Only two steps make one of the reads that a commit relies on.           *)
LEMMA ReadsBeforeCommits ==
    ASSUME TypeInv, GateInv, [Next]_vars
    PROVE  CheckedIsReviewed' /\ FinalizerHoldsDecision'
<1>0. TypeOK /\ Current \in Slots /\ attempts \in [Slots -> Attempt]
  BY CurrentIsSlot DEF TypeInv, TypeOK
<1>1. \/ checked' = checked
      \/ checked' = NothingChecked
      \/ row.approval = "pending"
  BY DEF Next, ApiStep, AttemptStep, WorkflowStep, Fault, vars, tables, api,
       StartWorkflow, StartRefused, LinkWorkflow, IngestDies, CheckDecision,
       RecordDecision, RetryDecision, SignalDelivered, SignalFails,
       CollectEvidence, StoreEvidenceItem, ClassifyException,
       GenerateRemediationPlan, EvaluateApprovalGate, FinalizeApprovalDecision,
       ApplyDecision, FinalizeRaises, ReadCase, SkipExecution, BlockExecution,
       CreateExecutionRecord, MarkStarted, AdapterMisconfigured, CallAdapter,
       RecordOutcome, CloseCase, ResultDiscarded, WorkflowAdvances,
       WaitSatisfied, WorkflowCompletes, RetryAfterError, AttemptLost
<1>2. CheckedIsReviewed'
  BY <1>1, PermittedGrows DEF CheckedIsReviewed, GateInv, StateMeansPolicy
<1>3. ASSUME NEW t \in Slots
      PROVE  \/ attempts'[t] = attempts[t]
             \/ attempts'[t].pc # "apply"
             \/ attempts'[t].ref \in DOMAIN decisions
  <2>1. CASE UNCHANGED vars
    BY <2>1 DEF vars
  <2>2. CASE ApiStep
    BY <2>2, <1>0 DEF ApiStep, StartWorkflow, StartRefused, LinkWorkflow,
       IngestDies, CheckDecision, RecordDecision, RetryDecision,
       SignalDelivered, SignalFails, Started
  <2>3. ASSUME NEW s \in Slots, AttemptStep(s)
        PROVE  \/ attempts'[t] = attempts[t]
               \/ attempts'[t].pc # "apply"
               \/ attempts'[t].ref \in DOMAIN decisions
    <3>1. CASE CollectEvidence(s) \/ StoreEvidenceItem(s)
      BY <3>1, <1>0 DEF CollectEvidence, StoreEvidenceItem, Attempt
    <3>2. CASE \/ ClassifyException(s) \/ GenerateRemediationPlan(s)
               \/ EvaluateApprovalGate(s) \/ ApplyDecision(s) \/ FinalizeRaises(s)
               \/ SkipExecution(s) \/ BlockExecution(s) \/ MarkStarted(s)
               \/ RecordOutcome(s) \/ CloseCase(s)
      BY <3>2, <1>0 DEF ClassifyException, GenerateRemediationPlan,
         EvaluateApprovalGate, ApplyDecision, FinalizeRaises, SkipExecution,
         BlockExecution, MarkStarted, RecordOutcome, CloseCase, Goto, Attempt
    <3>3. CASE FinalizeApprovalDecision(s)
      BY <3>3, <1>0 DEF FinalizeApprovalDecision, Applicable, Attempt
    <3>4. CASE ReadCase(s)
      <4> DEFINE d == ExecutionDecision(row.approval)
                 pc == IF d = "execute" THEN "create" ELSE d
      <4>1. \/ Goto(s, "returned")
            \/ \E x : attempts' = [attempts EXCEPT ![s].pc = pc, ![s].action = x]
        BY <3>4 DEF ReadCase
      <4>2. pc # "apply"
        BY PolicyTypes
      <4> HIDE DEF d, pc
      <4> QED
        BY <4>1, <4>2, <1>0 DEF Goto, Attempt
    <3>5. CASE CreateExecutionRecord(s) \/ AdapterMisconfigured(s) \/ CallAdapter(s)
      BY <3>5, <1>0 DEF CreateExecutionRecord, AdapterMisconfigured, CallAdapter,
         Attempt
    <3>6. CASE ResultDiscarded(s)
      BY <3>6, <1>0, IdleType DEF ResultDiscarded
    <3> QED
      BY <2>3, <3>1, <3>2, <3>3, <3>4, <3>5, <3>6 DEF AttemptStep
  <2>4. CASE WorkflowStep
    BY <2>4, <1>0, IdleType DEF WorkflowStep, WorkflowAdvances, WaitSatisfied,
       WorkflowCompletes, RetryAfterError, Goto, Attempt, Started
  <2>5. CASE Fault
    BY <2>5, <1>0, IdleType DEF Fault, AttemptLost, Started
  <2> QED
    BY <2>1, <2>2, <2>3, <2>4, <2>5 DEF Next
<1>4. FinalizerHoldsDecision'
  BY <1>3, PermittedGrows DEF FinalizerHoldsDecision, GateInv
<1> QED
  BY <1>2, <1>4

(* A step that neither writes the row nor lets an attempt execute, and     *)
(* performs nothing.                                                       *)
LEMMA GateQuiet ==
    ASSUME TypeInv, GateInv, [Next]_vars,
           row' = row, executions' = executions, effects' = effects,
           \A s \in Slots : attempts'[s].pc \in {"create", "mark", "call"}
               => \E t \in Slots : attempts[t].pc \in {"create", "mark", "call"}
    PROVE  GateInv'
BY PermittedGrows, ReadsBeforeCommits DEF GateInv, StateMeansPolicy,
   ExecutorIsPermitted, ExecutionNeedsApproval

(* A step of an activity that writes the row, keeping or setting the       *)
(* approval state to one that means what the policy says, and goes on to   *)
(* its return.                                                             *)
LEMMA GateRowWritten ==
    ASSUME TypeInv, GateInv, [Next]_vars, StateMeansPolicy',
           NEW s \in Slots, NEW pc,
           Goto(s, pc), pc \in {"call", "mark"} => attempts[s].pc \in {"create", "mark"},
           pc # "create",
           executions' = executions, effects' = effects
    PROVE  GateInv'
BY PermittedGrows, ReadsBeforeCommits DEF GateInv, ExecutorIsPermitted,
   ExecutionNeedsApproval, Goto, TypeInv, TypeOK

LEMMA GateStep == TypeInv /\ GateInv /\ [Next]_vars => GateInv'
<1> SUFFICES ASSUME TypeInv, GateInv, [Next]_vars PROVE GateInv'
  OBVIOUS
<1>0. /\ TypeOK
      /\ Current \in Slots
      /\ StateMeansPolicy
      /\ ExecutorIsPermitted
      /\ ExecutionNeedsApproval
  BY CurrentIsSlot DEF TypeInv, GateInv
<1>1. CASE UNCHANGED vars
  BY <1>1, GateQuiet DEF vars, tables
<1>2. CASE ApiStep
  <2>1. CASE StartWorkflow
    <3>1. \A s \in Slots : s # Current => attempts'[s] = attempts[s]
      BY <2>1, <1>0 DEF StartWorkflow, TypeOK
    <3>2. attempts'[Current].pc = "ready"
      BY <2>1, <1>0 DEF StartWorkflow, TypeOK, Started
    <3> QED
      BY <2>1, <3>1, <3>2, GateQuiet DEF StartWorkflow, tables
  <2>2. CASE StartRefused \/ IngestDies
    BY <2>2, GateQuiet DEF StartRefused, IngestDies, tables
  <2>3. CASE LinkWorkflow
    <3>1. row'.approval = row.approval /\ attempts' = attempts
          /\ executions' = executions /\ effects' = effects
      BY <2>3, <1>0 DEF LinkWorkflow, TypeOK, CaseRow
    <3> QED
      BY <3>1, <1>0, PermittedGrows, ReadsBeforeCommits DEF GateInv, StateMeansPolicy,
         ExecutorIsPermitted, ExecutionNeedsApproval
  <2>4. ASSUME NEW o \in Operators, RecordDecision(o)
        PROVE  GateInv'
    <3> DEFINE d == checked.decision
    <3>1. /\ row'.approval = row.approval \/ row'.approval = TargetState(d)
          /\ decisions' = Append(decisions, d)
          /\ attempts' = attempts
          /\ executions' = executions
          /\ effects' = effects
      BY <2>4, <1>0 DEF RecordDecision, DecisionCommitted, TypeOK, CaseRow
    <3>2. /\ decisions \in Seq(ApprovalDecisionType)
          /\ d \in ApprovalDecisionType
      BY <2>4, <1>0 DEF RecordDecision, TypeInv, TypeOK, CheckedMeans, Checked
    <3>3. /\ Len(decisions) + 1 \in DOMAIN decisions'
          /\ decisions'[Len(decisions) + 1] = d
      BY <3>1, <3>2, AppendProperties, LenProperties
    <3>4. d = "approved" => Approved'
      BY <3>3 DEF Approved
    <3>5. StateMeansPolicy'
      BY <3>1, <3>4, <1>0, PermittedGrows DEF StateMeansPolicy, TargetState
    <3> QED
      BY <3>1, <3>5, <1>0, PermittedGrows, ReadsBeforeCommits DEF GateInv,
         ExecutorIsPermitted, ExecutionNeedsApproval
  <2>5. ASSUME NEW o \in Operators, NEW d \in ApprovalDecisionType,
               RetryDecision(o, d)
        PROVE  GateInv'
    BY <2>5, GateQuiet DEF RetryDecision, tables
  <2>6. ASSUME NEW o \in Operators, SignalDelivered(o) \/ SignalFails(o)
        PROVE  GateInv'
    BY <2>6, GateQuiet DEF SignalDelivered, SignalFails, tables
  <2>7. ASSUME NEW d \in ApprovalDecisionType, CheckDecision(d)
        PROVE  GateInv'
    BY <2>7, GateQuiet DEF CheckDecision, tables
  <2> QED
    BY <1>2, <2>1, <2>2, <2>3, <2>4, <2>5, <2>6, <2>7 DEF ApiStep
<1>3. ASSUME NEW s \in Slots, AttemptStep(s)
      PROVE  GateInv'
  <2>1. CASE \/ CollectEvidence(s) \/ StoreEvidenceItem(s) \/ ClassifyException(s)
             \/ GenerateRemediationPlan(s) \/ FinalizeRaises(s)
             \/ ResultDiscarded(s) \/ FinalizeApprovalDecision(s)
    <3>1. row' = row /\ executions' = executions /\ effects' = effects
      BY <2>1 DEF CollectEvidence, StoreEvidenceItem, ClassifyException,
         GenerateRemediationPlan, FinalizeRaises, ResultDiscarded,
         FinalizeApprovalDecision, tables
    <3>2. \A t \in Slots : attempts'[t] = attempts[t]
             \/ attempts'[t].pc \in {"store", "returned", "raised", "idle", "apply"}
      <4>1. CASE CollectEvidence(s)
        BY <4>1, <1>0 DEF CollectEvidence, TypeOK, Attempt
      <4>2. CASE StoreEvidenceItem(s)
        BY <4>2, <1>0 DEF StoreEvidenceItem, TypeOK, Attempt
      <4>3. CASE ClassifyException(s) \/ GenerateRemediationPlan(s) \/ FinalizeRaises(s)
        BY <4>3, <1>0 DEF ClassifyException, GenerateRemediationPlan,
           FinalizeRaises, Goto, TypeOK, Attempt
      <4>4. CASE ResultDiscarded(s)
        BY <4>4, <1>0, IdleType DEF ResultDiscarded, TypeOK
      <4>5. CASE FinalizeApprovalDecision(s)
        BY <4>5, <1>0 DEF FinalizeApprovalDecision, TypeOK, Attempt
      <4> QED
        BY <2>1, <4>1, <4>2, <4>3, <4>4, <4>5
    <3> QED
      BY <3>1, <3>2, GateQuiet
  <2>2. CASE EvaluateApprovalGate(s)
    <3>1. row'.approval = IF RequiresApproval(row.risk) THEN "pending"
                                                        ELSE "not_required"
      BY <2>2, <1>0 DEF EvaluateApprovalGate, TypeOK, CaseRow
    <3>2. StateMeansPolicy'
      BY <3>1, <1>0, PermittedGrows DEF StateMeansPolicy, RequiresApproval,
         TypeOK, CaseRow, RiskLevel
    <3> QED
      BY <2>2, <3>2, GateRowWritten DEF EvaluateApprovalGate
  <2>3. CASE ApplyDecision(s)
    <3> DEFINE id == attempts[s].ref
    <3>1. /\ id \in DOMAIN decisions
          /\ row'.approval = row.approval
             \/ row'.approval = TargetState(decisions[id])
      BY <2>3, <1>0 DEF ApplyDecision, At, DecisionCommitted, TypeOK, CaseRow,
                        GateInv, FinalizerHoldsDecision
    <3>2. row'.approval = "approved" => row.approval = "approved" \/ Approved
      BY <3>1 DEF TargetState, Approved
    <3>3. StateMeansPolicy'
      BY <3>1, <3>2, <1>0, PermittedGrows DEF StateMeansPolicy, TargetState
    <3> QED
      BY <2>3, <3>3, GateRowWritten DEF ApplyDecision
  <2>4. CASE ReadCase(s)
    <3>1. row' = row /\ executions' = executions /\ effects' = effects
      BY <2>4 DEF ReadCase, tables
    <3>2. CASE Goto(s, "returned")
      BY <2>4, <3>1, <3>2, <1>0, GateQuiet DEF Goto, TypeOK
    <3>3. CASE ~Goto(s, "returned")
      <4>1. attempts' = [attempts EXCEPT
              ![s].pc = IF ExecutionDecision(row.approval) = "execute"
                          THEN "create" ELSE ExecutionDecision(row.approval),
              ![s].action = PermittedAction(LatestAdvice)]
        BY <2>4, <3>3 DEF ReadCase
      <4>2. \A t \in Slots : attempts'[t] = attempts[t]
              \/ attempts'[t].pc \in {"skip", "block"}
              \/ ExecutionDecision(row.approval) = "execute"
        BY <4>1, <1>0, PolicyTypes DEF TypeOK, Attempt
      <4>3. ExecutionDecision(row.approval) = "execute" => Permitted
        BY <1>0 DEF ExecutionDecision, StateMeansPolicy, Permitted
      <4>4. ExecutorIsPermitted'
        BY <4>2, <4>3, <1>0, PermittedGrows DEF ExecutorIsPermitted
      <4> QED
        BY <3>1, <4>4, <1>0, PermittedGrows, ReadsBeforeCommits DEF GateInv, StateMeansPolicy,
           ExecutionNeedsApproval
    <3> QED
      BY <3>2, <3>3
  <2>5. CASE SkipExecution(s) \/ BlockExecution(s) \/ MarkStarted(s) \/ CloseCase(s)
    <3>1. row'.approval = row.approval
      BY <2>5, <1>0 DEF SkipExecution, BlockExecution, MarkStarted, CloseCase,
         CaseMarked, TypeOK, CaseRow
    <3>2. StateMeansPolicy'
      BY <3>1, <1>0, PermittedGrows DEF StateMeansPolicy
    <3>3. executions' = executions /\ effects' = effects
      BY <2>5 DEF SkipExecution, BlockExecution, MarkStarted, CloseCase
    <3>4. CASE MarkStarted(s)
      BY <3>2, <3>3, <3>4, GateRowWritten DEF MarkStarted, At
    <3>5. CASE SkipExecution(s) \/ BlockExecution(s) \/ CloseCase(s)
      BY <3>2, <3>3, <3>5, GateRowWritten DEF SkipExecution, BlockExecution, CloseCase
    <3> QED
      BY <2>5, <3>4, <3>5
  <2>6. CASE \/ CreateExecutionRecord(s) \/ AdapterMisconfigured(s)
             \/ CallAdapter(s) \/ RecordOutcome(s)
    <3>1. row' = row
      BY <2>6 DEF CreateExecutionRecord, AdapterMisconfigured, CallAdapter,
         RecordOutcome, tables
    <3>2. attempts[s].pc \in {"create", "mark", "call"} => Permitted
      BY <1>0 DEF ExecutorIsPermitted
    <3>3. \A t \in Slots : \/ attempts'[t] = attempts[t]
                           \/ t = s /\ attempts'[t].pc \in {"mark", "record", "close"}
      BY <2>6, <1>0 DEF CreateExecutionRecord, AdapterMisconfigured, CallAdapter,
         RecordOutcome, Goto, TypeOK, Attempt
    <3>4. \/ attempts[s].pc \in {"create", "call"}
          \/ /\ RecordOutcome(s)
             /\ effects' = effects
             /\ executions # <<>>
             /\ \A t \in Slots : attempts'[t] = attempts[t] \/ attempts'[t].pc = "close"
      <4>1. CASE CreateExecutionRecord(s) \/ AdapterMisconfigured(s) \/ CallAdapter(s)
        BY <4>1 DEF CreateExecutionRecord, AdapterMisconfigured, CallAdapter, At
      <4>2. CASE RecordOutcome(s)
        BY <4>2, <1>0 DEF RecordOutcome, Goto, TypeOK, Attempt
      <4> QED
        BY <2>6, <4>1, <4>2
    <3>5. ExecutorIsPermitted'
      BY <3>2, <3>3, <3>4, <1>0, PermittedGrows DEF ExecutorIsPermitted
    <3>6. ExecutionNeedsApproval'
      BY <3>2, <3>4, <1>0, PermittedGrows DEF ExecutionNeedsApproval
    <3> QED
      BY <3>1, <3>5, <3>6, <1>0, PermittedGrows, ReadsBeforeCommits DEF GateInv, StateMeansPolicy
  <2> QED
    BY <1>3, <2>1, <2>2, <2>3, <2>4, <2>5, <2>6 DEF AttemptStep
<1>4. CASE WorkflowStep
  <2>1. row' = row /\ executions' = executions /\ effects' = effects
    BY <1>4 DEF WorkflowStep, WorkflowAdvances, WaitSatisfied, WorkflowCompletes,
       RetryAfterError, tables
  <2>2. \A t \in Slots : attempts'[t] = attempts[t]
                         \/ attempts'[t].pc \in {"ready", "idle"}
    BY <1>4, <1>0, IdleType DEF WorkflowStep, WorkflowAdvances, WaitSatisfied,
       WorkflowCompletes, RetryAfterError, Goto, TypeOK, Attempt, Started
  <2> QED
    BY <2>1, <2>2, GateQuiet
<1>5. CASE Fault
  <2>1. PICK late \in BOOLEAN : AttemptLost(late)
    BY <1>5 DEF Fault
  <2>2. row' = row /\ executions' = executions /\ effects' = effects
    BY <2>1 DEF AttemptLost, tables
  <2>3. \A t \in Slots : attempts'[t] = attempts[t]
                         \/ attempts'[t].pc \in {"ready", "idle"}
    BY <2>1, <1>0, IdleType DEF AttemptLost, TypeOK, Started
  <2> QED
    BY <2>2, <2>3, GateQuiet
<1> QED
  BY <1>1, <1>2, <1>3, <1>4, <1>5 DEF Next

(* No case of medium or high risk is executed before an operator approved  *)
(* it, whatever is lost, late or repeated.                                 *)
THEOREM NothingWithoutApproval == Spec => []ExecutionNeedsApproval
<1>1. Init => GateInv
  BY GateInit
<1>2. TypeInv /\ GateInv /\ [Next]_vars => GateInv'
  BY GateStep
<1>3. GateInv => ExecutionNeedsApproval
  BY DEF GateInv
<1> QED
  BY <1>1, <1>2, <1>3, TypeInvariance, PTL DEF Spec

-----------------------------------------------------------------------------
(* AtMostOnce is not inductive: it rests on the workflow scheduling        *)
(* execute_action once and the server giving it one attempt. So at most    *)
(* one slot executes; nothing of an execution exists before the workflow   *)
(* reaches that step; and how far the one executor has come tells which    *)
(* records exist.                                                          *)
BeforeRecord == {"ready", "skip", "block", "create"}
BeforeEffect == {"mark", "call"}
Executing(s) == attempts[s].act = "execute_action"

OneExecutor == \A s, t \in Slots : Executing(s) /\ Executing(t) => s = t
StepKnown ==
    /\ attempts[Current].act # "none" => wf.step = attempts[Current].act
    /\ \A s \in Slots : Executing(s) => wf.step = "execute_action"
    /\ executions # <<>> \/ effects # <<>> => wf.step = "execute_action"
NothingBeforeStart ==
    ingest = "persisted" =>
        /\ wf.step = "collect_evidence"
        /\ \A s \in Slots : attempts[s].act = "none"
IdleMeansNone == \A s \in Slots : attempts[s].act = "none" => attempts[s].pc = "idle"
Progress ==
    \A s \in Slots : Executing(s) =>
        /\ attempts[s].pc # "raised"
        /\ attempts[s].pc \in BeforeRecord => executions = <<>> /\ effects = <<>>
        /\ attempts[s].pc \in BeforeEffect =>
             /\ Len(executions) = 1
             /\ executions[1].action = attempts[s].action
             /\ effects = <<>>
OnceInv ==
    /\ OneExecutor /\ StepKnown /\ NothingBeforeStart /\ IdleMeansNone
    /\ Progress /\ AtMostOnce /\ EffectIsRecorded

LEMMA OnceInit == Init => OnceInv
<1> SUFFICES ASSUME Init PROVE OnceInv
  OBVIOUS
<1>1. \A s \in Slots : attempts[s].act = "none" /\ attempts[s].pc = "idle"
  BY IdleType DEF Init, NewCase
<1>2. Current \in Slots
  BY DomainsHold DEF Init, NewCase, Current, Slots, Domains
<1>3. AtMostOnce /\ EffectIsRecorded
  BY DEF Init, NewCase, AtMostOnce, EffectIsRecorded
<1> QED
  BY <1>1, <1>2, <1>3 DEF Init, NewCase, OnceInv, OneExecutor, StepKnown,
     NothingBeforeStart, IdleMeansNone, Progress, Executing

(* What a slot may do without the tables noticing.                         *)
Harmless(t) ==
    \/ attempts'[t] = attempts[t]
    \/ attempts'[t] = Idle
    \/ /\ attempts[t].act # "none"
       /\ attempts'[t].act = attempts[t].act
       /\ attempts[t].act = "execute_action" =>
            /\ attempts'[t].pc # "raised"
            /\ attempts'[t].pc \in BeforeRecord => attempts[t].pc \in BeforeRecord
            /\ attempts'[t].pc \in BeforeEffect =>
                 /\ attempts[t].pc \in BeforeEffect
                 /\ attempts'[t].action = attempts[t].action

LEMMA OnceQuiet ==
    ASSUME TypeOK, OnceInv, \A t \in Slots : Harmless(t),
           executions' = executions, effects' = effects, faults' = faults,
           wf'.step = wf.step, ingest' = "persisted" => ingest = "persisted"
    PROVE  OnceInv'
<1> USE IdleType
<1>0. Current' = Current /\ Current \in Slots
  BY CurrentIsSlot DEF Current
<1>1. \A t \in Slots : Executing(t)' => Executing(t)
  BY DEF Harmless, Executing
<1>2. OneExecutor'
  BY <1>1 DEF OneExecutor, OnceInv
<1>3. StepKnown'
  BY <1>0, <1>1 DEF StepKnown, OnceInv, Harmless
<1>4. NothingBeforeStart' /\ IdleMeansNone'
  BY DEF NothingBeforeStart, IdleMeansNone, OnceInv, Harmless
<1>5. Progress'
  BY <1>1 DEF Progress, OnceInv, Harmless, Executing
<1>6. AtMostOnce' /\ EffectIsRecorded'
  BY DEF AtMostOnce, EffectIsRecorded, OnceInv
<1> QED
  BY <1>2, <1>3, <1>4, <1>5, <1>6 DEF OnceInv

(* A slot that is given another activity than execute_action while nothing *)
(* has been executed.                                                      *)
LEMMA OnceScheduled ==
    ASSUME TypeOK, OnceInv, NEW act \in Activity, NEW ref \in Nat,
           wf.step # "execute_action", wf'.step = act,
           attempts' = [attempts EXCEPT ![Current] = Started(act, ref)],
           executions' = executions, effects' = effects, faults' = faults,
           ingest' # "persisted"
    PROVE  OnceInv'
<1>0. Current' = Current /\ Current \in Slots
  BY CurrentIsSlot DEF Current
<1>1. executions = <<>> /\ effects = <<>> /\ \A t \in Slots : ~Executing(t)
  BY DEF OnceInv, StepKnown
<1>2. /\ attempts'[Current].act = act
      /\ attempts'[Current].pc = "ready"
      /\ \A t \in Slots : t # Current => attempts'[t] = attempts[t]
  BY <1>0, StartedType DEF TypeOK
<1>3. \A t \in Slots : Executing(t)' => t = Current
  BY <1>1, <1>2 DEF Executing
<1>4. OneExecutor' /\ NothingBeforeStart'
  BY <1>3 DEF OneExecutor, NothingBeforeStart
<1>5. StepKnown'
  BY <1>0, <1>1, <1>2, <1>3 DEF StepKnown, Executing
<1>6. IdleMeansNone'
  BY <1>0, <1>2 DEF IdleMeansNone, OnceInv, Activity
<1>7. Progress'
  BY <1>0, <1>1, <1>2, <1>3 DEF Progress, BeforeRecord, BeforeEffect
<1>8. AtMostOnce' /\ EffectIsRecorded'
  BY DEF AtMostOnce, EffectIsRecorded, OnceInv
<1> QED
  BY <1>4, <1>5, <1>6, <1>7, <1>8 DEF OnceInv

LEMMA OnceStep == TypeInv /\ OnceInv /\ [Next]_vars => OnceInv'
<1> SUFFICES ASSUME TypeInv, OnceInv, [Next]_vars PROVE OnceInv'
  OBVIOUS
<1>0. TypeOK /\ Current \in Slots /\ attempts \in [Slots -> Attempt]
  BY CurrentIsSlot DEF TypeInv, TypeOK
<1>1. CASE UNCHANGED vars
  BY <1>0, <1>1, OnceQuiet DEF vars, tables, api, Harmless
<1>2. CASE ApiStep
  <2>1. CASE StartWorkflow
    <3>1. wf.step = "collect_evidence" /\ wf'.step = wf.step
      BY <2>1, <1>0 DEF StartWorkflow, OnceInv, NothingBeforeStart, TypeOK
    <3>2. "collect_evidence" \in Activity
      BY DEF Activity
    <3> QED
      BY <2>1, <1>0, <3>1, <3>2, OnceScheduled DEF StartWorkflow, tables
  <2>2. CASE StartRefused \/ IngestDies \/ LinkWorkflow
    BY <2>2, <1>0, OnceQuiet DEF StartRefused, IngestDies, LinkWorkflow, tables,
                                 Harmless
  <2>3. ASSUME NEW o \in Operators, NEW d \in ApprovalDecisionType,
               RetryDecision(o, d)
        PROVE  OnceInv'
    BY <2>3, <1>0, OnceQuiet DEF RetryDecision, tables, Harmless
  <2>4. ASSUME NEW o \in Operators, SignalDelivered(o) \/ SignalFails(o)
        PROVE  OnceInv'
    <3>1. wf'.step = wf.step
      BY <2>4, <1>0 DEF SignalDelivered, SignalFails, TypeOK
    <3> QED
      BY <2>4, <1>0, <3>1, OnceQuiet DEF SignalDelivered, SignalFails, tables,
                                         Harmless
  <2>5. ASSUME NEW d \in ApprovalDecisionType, CheckDecision(d)
        PROVE  OnceInv'
    BY <2>5, <1>0, OnceQuiet DEF CheckDecision, tables, Harmless
  <2>6. ASSUME NEW o \in Operators, RecordDecision(o)
        PROVE  OnceInv'
    BY <2>6, <1>0, OnceQuiet DEF RecordDecision, Harmless
  <2> QED
    BY <1>2, <2>1, <2>2, <2>3, <2>4, <2>5, <2>6 DEF ApiStep
<1>3. ASSUME NEW s \in Slots, AttemptStep(s)
      PROVE  OnceInv'
  <2>0. attempts[s] \in Attempt
    BY <1>0
  <2>1. CASE \/ ClassifyException(s) \/ GenerateRemediationPlan(s)
             \/ EvaluateApprovalGate(s) \/ ApplyDecision(s)
             \/ FinalizeRaises(s) \/ SkipExecution(s) \/ BlockExecution(s)
             \/ CloseCase(s)
    <3>1. /\ attempts[s].act # "none"
          /\ \/ Goto(s, "returned")
             \/ attempts[s].act # "execute_action" /\ Goto(s, "raised")
          /\ UNCHANGED <<executions, effects, ingest, wf, faults>>
      BY <2>1 DEF ClassifyException, GenerateRemediationPlan,
         EvaluateApprovalGate, ApplyDecision, FinalizeRaises, SkipExecution,
         BlockExecution, CloseCase, At, tables, api
    <3>2. \A t \in Slots : Harmless(t)
      BY <3>1, <1>0 DEF Harmless, Goto, Attempt, BeforeRecord, BeforeEffect
    <3> QED
      BY <3>1, <3>2, <1>0, OnceQuiet
  <2>2. CASE CollectEvidence(s) \/ StoreEvidenceItem(s)
    <3>1. /\ attempts[s].act = "collect_evidence"
          /\ \E items, pc : attempts' = [attempts EXCEPT ![s].items = items,
                                                        ![s].pc = pc]
          /\ UNCHANGED <<executions, effects, ingest, wf, faults>>
      BY <2>2 DEF CollectEvidence, StoreEvidenceItem, At, tables, api
    <3>2. \A t \in Slots : Harmless(t)
      BY <3>1, <1>0 DEF Harmless, Attempt
    <3> QED
      BY <3>1, <3>2, <1>0, OnceQuiet
  <2>3. CASE ReadCase(s)
    <3>1. UNCHANGED <<executions, effects, ingest, wf, faults>>
      BY <2>3 DEF ReadCase, tables, api
    <3>2. \A t \in Slots : Harmless(t)
      <4>1. attempts[s].act = "execute_action" /\ attempts[s].pc = "ready"
        BY <2>3 DEF ReadCase, At
      <4>2. CASE Goto(s, "returned")
        BY <4>1, <4>2, <1>0 DEF Harmless, Goto, Attempt, BeforeRecord, BeforeEffect
      <4>3. CASE ~Goto(s, "returned")
        <5> DEFINE d == ExecutionDecision(row.approval)
                   pc == IF d = "execute" THEN "create" ELSE d
        <5>1. \E x : attempts' = [attempts EXCEPT ![s].pc = pc, ![s].action = x]
          BY <2>3, <4>3 DEF ReadCase
        <5>2. pc \in {"create", "skip", "block"}
          BY PolicyTypes
        <5> HIDE DEF d, pc
        <5> QED
          BY <4>1, <5>1, <5>2, <1>0 DEF Harmless, Attempt, BeforeRecord, BeforeEffect
      <4> QED
        BY <4>2, <4>3
    <3> QED
      BY <3>1, <3>2, <1>0, OnceQuiet
  <2>4. CASE MarkStarted(s)
    <3>1. /\ At(s, "execute_action", "mark")
          /\ Goto(s, "call")
          /\ UNCHANGED <<executions, effects, ingest, wf, faults>>
      BY <2>4 DEF MarkStarted, api
    <3>2. \A t \in Slots : Harmless(t)
      BY <3>1, <1>0 DEF Harmless, Goto, At, Attempt, BeforeRecord, BeforeEffect
    <3> QED
      BY <3>1, <3>2, <1>0, OnceQuiet
  <2>5. CASE AdapterMisconfigured(s)
    <3>1. /\ At(s, "execute_action", "call")
          /\ attempts' = [attempts EXCEPT ![s].pc = "record", ![s].outcome = "failed"]
          /\ UNCHANGED <<executions, effects, ingest, wf, faults>>
      BY <2>5 DEF AdapterMisconfigured, tables, api
    <3>2. \A t \in Slots : Harmless(t)
      BY <3>1, <1>0 DEF Harmless, At, Attempt, BeforeRecord, BeforeEffect
    <3> QED
      BY <3>1, <3>2, <1>0, OnceQuiet
  <2>6. CASE ResultDiscarded(s)
    BY <2>6, <1>0, OnceQuiet DEF ResultDiscarded, tables, api, Harmless
  <2>7. CASE CreateExecutionRecord(s) \/ CallAdapter(s) \/ RecordOutcome(s)
    <3>1. /\ attempts[s].act = "execute_action"
          /\ attempts[s].pc \in {"create", "call", "record"}
          /\ UNCHANGED <<ingest, wf, faults>>
      BY <2>7 DEF CreateExecutionRecord, CallAdapter, RecordOutcome, At, api
    <3>2. \A t \in Slots : t # s => ~Executing(t) /\ attempts'[t] = attempts[t]
      BY <2>7, <3>1, <1>0 DEF CreateExecutionRecord, CallAdapter, RecordOutcome,
         Goto, Executing, OnceInv, OneExecutor
    <3>3. /\ attempts'[s].act = "execute_action"
          /\ attempts'[s].action = attempts[s].action
      BY <2>7, <3>1, <2>0, <1>0 DEF CreateExecutionRecord, CallAdapter,
         RecordOutcome, Goto, Attempt
    <3>4. Current' = Current
      BY <3>1 DEF Current
    <3>5. wf.step = "execute_action" /\ ingest # "persisted"
      BY <3>1 DEF OnceInv, StepKnown, NothingBeforeStart, Executing
    <3>6. OneExecutor' /\ NothingBeforeStart'
      BY <3>1, <3>2, <3>5 DEF OneExecutor, NothingBeforeStart, Executing
    <3>7. StepKnown'
      BY <3>1, <3>2, <3>3, <3>4, <3>5, <1>0 DEF StepKnown, OnceInv, Executing
    <3>8. IdleMeansNone'
      BY <3>2, <3>3 DEF IdleMeansNone, OnceInv
    <3>9. /\ attempts'[s].pc # "raised"
          /\ attempts'[s].pc \notin BeforeRecord
          /\ attempts'[s].pc \in BeforeEffect =>
               /\ Len(executions') = 1
               /\ executions'[1].action = attempts[s].action
               /\ effects' = <<>>
          /\ AtMostOnce'
          /\ EffectIsRecorded'
      <4>1. CASE CreateExecutionRecord(s)
        <5>1. executions = <<>> /\ effects = <<>>
          BY <4>1, <3>1 DEF CreateExecutionRecord, At, OnceInv, Progress,
             BeforeRecord, Executing
        <5>2. executions' = <<[action |-> attempts[s].action, status |-> "started"]>>
          BY <4>1, <5>1 DEF CreateExecutionRecord
        <5>3. attempts'[s].pc = "mark" /\ effects' = <<>>
          BY <4>1, <5>1, <2>0, <1>0 DEF CreateExecutionRecord, Attempt
        <5> QED
          BY <5>2, <5>3 DEF BeforeRecord, AtMostOnce, EffectIsRecorded
      <4>2. CASE CallAdapter(s)
        <5>1. /\ Len(executions) = 1
              /\ executions[1].action = attempts[s].action
              /\ effects = <<>>
              /\ executions \in Seq(ExecutionRecord)
          BY <4>2, <3>1, <1>0 DEF CallAdapter, At, OnceInv, Progress,
             BeforeEffect, Executing, TypeOK
        <5>2. effects' = <<attempts[s].action>> /\ executions' = executions
          BY <4>2, <5>1 DEF CallAdapter, tables
        <5>3. attempts'[s].pc = "record"
          BY <4>2, <2>0, <1>0 DEF CallAdapter, Attempt
        <5>4. Len(effects') = 1 /\ DOMAIN effects' = {1} /\ effects'[1] = attempts[s].action
          BY <5>2
        <5>5. 1 \in DOMAIN executions' /\ executions'[1].action = attempts[s].action
          BY <5>1, <5>2
        <5>6. Len(executions') = 1
          BY <5>1, <5>2
        <5>7. EffectIsRecorded'
          BY <5>4, <5>5 DEF EffectIsRecorded
        <5>8. AtMostOnce'
          BY <5>4, <5>6 DEF AtMostOnce
        <5> QED
          BY <5>3, <5>7, <5>8 DEF BeforeRecord, BeforeEffect
      <4>3. CASE RecordOutcome(s)
        <5>1. attempts'[s].pc = "close" /\ effects' = effects
          BY <4>3, <2>0, <1>0 DEF RecordOutcome, Goto, Attempt
        <5>2. /\ executions \in Seq(ExecutionRecord)
              /\ DOMAIN executions' = DOMAIN executions
              /\ Len(executions') = Len(executions)
              /\ \A i \in DOMAIN executions :
                   executions'[i].action = executions[i].action
          <6>1. executions \in Seq(ExecutionRecord)
            BY <1>0 DEF TypeOK
          <6>2. \A i \in DOMAIN executions : executions[i] \in ExecutionRecord
            BY <6>1, ElementOfSeq
          <6>3. PICK id \in DOMAIN executions :
                  executions' = [executions EXCEPT ![id].status = attempts[s].outcome]
            BY <4>3 DEF RecordOutcome
          <6>4. executions' \in Seq(ExecutionRecord)
            BY <4>3, TypeStep DEF TypeInv, TypeOK
          <6> QED
            BY <6>1, <6>2, <6>3, <6>4 DEF ExecutionRecord
        <5> QED
          BY <5>1, <5>2 DEF BeforeRecord, BeforeEffect, OnceInv, AtMostOnce,
             EffectIsRecorded
      <4> QED
        BY <2>7, <4>1, <4>2, <4>3
    <3>10. Progress'
      BY <3>2, <3>3, <3>9 DEF Progress, Executing
    <3> QED
      BY <3>6, <3>7, <3>8, <3>9, <3>10 DEF OnceInv
  <2>8. CASE FinalizeApprovalDecision(s)
    <3>1. /\ attempts[s].act = "finalize_approval_decision"
          /\ \E pc, x : attempts' = [attempts EXCEPT ![s].pc = pc, ![s].loaded = x]
          /\ UNCHANGED <<executions, effects, ingest, wf, faults>>
      BY <2>8 DEF FinalizeApprovalDecision, At, tables, api
    <3>2. \A t \in Slots : Harmless(t)
      BY <3>1, <1>0 DEF Harmless, Attempt
    <3> QED
      BY <3>1, <3>2, <1>0, OnceQuiet
  <2> QED
    BY <1>3, <2>1, <2>2, <2>3, <2>4, <2>5, <2>6, <2>7, <2>8 DEF AttemptStep
<1>4. CASE WorkflowStep
  <2>1. CASE WorkflowAdvances
    <3> DEFINE next == NextStep(attempts[Current].act)
    <3>1. /\ attempts[Current].pc = "returned"
          /\ attempts[Current].act # "execute_action"
          /\ wf' = [wf EXCEPT !.step = next]
          /\ attempts' = [attempts EXCEPT
                ![Current] = IF next = "wait" THEN Idle ELSE Started(next, 0)]
          /\ UNCHANGED <<executions, effects, ingest, faults>>
      BY <2>1 DEF WorkflowAdvances, tables, api
    <3>2. next = "wait" \/ next \in Activity
      BY DEF NextStep, Activity
    <3> HIDE DEF next
    <3>3. attempts[Current].act # "none" /\ wf.step # "execute_action"
      BY <3>1, <1>0 DEF OnceInv, IdleMeansNone, StepKnown
    <3>4. ingest' # "persisted" /\ wf'.step = next
      BY <3>1, <3>3, <1>0 DEF OnceInv, NothingBeforeStart, TypeOK
    <3>5. CASE next = "wait"
      <4>1. /\ attempts' = [attempts EXCEPT ![Current] = Idle]
            /\ executions = <<>> /\ effects = <<>>
            /\ \A t \in Slots : ~Executing(t)
        BY <3>1, <3>3, <3>5 DEF OnceInv, StepKnown
      <4>2. \A t \in Slots : attempts'[t] = attempts[t] \/ attempts'[t] = Idle
        BY <4>1, <1>0
      <4>3. \A t \in Slots : ~Executing(t)'
        BY <4>1, <4>2, IdleType DEF Executing
      <4>4. Current' = Current /\ attempts'[Current].act = "none"
        BY <3>1, <4>1, <1>0, IdleType DEF Current
      <4> QED
        BY <3>1, <3>4, <4>1, <4>2, <4>3, <4>4, IdleType DEF OnceInv, OneExecutor,
           StepKnown, NothingBeforeStart, IdleMeansNone, Progress, AtMostOnce,
           EffectIsRecorded
    <3>6. CASE next # "wait"
      BY <3>1, <3>2, <3>3, <3>4, <3>6, <1>0, OnceScheduled
    <3> QED
      BY <3>5, <3>6
  <2>2. CASE WaitSatisfied
    <3>1. /\ wf.step = "wait"
          /\ wf' = [wf EXCEPT !.step = "finalize_approval_decision"]
          /\ attempts' = [attempts EXCEPT
               ![Current] = Started("finalize_approval_decision", wf.signal)]
          /\ UNCHANGED <<executions, effects, ingest, faults>>
      BY <2>2 DEF WaitSatisfied, tables, api
    <3>2. /\ wf'.step = "finalize_approval_decision"
          /\ wf.signal \in Nat
          /\ ingest' # "persisted"
          /\ "finalize_approval_decision" \in Activity
      BY <3>1, <1>0 DEF TypeOK, OnceInv, NothingBeforeStart, Activity
    <3> QED
      BY <3>1, <3>2, <1>0, OnceScheduled
  <2>3. CASE WorkflowCompletes
    <3>1. wf'.step = wf.step
      BY <2>3, <1>0 DEF WorkflowCompletes, TypeOK
    <3> QED
      BY <2>3, <3>1, <1>0, OnceQuiet DEF WorkflowCompletes, tables, api, Harmless
  <2>4. CASE RetryAfterError
    <3>1. /\ attempts[Current].act # "none"
          /\ attempts[Current].act # "execute_action"
      BY <2>4, <1>0 DEF RetryAfterError, OnceInv, IdleMeansNone, Progress, Executing
    <3>2. \A t \in Slots : Harmless(t)
      BY <2>4, <3>1, <1>0 DEF RetryAfterError, Goto, Harmless, Attempt
    <3> QED
      BY <2>4, <3>2, <1>0, OnceQuiet DEF RetryAfterError, tables, api
  <2> QED
    BY <1>4, <2>1, <2>2, <2>3, <2>4 DEF WorkflowStep
<1>5. CASE Fault
  <2>1. PICK late \in BOOLEAN : AttemptLost(late)
    BY <1>5 DEF Fault
  <2> DEFINE lost == attempts[Current]
             again == lost.act \notin SingleAttempt
             kept == IF late THEN lost ELSE Idle
             ref == IF lost.act = "finalize_approval_decision" THEN lost.ref ELSE 0
             fresh == IF again THEN Started(lost.act, ref) ELSE Idle
  <2>2. /\ faults < MaxFaults
        /\ lost.act # "none"
        /\ faults' = faults + 1
        /\ wf' = IF again THEN wf ELSE [wf EXCEPT !.status = "failed"]
        /\ attempts' = [attempts EXCEPT ![Current] = kept, ![Current + 1] = fresh]
        /\ UNCHANGED <<executions, effects, ingest>>
    BY <2>1 DEF AttemptLost, tables, api
  <2>3. /\ Current \in Slots /\ Current + 1 \in Slots
        /\ Current' = Current + 1 /\ Current # Current + 1
    BY <2>2, <1>0, DomainsHold DEF TypeOK, Current, Slots, Domains
  <2>4. wf'.step = wf.step /\ wf.step = lost.act /\ ingest # "persisted"
    BY <2>2, <2>3, <1>0 DEF TypeOK, OnceInv, StepKnown, NothingBeforeStart
  <2>5. lost \in Attempt /\ lost.act \in Activity /\ ref \in Nat
    BY <2>2, <2>3, <1>0 DEF Attempt
  <2>6. /\ fresh = Idle \/ (fresh.act = lost.act /\ lost.act # "execute_action")
        /\ fresh.act = "none" => fresh.pc = "idle"
    <3>1. CASE again
      <4>1. lost.act # "execute_action"
        BY <3>1 DEF SingleAttempt
      <4>2. fresh = Started(lost.act, ref)
        BY <3>1
      <4> HIDE DEF lost, ref, fresh, again
      <4>3. Started(lost.act, ref).act = lost.act
        BY <2>5, StartedType
      <4>4. fresh.act = lost.act
        BY <4>2, <4>3
      <4>5. fresh.act # "none"
        BY <4>4, <2>2
      <4> QED
        BY <4>1, <4>4, <4>5
    <3>2. CASE ~again
      BY <3>2, IdleType
    <3> QED
      BY <3>1, <3>2
  <2> HIDE DEF lost, again, ref, fresh
  <2>7. /\ attempts'[Current + 1] = fresh
        /\ \A t \in Slots : t # Current + 1 =>
              attempts'[t] = attempts[t] \/ attempts'[t] = Idle
    BY <2>2, <2>3, <1>0 DEF lost
  <2>8. \A t \in Slots : Executing(t)' => attempts'[t] = attempts[t] /\ Executing(t)
    BY <2>6, <2>7, IdleType DEF Executing
  <2>9. OneExecutor' /\ NothingBeforeStart'
    BY <2>2, <2>4, <2>8 DEF OneExecutor, NothingBeforeStart, OnceInv
  <2>10. StepKnown'
    BY <2>2, <2>3, <2>4, <2>6, <2>7, <2>8, IdleType DEF StepKnown, OnceInv
  <2>11. IdleMeansNone'
    BY <2>6, <2>7, IdleType DEF IdleMeansNone, OnceInv
  <2>12. Progress'
    BY <2>2, <2>8 DEF Progress, OnceInv
  <2>13. AtMostOnce' /\ EffectIsRecorded'
    BY <2>2 DEF AtMostOnce, EffectIsRecorded, OnceInv
  <2> QED
    BY <2>9, <2>10, <2>11, <2>12, <2>13 DEF OnceInv
<1> QED
  BY <1>1, <1>2, <1>3, <1>4, <1>5 DEF Next

LEMMA OnceInvariance == Spec => []OnceInv
BY OnceInit, OnceStep, TypeInvariance, PTL DEF Spec

(* A case is executed at most once, whatever attempts are lost and however *)
(* long a lost attempt goes on writing.                                    *)
THEOREM ExecutedAtMostOnce == Spec => []AtMostOnce
<1>1. OnceInv => AtMostOnce
  BY DEF OnceInv
<1> QED
  BY <1>1, OnceInvariance, PTL

(* Whatever the adapter was asked to do stands in a committed record.      *)
THEOREM EffectsAreRecorded == Spec => []EffectIsRecorded
<1>1. OnceInv => EffectIsRecorded
  BY DEF OnceInv
<1> QED
  BY <1>1, OnceInvariance, PTL

-----------------------------------------------------------------------------
(* The implementation of GatedExecution. A decision an operator records is *)
(* Decide, the call of the adapter is Perform, everything else stutters.   *)

LEMMA GatedQuiet ==
    ASSUME UNCHANGED <<row.risk, decisions, effects>>
    PROVE  [Gated!Next]_Gated!gatedVars
BY DEF Gated!gatedVars

LEMMA GatedStep ==
    ASSUME TypeInv, GateInv, OnceInv, [Next]_vars
    PROVE  [Gated!Next]_Gated!gatedVars
<1>1. row'.risk = row.risk
  BY PermittedGrows
<1>2. CASE UNCHANGED <<decisions, effects>>
  BY <1>1, <1>2, GatedQuiet
<1>3. ASSUME NEW o \in Operators, RecordDecision(o)
      PROVE  Gated!Decide
  <2>1. row.risk # "low"
    BY <1>3 DEF RecordDecision, GateInv, CheckedIsReviewed
  <2>2. /\ decisions' = Append(decisions, checked.decision)
        /\ effects' = effects
        /\ checked.decision \in ApprovalDecisionType
    BY <1>3 DEF RecordDecision, TypeInv, TypeOK, CheckedMeans, Checked
  <2> QED
    BY <1>1, <2>1, <2>2 DEF Gated!Decide, Gated!ApprovalDecisionType,
                            ApprovalDecisionType
<1>4. ASSUME NEW s \in Slots, CallAdapter(s)
      PROVE  Gated!Perform
  <2>1. At(s, "execute_action", "call") /\ UNCHANGED decisions
    BY <1>4 DEF CallAdapter, tables
  <2>2. Permitted
    BY <2>1 DEF At, GateInv, ExecutorIsPermitted
  <2>3. /\ Len(executions) = 1
        /\ executions[1].action = attempts[s].action
        /\ effects = <<>>
    BY <2>1 DEF At, OnceInv, Progress, Executing, BeforeEffect
  <2>4. attempts[s].action \in ExecutionAction
    <3>1. executions \in Seq(ExecutionRecord) /\ 1 \in 1 .. Len(executions)
      BY <2>3 DEF TypeInv, TypeOK
    <3>2. executions[1] \in ExecutionRecord
      BY <3>1, ElementOfSeq
    <3> QED
      BY <3>2, <2>3 DEF ExecutionRecord
  <2>5. effects' = <<attempts[s].action>>
    BY <1>4, <2>3 DEF CallAdapter
  <2>6. Gated!Permitted
    BY <2>2 DEF Permitted, Approved, Gated!Permitted
  <2> QED
    BY <1>1, <2>1, <2>3, <2>4, <2>5, <2>6 DEF Gated!Perform,
       Gated!ExecutionAction, ExecutionAction
<1>5. \/ UNCHANGED <<decisions, effects>>
      \/ \E o \in Operators : RecordDecision(o)
      \/ \E s \in Slots : CallAdapter(s)
  BY DEF Next, ApiStep, AttemptStep, WorkflowStep, Fault, vars, tables,
     StartWorkflow, StartRefused, LinkWorkflow, IngestDies, CheckDecision,
     RetryDecision, SignalDelivered, SignalFails, CollectEvidence, StoreEvidenceItem,
     ClassifyException, GenerateRemediationPlan, EvaluateApprovalGate,
     FinalizeApprovalDecision, ApplyDecision, FinalizeRaises, ReadCase,
     SkipExecution, BlockExecution, CreateExecutionRecord, MarkStarted, AdapterMisconfigured,
     RecordOutcome, CloseCase, ResultDiscarded, WorkflowAdvances,
     WaitSatisfied, WorkflowCompletes, RetryAfterError, AttemptLost
<1> QED
  BY <1>2, <1>3, <1>4, <1>5 DEF Gated!Next

(* The detailed system implements the abstract one: at most one action is  *)
(* performed for a case, and only when it is low risk or approved.         *)
THEOREM Implementation == Spec => ImplementsGate
<1>1. Init => Gated!Init
  BY DEF Init, NewCase, Gated!Init, Gated!RiskLevel, RiskLevel
<1>2. Spec => []GateInv
  BY GateInit, GateStep, TypeInvariance, PTL DEF Spec
<1>3. TypeInv /\ GateInv /\ OnceInv /\ [Next]_vars
        => [Gated!Next]_Gated!gatedVars
  BY GatedStep
<1> QED
  BY <1>1, <1>2, <1>3, TypeInvariance, OnceInvariance, PTL
     DEF Spec, ImplementsGate, Gated!Spec
=============================================================================
