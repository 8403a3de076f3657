------------------------------- MODULE Replay -------------------------------
(***************************************************************************)
(* A fixture replayed by replay.py: the same activities as the workflow's, *)
(* called one after the other in one process, on a case of its own, with a *)
(* decision that the fixture may bring. There is no Temporal: an activity  *)
(* is called once, and when it raises, the replay raises. The replay runs  *)
(* under settings that the fixture overrides for the whole process.        *)
(* The case is never linked to a workflow, so that the API refuses every   *)
(* decision on it (CheckDecision and RetryDecision are disabled) and the   *)
(* driver is the only actor.                                               *)
(***************************************************************************)
EXTENDS CaseResolution

CONSTANTS
    OverrideSets      \* the sets of settings that fixtures override

SettingsField == {"ai_provider", "ai_model", "openai_api_key",
                  "evidence_adapter", "execution_adapter"}

ASSUME OverridesAssumption == OverrideSets \subseteq SUBSET SettingsField

VARIABLES
    fixture,          \* the fixture's decision and overrides, and until_stage
    driver,           \* where replay_fixture is, and what it has reported
    overridden        \* the settings that hold a value of the fixture

replayVars == <<fixture, driver, overridden>>

ReplayStage == {"evidence", "classification", "remediation", "approval_gate",
                "approval_decision", "execution"}
Fixture == [decision: ApprovalDecisionType \cup {"none"},
            overrides: OverrideSets, until: ReplayStage]

(* "failed" stands for an error that no activity handles, "raised" for the *)
(* ValueErrors of the driver and of what it calls.                         *)
Driver == [pc: {"running", "stopped", "raised", "failed"}, stage: ReplayStage]

Stage(act) ==
    CASE act = "collect_evidence" -> "evidence"
      [] act = "classify_exception" -> "classification"
      [] act = "generate_remediation_plan" -> "remediation"
      [] act = "evaluate_approval_gate" -> "approval_gate"
      [] act = "finalize_approval_decision" -> "approval_decision"
      [] act = "execute_action" -> "execution"

ReplayTypeOK ==
    /\ TypeOK
    /\ fixture \in Fixture
    /\ driver \in Driver
    /\ overridden \subseteq SettingsField

(* The overrides are applied, the case is committed, evidence is next.     *)
ReplayInit ==
    /\ NewCase
    /\ ingest = "dead"
    /\ attempts = [s \in Slots |-> Started("collect_evidence", 0)]
    /\ fixture \in Fixture
    /\ driver = [pc |-> "running", stage |-> "evidence"]
    /\ overridden = fixture.overrides

(* Mutant of Restored: the settings are put back by nobody but a handler   *)
(* of the error.                                                           *)
RestoredOnError(pc) == IF pc = "stopped" THEN overridden ELSE {}

(* The settings when the driver leaves: put back by the finally clause.    *)
Restored(pc) == {}

Leave(pc) ==
    /\ driver' = [driver EXCEPT !.pc = pc]
    /\ overridden' = Restored(pc)
    /\ UNCHANGED <<tables, effects, api, wf, attempts, faults, fixture>>

Call(act, ref) ==
    /\ attempts' = [attempts EXCEPT ![Current] = Started(act, ref)]
    /\ driver' = [driver EXCEPT !.stage = Stage(act)]
    /\ UNCHANGED <<effects, api, wf, faults, fixture, overridden>>

(* One step of the activity the driver is awaiting.                        *)
ActivityStep ==
    /\ driver.pc = "running"
    /\ AttemptStep(Current)
    /\ UNCHANGED replayVars

ActivityFails ==
    /\ driver.pc = "running"
    /\ attempts[Current].pc # "returned"
    /\ Leave(IF attempts[Current].pc = "raised" THEN "raised" ELSE "failed")

Returned(stage) ==
    /\ driver = [pc |-> "running", stage |-> stage]
    /\ attempts[Current].pc = "returned"

(* The gate has left the case pending and the fixture brings no decision.  *)
DecisionMissing == fixture.decision = "none" /\ row.approval = "pending"

(* The replay ends after a stage: it was the last one asked for, or the    *)
(* last one that this case can be taken through.                           *)
StopAfter(stage) ==
    /\ Returned(stage)
    /\ \/ stage \in {fixture.until, "execution"}
       \/ stage = "approval_gate" /\ DecisionMissing
    /\ Leave("stopped")

NextStage(stage) ==
    /\ stage \in {"evidence", "classification", "remediation", "approval_decision"}
    /\ Returned(stage)
    /\ stage # fixture.until
    /\ Call(NextStep(attempts[Current].act), 0)
    /\ UNCHANGED tables

(* create_approval_decision with the fixture's decision: nobody else       *)
(* writes the row between its check and its commit.                        *)
DecideByFixture ==
    /\ Returned("approval_gate")
    /\ fixture.until # "approval_gate"
    /\ fixture.decision # "none"
    /\ row.approval = "pending"
    /\ decisions' = Append(decisions, fixture.decision)
    /\ row' = DecisionCommitted(Loaded, TargetState(fixture.decision))
    /\ Call("finalize_approval_decision", Len(decisions'))
    /\ UNCHANGED <<reviewed, executions>>

(* A decision for a case that takes none, or none for a stage that needs   *)
(* one.                                                                    *)
FixtureMisfits ==
    /\ Returned("approval_gate")
    /\ fixture.until # "approval_gate"
    /\ \/ fixture.decision # "none" /\ row.approval # "pending"
       \/ /\ fixture.decision = "none" /\ row.approval # "pending"
          /\ fixture.until = "approval_decision"
    /\ Leave("raised")

ExecuteUndecided ==
    /\ Returned("approval_gate")
    /\ fixture.until = "execution"
    /\ fixture.decision = "none" /\ row.approval # "pending"
    /\ Call("execute_action", 0)
    /\ UNCHANGED tables

(* What the driver itself does, from stage to stage.                       *)
DriverStep ==
    \/ ActivityFails
    \/ \E stage \in ReplayStage : StopAfter(stage) \/ NextStage(stage)
    \/ DecideByFixture \/ FixtureMisfits \/ ExecuteUndecided

-----------------------------------------------------------------------------
(* A replay raises only when the fixture does not fit its case: a decision *)
(* for a low risk case, or the decision stage of one without. What         *)
(* finalize_approval_decision checks cannot fail here, although the row    *)
(* says already what it is about to apply.                                 *)
RaisesOnlyForAMisfit ==
    driver.pc = "raised" =>
        /\ row.risk = "low"
        /\ fixture.decision # "none" \/ fixture.until = "approval_decision"

(* A replay leaves the records of exactly the stages up to the one it      *)
(* reports as its last, so that a case stopped at the gate looks to an     *)
(* operator like any case that waits.                                      *)
StopsWhereItSays ==
    driver.pc = "stopped" =>
        LET upTo(stages) == driver.stage \in stages IN
          /\ classifications = (IF upTo({"evidence"}) THEN 0 ELSE 1)
          /\ Len(plans) = (IF upTo({"evidence", "classification"}) THEN 0 ELSE 1)
          /\ row.approval = "pending_policy"
               <=> upTo({"evidence", "classification", "remediation"})
          /\ row.approval = "pending" => upTo({"approval_gate"})
          /\ upTo({"approval_decision"}) => row.approval = fixture.decision
          /\ row.execution # "pending" <=> upTo({"execution"})
=============================================================================
