------------------------------- MODULE Corpus -------------------------------
(***************************************************************************)
(* The replay of a corpus of fixtures, one after the other in one process, *)
(* as the command line of replay.py does it. It is Replay with the request *)
(* of every fixture, with the settings that the process runs under, and    *)
(* with services that answer as those settings configure them, so that the *)
(* outcome of a fixture can be compared with what it expects. An error     *)
(* ends the whole replay.                                                  *)
(***************************************************************************)
EXTENDS Replay, Services

CONSTANTS
    Selections        \* the fixtures that may be selected, the settings of
                      \* the process, and the stage it is told to stop after

(* Settings with the fields of overrides that are settings of their own.   *)
Overriding(base, overrides) ==
    [f \in DOMAIN base |-> IF f \in DOMAIN overrides THEN overrides[f] ELSE base[f]]

(* What ReplayFixture admits: a request, a decision or none, and overrides *)
(* that are values of settings.                                            *)
ValidEntry(entry) ==
    /\ entry.request \in Request
    /\ entry.decision \in ApprovalDecisionType \cup {"none"}
    /\ DOMAIN entry.overrides \in OverrideSets
    /\ \A base \in Settings : Overriding(base, entry.overrides) \in Settings

Entries == UNION {Range(s.corpus) : s \in Selections}

(* _run_cli refuses a selection without fixtures.                          *)
ASSUME SelectionsAssumption ==
    \A s \in Selections :
        /\ s.corpus \in Seq(Entries) \ {<<>>}
        /\ s.settings \in Settings
        /\ s.until \in ReplayStage
ASSUME EntriesAssumption == \A entry \in Entries : ValidEntry(entry)

VARIABLES
    corpus,           \* the fixture under replay and those still to come
    settings,         \* the settings of the process
    original,         \* what the fixture's overrides have hidden
    ai                \* the newest classification and remediation record

corpusVars == <<corpus, settings, original, ai>>

Entry == Head(corpus)
NoRecords ==
    [classification |-> [status |-> "none", type |-> NoType],
     remediation |-> [status |-> "none", action |-> NoAction, blockers |-> {}]]

FixtureOf(entry, until) ==
    [decision |-> entry.decision, overrides |-> DOMAIN entry.overrides,
     until |-> until]

CorpusInit ==
    /\ \E s \in Selections :
         /\ corpus = s.corpus
         /\ original = s.settings
         /\ fixture = FixtureOf(Entry, s.until)
    /\ settings = Overriding(original, Entry.overrides)
    /\ ai = NoRecords
    /\ ReplayInit
    /\ row.risk = Entry.request.risk

-----------------------------------------------------------------------------
(* The activities, answered by the services.                               *)

CollectsEvidence ==
    /\ At(Current, "collect_evidence", "ready")
    /\ ActivityStep
    /\ attempts'[Current].items =
         Collected(Entry.request, settings, executions # <<>>)
    /\ UNCHANGED corpusVars

Classifies ==
    /\ At(Current, "classify_exception", "ready")
    /\ ActivityStep
    /\ \E c \in Classifications(Entry.request, settings) :
         ai' = [ai EXCEPT !.classification = c]
    /\ UNCHANGED <<corpus, settings, original>>

Plans ==
    /\ At(Current, "generate_remediation_plan", "ready")
    /\ ActivityStep
    /\ \E p \in Remediations(Entry.request, ai.classification, evidence, settings) :
         /\ Last(plans') = p.action
         /\ ai' = [ai EXCEPT !.remediation = p]
    /\ UNCHANGED <<corpus, settings, original>>

Acts ==
    /\ At(Current, "execute_action", "call")
    /\ ActivityStep
    /\ LET answer == AdapterAnswer(Entry.request, settings) IN
         /\ (effects' = effects) <=> answer = "misconfigured"
         /\ attempts'[Current].outcome =
              (IF answer = "succeeded" THEN "succeeded" ELSE "failed")
    /\ UNCHANGED corpusVars

(* The steps that ask no service.                                          *)
WorksAlone ==
    /\ ~At(Current, "collect_evidence", "ready")
    /\ ~At(Current, "classify_exception", "ready")
    /\ ~At(Current, "generate_remediation_plan", "ready")
    /\ ~At(Current, "execute_action", "call")
    /\ ActivityStep
    /\ UNCHANGED corpusVars

(* replay_fixture goes from stage to stage; where it leaves, the settings  *)
(* are what they were, if it puts them back.                               *)
Drives ==
    /\ DriverStep
    /\ settings' = IF driver'.pc # "running" /\ overridden' = {} THEN original
                                                                ELSE settings
    /\ UNCHANGED <<corpus, original, ai>>

(* The next fixture of the corpus gets a case of its own.                  *)
NextFixture ==
    /\ driver.pc = "stopped"
    /\ Len(corpus) > 1
    /\ corpus' = Tail(corpus)
    /\ original' = settings
    /\ settings' = Overriding(settings, Entry'.overrides)
    /\ ai' = NoRecords
    /\ row' = [risk |-> Entry'.request.risk, status |-> "ingested",
               lifecycle |-> "started", approval |-> "pending_policy",
               execution |-> "pending", linked |-> FALSE]
    /\ evidence' = <<>> /\ classifications' = 0 /\ plans' = <<>>
    /\ decisions' = <<>> /\ executions' = <<>> /\ effects' = <<>>
    /\ attempts' = [s \in Slots |-> Started("collect_evidence", 0)]
    /\ fixture' = FixtureOf(Entry', fixture.until)
    /\ driver' = [pc |-> "running", stage |-> "evidence"]
    /\ overridden' = DOMAIN Entry'.overrides
    /\ UNCHANGED <<api, wf, faults>>

CorpusNext ==
    \/ CollectsEvidence \/ Classifies \/ Plans \/ Acts \/ WorksAlone
    \/ Drives \/ NextFixture

CorpusSpec == CorpusInit /\ [][CorpusNext]_<<vars, replayVars, corpusVars>>

-----------------------------------------------------------------------------
(* The corpus of fixtures/v1_cases.json: the requests, what their summary  *)
(* mentions, and what they expect.                                         *)
Fixed(type, risk, mentions, flags) ==
    [type |-> type, risk |-> risk, mentions |-> mentions, reference |-> TRUE,
     flags |-> flags]

(* A case that needs no decision and is executed as the model proposes.    *)
Smooth(type, action) ==
    [approval |-> "not_required", execution |-> "succeeded",
     lifecycle |-> "completed", classification |-> "succeeded",
     remediation |-> "succeeded", type |-> type, advised |-> action,
     action |-> action, record |-> "succeeded", succeeded |-> 2, failed |-> 0]

NoOverrides == [f \in {} |-> TRUE]
V1Cases ==
    LET retry == "retry_provider_after_validation"
        provider(risk, mentions) == Fixed("provider_failure", risk, mentions, {})
    IN <<[request |-> provider("medium", {"payout", "provider"}),
          overrides |-> NoOverrides, decision |-> "approved",
          expected |-> [Smooth("provider_failure", retry)
                          EXCEPT !.approval = "approved"]],
         [request |-> Fixed("missing_document", "low", {"payout"}, {}),
          overrides |-> NoOverrides, decision |-> "none",
          expected |-> Smooth("missing_document", "request_missing_document")],
         [request |-> Fixed("duplicate_record_risk", "low", {"duplicate"},
                            {"force_related_lookup_failure"}),
          overrides |-> NoOverrides, decision |-> "none",
          expected |-> [Smooth("duplicate_record_risk", "review_duplicate_records")
                          EXCEPT !.failed = 1]],
         [request |-> provider("low", {"payout", "provider"}),
          overrides |-> [ai_provider |-> "openai", ai_model |-> "gpt-5.4-mini",
                         openai_api_key |-> FALSE],
          decision |-> "none",
          expected |-> [Smooth(NoType, NoAction)
                          EXCEPT !.action = "manual_triage",
                                 !.classification = "failed",
                                 !.remediation = "failed"]],
         [request |-> provider("low", {"provider"}),
          overrides |-> [execution_adapter |-> "other"], decision |-> "none",
          expected |-> [Smooth("provider_failure", retry)
                          EXCEPT !.execution = "failed", !.lifecycle = "failed",
                                 !.record = "failed"]]>>

-----------------------------------------------------------------------------
(* What a replay reports, read back from the tables.                       *)
Count(status) == Cardinality({i \in DOMAIN evidence : evidence[i] = status})

Outcome ==
    [approval |-> row.approval, execution |-> row.execution,
     lifecycle |-> row.lifecycle,
     classification |-> ai.classification.status,
     remediation |-> ai.remediation.status,
     type |-> ai.classification.type, advised |-> ai.remediation.action,
     action |-> IF executions = <<>> THEN NoAction ELSE Last(executions).action,
     record |-> IF executions = <<>> THEN "none" ELSE Last(executions).status,
     succeeded |-> Count("succeeded"), failed |-> Count("failed")]

(* The fields of an outcome that are not what the fixture expects.         *)
Mismatches(expected) ==
    {f \in DOMAIN expected : Outcome[f] # expected[f]}

Replayed == driver.pc = "stopped" /\ driver.stage = "execution"

(* Every case of a replay implements the abstract promise of the workflow, *)
(* and the next fixture begins with a case that nobody has acted on.       *)
EachCaseImplementsGate ==
    /\ Gated!Init
    /\ [][Gated!Next \/ (NextFixture /\ Gated!Init')]_<<row.risk, decisions, effects>>

(* fixtures/v1_cases.json: replayed under the settings of .env.example,    *)
(* alone or in the order of the corpus, every fixture that comes to its    *)
(* end comes out as it expects. (Other fixtures expect nothing.)           *)
CorpusMeetsExpectations == Replayed => Mismatches(Entry.expected) = {}

(* Selections in which nothing else expects anything, and the fixtures of  *)
(* the corpus are replayed with the services they are written for.         *)
MockServices(base) ==
    /\ base.ai_enabled /\ base.ai_provider = "mock"
    /\ base.evidence_adapter = "mock" /\ base.execution_adapter = "mock"
Expecting(entries, base) ==
    \A i \in DOMAIN entries :
        \/ DOMAIN entries[i].expected = {}
        \/ entries[i] \in Range(V1Cases) /\ MockServices(base)
OnlyV1CasesExpect == \A s \in Selections : Expecting(s.corpus, s.settings)

(* A reference for the outcome of any fixture under any settings, without  *)
(* the stages: the risk alone decides on the gate, the fixture behind it;  *)
(* neither a model nor an adapter that fails, nor failed evidence, stops a *)
(* case short of an outcome, only the execution adapter fails one, and a   *)
(* plan that did not succeed is replaced by manual triage.                 *)
OutcomePredicted ==
    Replayed =>
      LET used == Overriding(original, Entry.overrides)
          verdict == IF Entry.request.risk = "low" THEN "not_required"
                                                   ELSE Entry.decision
          result == IF verdict = "rejected" THEN "skipped"
                    ELSE IF AdapterAnswer(Entry.request, used) = "succeeded"
                         THEN "succeeded" ELSE "failed"
          planned == ai.remediation.status = "succeeded"
          heuristic == planned /\ used.ai_provider = "mock"
          typed == [Entry.request EXCEPT !.type = NormalizedType(Entry.request)]
      IN  /\ Outcome.approval = verdict
          /\ Outcome.execution = result
          /\ Outcome.lifecycle = IF result = "failed" THEN "failed" ELSE "completed"
          /\ Outcome.record = IF result = "skipped" THEN "none" ELSE result
          /\ Outcome.action = IF result = "skipped" THEN NoAction
                              ELSE IF planned THEN Outcome.advised
                              ELSE "manual_triage"
          /\ heuristic => /\ Outcome.advised = ActionMap[typed.type]
                          /\ ai.remediation.blockers = Blockers(Entry.request, evidence)
          /\ Outcome.succeeded + Outcome.failed \in 1 .. 3
=============================================================================
