------------------------------ MODULE MCCorpus ------------------------------
(***************************************************************************)
(* Three selections: the corpus of fixtures/v1_cases.json, alone and as a  *)
(* whole; one request of every risk and decision, to every stage; and      *)
(* every fixture that can be made of few requests, under many settings.    *)
(***************************************************************************)
EXTENDS Corpus

(* What Collected may be in a case that has not been executed.             *)
SomeEvidence ==
    {<<"failed">>, <<"succeeded", "succeeded">>,
     <<"succeeded", "succeeded", "failed">>}

AllActions == ExecutionAction
Overrides ==
    {NoOverrides, [execution_adapter |-> "other"],
     [ai_provider |-> "openai", openai_api_key |-> FALSE]}
FixtureOverrides ==
    {DOMAIN o : o \in Overrides \cup {e.overrides : e \in Range(V1Cases)}}

(* The settings of .env.example, and those that differ from it in the     *)
(* model service or in one adapter.                                        *)
Example ==
    [ai_enabled |-> TRUE, ai_provider |-> "mock", openai_api_key |-> FALSE,
     evidence_adapter |-> "mock", execution_adapter |-> "mock"]
AnyModel ==
    {s \in Settings :
       /\ s.evidence_adapter = "mock" /\ s.execution_adapter = "mock"
       /\ s.openai_api_key => s.ai_provider = "openai" /\ s.ai_enabled}
Deviating ==
    AnyModel \cup {[Example EXCEPT ![f] = "other"] :
                     f \in {"evidence_adapter", "execution_adapter"}}

Selecting(corpora, ambient, until) ==
    [corpus: corpora, settings: ambient, until: until]

V1Corpora == {<<V1Cases[i]>> : i \in DOMAIN V1Cases} \cup {V1Cases}

AnyDecision == ApprovalDecisionType \cup {"none"}
Fixtures(requests, overrides) ==
    {<<[request |-> r, overrides |-> o, decision |-> d, expected |-> NoOverrides]>> :
       r \in requests, o \in overrides, d \in AnyDecision}

(* Any plan, by a model that may say anything.                             *)
OfAnyRisk == {Fixed("unknown", risk, {}, {}) : risk \in RiskLevel}
AnyAnswer == {[Example EXCEPT !.ai_provider = "openai", !.openai_api_key = TRUE]}

Requests ==
    {r \in Request : /\ r.type \in {"unknown", "missing_document"}
                     /\ r.mentions \in {{}, {"duplicate", "provider"}}
                     /\ r.risk \in {"low", "high"}
                     /\ Cardinality(r.flags) <= 1}

Selected ==
    Selecting(V1Corpora, {Example}, ReplayStage)
    \cup Selecting(Fixtures(OfAnyRisk, {NoOverrides}), AnyAnswer, ReplayStage)
    \cup Selecting(Fixtures(Requests, Overrides), Deviating, {"execution"})

(* The expectations are those that the proofs are about.                   *)
ASSUME SelectedExpectations == OnlyV1CasesExpect
=============================================================================
