------------------------------ MODULE Services ------------------------------
(***************************************************************************)
(* The services behind the activities as functions of a case and of the    *)
(* settings: the evidence adapter, the language model service with its     *)
(* providers, and the execution adapter. CaseResolution lets each of them  *)
(* answer anything; here each answers what it is configured to. The OpenAI *)
(* provider is external: it gives any valid answer or fails.               *)
(***************************************************************************)
EXTENDS Domain, Integers, Sequences, FiniteSetsExt

ExceptionType ==
    {"payout_mismatch", "missing_document", "duplicate_record_risk",
     "provider_failure", "unknown"}
AIRecordStatus == {"succeeded", "failed"}

(* What the heuristics look for in a summary, in the order they look:      *)
(* "payout" stands for payout or reconciliation, "provider" for provider,  *)
(* timeout or 502.                                                         *)
Keyword == <<"document", "duplicate", "payout", "provider">>
KeywordType ==
    [document |-> "missing_document", duplicate |-> "duplicate_record_risk",
     payout |-> "payout_mismatch", provider |-> "provider_failure"]

(* The switches of the mock adapters in a case's raw context.              *)
Flag == {"force_evidence_failure", "force_related_lookup_failure",
         "force_execution_failure"}

Request ==
    [type: ExceptionType, risk: RiskLevel, mentions: SUBSET Range(Keyword),
     reference: BOOLEAN, flags: SUBSET Flag]

(* "other" is any name the factories do not know, TRUE a key that is set.  *)
Settings ==
    [ai_enabled: BOOLEAN, ai_provider: {"mock", "openai", "other"},
     openai_api_key: BOOLEAN, evidence_adapter: {"mock", "other"},
     execution_adapter: {"mock", "other"}]

-----------------------------------------------------------------------------
(* MockEvidenceAdapter.collect: the payload, the related lookup, and on    *)
(* demand a lookup that failed; the last item exists when the case has     *)
(* been executed before.                                                   *)
EvidenceItems(request, prior) ==
    <<"succeeded", "succeeded">>
    \o (IF "force_related_lookup_failure" \in request.flags THEN <<"failed">>
                                                            ELSE <<>>)
    \o (IF prior THEN <<"succeeded">> ELSE <<>>)

(* What collect_evidence stores: the items, or one failed attempt when the *)
(* adapter cannot be built or raises.                                      *)
Collected(request, settings, prior) ==
    IF /\ settings.evidence_adapter = "mock"
       /\ "force_evidence_failure" \notin request.flags
      THEN EvidenceItems(request, prior)
      ELSE <<"failed">>

-----------------------------------------------------------------------------
(* The status of the record that _generate makes: every failure of a       *)
(* provider, and every provider that cannot be built, is a failed record.  *)
ProviderAnswers(settings) ==
    IF ~settings.ai_enabled THEN {"failed"}
    ELSE CASE settings.ai_provider = "mock" -> {"succeeded"}
           [] settings.ai_provider = "openai" /\ settings.openai_api_key
                -> AIRecordStatus
           [] OTHER -> {"failed"}

(* The mock classification keeps the type of the case and guesses one from *)
(* the summary only for an unknown case.                                   *)
NormalizedType(request) ==
    LET hits == {i \in DOMAIN Keyword : Keyword[i] \in request.mentions}
    IN  IF request.type # "unknown" \/ hits = {} THEN request.type
        ELSE KeywordType[Keyword[Min(hits)]]

NoType == "none"
Classification == [status: AIRecordStatus, type: ExceptionType \cup {NoType}]

Classifications(request, settings) ==
    {c \in Classification :
       /\ c.status \in ProviderAnswers(settings)
       /\ c.status = "failed" <=> c.type = NoType
       /\ settings.ai_provider = "mock" /\ c.status = "succeeded"
            => c.type = NormalizedType(request)}

ActionMap ==
    [payout_mismatch |-> "review_payout_reconciliation",
     missing_document |-> "request_missing_document",
     duplicate_record_risk |-> "review_duplicate_records",
     provider_failure |-> "retry_provider_after_validation",
     unknown |-> "manual_triage"]

(* What stands against a plan, in the words of the mock remediation.       *)
Blocker == {"external_reference_missing", "evidence_collection_incomplete"}
Blockers(request, collected) ==
    {b \in Blocker :
       \/ b = "external_reference_missing" /\ ~request.reference
       \/ b = "evidence_collection_incomplete" /\ "failed" \in Range(collected)}

Remediation == [status: AIRecordStatus, action: Advice, blockers: SUBSET Blocker]

(* The mock plan follows the classification, or the stored type when there *)
(* is none.                                                                *)
Remediations(request, classification, collected, settings) ==
    {p \in Remediation :
       /\ p.status \in ProviderAnswers(settings)
       /\ p.status = "failed" <=> p.action = NoAction
       /\ p.status = "failed" => p.blockers = {}
       /\ settings.ai_provider = "mock" /\ p.status = "succeeded" =>
            /\ p.action = ActionMap[IF classification.status = "succeeded"
                                      THEN classification.type ELSE request.type]
            /\ p.blockers = Blockers(request, collected)}

-----------------------------------------------------------------------------
(* The execution adapter: it cannot be built, reports a failure, or does   *)
(* what it is asked.                                                       *)
AdapterAnswer(request, settings) ==
    IF settings.execution_adapter # "mock" THEN "misconfigured"
    ELSE IF "force_execution_failure" \in request.flags THEN "failed"
    ELSE "succeeded"
=============================================================================
