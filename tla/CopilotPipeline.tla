-------------------------- MODULE CopilotPipeline --------------------------
(***************************************************************************)
(* From a provider's reply to what the analyst is given and the trail      *)
(* records: the checks of services/copilot_service.py and                  *)
(* case_copilot_service.py, the provider adapters of ai/providers/, and    *)
(* what services/copilot_audit_service.py and table copilot_audits accept. *)
(*                                                                         *)
(* The four requests differ in their schemas and in which checks they run; *)
(* an operator below takes the request's type as its first parameter.      *)
(***************************************************************************)
EXTENDS MockProvider

AlertTypes == {"ask", "follow_up"}
CaseTypes == {"case_brief", "case_follow_up"}
FollowUps == {"follow_up", "case_follow_up"}
RequestType == AlertTypes \cup CaseTypes

\* The schema the reply to a request must satisfy.
Schema(type, answer) ==
  CASE type = "ask"            -> CopilotAssessment(answer)
    [] type = "follow_up"      -> CopilotFollowUpAnswer(answer)
    [] type = "case_brief"     -> CaseInvestigationBrief(answer)
    [] type = "case_follow_up" -> CaseFollowUpAnswer(answer)
-----------------------------------------------------------------------------
(* The providers: <<answer>>, or <<>> when generate raises *)

MockAnswer(type, context, question, turns) ==
  CASE type = "ask"            -> _build_assessment(context)
    [] type = "follow_up"      -> _build_follow_up_answer(context, question, turns)
    [] type = "case_brief"     -> _build_case_brief(context)
    [] type = "case_follow_up" -> _build_case_follow_up_answer(context, question, turns)

MockGenerate(type, context, question, turns) ==
  LET answer == MockAnswer(type, context, question, turns)
  IN  IF Schema(type, answer) THEN <<answer>> ELSE <<>>

\* The message's text, which has to satisfy the schema the request asked for.
_to_ai_response(type, message) ==
  IF type = "follow_up" THEN CopilotFollowUpAnswer(message) ELSE CopilotAssessment(message)

_to_case_ai_response(type, message) ==
  IF type = "case_follow_up" THEN CaseFollowUpAnswer(message) ELSE CaseInvestigationBrief(message)

\* What the service replied: <<>> stands for an SDK error, a timeout, or a message
\* without a text.
AnthropicGenerate(type, reply) ==
  IF /\ reply # <<>>
     /\ IF type \in AlertTypes THEN _to_ai_response(type, reply[1])
        ELSE _to_case_ai_response(type, reply[1])
  THEN reply ELSE <<>>
-----------------------------------------------------------------------------
(* What an answer cites *)

\* The references in one field of every item of a list.
Cited(items, field) == UNION {ToSet(items[i][field]) : i \in 1..Len(items)}

\* The values of one field of the items, and the references among them.
Named(items, field) == {items[i][field] : i \in 1..Len(items)}
Evidence(items, field) == Named(items, field) \ {NoRef}

_event_refs_cited_in_assessment(a) ==
  Cited(a.key_findings, "supporting_event_refs") \cup Evidence(a.evidence, "event_ref")
  \cup Cited(a.mitre_analysis, "supporting_event_refs")
  \cup Cited(a.recommended_actions, "supporting_event_refs")

_event_refs_cited_in_follow_up(a) ==
  ToSet(a.supporting_event_refs) \cup Cited(a.mitre_refs, "supporting_event_refs")
  \cup Cited(a.recommended_actions, "supporting_event_refs")

_event_refs_cited_in_brief(b) ==
  Cited(b.key_findings, "supporting_event_refs") \cup Evidence(b.supporting_evidence, "event_ref")
  \cup Cited(b.mitre_analysis, "supporting_event_refs")

_event_refs_cited_in_case_follow_up(a) ==
  ToSet(a.supporting_event_refs) \cup Cited(a.mitre_analysis, "supporting_event_refs")

EventRefsCited(type, answer) ==
  CASE type = "ask"            -> _event_refs_cited_in_assessment(answer)
    [] type = "follow_up"      -> _event_refs_cited_in_follow_up(answer)
    [] type = "case_brief"     -> _event_refs_cited_in_brief(answer)
    [] type = "case_follow_up" -> _event_refs_cited_in_case_follow_up(answer)

AlertRefsCited(type, answer) ==
  CASE type = "case_brief"     -> Cited(answer.key_findings, "supporting_alert_refs")
                                  \cup Evidence(answer.supporting_evidence, "alert_ref")
    [] type = "case_follow_up" -> ToSet(answer.supporting_alert_refs)
    [] type \in AlertTypes     -> {}

MitreEntries(type, answer) ==
  IF type = "follow_up" THEN answer.mitre_refs ELSE answer.mitre_analysis

TechniquesNamed(type, answer) == Named(MitreEntries(type, answer), "technique_id")

ActionsNamed(type, answer) ==
  IF type \in AlertTypes THEN Named(answer.recommended_actions, "action_id") ELSE {}
-----------------------------------------------------------------------------
(* The checks, in the order they run *)

Timeline(type, context) ==
  IF type \in AlertTypes THEN context.timeline ELSE context.focused_alert.timeline

KnownEventRefs(type, context) == 1..Len(Timeline(type, context))
KnownAlertRefs(type, context) == IF type \in CaseTypes THEN 1..Len(context.alerts) ELSE {}

Candidates(type, context) ==
  Named(IF type \in AlertTypes THEN context.candidate_techniques
        ELSE context.mitre_candidates, "technique_id")

\* Fault: only the references to events are looked at.
EventsOnly(type, answer, context) ==
  EventRefsCited(type, answer) \subseteq KnownEventRefs(type, context)

_reject_fabricated_refs(type, answer, context) ==
  /\ EventRefsCited(type, answer) \subseteq KnownEventRefs(type, context)
  /\ AlertRefsCited(type, answer) \subseteq KnownAlertRefs(type, context)

\* An assessment that rests on nothing may not be certain, and must say so.
_enforce_confidence_calibration(assessment) ==
  \/ assessment.evidence # <<>>
  \/ _event_refs_cited_in_assessment(assessment) # {}
  \/ /\ assessment.verdict # "likely_malicious"
     /\ assessment.confidence = "high" => assessment.verdict = "inconclusive"
     /\ assessment.limitations # <<>>

_normalize_mitre_entries(type, answer, context) ==
  TechniquesNamed(type, answer) \subseteq Candidates(type, context)

_normalize_recommended_actions(type, answer, context) ==
  type \in AlertTypes =>
    ActionsNamed(type, answer) \subseteq Named(context.action_candidates, "action_id")

\* The answer survives: what follows provider.generate in ask, follow_up,
\* ask_about_case and ask_case_follow_up.
Accepted(type, answer, context) ==
  /\ Schema(type, answer)
  /\ _reject_fabricated_refs(type, answer, context)
  /\ type = "ask" => _enforce_confidence_calibration(answer)
  /\ _normalize_mitre_entries(type, answer, context)
  /\ _normalize_recommended_actions(type, answer, context)

\* How the try statement of the four requests is left.
Outcome(type, provided, context) ==
  CASE provided = <<>> -> "transport"
    [] provided # <<>> /\ Accepted(type, provided[1], context) -> "answered"
    [] OTHER -> "validation"
-----------------------------------------------------------------------------
(* The audit *)

\* A nullable column holds {} for NULL and {value} otherwise.
Null == {}

\* Fault: every row carries the number of turns.
CountAlways(type, outcome, turns) ==
  [request_type       |-> type,
   outcome            |-> IF outcome = "answered" THEN "success" ELSE "failure",
   validation_status  |-> CASE outcome = "answered"   -> "passed"
                            [] outcome = "validation" -> "failed"
                            [] outcome = "transport"  -> "not_applicable",
   http_status        |-> IF outcome = "answered" THEN 200 ELSE 502,
   model_known        |-> outcome # "transport",
   history_turn_count |-> {turns}]

\* The row _record_copilot_audit asks for, with what record() fills in.
AuditRow(type, outcome, turns) ==
  [request_type       |-> type,
   outcome            |-> IF outcome = "answered" THEN "success" ELSE "failure",
   validation_status  |-> CASE outcome = "answered"   -> "passed"
                            [] outcome = "validation" -> "failed"
                            [] outcome = "transport"  -> "not_applicable",
   http_status        |-> IF outcome = "answered" THEN 200 ELSE 502,
   model_known        |-> outcome # "transport",
   history_turn_count |-> IF type \in FollowUps THEN {turns} ELSE Null]

_ALLOWED_VALIDATION_STATUSES_BY_OUTCOME ==
  [success |-> {"passed"}, failure |-> {"failed", "not_applicable"}]

\* CopilotAuditService.record goes through to the INSERT.
Recordable(row, turns) ==
  /\ row.http_status = IF row.outcome = "success" THEN 200 ELSE 502
  /\ row.validation_status \in _ALLOWED_VALIDATION_STATUSES_BY_OUTCOME[row.outcome]
  /\ row.request_type \in {"ask", "case_brief"} => turns = 0

\* The CHECK constraints of table copilot_audits.
Storable(row) ==
  /\ row.request_type \in RequestType
  /\ \/ row.request_type \in {"ask", "case_brief"} /\ row.history_turn_count = Null
     \/ row.request_type \in FollowUps
  /\ \/ /\ row.outcome = "success" /\ row.http_status = 200
        /\ row.validation_status = "passed"
     \/ /\ row.outcome = "failure" /\ row.http_status = 502
        /\ row.validation_status \in {"failed", "not_applicable"}
=============================================================================
