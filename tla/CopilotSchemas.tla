--------------------------- MODULE CopilotSchemas ---------------------------
(***************************************************************************)
(* The contracts of the copilot, schemas/ai.py and schemas/case_ai.py:     *)
(* what a question and a conversation sent by a client must satisfy, and   *)
(* what a provider's answer must.                                          *)
(*                                                                         *)
(* A text that is only bounded is represented by its length.  An event     *)
(* evt-N, and an alert alert-N, is cited by its number N.                  *)
(***************************************************************************)
EXTENDS Naturals, Sequences

CONSTANTS
  MAX_HISTORY_MESSAGES,      \* 20
  MAX_HISTORY_TOTAL_CHARS    \* 20000

ASSUME HistoryBounds ==
  MAX_HISTORY_MESSAGES \in Nat /\ MAX_HISTORY_TOTAL_CHARS \in Nat

MAX_QUESTION_LENGTH == 2000
MAX_HISTORY_MESSAGE_LENGTH == 4000

MAX_SUMMARY_LENGTH == 2000
MAX_STATEMENT_LENGTH == 500
MAX_SHORT_FIELD_LENGTH == 100
MAX_STEP_LENGTH == 300
MAX_LIMITATION_LENGTH == 300
MAX_RATIONALE_LENGTH == 800
MAX_FOLLOW_UP_ANSWER_LENGTH == 3000
MAX_KEY_FINDINGS == 20
MAX_EVIDENCE_ITEMS == 20
MAX_NEXT_STEPS == 10
MAX_LIMITATIONS == 10
MAX_SUPPORTING_REFS_PER_FINDING == 20
MAX_MITRE_ANALYSIS_ENTRIES == 10
MAX_RECOMMENDED_ACTIONS == 10

MAX_BRIEF_SUMMARY_LENGTH == 3000
MAX_TIMELINE_SUMMARY_LENGTH == 1000

\* event_ref and alert_ref may be left out of an item.
NoRef == 0

Text(length, max) == length \in 1..max

\* A list of at most max items, all of which satisfy the given test.
ListOf(Valid(_), items, max) ==
  Len(items) <= max /\ \A i \in 1..Len(items) : Valid(items[i])

Refs(refs) == Len(refs) <= MAX_SUPPORTING_REFS_PER_FINDING

Step(length) == Text(length, MAX_STEP_LENGTH)
Limitation(length) == Text(length, MAX_LIMITATION_LENGTH)
ShortStatement(length) == Text(length, MAX_STATEMENT_LENGTH)
-----------------------------------------------------------------------------
(* What an answer about an alert contains *)

Verdict == {"likely_malicious", "suspicious", "likely_benign", "inconclusive"}
AssessmentConfidence == {"low", "medium", "high"}

KeyFinding(f) ==
  Text(f.statement, MAX_STATEMENT_LENGTH) /\ Refs(f.supporting_event_refs)

EvidenceItem(e) ==
  /\ Text(e.field, MAX_SHORT_FIELD_LENGTH)
  /\ Text(e.value, MAX_STATEMENT_LENGTH)
  /\ Text(e.explanation, MAX_STATEMENT_LENGTH)

\* An identifier that does not match _TECHNIQUE_ID_PATTERN or _ACTION_ID_PATTERN.
Malformed == "?"

MitreAnalysisEntry(m) ==
  /\ m.technique_id # Malformed
  /\ m.confidence \in AssessmentConfidence
  /\ Text(m.rationale, MAX_RATIONALE_LENGTH)
  /\ Refs(m.supporting_event_refs)

RecommendedInvestigationAction(a) ==
  a.action_id # Malformed /\ Refs(a.supporting_event_refs)

CopilotAssessment(a) ==
  /\ a.verdict \in Verdict
  /\ a.confidence \in AssessmentConfidence
  /\ Text(a.summary, MAX_SUMMARY_LENGTH)
  /\ ListOf(KeyFinding, a.key_findings, MAX_KEY_FINDINGS)
  /\ ListOf(EvidenceItem, a.evidence, MAX_EVIDENCE_ITEMS)
  /\ ListOf(MitreAnalysisEntry, a.mitre_analysis, MAX_MITRE_ANALYSIS_ENTRIES)
  /\ ListOf(Step, a.recommended_next_steps, MAX_NEXT_STEPS)
  /\ ListOf(RecommendedInvestigationAction, a.recommended_actions, MAX_RECOMMENDED_ACTIONS)
  /\ ListOf(Limitation, a.limitations, MAX_LIMITATIONS)

CopilotFollowUpAnswer(a) ==
  /\ Text(a.answer, MAX_FOLLOW_UP_ANSWER_LENGTH)
  /\ Refs(a.supporting_event_refs)
  /\ ListOf(MitreAnalysisEntry, a.mitre_refs, MAX_MITRE_ANALYSIS_ENTRIES)
  /\ ListOf(RecommendedInvestigationAction, a.recommended_actions, MAX_RECOMMENDED_ACTIONS)
  /\ ListOf(Limitation, a.limitations, MAX_LIMITATIONS)
-----------------------------------------------------------------------------
(* What an answer about a case contains *)

CaseKeyFinding(f) ==
  /\ Text(f.statement, MAX_STATEMENT_LENGTH)
  /\ Refs(f.supporting_alert_refs)
  /\ Refs(f.supporting_event_refs)

CaseEvidenceItem(e) == EvidenceItem(e)

CaseInvestigationBrief(b) ==
  /\ Text(b.summary, MAX_BRIEF_SUMMARY_LENGTH)
  /\ ListOf(CaseKeyFinding, b.key_findings, MAX_KEY_FINDINGS)
  /\ ListOf(CaseEvidenceItem, b.supporting_evidence, MAX_EVIDENCE_ITEMS)
  /\ ListOf(MitreAnalysisEntry, b.mitre_analysis, MAX_MITRE_ANALYSIS_ENTRIES)
  /\ Text(b.timeline_summary, MAX_TIMELINE_SUMMARY_LENGTH)
  /\ ListOf(ShortStatement, b.uncertainties, MAX_LIMITATIONS)
  /\ ListOf(ShortStatement, b.recommended_next_steps, MAX_NEXT_STEPS)

CaseFollowUpAnswer(a) ==
  /\ Text(a.answer, MAX_FOLLOW_UP_ANSWER_LENGTH)
  /\ Refs(a.supporting_alert_refs)
  /\ Refs(a.supporting_event_refs)
  /\ ListOf(MitreAnalysisEntry, a.mitre_analysis, MAX_MITRE_ANALYSIS_ENTRIES)
  /\ ListOf(ShortStatement, a.uncertainties, MAX_LIMITATIONS)
  /\ ListOf(ShortStatement, a.recommended_next_steps, MAX_NEXT_STEPS)
-----------------------------------------------------------------------------
(* What a client may send *)

\* The characters of a conversation, message by message.
TotalChars(history) ==
  LET total[n \in 0..Len(history)] == IF n = 0 THEN 0 ELSE total[n - 1] + history[n]
  IN  total[Len(history)]

CopilotMessage(length) == Text(length, MAX_HISTORY_MESSAGE_LENGTH)

\* Fault: as many turns as the history may have messages.
CountsTurns(question, history) ==
  /\ Text(question, MAX_QUESTION_LENGTH)
  /\ ListOf(CopilotMessage, history, 2 * MAX_HISTORY_MESSAGES)
  /\ TotalChars(history) <= MAX_HISTORY_TOTAL_CHARS

\* A request that fails this is refused with 422 before any service runs.
CopilotFollowUpRequest(question, history) ==
  /\ Text(question, MAX_QUESTION_LENGTH)
  /\ ListOf(CopilotMessage, history, MAX_HISTORY_MESSAGES)
  /\ TotalChars(history) <= MAX_HISTORY_TOTAL_CHARS

CopilotQuestionRequest(question) == Text(question, MAX_QUESTION_LENGTH)
=============================================================================
