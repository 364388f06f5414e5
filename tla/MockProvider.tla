---------------------------- MODULE MockProvider ----------------------------
(***************************************************************************)
(* ai/providers/mock.py: the answers of the offline provider, which are    *)
(* computed from the context alone.                                        *)
(*                                                                         *)
(* The provider builds the schema's own objects, which validate themselves *)
(* as they are built: when a text does not fit its field there is no       *)
(* answer.  A text is its length, the sum of the literal parts' and of the *)
(* inserted values'.                                                       *)
(***************************************************************************)
EXTENDS CopilotSchemas, CopilotContext

CONSTANT Chars(_)    \* the length of a name

Severity == {"low", "medium", "high", "critical"}
RegistryNames ==
  _RULE_IDS \cup {technique.technique_id :
                   technique \in UNION {ToSet(_RULE_TECHNIQUES[id]) : id \in _RULE_IDS}}

\* The longest text of a column; an address has at most 45 characters.
Width == [hostname |-> 255, username |-> 255, source_ip |-> 45]

\* What the columns hold, by their types, constraints and schemas, and how long the
\* names are that the source gives.
ASSUME CharsAreLengths ==
  /\ \A e \in Events : \A column \in DOMAIN Width :
       EventRow[e][column] # Absent => Chars(EventRow[e][column]) \in 1..Width[column]
  /\ \A a \in Alerts : /\ Chars(AlertRow[a].rule_id) \in 1..100
                       /\ AlertRow[a].title \in 1..500
                       /\ AlertRow[a].severity \in Severity
                       /\ AlertRow[a].confidence \in AssessmentConfidence
                       /\ AlertRow[a].evidence \in Seq([key : Nat, value : Nat])
  /\ \A name \in Severity \cup AssessmentConfidence : Chars(name) \in 1..8
  /\ \A name \in Verdict \cup RegistryNames : Chars(name) \in 1..31

_MAX_EVIDENCE_FROM_ALERT_DICT == 5
_MAX_SUPPORTING_REFS == 5

\* The number of digits of a count.  The largest counted are the events of an alert,
\* of which there are at most MAX_SOURCE_EVENT_IDS = 1000.
Digits(n) == IF n < 10 THEN 1 ELSE IF n < 100 THEN 2 ELSE IF n < 1000 THEN 3 ELSE 4

\* The length of texts of the given lengths joined by ', '.
JoinedLength(lengths) ==
  LET join[n \in 0..Len(lengths)] ==
        IF n = 0 THEN 0 ELSE join[n - 1] + lengths[n] + (IF n = 1 THEN 0 ELSE 2)
  IN  join[Len(lengths)]

\* ', '.join(texts)
Joined(texts) == JoinedLength([i \in 1..Len(texts) |-> Chars(texts[i])])

\* text[:max]
Cut(length, max) == IF length < max THEN length ELSE max

\* The text, or its first max characters and an ellipsis.
Excerpt(length, max) == IF length <= max THEN length ELSE max + 1

\* An item that is added to a list under a condition.
When(condition, item) == IF condition THEN <<item>> ELSE <<>>

\* Fault: always the most references a finding may have.
FiveRefs(n) == [i \in 1.._MAX_SUPPORTING_REFS |-> i]

\* The first references of a list that has n of them.
SupportingRefs(n) == [i \in 1..Cut(n, _MAX_SUPPORTING_REFS) |-> i]
-----------------------------------------------------------------------------
(* About an alert *)

_VERDICT_BY_SEVERITY ==
  [critical |-> <<"likely_malicious", "high">>,
   high     |-> <<"suspicious", "high">>,
   medium   |-> <<"suspicious", "medium">>,
   low      |-> <<"likely_benign", "medium">>]

_verdict_and_confidence(context) ==
  LET given == _VERDICT_BY_SEVERITY[context.severity]
  IN  IF context.confidence = "low" /\ given[2] = "high" THEN <<given[1], "medium">> ELSE given

_build_summary(context, verdict) ==
  369 + context.title + Chars(context.rule_id) + Chars(context.severity)
      + Chars(context.confidence) + Digits(Len(context.timeline)) + Chars(verdict)

\* The statements that quote the alert's title, its users and its hosts have no
\* bound of their own: title, user and host names may fill the field alone.
_build_key_findings(context, verdict) ==
  LET refs == SupportingRefs(Len(context.timeline))
      Finding(statement, cited) == [statement |-> statement, supporting_event_refs |-> cited]
  IN  <<Finding(88 + context.title + Chars(context.rule_id) + Chars(context.severity)
                   + Digits(Len(context.timeline)), refs)>>
      \o When(context.entities.usernames # <<>>,
              Finding(46 + Joined(context.entities.usernames), refs))
      \o When(context.entities.hostnames # <<>>,
              Finding(46 + Joined(context.entities.hostnames), refs))
      \o <<Finding(132 + Chars(context.severity) + Chars(context.confidence) + Chars(verdict),
                   <<>>)>>

\* Keys and values are cut to fit, and may be empty.
_build_evidence(context) ==
  LET Item(field, value, ref, explanation) ==
        [field |-> field, value |-> value, event_ref |-> ref, explanation |-> explanation]
      kept     == First(context.evidence, _MAX_EVIDENCE_FROM_ALERT_DICT)
      captured == [i \in 1..Len(kept) |->
                     Item(Cut(kept[i].key, 100), Cut(kept[i].value, 500), NoRef, 55)]
  IN  IF context.timeline = <<>> THEN captured
      ELSE LET first == EventRow[context.timeline[1]]
           IN  captured
               \o When(first.source_ip # Absent, Item(9, Chars(first.source_ip), 1, 49))
               \o When(first.hostname # Absent, Item(8, Chars(first.hostname), 1, 48))

MitreEntry(technique, rationale, confidence, refs) ==
  [technique_id |-> technique.technique_id, confidence |-> confidence,
   rationale |-> rationale, supporting_event_refs |-> refs]

_build_mitre_analysis(context, confidence) ==
  [i \in 1..Len(context.candidate_techniques) |->
     LET technique == context.candidate_techniques[i]
     IN  MitreEntry(technique,
                    301 + 2 * Chars(context.rule_id) + 2 * Chars(technique.technique_id)
                        + technique.name,
                    confidence, SupportingRefs(Len(context.timeline)))]

_build_recommended_actions(context) ==
  [i \in 1..Len(context.action_candidates) |->
     [action_id |-> context.action_candidates[i].action_id,
      supporting_event_refs |-> SupportingRefs(Len(context.timeline))]]

_build_next_steps(context) ==
  When(context.entities.usernames # <<>>, 54 + Joined(First(context.entities.usernames, 3)))
  \o When(context.entities.source_ips # <<>>, 62 + Joined(First(context.entities.source_ips, 1)))
  \o When(context.entities.hostnames # <<>>, 34 + Joined(First(context.entities.hostnames, 1)))
  \o <<92>>

_build_limitations(context) ==
  <<77, 58>>
  \o When(~\E i \in 1..Len(context.timeline) : EventRow[context.timeline[i]].success, 67)
  \o When(context.timeline = <<>>, 57)
  \o When(context.candidate_techniques = <<>>, 159 + Chars(context.rule_id))

_build_assessment(context) ==
  LET judged == _verdict_and_confidence(context)
  IN  [verdict                |-> judged[1],
       confidence             |-> judged[2],
       summary                |-> _build_summary(context, judged[1]),
       key_findings           |-> _build_key_findings(context, judged[1]),
       evidence               |-> _build_evidence(context),
       mitre_analysis         |-> _build_mitre_analysis(context, judged[2]),
       recommended_actions    |-> _build_recommended_actions(context),
       recommended_next_steps |-> _build_next_steps(context),
       limitations            |-> _build_limitations(context)]

_build_follow_up_text(context, question, turns) ==
  665 + Excerpt(question, 300) + Digits(turns + 1) + Excerpt(context.title, 150)
      + Chars(context.rule_id) + Chars(context.severity) + Chars(context.confidence)
      + Digits(Len(context.timeline))

_build_follow_up_answer(context, question, turns) ==
  [answer                |-> _build_follow_up_text(context, question, turns),
   supporting_event_refs |-> SupportingRefs(Len(context.timeline)),
   mitre_refs            |-> _build_mitre_analysis(context, _verdict_and_confidence(context)[2]),
   recommended_actions   |-> _build_recommended_actions(context),
   limitations           |-> _build_limitations(context)]
-----------------------------------------------------------------------------
(* About a case.  Title, status and priority of the case stay within their *)
(* columns and no text they are inserted in comes near its bound: they     *)
(* count with the most they can hold.                                      *)

CaseTitle == 500
CaseStatus == 13

\* sorted({a.rule_id for a in context.alerts})
RulesNamed(context) ==
  Sorted({context.alerts[i].rule_id : i \in 1..Len(context.alerts)}, Precedes)

_build_case_key_findings(context) ==
  LET n     == Len(context.alerts)
      focus == context.focused_alert
      Finding(statement, alerts, events) ==
        [statement |-> statement, supporting_alert_refs |-> alerts,
         supporting_event_refs |-> events]
  IN  (IF n > 0
       THEN <<Finding(56 + Digits(n) + Joined(RulesNamed(context)), SupportingRefs(n), <<>>)>>
       ELSE <<Finding(44, <<>>, <<>>)>>)
      \o When(focus.alert_ref # 0,
              Finding(96 + Digits(focus.alert_ref) + Digits(Len(focus.timeline)),
                      When(focus.alert_ref \in 1..n, focus.alert_ref),
                      SupportingRefs(Len(focus.timeline))))
      \o <<Finding(152 + Digits(n) + Digits(context.notes) + CaseStatus, <<>>, <<>>)>>

_build_case_evidence(context) ==
  LET Item(field, value, alert, event, explanation) ==
        [field |-> field, value |-> value, alert_ref |-> alert, event_ref |-> event,
         explanation |-> explanation]
      Keys(i) == When(context.alerts[i].evidence_keys # <<>>,
                      Item(13, Cut(JoinedLength(context.alerts[i].evidence_keys), 500), i, NoRef,
                           73 + Digits(i)))
      listed == Cut(Len(context.alerts), _MAX_EVIDENCE_FROM_ALERT_DICT)
      focus == context.focused_alert
      host  == IF focus.timeline = <<>> THEN Absent ELSE EventRow[focus.timeline[1]].hostname
  IN  FlattenSeq([i \in 1..listed |-> Keys(i)])
      \o When(host # Absent, Item(8, Chars(host), focus.alert_ref, 1, 61))

_build_case_mitre_analysis(context, event_count) ==
  [i \in 1..Len(context.mitre_candidates) |->
     LET technique == context.mitre_candidates[i]
     IN  MitreEntry(technique,
                    315 + 2 * Chars(technique.source_rule_id) + Chars(technique.technique_id)
                        + technique.name,
                    "low", SupportingRefs(event_count))]

_build_case_timeline_summary(context) ==
  CASE context.focused_alert.timeline # <<>>
         -> 161 + Digits(context.focused_alert.alert_ref)
                + Digits(Len(context.focused_alert.timeline))
    [] context.focused_alert.timeline = <<>> /\ context.alerts # <<>>
         -> 185 + Digits(Len(context.alerts))
    [] OTHER -> 73

_build_case_uncertainties(context) ==
  <<72>>
  \o When(context.focused_alert.alert_ref = 0, 133)
  \o When(context.notes = 0, 50)
  \o When(context.mitre_candidates = <<>>, 79)

_build_case_next_steps(context) ==
  When(context.alerts = <<>>, 70)
  \o When(context.focused_alert.alert_ref = 0 /\ context.alerts # <<>>, 57)
  \o When(context.notes = 0, 67)
  \o <<80>>

_build_case_summary(context) ==
  357 + CaseTitle + CaseStatus + 8 + Digits(Len(context.alerts)) + Digits(context.notes) + 2 + 3

_build_case_brief(context) ==
  [summary                |-> _build_case_summary(context),
   key_findings           |-> _build_case_key_findings(context),
   supporting_evidence    |-> _build_case_evidence(context),
   mitre_analysis         |-> _build_case_mitre_analysis(context,
                                                         Len(context.focused_alert.timeline)),
   timeline_summary       |-> _build_case_timeline_summary(context),
   uncertainties          |-> _build_case_uncertainties(context),
   recommended_next_steps |-> _build_case_next_steps(context)]

_build_case_follow_up_text(context, question, turns) ==
  722 + Excerpt(question, 300) + Digits(turns + 1) + 151 + CaseStatus + 8
      + Digits(Len(context.alerts)) + Digits(context.notes)

_build_case_follow_up_answer(context, question, turns) ==
  [answer                 |-> _build_case_follow_up_text(context, question, turns),
   supporting_alert_refs  |-> SupportingRefs(Len(context.alerts)),
   supporting_event_refs  |-> <<>>,
   mitre_analysis         |-> _build_case_mitre_analysis(context, 0),
   uncertainties          |-> _build_case_uncertainties(context),
   recommended_next_steps |-> _build_case_next_steps(context)]
=============================================================================
