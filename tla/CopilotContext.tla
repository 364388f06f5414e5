--------------------------- MODULE CopilotContext ---------------------------
(***************************************************************************)
(* What the copilot is told: services/investigation_service.py and the     *)
(* context builders of ai/, over the rule tables of mitre/registry.py and  *)
(* investigation_actions/registry.py.                                      *)
(*                                                                         *)
(* Everything here is computed from rows that do not change once an alert  *)
(* exists, so a context is a function of the alerts it is built for.       *)
(***************************************************************************)
EXTENDS Naturals, Selections

CONSTANTS
  Alerts, AlertRow,     \* the alerts, and the columns of each
  Events, EventRow,     \* the events they were raised from, and theirs
  Precedes(_, _),       \* the order of texts by code point
  NoteCount,            \* how many notes the case has
  MAX_CASE_ALERTS_IN_CONTEXT,   \* 20
  MAX_CASE_AUDIT_IN_CONTEXT,    \* 20
  NoAlert

ASSUME ContextConstants ==
  /\ NoAlert \notin Alerts
  /\ \A a \in Alerts : /\ AlertRow[a].security_events \subseteq Events
                       /\ IsFiniteSet(AlertRow[a].security_events)
                       /\ AlertRow[a].security_events # {}
  /\ \A e \in Events : EventRow[e].event_timestamp \in Nat /\ EventRow[e].id \in Nat
  /\ \A e, f \in Events : e # f => EventRow[e].id # EventRow[f].id
  /\ NoteCount \in Nat
  /\ MAX_CASE_ALERTS_IN_CONTEXT \in Nat \ {0}
  /\ MAX_CASE_AUDIT_IN_CONTEXT \in Nat \ {0}

MAX_CASE_NOTES_IN_CONTEXT == 20
MAX_CASE_MITRE_CANDIDATES == 30
MAX_CASE_EVIDENCE_KEYS == 20

\* A text column that is NULL or empty.
Absent == ""

\* The texts that are put in order somewhere: the entities and the rules.
EntityColumns == {"hostname", "username", "source_ip", "destination_ip", "process_name"}
SortedTexts ==
  {EventRow[e][column] : e \in Events, column \in EntityColumns}
  \cup {AlertRow[a].rule_id : a \in Alerts}

ASSUME TextsAreOrdered ==
  \A s, t \in SortedTexts :
    /\ ~(Precedes(s, t) /\ Precedes(t, s))
    /\ s # t => Precedes(s, t) \/ Precedes(t, s)
    /\ \A u \in SortedTexts : Precedes(s, t) /\ Precedes(t, u) => Precedes(s, u)

\* Fault: the rows at the other end.
LastOf(s, n) == SubSeq(s, IF Len(s) < n THEN 1 ELSE Len(s) - n + 1, Len(s))

\* s[:n]
First(s, n) == SubSeq(s, 1, IF Len(s) < n THEN Len(s) ELSE n)
-----------------------------------------------------------------------------
(* The rule tables.  Of a technique's name only the length is used. *)

_BRUTE_FORCE ==
  [technique_id |-> "T1110", name |-> 11, source_rule_id |-> "brute_force_authentication"]
_POWERSHELL_SUSPICIOUS ==
  [technique_id |-> "T1059.001", name |-> 45,
   source_rule_id |-> "suspicious_powershell_execution"]
_POWERSHELL_ENCODED ==
  [_POWERSHELL_SUSPICIOUS EXCEPT !.source_rule_id = "encoded_powershell_command"]
_COMMAND_OBFUSCATION ==
  [technique_id |-> "T1027.010", name |-> 52, source_rule_id |-> "encoded_powershell_command"]

_RULE_TECHNIQUES ==
  [brute_force_authentication      |-> <<_BRUTE_FORCE>>,
   suspicious_powershell_execution |-> <<_POWERSHELL_SUSPICIOUS>>,
   encoded_powershell_command      |-> <<_POWERSHELL_ENCODED, _COMMAND_OBFUSCATION>>]

_RULE_IDS == DOMAIN _RULE_TECHNIQUES
_POWERSHELL_RULE_IDS == {"suspicious_powershell_execution", "encoded_powershell_command"}

get_techniques_for_rule(rule_id) ==
  IF rule_id \in _RULE_IDS THEN _RULE_TECHNIQUES[rule_id] ELSE <<>>

TechniquesOf(alert) == get_techniques_for_rule(AlertRow[alert].rule_id)

_InvestigationAction(id, rules, entities) ==
  [action_id |-> id, applicable_rule_ids |-> rules, required_entities |-> entities]

_CATALOG ==
  <<_InvestigationAction("review_authentication_failures",
                         {"brute_force_authentication"}, {"usernames"}),
    _InvestigationAction("review_source_ip_history", _RULE_IDS, {"source_ips"}),
    _InvestigationAction("review_host_activity", _RULE_IDS, {"hostnames"}),
    _InvestigationAction("review_user_activity", _RULE_IDS, {"usernames"}),
    _InvestigationAction("review_powershell_command", _POWERSHELL_RULE_IDS, {"process_names"}),
    _InvestigationAction("review_process_tree", _POWERSHELL_RULE_IDS, {"process_names"}),
    _InvestigationAction("review_network_connections",
                         _POWERSHELL_RULE_IDS, {"destination_ips"}),
    _InvestigationAction("collect_additional_event_context", _RULE_IDS, {})>>

get_candidate_actions(rule_id, entities) ==
  Selected(_CATALOG,
           {action \in ToSet(_CATALOG) :
              /\ rule_id \in action.applicable_rule_ids
              /\ \A field \in action.required_entities : entities[field] # <<>>})
-----------------------------------------------------------------------------
(* services/investigation_service.py *)

Earlier(e, f) ==
  \/ EventRow[e].event_timestamp < EventRow[f].event_timestamp
  \/ EventRow[e].event_timestamp = EventRow[f].event_timestamp /\ EventRow[e].id < EventRow[f].id

_build_timeline(alert) == Sorted(AlertRow[alert].security_events, Earlier)

\* The distinct values of a column among the alert's events, in order.
Column(alert, column) ==
  Sorted({EventRow[e][column] : e \in AlertRow[alert].security_events} \ {Absent}, Precedes)

_extract_entities(alert) ==
  [hostnames       |-> Column(alert, "hostname"),
   usernames       |-> Column(alert, "username"),
   source_ips      |-> Column(alert, "source_ip"),
   destination_ips |-> Column(alert, "destination_ip"),
   process_names   |-> Column(alert, "process_name")]
-----------------------------------------------------------------------------
(* ai/context_builder.py *)

\* AIContextBuilder.build; evt-N is position N of the timeline.
AIContext(alert) ==
  LET entities == _extract_entities(alert)
      rule_id  == AlertRow[alert].rule_id
  IN  [rule_id           |-> rule_id,
       title             |-> AlertRow[alert].title,
       severity          |-> AlertRow[alert].severity,
       confidence        |-> AlertRow[alert].confidence,
       evidence          |-> AlertRow[alert].evidence,
       timeline          |-> _build_timeline(alert),
       entities          |-> entities,
       candidate_techniques |-> TechniquesOf(alert),
       action_candidates |-> get_candidate_actions(rule_id, entities)]
-----------------------------------------------------------------------------
(* ai/case_context_builder.py *)

\* The techniques of the n-th alert that no alert before it has brought.
NewTechniques(alerts, n) ==
  {t \in ToSet(TechniquesOf(alerts[n])) :
     \A m \in 1..n - 1 : \A s \in ToSet(TechniquesOf(alerts[m])) :
       s.technique_id # t.technique_id}

\* _union_mitre_candidates: the first alert that brings a technique names its rule.
_union_mitre_candidates(alerts) ==
  First(FlattenSeq([n \in 1..Len(alerts) |->
                      Selected(TechniquesOf(alerts[n]), NewTechniques(alerts, n))]),
        MAX_CASE_MITRE_CANDIDATES)

\* The keys of an alert's evidence, as lengths.
_map_alert(alert) ==
  [rule_id       |-> AlertRow[alert].rule_id,
   evidence_keys |-> [i \in 1..Len(First(AlertRow[alert].evidence, MAX_CASE_EVIDENCE_KEYS))
                        |-> AlertRow[alert].evidence[i].key]]

\* The position of an alert in the list the case's alerts were read into.
Position(alerts, alert) == CHOOSE i \in 1..Len(alerts) : alerts[i] = alert

_map_focused_alert(alerts, focus) ==
  IF focus = NoAlert THEN [alert_ref |-> 0, timeline |-> <<>>]
  ELSE [alert_ref |-> Position(alerts, focus), timeline |-> _build_timeline(focus)]

\* AICaseContextBuilder.build; alert-N is position N of the alerts read.
AICaseContext(alerts, focus) ==
  [alerts           |-> [i \in 1..Len(alerts) |-> _map_alert(alerts[i])],
   notes            |-> IF NoteCount < MAX_CASE_NOTES_IN_CONTEXT THEN NoteCount
                        ELSE MAX_CASE_NOTES_IN_CONTEXT,
   focused_alert    |-> _map_focused_alert(alerts, focus),
   mitre_candidates |-> _union_mitre_candidates(alerts)]
=============================================================================
