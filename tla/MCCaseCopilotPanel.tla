------------------------- MODULE MCCaseCopilotPanel -------------------------
(* An instance of CaseCopilotPanel for TLC. *)
EXTENDS CaseCopilotPanel, TLC

CONSTANTS r1, r2, burst, script

TwoRequests == {r1, r2}
TwoAlerts   == {burst, script}

EventRows ==
  [e1 |-> [id |-> 1, event_timestamp |-> 1, hostname |-> "", username |-> "root",
           source_ip |-> "10.0.0.1", destination_ip |-> "", process_name |-> "",
           success |-> FALSE],
   e2 |-> [id |-> 2, event_timestamp |-> 1, hostname |-> "dc", username |-> "admin",
           source_ip |-> "10.0.0.1", destination_ip |-> "", process_name |-> "",
           success |-> FALSE],
   e3 |-> [id |-> 3, event_timestamp |-> 2, hostname |-> "ws", username |-> "admin",
           source_ip |-> "", destination_ip |-> "8.8.8.8", process_name |-> "powershell.exe",
           success |-> FALSE]]

EventIds == DOMAIN EventRows

AlertRows ==
  (burst  :> [rule_id |-> "brute_force_authentication", title |-> 60, severity |-> "high",
              confidence |-> "low", evidence |-> <<[key |-> 8, value |-> 5]>>,
              security_events |-> {"e1", "e2"}]) @@
  (script :> [rule_id |-> "encoded_powershell_command", title |-> 480, severity |-> "critical",
              confidence |-> "high", evidence |-> <<[key |-> 0, value |-> 5]>>,
              security_events |-> {"e3"}])

Names == <<"", "10.0.0.1", "8.8.8.8", "admin", "brute_force_authentication", "dc",
           "encoded_powershell_command", "powershell.exe", "root", "ws">>
Rank(t) == CHOOSE i \in 1..Len(Names) : Names[i] = t
Before(s, t) == Rank(s) < Rank(t)
Length(t) == Len(t)

\* A reply with the given parts; every text has five characters.
Finding(es) == [statement |-> 5, supporting_alert_refs |-> <<>>, supporting_event_refs |-> es]
Mitre(t) == [technique_id |-> t, confidence |-> "low", rationale |-> 5,
             supporting_event_refs |-> <<>>]
Action(a) == [action_id |-> a, supporting_event_refs |-> <<>>]
Assessment(verdict, es, ts, as) ==
  [verdict |-> verdict, confidence |-> "high", summary |-> 5, key_findings |-> <<Finding(es)>>,
   evidence |-> <<>>, mitre_analysis |-> ts, recommended_actions |-> as,
   recommended_next_steps |-> <<>>, limitations |-> <<>>]
FollowUp(es, ts, as) ==
  [answer |-> 5, supporting_event_refs |-> es, mitre_refs |-> ts, recommended_actions |-> as,
   limitations |-> <<>>]
Brief(as, es, ts) ==
  [summary |-> 5, key_findings |-> <<Finding(es)>>,
   supporting_evidence |-> <<[field |-> 5, value |-> 5, alert_ref |-> as, event_ref |-> NoRef,
                              explanation |-> 5]>>,
   mitre_analysis |-> ts, timeline_summary |-> 5, uncertainties |-> <<>>,
   recommended_next_steps |-> <<>>]
CaseFollowUp(as, es, ts) ==
  [answer |-> 5, supporting_alert_refs |-> as, supporting_event_refs |-> es,
   mitre_analysis |-> ts, uncertainties |-> <<>>, recommended_next_steps |-> <<>>]

\* Grounded, ungrounded, invented and malformed replies, and none.
SomeReplies(type, context) ==
  {<<>>} \cup
  CASE type = "ask" ->
         {<<Assessment("likely_malicious", <<1>>, <<Mitre("T1110")>>, <<>>)>>,
          <<Assessment("likely_malicious", <<>>, <<>>, <<>>)>>,
          <<Assessment("suspicious", <<1, 2>>, <<>>, <<Action("review_process_tree")>>)>>,
          <<Assessment("certain", <<>>, <<>>, <<>>)>>}
    [] type = "follow_up" ->
         {<<FollowUp(<<>>, <<Mitre("T1027.010")>>, <<>>)>>,
          <<FollowUp(<<2>>, <<>>, <<Action("review_host_activity")>>)>>,
          <<FollowUp(<<>>, <<Mitre(Malformed)>>, <<>>)>>}
    [] type = "case_brief" ->
         {<<Brief(1, <<>>, <<Mitre("T1110")>>)>>, <<Brief(2, <<1>>, <<>>)>>,
          <<Brief(NoRef, <<>>, <<>>)>>}
    [] type = "case_follow_up" ->
         {<<CaseFollowUp(<<1, 2>>, <<>>, <<>>)>>,
          <<CaseFollowUp(<<>>, <<1>>, <<>>)>>}

\* Threads are interchangeable.
Symmetry == Permutations(Requests)
=============================================================================
