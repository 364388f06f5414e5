--------------------------- MODULE MCAlertTriage ---------------------------
(***************************************************************************)
(* The instance of AlertPipeline together with one of AlertTriage, what    *)
(* analysts then do with an alert.  The two share no variable here; TLC    *)
(* explores each while the other is at rest, instead of their product.     *)
(***************************************************************************)
EXTENDS MCAlertPipeline, AlertTriage

TriageAtRest == status = None
PipelineAtRest == events = <<>>

\* A resolved alert is where triage stops.
Resolved ==
  /\ status = "RESOLVED" /\ \A a \in Analysts : next[a] = None
  /\ UNCHANGED triage

MCInit == Init /\ TriageInit

MCNext ==
  \/ (Next \/ AtBound) /\ TriageAtRest /\ UNCHANGED triage
  \/ (TriageNext \/ Resolved) /\ PipelineAtRest /\ UNCHANGED vars

MCSpec == MCInit /\ [][MCNext]_<<vars, triage>>
=============================================================================
