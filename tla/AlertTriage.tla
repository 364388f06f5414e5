---------------------------- MODULE AlertTriage ----------------------------
(***************************************************************************)
(* Analysts moving an alert through its lifecycle: PATCH                   *)
(* /alerts/{id}/status, AlertService.update_status and the table of        *)
(* services/alert_lifecycle.py.                                            *)
(*                                                                         *)
(* The status is read and judged in one statement and written by another,  *)
(* with no lock and no version: other requests commit in between.  One     *)
(* alert stands for all.                                                   *)
(***************************************************************************)
CONSTANTS Analysts    \* server threads; each serves one request at a time

VARIABLES
  status,     \* of the alert, "" before POST /alerts or a detection creates it
  was, next,  \* what each request has read, and is to write
  been        \* history: the statuses the alert has had

triage == <<status, was, next, been>>

-----------------------------------------------------------------------------
\* Fault: an acknowledged alert may be resolved.
EagerTransitions ==
  [NEW           |-> {"ACKNOWLEDGED", "INVESTIGATING", "ESCALATED"},
   ACKNOWLEDGED  |-> {"INVESTIGATING", "ESCALATED", "RESOLVED"},
   INVESTIGATING |-> {"RESOLVED", "ESCALATED"},
   ESCALATED     |-> {"RESOLVED"},
   RESOLVED      |-> {}]

\* Fault: a resolved alert may be reopened.
ReopeningTransitions ==
  [NEW           |-> {"ACKNOWLEDGED", "INVESTIGATING", "ESCALATED"},
   ACKNOWLEDGED  |-> {"INVESTIGATING", "ESCALATED"},
   INVESTIGATING |-> {"RESOLVED", "ESCALATED"},
   ESCALATED     |-> {"RESOLVED"},
   RESOLVED      |-> {"INVESTIGATING"}]

ALERT_STATUS_TRANSITIONS ==
  [NEW           |-> {"ACKNOWLEDGED", "INVESTIGATING", "ESCALATED"},
   ACKNOWLEDGED  |-> {"INVESTIGATING", "ESCALATED"},
   INVESTIGATING |-> {"RESOLVED", "ESCALATED"},
   ESCALATED     |-> {"RESOLVED"},
   RESOLVED      |-> {}]

AlertStatus == DOMAIN ALERT_STATUS_TRANSITIONS

\* No value; the request of a thread without one is over.
None == ""

TriageInit ==
  /\ status = None
  /\ was = [a \in Analysts |-> None]
  /\ next = [a \in Analysts |-> None]
  /\ been = {}

\* AlertService.create.
CreateAlert ==
  /\ status = None
  /\ status' = "NEW"
  /\ been' = {"NEW"}
  /\ UNCHANGED <<was, next>>

\* update_status up to the assignment: get_by_id and assert_valid_transition.  An
\* unknown alert and a transition the table does not have end the request.
UpdateStatus(a, new_status) ==
  /\ status # None /\ next[a] = None
  /\ new_status \in ALERT_STATUS_TRANSITIONS[status]
  /\ was' = [was EXCEPT ![a] = status]
  /\ next' = [next EXCEPT ![a] = new_status]
  /\ UNCHANGED <<status, been>>

TriageOver(a) ==
  /\ was' = [was EXCEPT ![a] = None]
  /\ next' = [next EXCEPT ![a] = None]

\* AlertRepository.save: the commit.
Save(a) ==
  /\ next[a] # None
  /\ status' = next[a]
  /\ been' = been \cup {next[a]}
  /\ TriageOver(a)

\* The commit fails or the worker dies.
SaveFails(a) ==
  /\ next[a] # None
  /\ TriageOver(a)
  /\ UNCHANGED <<status, been>>

TriageNext ==
  \/ CreateAlert
  \/ \E a \in Analysts : \/ \E s \in AlertStatus : UpdateStatus(a, s)
                         \/ Save(a)
                         \/ SaveFails(a)

TriageSpec == TriageInit /\ [][TriageNext]_triage
-----------------------------------------------------------------------------
\* "RESOLVED always reflects substantive engagement" (services/alert_lifecycle.py):
\* even when analysts overwrite each other's changes, an alert is resolved only after
\* it has been under investigation or escalated.
ResolvedWasEngaged ==
  status = "RESOLVED" => been \cap {"INVESTIGATING", "ESCALATED"} # {}

\* "RESOLVED is fully terminal" (services/alert_lifecycle.py), but not for a request
\* that read the alert before it was resolved: only such a one takes it back.
ResolvedIsLeftByTheOvertaken ==
  [][status = "RESOLVED" /\ status' # "RESOLVED" =>
       \E a \in Analysts : /\ next[a] = status' /\ next'[a] = None
                           /\ was[a] \in been \ {"RESOLVED"}]_triage
=============================================================================
