---------------------------- MODULE CaseWorkflow ----------------------------
(***************************************************************************)
(* One SOC case under concurrent analysts: services/case_service.py over   *)
(* the cases, case_alerts and case_audits tables.                          *)
(*                                                                         *)
(* Every operation reads the case, decides, and commits once: the changed  *)
(* columns and the audit rows together.  Nothing locks the row and there   *)
(* is no version column, so other requests commit between a request's read *)
(* and its commit.  SQLAlchemy's UPDATE names only the columns whose value *)
(* differs from the one loaded; that decides what an overtaken request     *)
(* overwrites.                                                             *)
(*                                                                         *)
(* Cases never touch each other, so one case stands for all.  Of the audit *)
(* trail only the last change reported for each column is kept.            *)
(***************************************************************************)
EXTENDS Integers

CONSTANTS
  Users, Admins,   \* accounts, and those whose role is admin
  Alerts,          \* existing alerts, which are never deleted
  Requests,        \* server threads; each serves one request at a time
  Fields,          \* the columns update_case edits
  Texts, Reasons,  \* what those columns, and closure_reason, may hold
  Null

ASSUME CaseConstants ==
  /\ Admins \subseteq Users
  /\ Fields \subseteq {"title", "description", "priority"}
  /\ Null \notin Users \cup Alerts \cup Texts \cup Reasons
  /\ Null \notin {"OPEN", "INVESTIGATING", "RESOLVED", "CLOSED", "stamp"}
  /\ "stamp" \notin Users \cup Texts \cup Reasons

VARIABLES
  active,      \* users whose is_active flag is set
  case,        \* the row of table cases, column by column
  linked,      \* rows of case_alerts, by alert
  trail,       \* per audited column, the value its last change reported
  told_links,  \* alerts whose last audit row is CASE_ALERT_LINKED
  pc,          \* where each request is
  update,      \* the UPDATE a request is going to issue: column -> value
  rows,        \* the audit rows it is going to insert, by column
  link,        \* the case_alerts row it is going to insert or delete
  overtaken    \* history: some commit changed a status it had not read

table   == <<case, linked, trail, told_links, overtaken>>
control == <<pc, update, rows, link>>
vars    == <<active, table, control>>

-----------------------------------------------------------------------------
Statuses == {"OPEN", "INVESTIGATING", "RESOLVED", "CLOSED"}

CASE_STATUS_TRANSITIONS ==
  [OPEN          |-> {"INVESTIGATING"},
   INVESTIGATING |-> {"RESOLVED"},
   RESOLVED      |-> {"INVESTIGATING", "CLOSED"},
   CLOSED        |-> {"INVESTIGATING"}]

Audited == {"status", "owner_id"} \cup Fields
Columns == Audited \cup {"closed_at", "closure_reason"}

\* closed_at is NULL or some instant; no property tells instants apart.
Domain(column) ==
  CASE column = "status"         -> Statuses \cup {Null}
    [] column = "owner_id"       -> Users \cup {Null}
    [] column = "closed_at"      -> {"stamp", Null}
    [] column = "closure_reason" -> Reasons \cup {Null}
    [] column \in Fields         -> Texts \cup {Null}

Values == UNION {Domain(c) : c \in Columns}

\* Nothing to be written.
Nothing == [c \in {} |-> Null]
-----------------------------------------------------------------------------
(* What the bodies of the requests carry once schemas/case.py has let them     *)
(* pass: texts are not blank and not too long, a field that is null or missing *)
(* is not to be changed, and a body names no other field.                      *)

CaseCreate       == [Fields -> Texts]
CaseUpdate       == UNION {[D -> Texts] : D \in SUBSET Fields}
CaseStatusUpdate == [status : Statuses, closure_reason : Reasons \cup {Null}]
CaseOwnerUpdate  == Users \cup {Null}
CaseAlertLink    == Alerts
-----------------------------------------------------------------------------
(* The unit of work *)

\* Faults: every attribute that is assigned, or loaded, is written back.
WholeRow(assigned) ==
  [c \in Columns |-> IF c \in DOMAIN assigned THEN assigned[c] ELSE case[c]]
KeepsStamp(assigned) ==
  [c \in {c \in DOMAIN assigned : assigned[c] # case[c]} |-> assigned[c]]

\* The columns an UPDATE names: those assigned a value that is not the loaded
\* one.  The clock's reading never is, so a stamp is always written.
Dirty(assigned) ==
  LET changed == {c \in DOMAIN assigned : assigned[c] # case[c] \/ assigned[c] = "stamp"}
  IN  [c \in changed |-> assigned[c]]

\* A request of user u begins and finds the case: get_current_user, then
\* _require_case.  A request that fails either check leaves no trace.
Finds(r, u) == pc[r] = "idle" /\ u \in active /\ case["status"] # Null

\* The handler's assignments and the audit rows it adds to the session; a row
\* reports the value loaded as the previous one.
Prepare(r, assigned) ==
  /\ update' = [update EXCEPT ![r] = Dirty(assigned)]
  /\ rows' = [rows EXCEPT ![r] = [c \in DOMAIN assigned \cap Audited |->
                                   [previous |-> case[c], new |-> assigned[c]]]]

\* The request is over; what its session has not committed is gone.
End(r) ==
  /\ pc' = [pc EXCEPT ![r] = "idle"]
  /\ update' = [update EXCEPT ![r] = Nothing]
  /\ rows' = [rows EXCEPT ![r] = Nothing]
  /\ link' = [link EXCEPT ![r] = Null]

Init ==
  /\ active = Users
  /\ case = [c \in Columns |-> Null]
  /\ linked = {}
  /\ trail = [c \in Audited |-> Null]
  /\ told_links = {}
  /\ pc = [r \in Requests |-> "idle"]
  /\ update = [r \in Requests |-> Nothing]
  /\ rows = [r \in Requests |-> Nothing]
  /\ link = [r \in Requests |-> Null]
  /\ overtaken = FALSE
-----------------------------------------------------------------------------
(* Operations *)

\* create_case: the case and its CASE_CREATED row, in one commit.
CreateCase(u, given) ==
  /\ case["status"] = Null
  /\ u \in active
  /\ case' = [c \in Columns |-> IF c = "status" THEN "OPEN"
                                ELSE IF c \in Fields THEN given[c] ELSE Null]
  /\ trail' = [c \in Audited |-> case'[c]]
  /\ UNCHANGED <<active, linked, told_links, overtaken, control>>

\* update_case: only the fields given that differ from the loaded ones are
\* assigned and audited, and without any there is no commit.
UpdateCase(r, u, given) ==
  LET changed == {f \in DOMAIN given : given[f] # case[f]}
  IN /\ Finds(r, u)
     /\ changed # {}
     /\ Prepare(r, [f \in changed |-> given[f]])
     /\ pc' = [pc EXCEPT ![r] = "commit"]
     /\ UNCHANGED <<active, table, link>>

\* Fault: reopening leaves the closure as it was.
NoClearing(status, reason) ==
  IF status = "CLOSED"
  THEN [status |-> status, closed_at |-> "stamp", closure_reason |-> reason]
  ELSE [status |-> status]

\* What change_status assigns: closing stamps the case and records the reason,
\* reopening a closed case clears both.
StatusAttributes(status, reason) ==
  CASE status = "CLOSED"
         -> [status |-> status, closed_at |-> "stamp", closure_reason |-> reason]
    [] case["status"] = "CLOSED"
         -> [status |-> status, closed_at |-> Null, closure_reason |-> Null]
    [] OTHER -> [status |-> status]

\* change_status: the transition is checked against the status just read, and
\* a closure needs a reason that is not blank.
ChangeStatus(r, u, status, reason) ==
  /\ Finds(r, u)
  /\ status \in CASE_STATUS_TRANSITIONS[case["status"]]
  /\ status = "CLOSED" => reason # Null
  /\ Prepare(r, StatusAttributes(status, reason))
  /\ pc' = [pc EXCEPT ![r] = "commit"]
  /\ UNCHANGED <<active, table, link>>

\* change_owner, up to its look at the new owner: an analyst may take an
\* unowned case or release one of theirs, an admin may do anything.
ChangeOwner(r, u, owner) ==
  /\ Finds(r, u)
  /\ \/ u \in Admins
     \/ case["owner_id"] = Null /\ owner = u
     \/ case["owner_id"] = u /\ owner = Null
  /\ Prepare(r, [owner_id |-> owner])
  /\ pc' = [pc EXCEPT ![r] = IF owner = Null THEN "commit" ELSE "owner"]
  /\ UNCHANGED <<active, table, link>>

\* Fault: the new owner's account is not looked at.
OwnerUnchecked(r) ==
  /\ pc[r] = "owner"
  /\ pc' = [pc EXCEPT ![r] = "commit"]
  /\ UNCHANGED <<active, table, update, rows, link>>

\* change_owner, reading the new owner: an inactive account is refused.
CheckOwner(r) ==
  /\ pc[r] = "owner"
  /\ \/ /\ rows[r]["owner_id"].new \in active
        /\ pc' = [pc EXCEPT ![r] = "commit"]
        /\ UNCHANGED <<update, rows, link>>
     \/ /\ rows[r]["owner_id"].new \notin active
        /\ End(r)
  /\ UNCHANGED <<active, table>>

\* Fault: an action outside CASE_AUDIT_ACTIONS.
LinkUnderOtherName(r, u, a) ==
  /\ Finds(r, u)
  /\ a \notin linked
  /\ link' = [link EXCEPT ![r] = [alert |-> a, action |-> "CASE_LINKED"]]
  /\ pc' = [pc EXCEPT ![r] = "commit"]
  /\ UNCHANGED <<active, table, update, rows>>

\* link_alert: no link of this alert is visible.
LinkAlert(r, u, a) ==
  /\ Finds(r, u)
  /\ a \notin linked
  /\ link' = [link EXCEPT ![r] = [alert |-> a, action |-> "CASE_ALERT_LINKED"]]
  /\ pc' = [pc EXCEPT ![r] = "commit"]
  /\ UNCHANGED <<active, table, update, rows>>

\* Fault: the repository commits the deletion, the audit row comes later.
UnlinkCommitsTwice(r, u, a) ==
  /\ Finds(r, u)
  /\ a \in linked
  /\ linked' = linked \ {a}
  /\ link' = [link EXCEPT ![r] = [alert |-> a, action |-> "CASE_ALERT_UNLINKED"]]
  /\ pc' = [pc EXCEPT ![r] = "commit"]
  /\ UNCHANGED <<active, case, trail, told_links, overtaken, update, rows>>

\* unlink_alert: the link was found and is to be deleted.
UnlinkAlert(r, u, a) ==
  /\ Finds(r, u)
  /\ a \in linked
  /\ link' = [link EXCEPT ![r] = [alert |-> a, action |-> "CASE_ALERT_UNLINKED"]]
  /\ pc' = [pc EXCEPT ![r] = "commit"]
  /\ UNCHANGED <<active, table, update, rows>>

\* The insert meets a link another request has committed: the composite
\* primary key refuses it and with it the whole commit.
Duplicate(r) ==
  link[r] # Null /\ link[r].action = "CASE_ALERT_LINKED" /\ link[r].alert \in linked

\* A column's audit row reports another value than the one being replaced.
Stale(r, c) == c \in DOMAIN rows[r] /\ rows[r][c].previous # case[c]

\* A set of alerts after a request's link or unlink; deleting a link that is
\* gone already matches no row, which SQLAlchemy only warns about.
AfterLink(r, alerts) ==
  CASE link[r] = Null -> alerts
    [] link[r] # Null /\ link[r].action = "CASE_ALERT_LINKED"   -> alerts \cup {link[r].alert}
    [] link[r] # Null /\ link[r].action = "CASE_ALERT_UNLINKED" -> alerts \ {link[r].alert}

\* _commit: the UPDATE, the link and the audit rows, all or nothing.  An owner
\* assigned anew to themselves is audited too but changes nothing.
Commit(r) ==
  /\ pc[r] = "commit"
  /\ ~Duplicate(r)
  /\ case' = [c \in Columns |-> IF c \in DOMAIN update[r] THEN update[r][c] ELSE case[c]]
  /\ trail' = [c \in Audited |->
                 IF c \in DOMAIN rows[r] /\ rows[r][c].previous # rows[r][c].new
                 THEN rows[r][c].new ELSE trail[c]]
  /\ linked' = AfterLink(r, linked)
  /\ told_links' = AfterLink(r, told_links)
  /\ overtaken' = (overtaken \/ Stale(r, "status"))
  /\ End(r)
  /\ UNCHANGED active

\* The commit fails, as on a duplicate link, or the worker dies: rollback.
Fail(r) ==
  /\ pc[r] # "idle"
  /\ End(r)
  /\ UNCHANGED <<active, table>>

\* AdminAuditService.change_user_status, in a transaction of its own.
SetActive(u, is_active) ==
  /\ active' = IF is_active THEN active \cup {u} ELSE active \ {u}
  /\ UNCHANGED <<table, control>>

Next ==
  \/ \E u \in Users, given \in CaseCreate : CreateCase(u, given)
  \/ \E r \in Requests, u \in Users :
       \/ \E given \in CaseUpdate : UpdateCase(r, u, given)
       \/ \E body \in CaseStatusUpdate : ChangeStatus(r, u, body.status, body.closure_reason)
       \/ \E owner \in CaseOwnerUpdate : ChangeOwner(r, u, owner)
       \/ \E a \in CaseAlertLink : LinkAlert(r, u, a)
       \/ \E a \in Alerts : UnlinkAlert(r, u, a)
  \/ \E r \in Requests : CheckOwner(r) \/ Commit(r) \/ Fail(r)
  \/ \E u \in Users, is_active \in BOOLEAN : SetActive(u, is_active)

Spec == Init /\ [][Next]_vars
-----------------------------------------------------------------------------
(* Properties *)

\* f gives some of the names a value.
IsPartial(f, names, values) == DOMAIN f \in SUBSET names /\ f \in [DOMAIN f -> values]

\* Every column, and every value about to be written to it, is in its domain.
TypeOK ==
  /\ active \subseteq Users
  /\ case \in [Columns -> Values] /\ \A c \in Columns : case[c] \in Domain(c)
  /\ linked \subseteq Alerts /\ told_links \subseteq Alerts
  /\ trail \in [Audited -> Values]
  /\ pc \in [Requests -> {"idle", "owner", "commit"}]
  /\ DOMAIN update = Requests /\ DOMAIN rows = Requests
  /\ \A r \in Requests :
       /\ IsPartial(update[r], Columns, Values)
       /\ \A c \in DOMAIN update[r] : update[r][c] \in Domain(c)
       /\ IsPartial(rows[r], Audited, [previous : Values, new : Values])
  /\ link \in [Requests -> {Null} \cup [alert : Alerts,
                  action : {"CASE_ALERT_LINKED", "CASE_ALERT_UNLINKED"}]]
  /\ overtaken \in BOOLEAN

\* However requests overtake each other, the audit trail ends at the row: the
\* last change reported for a column (or the creation) gives the value it has.
\* Requests for different columns of one case never undo each other.
TrailTellsTheRow == \A c \in Audited : trail[c] = case[c]

\* Likewise an alert is linked exactly when the last audit row naming it says
\* so, through concurrent links, double unlinks and failed commits.
TrailTellsTheLinks == told_links = linked

\* A closed case has its closed_at, whatever overtook the closing request.
ClosedIsStamped == case["status"] = "CLOSED" => case["closed_at"] # Null

\* closed_at and closure_reason are "set by CaseService only when entering
\* CLOSED; cleared when reopening" (models/case.py): it is true as long as no
\* request has committed a status change computed from another status.
ClosureMatchesStatus ==
  ~overtaken => /\ case["status"] = "CLOSED" <=> case["closed_at"] # Null
                /\ case["status"] = "CLOSED" <=> case["closure_reason"] # Null

\* A request that has seen u active and will make u the owner.
Assigning(r, u) ==
  pc[r] = "commit" /\ "owner_id" \in DOMAIN update[r] /\ update[r]["owner_id"] = u

\* A deactivated user whom no request is past checking.
CutOff(u) == u \notin active /\ \A r \in Requests : ~Assigning(r, u)

\* Once the requests that had checked the account before a deactivation are
\* over, a deactivated user is made the owner of no case, and no request gets
\* past the check, until the account is activated again.
InactiveUserGetsNoCase ==
  [][\A u \in Users : CutOff(u) =>
       /\ u \in active' \/ CutOff(u)'
       /\ case'["owner_id"] = u => case["owner_id"] = u]_vars

\* "A second, slightly-stale concurrent request naturally fails (409/403)":
\* what a status or owner request replaces is what it has read.  The code
\* breaks it: nothing is read again at the commit.
StaleRequestsFail ==
  [][\A r \in Requests, c \in {"status", "owner_id"} :
       pc[r] = "commit" /\ pc'[r] = "idle" /\ case' # case => ~Stale(r, c)]_vars

\* "The 'must be non-blank when closing' rule is enforced by CaseService": a
\* closed case has a reason.  The code breaks it: a reason equal to the one
\* loaded is not written, and a reopening in between has cleared it.
ClosedHasReason == case["status"] = "CLOSED" => case["closure_reason"] # Null
=============================================================================
