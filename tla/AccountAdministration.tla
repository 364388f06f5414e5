----------------------- MODULE AccountAdministration -----------------------
(***************************************************************************)
(* Admins enabling and disabling accounts: PATCH /admin/users/{id}/status, *)
(* from the authorization in api/dependencies.py to the single commit of   *)
(* services/admin_audit_service.py.                                        *)
(*                                                                         *)
(* The caller's account is read once, when the request is authorized, and  *)
(* the target's once, before the commit; neither row is locked.  Users and *)
(* roles are fixed: no route changes a role or deletes an account.         *)
(***************************************************************************)
EXTENDS Naturals

CONSTANTS
  Users, Admins,  \* accounts, and those whose role is admin
  Requests,       \* server threads; each serves one request at a time
  NoUser

ASSUME AccountConstants ==
  /\ Admins \subseteq Users /\ Admins # {}
  /\ NoUser \notin Users

VARIABLES
  active,    \* users whose is_active flag is set
  told,      \* users whose last audit row reporting a change says active
  pc,        \* where each request is
  actor,     \* the admin it has authorized
  target,    \* the account it is to change
  previous,  \* that account's flag when it was read
  wanted,    \* the flag it is to have
  orphaned   \* history: some commit was made for an admin disabled meanwhile

control == <<pc, actor, target, previous, wanted>>
vars    == <<active, told, control, orphaned>>

Init ==
  /\ active = Users
  /\ told = Users
  /\ pc = [r \in Requests |-> "idle"]
  /\ actor = [r \in Requests |-> NoUser]
  /\ target = [r \in Requests |-> NoUser]
  /\ previous = [r \in Requests |-> FALSE]
  /\ wanted = [r \in Requests |-> FALSE]
  /\ orphaned = FALSE

\* The request is over; an uncommitted change is rolled back.
End(r) ==
  /\ pc' = [pc EXCEPT ![r] = "idle"]
  /\ actor' = [actor EXCEPT ![r] = NoUser]
  /\ target' = [target EXCEPT ![r] = NoUser]
  /\ previous' = [previous EXCEPT ![r] = FALSE]
  /\ wanted' = [wanted EXCEPT ![r] = FALSE]

\* Fault: the role is not looked at.
AuthorizeAnyRole(r, u) ==
  /\ pc[r] = "idle"
  /\ u \in active
  /\ pc' = [pc EXCEPT ![r] = "authorized"]
  /\ actor' = [actor EXCEPT ![r] = u]
  /\ UNCHANGED <<active, told, target, previous, wanted, orphaned>>

\* get_current_user and require_admin: the token's user is loaded and must be
\* active, then an admin.  Anybody else is refused without a trace.
Authorize(r, u) ==
  /\ pc[r] = "idle"
  /\ u \in active \cap Admins
  /\ pc' = [pc EXCEPT ![r] = "authorized"]
  /\ actor' = [actor EXCEPT ![r] = u]
  /\ UNCHANGED <<active, told, target, previous, wanted, orphaned>>

\* Fault: an admin may target their own account.
PrepareAny(r, u, is_active) ==
  /\ pc[r] = "authorized"
  /\ pc' = [pc EXCEPT ![r] = "commit"]
  /\ target' = [target EXCEPT ![r] = u]
  /\ previous' = [previous EXCEPT ![r] = u \in active]
  /\ wanted' = [wanted EXCEPT ![r] = is_active]
  /\ UNCHANGED <<active, told, actor, orphaned>>

\* prepare_active_status_change: another account than the admin's own is read
\* and its flag assigned in memory.  A request for the own account, or for
\* none, ends here without a trace (see Fail).
Prepare(r, u, is_active) ==
  /\ pc[r] = "authorized"
  /\ u # actor[r]
  /\ pc' = [pc EXCEPT ![r] = "commit"]
  /\ target' = [target EXCEPT ![r] = u]
  /\ previous' = [previous EXCEPT ![r] = u \in active]
  /\ wanted' = [wanted EXCEPT ![r] = is_active]
  /\ UNCHANGED <<active, told, actor, orphaned>>

With(users, u, is_active) == IF is_active THEN users \cup {u} ELSE users \ {u}

\* Fault: the flag is written even if it is the one loaded.
AlwaysWritten(r, users) == With(users, target[r], wanted[r])

\* What a commit makes of the flags: SQLAlchemy emits no UPDATE when the flag
\* assigned is the one that was loaded.
Flush(r, users) ==
  IF wanted[r] = previous[r] THEN users ELSE With(users, target[r], wanted[r])

\* change_user_status: the flag and its AdminAudit row in one commit.  A row
\* that reports no change is inserted too, and says nothing new.
Commit(r) ==
  /\ pc[r] = "commit"
  /\ active' = Flush(r, active)
  /\ told' = IF wanted[r] = previous[r] THEN told ELSE With(told, target[r], wanted[r])
  /\ orphaned' = (orphaned \/ actor[r] \notin active)
  /\ End(r)

\* A refusal, a failed commit or a dead worker: rollback.
Fail(r) ==
  /\ pc[r] # "idle"
  /\ End(r)
  /\ UNCHANGED <<active, told, orphaned>>

Next ==
  \E r \in Requests :
    \/ \E u \in Users : Authorize(r, u)
    \/ \E u \in Users, is_active \in BOOLEAN : Prepare(r, u, is_active)
    \/ Commit(r)
    \/ Fail(r)

Spec == Init /\ [][Next]_vars

\* Once every admin is disabled no request is authorized any more: the model
\* stops there, as the administration of the program does.
-----------------------------------------------------------------------------
\* Every variable ranges over the values its column or local can hold.
TypeOK ==
  /\ active \subseteq Users /\ told \subseteq Users
  /\ pc \in [Requests -> {"idle", "authorized", "commit"}]
  /\ actor \in [Requests -> Admins \cup {NoUser}]
  /\ target \in [Requests -> Users \cup {NoUser}]
  /\ previous \in [Requests -> BOOLEAN]
  /\ wanted \in [Requests -> BOOLEAN]
  /\ orphaned \in BOOLEAN

\* However requests about one account overtake each other, the last audit row
\* that reports a change reports the flag the account has.
TrailTellsTheFlag == told = active

\* Some admin stays active: because none may target their own account, as
\* UserService says, but only as long as no request outlives the authority of
\* the admin it was authorized for.
AdminRemains == ~orphaned => active \cap Admins # {}

\* "That single rule makes the last-admin problem unreachable through this
\* endpoint by construction" (services/user_service.py): an admin is always
\* left.  The code breaks it: two admins can disable each other.
SomeAdminIsActive == active \cap Admins # {}
=============================================================================
