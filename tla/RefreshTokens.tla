--------------------------- MODULE RefreshTokens ---------------------------
(***************************************************************************)
(* Login and refresh-token rotation (services/token_service.py over        *)
(* repositories/refresh_token.py), as concurrent transactions on the       *)
(* refresh_tokens table under PostgreSQL's READ COMMITTED isolation.       *)
(*                                                                         *)
(* Each HTTP request runs in a thread with a database session of its own.  *)
(* A step of this model is one statement or one commit, together with the  *)
(* Python decision taken on its result, so the requests interleave exactly *)
(* where another transaction can get in between.                           *)
(*                                                                         *)
(* A family_id is a fresh UUID drawn at login; it is named here by the     *)
(* first token of the family.  A token is named by its row: the raw secret *)
(* and its hash are in bijection with it.                                  *)
(***************************************************************************)
EXTENDS Integers, FiniteSets

CONSTANTS
  Users,      \* accounts
  Tokens,     \* rows the table can ever hold (the bound on issuing)
  Requests,   \* server threads; each serves one request at a time
  NoToken, NoUser, NoRequest

ASSUME NullsAreDistinct ==
  /\ NoToken \notin Tokens
  /\ NoUser \notin Users
  /\ NoRequest \notin Requests

VARIABLES
  active,       \* users whose is_active flag is set
  issued,       \* committed rows of refresh_tokens
  user_id, family_id, replaced_by,   \* columns of those rows
  revoked,      \* rows whose revoked_at is not NULL
  expired,      \* rows whose expires_at has passed
  lock,         \* the request holding a row's FOR UPDATE lock
  pc,           \* where each request is
  row,          \* the row a request works on: the one its token hashes to,
                \* then the one it has committed for its caller
  account,      \* the user a login request has authenticated
  targets       \* rows a revoke_family statement saw as not revoked

database == <<issued, user_id, family_id, replaced_by, revoked>>
control  == <<pc, row, account, targets>>
vars     == <<active, database, expired, lock, control>>

Phases   == {"idle", "issue", "mint", "locking", "valid", "rotate", "reuse", "revoking", "refused"}

-----------------------------------------------------------------------------
(* State predicates *)

Live == issued \ revoked

Family(f) == {t \in issued : family_id[t] = f}

\* Faults for the mutation runs: an UPDATE that matches the wrong rows.
LiveRoot(f)   == Live \cap {f}
LiveOfUser(f) == {t \in Live : user_id[t] = user_id[f]}

\* The rows an UPDATE ... WHERE family_id = f AND revoked_at IS NULL matches.
LiveInFamily(f) == {t \in Live : family_id[t] = f}

\* Fault: the lookup does not lock the row.
NoForUpdate(t) == TRUE

\* SELECT ... FOR UPDATE returns once no other transaction holds the row.
RowIsFree(t) == lock[t] = NoRequest

\* Requests that can still insert a row: the bound on Tokens keeps one free
\* row for each of them, so that no request ever runs out of rows.
MayIssue ==
  {r \in Requests : \/ pc[r] \in {"issue", "valid", "rotate"}
                    \/ pc[r] = "locking" /\ row[r] \in Live}

RowLeft == Cardinality(MayIssue) < Cardinality(Tokens \ issued)

-----------------------------------------------------------------------------
Init ==
  /\ active = Users
  /\ issued = {}
  /\ user_id = [t \in Tokens |-> NoUser]
  /\ family_id = [t \in Tokens |-> NoToken]
  /\ replaced_by = [t \in Tokens |-> NoToken]
  /\ revoked = {}
  /\ expired = {}
  /\ lock = [t \in Tokens |-> NoRequest]
  /\ pc = [r \in Requests |-> "idle"]
  /\ row = [r \in Requests |-> NoToken]
  /\ account = [r \in Requests |-> NoUser]
  /\ targets = [r \in Requests |-> {}]

\* The request is over: its session is closed, which rolls back whatever is
\* uncommitted and releases its lock, and its local variables are gone.
End(r) ==
  /\ pc' = [pc EXCEPT ![r] = "idle"]
  /\ row' = [row EXCEPT ![r] = NoToken]
  /\ account' = [account EXCEPT ![r] = NoUser]
  /\ targets' = [targets EXCEPT ![r] = {}]
  /\ lock' = [t \in Tokens |-> IF lock[t] = r THEN NoRequest ELSE lock[t]]

-----------------------------------------------------------------------------
(* Login *)

\* AuthService.login: read the user, verify the password, then is_active.
LoginVerify(r, u, password_matches) ==
  /\ pc[r] = "idle"
  /\ RowLeft
  /\ \/ /\ password_matches /\ u \in active
        /\ pc' = [pc EXCEPT ![r] = "issue"]
        /\ account' = [account EXCEPT ![r] = u]
        /\ UNCHANGED <<lock, row, targets>>
     \/ /\ ~(password_matches /\ u \in active)
        /\ End(r)
  /\ UNCHANGED <<active, database, expired>>

\* Fault: every login of a user shares one family.
LoginSharesFamily(r, t) ==
  /\ pc[r] = "issue"
  /\ t \in Tokens \ issued
  /\ issued' = issued \cup {t}
  /\ family_id' = [family_id EXCEPT ![t] = account[r]]
  /\ UNCHANGED <<active, user_id, replaced_by, revoked, expired, lock, control>>

\* issue_new_login_tokens: the row opening a new family is committed before
\* the access token is signed.
LoginCommit(r, t) ==
  /\ pc[r] = "issue"
  /\ t \in Tokens \ issued
  /\ issued' = issued \cup {t}
  /\ user_id' = [user_id EXCEPT ![t] = account[r]]
  /\ family_id' = [family_id EXCEPT ![t] = t]
  /\ pc' = [pc EXCEPT ![r] = "mint"]
  /\ row' = [row EXCEPT ![r] = t]
  /\ UNCHANGED <<active, replaced_by, revoked, expired, lock,
                 account, targets>>

\* create_access_token, after the commit: the pair is returned, or signing
\* raises JWTConfigurationError and the committed row is never handed out.
\* The table does not tell one from the other.
Mint(r) ==
  /\ pc[r] = "mint"
  /\ End(r)
  /\ UNCHANGED <<active, database, expired>>

-----------------------------------------------------------------------------
(* Refresh *)

\* A caller presents a token: any row ever issued, or a secret matching none.
RefreshStart(r, t) ==
  /\ pc[r] = "idle"
  /\ t \in issued \cup {NoToken}
  /\ t \in Live => RowLeft
  /\ pc' = [pc EXCEPT ![r] = "locking"]
  /\ row' = [row EXCEPT ![r] = t]
  /\ UNCHANGED <<active, database, expired, lock, account, targets>>

\* get_by_token_hash_for_update finds no row.
RefreshUnknown(r) ==
  /\ pc[r] = "locking"
  /\ row[r] = NoToken
  /\ End(r)
  /\ UNCHANGED <<active, database, expired>>

\* get_by_token_hash_for_update: wait for the row lock, then decide on the
\* row as the last committed transaction left it.
RefreshLock(r) ==
  /\ pc[r] = "locking"
  /\ row[r] \in Tokens
  /\ RowIsFree(row[r])
  /\ \/ /\ row[r] \in revoked
        /\ lock' = [lock EXCEPT ![row[r]] = r]
        /\ pc' = [pc EXCEPT ![r] = "reuse"]
        /\ UNCHANGED <<row, account, targets>>
     \/ /\ row[r] \notin revoked
        /\ row[r] \in expired
        /\ End(r)
     \/ /\ row[r] \notin revoked \cup expired
        /\ lock' = [lock EXCEPT ![row[r]] = r]
        /\ pc' = [pc EXCEPT ![r] = "valid"]
        /\ UNCHANGED <<row, account, targets>>
  /\ UNCHANGED <<active, database, expired>>

\* Fault: the account is not looked at again.
RefreshTrustsRow(r) ==
  /\ pc[r] = "valid"
  /\ pc' = [pc EXCEPT ![r] = "rotate"]
  /\ UNCHANGED <<active, database, expired, lock, row, account, targets>>

\* UserRepository.get_by_id and the is_active check, the row lock still held.
RefreshReadUser(r) ==
  /\ pc[r] = "valid"
  /\ \/ /\ user_id[row[r]] \in active
        /\ pc' = [pc EXCEPT ![r] = "rotate"]
        /\ UNCHANGED <<lock, row, account, targets>>
     \/ /\ user_id[row[r]] \notin active
        /\ End(r)
  /\ UNCHANGED <<active, database, expired>>

\* rotate: insert the successor, revoke the row row and point it at the
\* successor, in one commit that also releases the lock.
Rotate(r, t) ==
  /\ pc[r] = "rotate"
  /\ t \in Tokens \ issued
  /\ issued' = issued \cup {t}
  /\ user_id' = [user_id EXCEPT ![t] = user_id[row[r]]]
  /\ family_id' = [family_id EXCEPT ![t] = family_id[row[r]]]
  /\ revoked' = revoked \cup {row[r]}
  /\ replaced_by' = [replaced_by EXCEPT ![row[r]] = t]
  /\ lock' = [lock EXCEPT ![row[r]] = NoRequest]
  /\ pc' = [pc EXCEPT ![r] = "mint"]
  /\ row' = [row EXCEPT ![r] = t]
  /\ UNCHANGED <<active, expired, account, targets>>

\* revoke_family begins its UPDATE: READ COMMITTED takes the statement's
\* snapshot here, and only rows committed by now can be matched.
RevokeSnapshot(r) ==
  /\ pc[r] = "reuse"
  /\ targets' = [targets EXCEPT ![r] = LiveInFamily(family_id[row[r]])]
  /\ pc' = [pc EXCEPT ![r] = "revoking"]
  /\ UNCHANGED <<active, database, expired, lock, row, account>>

\* ... waits for every matched row another transaction has locked, checks
\* WHERE again on its latest version, updates it, commits and so unlocks.
RevokeCommit(r) ==
  /\ pc[r] = "revoking"
  /\ \A t \in targets[r] : lock[t] \in {r, NoRequest}
  /\ revoked' = revoked \cup targets[r]
  /\ lock' = [lock EXCEPT ![row[r]] = NoRequest]
  /\ pc' = [pc EXCEPT ![r] = "refused"]
  /\ UNCHANGED <<active, issued, user_id, family_id, replaced_by, expired,
                 row, account, targets>>

\* InvalidRefreshTokenError after the revocation: the 401.
Refuse(r) ==
  /\ pc[r] = "refused"
  /\ End(r)
  /\ UNCHANGED <<active, database, expired>>

-----------------------------------------------------------------------------
(* Environment *)

\* The worker or its database connection dies: PostgreSQL rolls the open
\* transaction back and the caller never gets an answer.
Crash(r) ==
  /\ pc[r] # "idle"
  /\ End(r)
  /\ UNCHANGED <<active, database, expired>>

\* AdminAuditService.change_user_status, in a transaction of its own.
SetActive(u, is_active) ==
  /\ active' = IF is_active THEN active \cup {u} ELSE active \ {u}
  /\ UNCHANGED <<database, expired, lock, control>>

\* The clock passes a row's expires_at; on a revoked row nobody looks at it.
Expire(t) ==
  /\ t \in Live
  /\ expired' = expired \cup {t}
  /\ UNCHANGED <<active, database, lock, control>>

-----------------------------------------------------------------------------
Step(r) ==
  \/ \E t \in Tokens : LoginCommit(r, t) \/ Rotate(r, t)
  \/ Mint(r)
  \/ RefreshUnknown(r)
  \/ RefreshLock(r)
  \/ RefreshReadUser(r)
  \/ RevokeSnapshot(r)
  \/ RevokeCommit(r)
  \/ Refuse(r)

Next ==
  \/ \E r \in Requests :
       \/ \E u \in Users, ok \in BOOLEAN : LoginVerify(r, u, ok)
       \/ \E t \in Tokens \cup {NoToken} : RefreshStart(r, t)
       \/ Step(r)
       \/ Crash(r)
  \/ \E u \in Users, is_active \in BOOLEAN : SetActive(u, is_active)
  \/ \E t \in Tokens : Expire(t)

Spec == Init /\ [][Next]_vars

\* A thread that can run its next statement eventually does; a thread waiting
\* for a row lock that is free again and again eventually gets it, because
\* PostgreSQL queues the waiters of a row.
Fairness ==
  \A r \in Requests : /\ WF_vars(Step(r))
                      /\ SF_vars(RefreshLock(r))
                      /\ SF_vars(RevokeCommit(r))

FairSpec == Spec /\ Fairness
-----------------------------------------------------------------------------
(* Properties *)

\* Every variable ranges over the values its column or local can hold.
TypeOK ==
  /\ active \subseteq Users
  /\ issued \subseteq Tokens
  /\ user_id \in [Tokens -> Users \cup {NoUser}]
  /\ family_id \in [Tokens -> Tokens \cup {NoToken}]
  /\ replaced_by \in [Tokens -> Tokens \cup {NoToken}]
  /\ revoked \subseteq issued
  /\ expired \subseteq issued
  /\ lock \in [Tokens -> Requests \cup {NoRequest}]
  /\ pc \in [Requests -> Phases]
  /\ row \in [Requests -> Tokens \cup {NoToken}]
  /\ account \in [Requests -> Users \cup {NoUser}]
  /\ targets \in [Requests -> SUBSET Tokens]

\* At any time at most one token of a family can still be exchanged, however
\* many requests rotate and revoke it at once: the reason the lookup takes
\* FOR UPDATE (repositories/refresh_token.py, module docstring).
OneLiveTokenPerFamily ==
  \A s, t \in Live : family_id[s] = family_id[t] => s = t

\* "Two concurrent refresh attempts against the same token resolve safely
\* instead of both minting a child token from the same parent": every token
\* but a family's first is the successor of exactly one token, which is
\* revoked and belongs to the same family and user.
RotationChain ==
  \A t \in issued : family_id[t] # t =>
    /\ \E p \in revoked : /\ replaced_by[p] = t
                          /\ family_id[p] = family_id[t]
                          /\ user_id[p] = user_id[t]
    /\ \A p, q \in issued : replaced_by[p] = t /\ replaced_by[q] = t => p = q

\* Requests that detected reuse each hold a row of a family and wait for
\* others.  They never wait for each other in a circle: of any set of them, one
\* waits for nothing the set has locked, so PostgreSQL finds no deadlock to break.
NoCircularWait ==
  \A C \in SUBSET {r \in Requests : pc[r] = "revoking"} :
    C # {} => \E r \in C : \A t \in targets[r] : lock[t] \notin C

\* A family that has no live token left never gets one back: after a session
\* is killed, nothing in flight can revive it.
DeadFamilyStaysDead ==
  [][\A f \in issued : Family(f) # {} /\ LiveInFamily(f) = {} => LiveInFamily(f)' = {}]_vars

\* revoke_family returns in request r, which had been given a revoked token.
RevocationCommits(r) == pc[r] = "revoking" /\ pc'[r] = "refused"

\* When a revocation commits and a token of the family has survived it, some
\* token the UPDATE had matched was replaced meanwhile: a rotation overlapped
\* the statement, and without one the whole family is dead.
SurvivorWasRotatedMeanwhile ==
  [][\A r \in Requests : RevocationCommits(r) =>
       \A t \in Live' : family_id'[t] = family_id[row[r]] =>
         \E s \in targets[r] : replaced_by[s] # NoToken]_vars

\* Past the is_active check, on the way to inserting a row for user u.
Cleared(r, u) ==
  \/ pc[r] = "issue" /\ account[r] = u
  \/ pc[r] = "rotate" /\ user_id[row[r]] = u

\* A deactivated user for whom no request is past its is_active check.
CutOff(u) == u \notin active /\ \A r \in Requests : ~Cleared(r, u)

\* Once the requests that had read is_active before a deactivation are over,
\* a deactivated user gets no token, by login or by refresh, and no request
\* gets past the check, until the account is activated again.
InactiveUserGetsNoToken ==
  [][\A u \in Users : CutOff(u) =>
       /\ u \in active' \/ CutOff(u)'
       /\ \A t \in issued' \ issued : user_id'[t] # u]_vars

\* The locks and commits make each login, rotation and revocation look like one
\* step on a chain of tokens of which at most one is live.
Chain == INSTANCE SessionChain WITH family <- family_id, live <- Live
ImplementsSessionChain == Chain!Spec

\* Every request is over at some point: no thread waits for a row lock for
\* ever, whatever the other requests of the family do.
EveryRequestEnds == \A r \in Requests : pc[r] # "idle" ~> pc[r] = "idle"

\* "Presenting an already-revoked token ... revokes the entire family"
\* (services/token_service.py): no token of the family is live when the
\* revocation commits.  The code breaks it.
ReuseRevokesEntireFamily ==
  [][\A r \in Requests : RevocationCommits(r) =>
       \A t \in Live' : family_id'[t] # family_id[row[r]]]_vars
=============================================================================
