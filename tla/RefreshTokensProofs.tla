------------------------ MODULE RefreshTokensProofs ------------------------
(* Theorems about RefreshTokens, for any users, tokens and requests. *)
EXTENDS RefreshTokens, TLAPS

(***************************************************************************)
(* The inductive invariant.  The safety properties are not inductive: they *)
(* hold because of who holds which row lock and what the row was like when *)
(* the lock was taken.                                                     *)
(***************************************************************************)

\* The columns of the committed rows.
Columns ==
  \A t \in Tokens :
    /\ t \in issued => family_id[t] \in issued
    /\ t \notin issued => replaced_by[t] = NoToken
    /\ replaced_by[t] # NoToken =>
         /\ t \in revoked
         /\ replaced_by[t] \in issued
         /\ family_id[replaced_by[t]] = family_id[t]
         /\ user_id[replaced_by[t]] = user_id[t]

\* A request between its locked lookup and its commit holds the lock of its
\* row, and nobody else's row is locked.
LockHolder ==
  /\ \A r \in Requests : pc[r] \in {"valid", "rotate", "reuse", "revoking"} =>
       row[r] \in issued /\ lock[row[r]] = r
  /\ \A t \in Tokens, r \in Requests : lock[t] = r =>
       row[r] = t /\ pc[r] \in {"valid", "rotate", "reuse", "revoking"}

\* A request waits for the lock of a row, not of a token nobody was given.
WaitsForARow ==
  \A r \in Requests : pc[r] = "locking" => row[r] \in issued \cup {NoToken}

\* What the request saw under the lock still holds.
DecisionIsCurrent ==
  \A r \in Requests :
    /\ pc[r] \in {"valid", "rotate"} => row[r] \notin revoked
    /\ pc[r] \in {"reuse", "revoking"} => row[r] \in revoked

\* The live tokens of the family are those the UPDATE matched, or it matched
\* one that has been exchanged since.
SnapshotCoversLive ==
  \A r \in Requests : pc[r] = "revoking" =>
    /\ row[r] \notin targets[r]
    /\ \A s \in targets[r] : s \in issued /\ family_id[s] = family_id[row[r]]
    /\ \A t \in Live : family_id[t] = family_id[row[r]] =>
         t \in targets[r] \/ \E s \in targets[r] : replaced_by[s] # NoToken

IInv == /\ TypeOK
        /\ Columns
        /\ LockHolder
        /\ WaitsForARow
        /\ DecisionIsCurrent
        /\ OneLiveTokenPerFamily
        /\ RotationChain
        /\ SnapshotCoversLive
        /\ NoCircularWait
-----------------------------------------------------------------------------
(* The three ways a step can touch the table; every other step leaves it. *)

LEMMA TableSteps ==
  ASSUME [Next]_vars
  PROVE  \/ UNCHANGED database
         \/ \E r \in Requests, t \in Tokens : LoginCommit(r, t)
         \/ \E r \in Requests, t \in Tokens : Rotate(r, t)
         \/ \E r \in Requests : RevokeCommit(r)
<1> USE DEF database
<1>1. CASE UNCHANGED vars
  BY <1>1 DEF vars
<1>2. ASSUME NEW r \in Requests, NEW u \in Users, NEW ok \in BOOLEAN,
             LoginVerify(r, u, ok)
      PROVE  UNCHANGED database
  BY <1>2 DEF LoginVerify
<1>3. ASSUME NEW r \in Requests, NEW t \in Tokens \cup {NoToken}, RefreshStart(r, t)
      PROVE  UNCHANGED database
  BY <1>3 DEF RefreshStart
<1>4. ASSUME NEW r \in Requests,
             \/ Mint(r) \/ RefreshUnknown(r) \/ RefreshLock(r) \/ RefreshReadUser(r)
             \/ RevokeSnapshot(r) \/ Refuse(r) \/ Crash(r)
      PROVE  UNCHANGED database
  BY <1>4 DEF Mint, RefreshUnknown, RefreshLock, RefreshReadUser, RevokeSnapshot, Refuse, Crash
<1>5. ASSUME NEW u \in Users, NEW is_active \in BOOLEAN, SetActive(u, is_active)
      PROVE  UNCHANGED database
  BY <1>5 DEF SetActive
<1>6. ASSUME NEW t \in Tokens, Expire(t)
      PROVE  UNCHANGED database
  BY <1>6 DEF Expire
<1>7. QED
  BY <1>1, <1>2, <1>3, <1>4, <1>5, <1>6 DEF Next, Step

LEMMA TypeInit == Init => TypeOK
BY DEF Init, TypeOK, Phases

LEMMA EndType ==
  ASSUME TypeOK, NEW r \in Requests, End(r)
  PROVE  /\ lock' \in [Tokens -> Requests \cup {NoRequest}]
         /\ pc' \in [Requests -> Phases]
         /\ row' \in [Requests -> Tokens \cup {NoToken}]
         /\ account' \in [Requests -> Users \cup {NoUser}]
         /\ targets' \in [Requests -> SUBSET Tokens]
BY DEF TypeOK, End, Phases

\* Splits a step by action: whatever each action establishes, a step does.
LEMMA StepCases ==
  ASSUME [Next]_vars
  PROVE  \/ UNCHANGED vars
         \/ \E r \in Requests, u \in Users, ok \in BOOLEAN : LoginVerify(r, u, ok)
         \/ \E r \in Requests, t \in Tokens : LoginCommit(r, t) \/ Rotate(r, t)
         \/ \E r \in Requests, t \in Tokens \cup {NoToken} : RefreshStart(r, t)
         \/ \E r \in Requests : RefreshLock(r)
         \/ \E r \in Requests : RefreshReadUser(r)
         \/ \E r \in Requests : RevokeSnapshot(r)
         \/ \E r \in Requests : RevokeCommit(r)
         \/ \E r \in Requests : /\ Mint(r) \/ RefreshUnknown(r) \/ Refuse(r) \/ Crash(r)
                                /\ UNCHANGED <<active, database, expired>>
         \/ \E u \in Users, b \in BOOLEAN : SetActive(u, b)
         \/ \E t \in Tokens : Expire(t)
BY DEF Next, Step, Mint, RefreshUnknown, Refuse, Crash

LEMMA TypeStep == IInv /\ [Next]_vars => TypeOK'
<1> SUFFICES ASSUME IInv, [Next]_vars PROVE TypeOK'
  OBVIOUS
<1> TypeOK
  BY DEF IInv
<1> USE DEF database
<1>1. CASE UNCHANGED vars
  BY <1>1 DEF vars, control, TypeOK
<1>2. ASSUME NEW r \in Requests, NEW u \in Users, NEW ok \in BOOLEAN,
             LoginVerify(r, u, ok)
      PROVE  TypeOK'
  <2>1. CASE End(r)
    BY <1>2, <2>1, EndType DEF TypeOK, LoginVerify
  <2>2. CASE ok /\ u \in active
    BY <1>2, <2>2 DEF TypeOK, LoginVerify, Phases
  <2>3. QED
    BY <1>2, <2>1, <2>2 DEF LoginVerify
<1>3. ASSUME NEW r \in Requests, NEW t \in Tokens, LoginCommit(r, t)
      PROVE  TypeOK'
  BY <1>3 DEF TypeOK, LoginCommit, Phases
<1>4. ASSUME NEW r \in Requests, NEW t \in Tokens, Rotate(r, t)
      PROVE  TypeOK'
  <2>1. row[r] \in issued
    BY <1>4 DEF Rotate, IInv, LockHolder
  <2>2. QED
    BY <1>4, <2>1 DEF TypeOK, Rotate, Phases
<1>5. ASSUME NEW r \in Requests, NEW t \in Tokens \cup {NoToken}, RefreshStart(r, t)
      PROVE  TypeOK'
  BY <1>5 DEF TypeOK, RefreshStart, Phases
<1>6. ASSUME NEW r \in Requests, RefreshLock(r)
      PROVE  TypeOK'
  <2>1. CASE End(r)
    BY <1>6, <2>1, EndType DEF TypeOK, RefreshLock
  <2>2. CASE ~End(r)
    BY <1>6, <2>2 DEF TypeOK, RefreshLock, Phases
  <2>3. QED
    BY <2>1, <2>2
<1>7. ASSUME NEW r \in Requests, RefreshReadUser(r)
      PROVE  TypeOK'
  <2>1. CASE End(r)
    BY <1>7, <2>1, EndType DEF TypeOK, RefreshReadUser
  <2>2. CASE ~End(r)
    BY <1>7, <2>2 DEF TypeOK, RefreshReadUser, Phases
  <2>3. QED
    BY <2>1, <2>2
<1>8. ASSUME NEW r \in Requests, RevokeSnapshot(r)
      PROVE  TypeOK'
  BY <1>8 DEF TypeOK, RevokeSnapshot, LiveInFamily, Live, Phases
<1>9. ASSUME NEW r \in Requests, RevokeCommit(r)
      PROVE  TypeOK'
  <2>1. targets[r] \subseteq issued
    BY <1>9 DEF RevokeCommit, IInv, SnapshotCoversLive
  <2>2. QED
    BY <1>9, <2>1 DEF TypeOK, RevokeCommit, Phases
<1>10. ASSUME NEW r \in Requests, Mint(r) \/ RefreshUnknown(r) \/ Refuse(r) \/ Crash(r),
              UNCHANGED <<active, database, expired>>
       PROVE  TypeOK'
  <2>1. End(r)
    BY <1>10 DEF Mint, RefreshUnknown, Refuse, Crash
  <2>2. QED
    BY <1>10, <2>1, EndType DEF TypeOK
<1>11. ASSUME NEW u \in Users, NEW b \in BOOLEAN, SetActive(u, b)
       PROVE  TypeOK'
  BY <1>11 DEF TypeOK, SetActive, control
<1>12. ASSUME NEW t \in Tokens, Expire(t)
       PROVE  TypeOK'
  BY <1>12 DEF TypeOK, Expire, control, Live
<1>13. QED
  BY StepCases, <1>1, <1>2, <1>3, <1>4, <1>5, <1>6, <1>7, <1>8, <1>9, <1>10, <1>11, <1>12

-----------------------------------------------------------------------------
(* The table *)

LEMMA ColumnsStep == IInv /\ [Next]_vars => Columns'
<1> SUFFICES ASSUME IInv, [Next]_vars PROVE Columns'
  OBVIOUS
<1> TypeOK /\ Columns
  BY DEF IInv
<1>1. CASE UNCHANGED database
  BY <1>1 DEF Columns, database
<1>2. ASSUME NEW r \in Requests, NEW t \in Tokens, LoginCommit(r, t)
      PROVE  Columns'
  BY <1>2 DEF Columns, LoginCommit, TypeOK
<1>3. ASSUME NEW r \in Requests, NEW t \in Tokens, Rotate(r, t)
      PROVE  Columns'
  <2>1. row[r] \in issued /\ row[r] \notin revoked
    BY <1>3 DEF Rotate, IInv, LockHolder, DecisionIsCurrent
  <2>2. QED
    BY <1>3, <2>1, NullsAreDistinct DEF Columns, Rotate, TypeOK
<1>4. ASSUME NEW r \in Requests, RevokeCommit(r)
      PROVE  Columns'
  BY <1>4 DEF Columns, RevokeCommit, TypeOK
<1>5. QED
  BY TableSteps, <1>1, <1>2, <1>3, <1>4

LEMMA OneLiveStep == IInv /\ [Next]_vars => OneLiveTokenPerFamily'
<1> SUFFICES ASSUME IInv, [Next]_vars PROVE OneLiveTokenPerFamily'
  OBVIOUS
<1> TypeOK /\ Columns /\ OneLiveTokenPerFamily
  BY DEF IInv
<1>1. CASE UNCHANGED database
  BY <1>1 DEF OneLiveTokenPerFamily, Live, database
<1>2. ASSUME NEW r \in Requests, NEW t \in Tokens, LoginCommit(r, t)
      PROVE  OneLiveTokenPerFamily'
  BY <1>2 DEF OneLiveTokenPerFamily, Live, LoginCommit, TypeOK, Columns
<1>3. ASSUME NEW r \in Requests, NEW t \in Tokens, Rotate(r, t)
      PROVE  OneLiveTokenPerFamily'
  <2>1. row[r] \in issued /\ row[r] \notin revoked
    BY <1>3 DEF Rotate, IInv, LockHolder, DecisionIsCurrent
  <2>2. Live' = (Live \ {row[r]}) \cup {t}
    BY <1>3, <2>1 DEF Live, Rotate, TypeOK
  <2>3. /\ family_id'[t] = family_id[row[r]]
        /\ \A s \in Live : family_id'[s] = family_id[s]
    BY <1>3 DEF Live, Rotate, TypeOK
  <2>4. row[r] \in Live
    BY <2>1 DEF Live
  <2>5. QED
    BY <2>2, <2>3, <2>4 DEF OneLiveTokenPerFamily
<1>4. ASSUME NEW r \in Requests, RevokeCommit(r)
      PROVE  OneLiveTokenPerFamily'
  BY <1>4 DEF OneLiveTokenPerFamily, Live, RevokeCommit
<1>5. QED
  BY TableSteps, <1>1, <1>2, <1>3, <1>4

LEMMA RotationChainStep == IInv /\ [Next]_vars => RotationChain'
<1> SUFFICES ASSUME IInv, [Next]_vars PROVE RotationChain'
  OBVIOUS
<1> TypeOK /\ Columns /\ RotationChain
  BY DEF IInv
<1>1. CASE UNCHANGED database
  BY <1>1 DEF RotationChain, database
<1>2. ASSUME NEW r \in Requests, NEW t \in Tokens, LoginCommit(r, t)
      PROVE  RotationChain'
  <2>1. /\ revoked' = revoked /\ replaced_by' = replaced_by
        /\ issued' = issued \cup {t} /\ t \notin issued
        /\ family_id'[t] = t
        /\ \A s \in issued : family_id'[s] = family_id[s] /\ user_id'[s] = user_id[s]
    BY <1>2 DEF LoginCommit, TypeOK
  <2>2. replaced_by[t] = NoToken
    BY <2>1, <1>2 DEF Columns
  <2>3. QED
    BY <2>1, <2>2, NullsAreDistinct DEF RotationChain, TypeOK
<1>3. ASSUME NEW r \in Requests, NEW t \in Tokens, Rotate(r, t)
      PROVE  RotationChain'
  <2>1. row[r] \in issued /\ row[r] \notin revoked
    BY <1>3 DEF Rotate, IInv, LockHolder, DecisionIsCurrent
  <2> DEFINE p == row[r]
  <2>2. /\ revoked' = revoked \cup {p} /\ replaced_by' = [replaced_by EXCEPT ![p] = t]
        /\ issued' = issued \cup {t} /\ t \notin issued
        /\ family_id'[t] = family_id[p] /\ user_id'[t] = user_id[p]
        /\ \A s \in issued : family_id'[s] = family_id[s] /\ user_id'[s] = user_id[s]
    BY <1>3 DEF Rotate, TypeOK
  <2>3. \A s \in Tokens : replaced_by[s] # t
    BY <2>2, NullsAreDistinct, <1>3 DEF Columns, TypeOK
  <2>4. replaced_by'[p] = t /\ \A s \in Tokens : s # p => replaced_by'[s] = replaced_by[s]
    BY <2>1, <2>2 DEF TypeOK
  <2>5. replaced_by[p] = NoToken
    BY <2>1 DEF Columns, TypeOK
  <2>6. SUFFICES ASSUME NEW x \in issued', family_id'[x] # x
        PROVE  /\ \E q \in revoked' : /\ replaced_by'[q] = x
                                      /\ family_id'[q] = family_id'[x]
                                      /\ user_id'[q] = user_id'[x]
               /\ \A q1, q2 \in issued' : replaced_by'[q1] = x /\ replaced_by'[q2] = x => q1 = q2
    BY DEF RotationChain
  <2>7. CASE x = t
    BY <2>1, <2>2, <2>3, <2>4, <2>7 DEF TypeOK
  <2>8. CASE x # t
    <3>1. x \in issued /\ family_id[x] # x
      BY <2>2, <2>6, <2>8
    <3>2. PICK q \in revoked : /\ replaced_by[q] = x
                               /\ family_id[q] = family_id[x]
                               /\ user_id[q] = user_id[x]
      BY <3>1 DEF RotationChain
    <3>3. q # p /\ q \in issued
      BY <3>2, <2>1 DEF TypeOK
    <3>4. /\ replaced_by'[q] = x /\ family_id'[q] = family_id'[x] /\ user_id'[q] = user_id'[x]
      BY <3>1, <3>2, <3>3, <2>2, <2>4 DEF TypeOK
    <3>5. ASSUME NEW q1 \in issued', NEW q2 \in issued',
                 replaced_by'[q1] = x, replaced_by'[q2] = x
          PROVE  q1 = q2
      <4>1. replaced_by[t] = NoToken
        BY <2>2, <1>3 DEF Columns
      <4>2. x # NoToken /\ t \in Tokens
        BY <3>1, NullsAreDistinct, <1>3 DEF TypeOK
      <4>3. q1 # p /\ q2 # p /\ q1 # t /\ q2 # t
        BY <3>5, <2>4, <2>8, <4>1, <4>2, <2>1, <2>2
      <4>4. q1 \in issued /\ q2 \in issued
        BY <4>3, <2>2
      <4>5. replaced_by[q1] = x /\ replaced_by[q2] = x
        BY <4>3, <4>4, <3>5, <2>4 DEF TypeOK
      <4>6. QED
        BY <3>1, <4>4, <4>5 DEF RotationChain
    <3>6. QED
      BY <3>2, <3>4, <3>5, <2>2
  <2>9. QED
    BY <2>7, <2>8
<1>4. ASSUME NEW r \in Requests, RevokeCommit(r)
      PROVE  RotationChain'
  BY <1>4 DEF RotationChain, RevokeCommit
<1>5. QED
  BY TableSteps, <1>1, <1>2, <1>3, <1>4

-----------------------------------------------------------------------------
(* Locks and decisions *)

LEMMA LockStep == IInv /\ [Next]_vars => LockHolder'
<1> SUFFICES ASSUME IInv, [Next]_vars PROVE LockHolder'
  OBVIOUS
<1> TypeOK /\ LockHolder
  BY DEF IInv
<1> USE NullsAreDistinct DEF database
<1>0. ASSUME NEW r \in Requests, End(r), issued' = issued
      PROVE  LockHolder'
  BY <1>0 DEF LockHolder, End, TypeOK
<1>1. CASE UNCHANGED vars
  BY <1>1 DEF vars, control, LockHolder
<1>2. ASSUME NEW r \in Requests, NEW u \in Users, NEW ok \in BOOLEAN,
             LoginVerify(r, u, ok)
      PROVE  LockHolder'
  <2>1. CASE ok /\ u \in active
    BY <1>2, <2>1 DEF LoginVerify, LockHolder, TypeOK
  <2>2. CASE ~(ok /\ u \in active)
    BY <1>0, <1>2, <2>2 DEF LoginVerify
  <2>3. QED
    BY <2>1, <2>2
<1>3. ASSUME NEW r \in Requests, NEW t \in Tokens, LoginCommit(r, t)
      PROVE  LockHolder'
  BY <1>3 DEF LoginCommit, LockHolder, TypeOK
<1>4. ASSUME NEW r \in Requests, NEW t \in Tokens, Rotate(r, t)
      PROVE  LockHolder'
  BY <1>4 DEF Rotate, LockHolder, TypeOK
<1>5. ASSUME NEW r \in Requests, NEW t \in Tokens \cup {NoToken}, RefreshStart(r, t)
      PROVE  LockHolder'
  BY <1>5 DEF RefreshStart, LockHolder, TypeOK
<1>6. ASSUME NEW r \in Requests, RefreshLock(r)
      PROVE  LockHolder'
  <2>1. CASE End(r)
    BY <1>0, <1>6, <2>1 DEF RefreshLock
  <2>2. CASE ~End(r)
    <3>1. row[r] \in Tokens /\ lock[row[r]] = NoRequest /\ pc[r] = "locking"
      BY <1>6 DEF RefreshLock, RowIsFree
    <3>2. /\ lock' = [lock EXCEPT ![row[r]] = r]
          /\ \/ pc' = [pc EXCEPT ![r] = "reuse"] /\ row[r] \in revoked
             \/ pc' = [pc EXCEPT ![r] = "valid"]
          /\ row' = row /\ issued' = issued
      BY <1>6, <2>2 DEF RefreshLock
    <3>3. row[r] \in issued
      BY <1>6 DEF RefreshLock, IInv, WaitsForARow
    <3>4. QED
      BY <3>1, <3>2, <3>3 DEF LockHolder, TypeOK
  <2>3. QED
    BY <2>1, <2>2
<1>7. ASSUME NEW r \in Requests, RefreshReadUser(r)
      PROVE  LockHolder'
  <2>1. CASE user_id[row[r]] \in active
    BY <1>7, <2>1 DEF RefreshReadUser, LockHolder, TypeOK
  <2>2. CASE user_id[row[r]] \notin active
    BY <1>0, <1>7, <2>2 DEF RefreshReadUser
  <2>3. QED
    BY <2>1, <2>2
<1>8. ASSUME NEW r \in Requests, RevokeSnapshot(r)
      PROVE  LockHolder'
  BY <1>8 DEF RevokeSnapshot, LockHolder, TypeOK
<1>9. ASSUME NEW r \in Requests, RevokeCommit(r)
      PROVE  LockHolder'
  BY <1>9 DEF RevokeCommit, LockHolder, TypeOK
<1>10. ASSUME NEW r \in Requests, Mint(r) \/ RefreshUnknown(r) \/ Refuse(r) \/ Crash(r),
              UNCHANGED <<active, database, expired>>
       PROVE  LockHolder'
  BY <1>0, <1>10 DEF Mint, RefreshUnknown, Refuse, Crash
<1>11. ASSUME NEW u \in Users, NEW b \in BOOLEAN, SetActive(u, b)
       PROVE  LockHolder'
  BY <1>11 DEF LockHolder, SetActive, control
<1>12. ASSUME NEW t \in Tokens, Expire(t)
       PROVE  LockHolder'
  BY <1>12 DEF LockHolder, Expire, control
<1>13. QED
  BY StepCases, <1>1, <1>2, <1>3, <1>4, <1>5, <1>6, <1>7, <1>8, <1>9, <1>10, <1>11, <1>12

LEMMA WaitsStep == IInv /\ [Next]_vars => WaitsForARow'
<1> SUFFICES ASSUME IInv, [Next]_vars PROVE WaitsForARow'
  OBVIOUS
<1> TypeOK /\ WaitsForARow
  BY DEF IInv
<1> USE DEF WaitsForARow, database
<1>0. ASSUME NEW r \in Requests, End(r), issued' = issued
      PROVE  WaitsForARow'
  BY <1>0 DEF End, TypeOK
<1>1. CASE UNCHANGED vars
  BY <1>1 DEF vars, control
<1>2. ASSUME NEW r \in Requests, NEW u \in Users, NEW ok \in BOOLEAN,
             LoginVerify(r, u, ok)
      PROVE  WaitsForARow'
  BY <1>0, <1>2 DEF LoginVerify, TypeOK
<1>3. ASSUME NEW r \in Requests, NEW t \in Tokens, LoginCommit(r, t) \/ Rotate(r, t)
      PROVE  WaitsForARow'
  BY <1>3 DEF LoginCommit, Rotate, TypeOK
<1>4. ASSUME NEW r \in Requests, NEW t \in Tokens \cup {NoToken}, RefreshStart(r, t)
      PROVE  WaitsForARow'
  BY <1>4 DEF RefreshStart, TypeOK
<1>5. ASSUME NEW r \in Requests,
             RefreshLock(r) \/ RefreshReadUser(r) \/ RevokeSnapshot(r) \/ RevokeCommit(r)
      PROVE  WaitsForARow'
  <2>1. CASE End(r)
    BY <1>0, <1>5, <2>1 DEF RefreshLock, RefreshReadUser, RevokeSnapshot, RevokeCommit
  <2>2. CASE ~End(r)
    BY <1>5, <2>2 DEF RefreshLock, RefreshReadUser, RevokeSnapshot, RevokeCommit, TypeOK
  <2>3. QED
    BY <2>1, <2>2
<1>6. ASSUME NEW r \in Requests, Mint(r) \/ RefreshUnknown(r) \/ Refuse(r) \/ Crash(r),
             UNCHANGED <<active, database, expired>>
      PROVE  WaitsForARow'
  BY <1>0, <1>6 DEF Mint, RefreshUnknown, Refuse, Crash
<1>7. ASSUME NEW u \in Users, NEW b \in BOOLEAN, SetActive(u, b)
      PROVE  WaitsForARow'
  BY <1>7 DEF SetActive, control
<1>8. ASSUME NEW t \in Tokens, Expire(t)
      PROVE  WaitsForARow'
  BY <1>8 DEF Expire, control
<1>9. QED
  BY StepCases, <1>1, <1>2, <1>3, <1>4, <1>5, <1>6, <1>7, <1>8

LEMMA DecisionStep == IInv /\ [Next]_vars => DecisionIsCurrent'
<1> SUFFICES ASSUME IInv, [Next]_vars PROVE DecisionIsCurrent'
  OBVIOUS
<1> TypeOK /\ LockHolder /\ DecisionIsCurrent
  BY DEF IInv
<1> USE DEF database
<1>0. ASSUME NEW r \in Requests, End(r), revoked' = revoked
      PROVE  DecisionIsCurrent'
  BY <1>0 DEF DecisionIsCurrent, End, TypeOK
<1>1. CASE UNCHANGED vars
  BY <1>1 DEF vars, control, DecisionIsCurrent
<1>2. ASSUME NEW r \in Requests, NEW u \in Users, NEW ok \in BOOLEAN,
             LoginVerify(r, u, ok)
      PROVE  DecisionIsCurrent'
  BY <1>0, <1>2 DEF LoginVerify, TypeOK, DecisionIsCurrent
<1>3. ASSUME NEW r \in Requests, NEW t \in Tokens, LoginCommit(r, t)
      PROVE  DecisionIsCurrent'
  BY <1>3 DEF LoginCommit, TypeOK, DecisionIsCurrent
<1>4. ASSUME NEW r \in Requests, NEW t \in Tokens, Rotate(r, t)
      PROVE  DecisionIsCurrent'
  <2>1. ASSUME NEW q \in Requests, pc[q] \in {"valid", "rotate"}, q # r
        PROVE  row[q] # row[r]
    BY <1>4, <2>1 DEF Rotate, LockHolder
  <2>2. QED
    BY <1>4, <2>1 DEF Rotate, DecisionIsCurrent, TypeOK
<1>5. ASSUME NEW r \in Requests, NEW t \in Tokens \cup {NoToken}, RefreshStart(r, t)
      PROVE  DecisionIsCurrent'
  BY <1>5 DEF RefreshStart, TypeOK, DecisionIsCurrent
<1>6. ASSUME NEW r \in Requests, RefreshLock(r) \/ RefreshReadUser(r) \/ RevokeSnapshot(r)
      PROVE  DecisionIsCurrent'
  <2>1. CASE End(r)
    BY <1>0, <1>6, <2>1 DEF RefreshLock, RefreshReadUser, RevokeSnapshot
  <2>2. CASE ~End(r)
    BY <1>6, <2>2 DEF RefreshLock, RefreshReadUser, RevokeSnapshot, TypeOK, DecisionIsCurrent
  <2>3. QED
    BY <2>1, <2>2
<1>7. ASSUME NEW r \in Requests, RevokeCommit(r)
      PROVE  DecisionIsCurrent'
  \* The rows it updates are free, so no other request relies on them.
  <2>1. ASSUME NEW q \in Requests, pc[q] \in {"valid", "rotate"}
        PROVE  row[q] \notin targets[r]
    <3>1. lock[row[q]] = q /\ q # r /\ row[q] \in Tokens
      BY <1>7, <2>1 DEF RevokeCommit, LockHolder, TypeOK
    <3>2. q # NoRequest
      BY NullsAreDistinct
    <3>3. QED
      BY <1>7, <3>1, <3>2 DEF RevokeCommit
  <2>2. QED
    BY <1>7, <2>1 DEF RevokeCommit, DecisionIsCurrent, TypeOK
<1>8. ASSUME NEW r \in Requests, Mint(r) \/ RefreshUnknown(r) \/ Refuse(r) \/ Crash(r),
             UNCHANGED <<active, database, expired>>
      PROVE  DecisionIsCurrent'
  BY <1>0, <1>8 DEF Mint, RefreshUnknown, Refuse, Crash
<1>9. ASSUME NEW u \in Users, NEW b \in BOOLEAN, SetActive(u, b)
      PROVE  DecisionIsCurrent'
  BY <1>9 DEF SetActive, control, DecisionIsCurrent
<1>10. ASSUME NEW t \in Tokens, Expire(t)
       PROVE  DecisionIsCurrent'
  BY <1>10 DEF Expire, control, DecisionIsCurrent
<1>11. QED
  BY StepCases, <1>1, <1>2, <1>3, <1>4, <1>5, <1>6, <1>7, <1>8, <1>9, <1>10

-----------------------------------------------------------------------------
(* Revocations *)

LEMMA SnapshotStep == IInv /\ [Next]_vars => SnapshotCoversLive'
<1> SUFFICES ASSUME IInv, [Next]_vars PROVE SnapshotCoversLive'
  OBVIOUS
<1> TypeOK /\ Columns /\ LockHolder /\ DecisionIsCurrent /\ SnapshotCoversLive
  BY DEF IInv
<1> USE DEF database
<1>0. ASSUME NEW r \in Requests, End(r), UNCHANGED database
      PROVE  SnapshotCoversLive'
  BY <1>0 DEF SnapshotCoversLive, Live, End, TypeOK
<1>1. CASE UNCHANGED vars
  BY <1>1 DEF vars, control, SnapshotCoversLive, Live
<1>2. ASSUME NEW r \in Requests, NEW u \in Users, NEW ok \in BOOLEAN,
             LoginVerify(r, u, ok)
      PROVE  SnapshotCoversLive'
  BY <1>0, <1>2 DEF LoginVerify, TypeOK, SnapshotCoversLive, Live
<1>3. ASSUME NEW r \in Requests, NEW t \in Tokens, LoginCommit(r, t)
      PROVE  SnapshotCoversLive'
  <2>1. SUFFICES ASSUME NEW q \in Requests, pc'[q] = "revoking"
        PROVE  /\ row'[q] \notin targets'[q]
               /\ \A s \in targets'[q] : s \in issued' /\ family_id'[s] = family_id'[row'[q]]
               /\ \A x \in Live' : family_id'[x] = family_id'[row'[q]] =>
                    x \in targets'[q] \/ \E s \in targets'[q] : replaced_by'[s] # NoToken
    BY DEF SnapshotCoversLive
  <2>2. q # r /\ pc[q] = "revoking" /\ row'[q] = row[q] /\ targets'[q] = targets[q]
    BY <1>3, <2>1 DEF LoginCommit, TypeOK
  <2>3. row[q] \in issued
    BY <2>2 DEF LockHolder
  <2>4. /\ Live' = Live \cup {t} /\ t \notin issued /\ replaced_by' = replaced_by
        /\ issued' = issued \cup {t} /\ family_id'[t] = t
        /\ \A x \in issued : family_id'[x] = family_id[x]
    BY <1>3 DEF LoginCommit, Live, TypeOK
  <2>5. family_id[row[q]] \in issued
    BY <2>3 DEF Columns, TypeOK
  <2>6. \A s \in targets[q] : s \in issued
    BY <2>2 DEF SnapshotCoversLive
  <2>7. Live \subseteq issued
    BY DEF Live
  <2>8. QED
    BY <2>2, <2>3, <2>4, <2>5, <2>6, <2>7 DEF SnapshotCoversLive
<1>4. ASSUME NEW r \in Requests, NEW t \in Tokens, Rotate(r, t)
      PROVE  SnapshotCoversLive'
  <2>1. SUFFICES ASSUME NEW q \in Requests, pc'[q] = "revoking"
        PROVE  /\ row'[q] \notin targets'[q]
               /\ \A s \in targets'[q] : s \in issued' /\ family_id'[s] = family_id'[row'[q]]
               /\ \A x \in Live' : family_id'[x] = family_id'[row'[q]] =>
                    x \in targets'[q] \/ \E s \in targets'[q] : replaced_by'[s] # NoToken
    BY DEF SnapshotCoversLive
  <2>2. q # r /\ pc[q] = "revoking" /\ row'[q] = row[q] /\ targets'[q] = targets[q]
    BY <1>4, <2>1 DEF Rotate, TypeOK
  <2>3. row[q] \in issued
    BY <2>2 DEF LockHolder
  <2> DEFINE p == row[r]
  <2>4. p \in issued /\ p \notin revoked /\ p \in Live
    BY <1>4 DEF Rotate, LockHolder, DecisionIsCurrent, Live
  <2>5. /\ Live' = (Live \ {p}) \cup {t} /\ t \notin issued
        /\ issued' = issued \cup {t} /\ family_id'[t] = family_id[p]
        /\ \A x \in issued : family_id'[x] = family_id[x]
    BY <1>4, <2>4 DEF Rotate, Live, TypeOK
  <2>6. replaced_by'[p] = t /\ \A x \in Tokens : x # p => replaced_by'[x] = replaced_by[x]
    BY <1>4, <2>4 DEF Rotate, TypeOK
  <2>7. t # NoToken
    BY NullsAreDistinct
  <2>8. \A s \in targets[q] : s \in issued /\ s \in Tokens /\ family_id[s] = family_id[row[q]]
    BY <2>2 DEF SnapshotCoversLive, TypeOK
  <2>9. \A s \in targets[q] : replaced_by[s] # NoToken => replaced_by'[s] # NoToken
    BY <2>6, <2>7, <2>8
  <2>10. \A x \in Live : family_id[x] = family_id[row[q]] =>
           x \in targets[q] \/ \E s \in targets[q] : replaced_by[s] # NoToken
    BY <2>2 DEF SnapshotCoversLive
  \* The successor is live, but the token it replaces was covered.
  <2>11. ASSUME NEW x \in Live', family_id'[x] = family_id[row[q]]
         PROVE  x \in targets[q] \/ \E s \in targets[q] : replaced_by'[s] # NoToken
    <3>1. CASE x = t
      BY <2>4, <2>5, <2>6, <2>7, <2>9, <2>10, <2>11, <3>1
    <3>2. CASE x # t
      <4>1. x \in Live /\ x \in issued
        BY <2>5, <2>11, <3>2 DEF Live
      <4>2. QED
        BY <2>5, <2>9, <2>10, <2>11, <4>1
    <3>3. QED
      BY <3>1, <3>2
  <2>12. row[q] \notin targets[q]
    BY <2>2 DEF SnapshotCoversLive
  <2>13. QED
    BY <2>2, <2>3, <2>5, <2>8, <2>11, <2>12
<1>5. ASSUME NEW r \in Requests, NEW t \in Tokens \cup {NoToken}, RefreshStart(r, t)
      PROVE  SnapshotCoversLive'
  BY <1>5 DEF RefreshStart, TypeOK, SnapshotCoversLive, Live
<1>6. ASSUME NEW r \in Requests, RefreshLock(r) \/ RefreshReadUser(r)
      PROVE  SnapshotCoversLive'
  <2>1. CASE End(r)
    BY <1>0, <1>6, <2>1 DEF RefreshLock, RefreshReadUser
  <2>2. CASE ~End(r)
    BY <1>6, <2>2 DEF RefreshLock, RefreshReadUser, TypeOK, SnapshotCoversLive, Live
  <2>3. QED
    BY <2>1, <2>2
<1>7. ASSUME NEW r \in Requests, RevokeSnapshot(r)
      PROVE  SnapshotCoversLive'
  <2>1. row[r] \in revoked
    BY <1>7 DEF RevokeSnapshot, DecisionIsCurrent
  <2>2. QED
    BY <1>7, <2>1 DEF RevokeSnapshot, TypeOK, SnapshotCoversLive, Live, LiveInFamily
<1>8. ASSUME NEW r \in Requests, RevokeCommit(r)
      PROVE  SnapshotCoversLive'
  BY <1>8 DEF RevokeCommit, TypeOK, SnapshotCoversLive, Live
<1>9. ASSUME NEW r \in Requests, Mint(r) \/ RefreshUnknown(r) \/ Refuse(r) \/ Crash(r),
             UNCHANGED <<active, database, expired>>
      PROVE  SnapshotCoversLive'
  BY <1>0, <1>9 DEF Mint, RefreshUnknown, Refuse, Crash
<1>10. ASSUME NEW u \in Users, NEW b \in BOOLEAN, SetActive(u, b)
       PROVE  SnapshotCoversLive'
  BY <1>10 DEF SetActive, control, SnapshotCoversLive, Live
<1>11. ASSUME NEW t \in Tokens, Expire(t)
       PROVE  SnapshotCoversLive'
  BY <1>11 DEF Expire, control, SnapshotCoversLive, Live
<1>12. QED
  BY StepCases, <1>1, <1>2, <1>3, <1>4, <1>5, <1>6, <1>7, <1>8, <1>9, <1>10, <1>11

\* Requests that wait inside revoke_family.
Revoking == {r \in Requests : pc[r] = "revoking"}

\* No circle appears while nobody joins the waiting and no waiting request
\* gains a row.
LEMMA NoNewWaiting ==
  ASSUME NoCircularWait, TypeOK,
         Revoking' \subseteq Revoking,
         \A r \in Revoking' : targets'[r] = targets[r],
         \A t \in Tokens : lock'[t] = lock[t] \/ lock'[t] \notin Revoking'
  PROVE  NoCircularWait'
<1>1. SUFFICES ASSUME NEW C \in SUBSET Revoking', C # {}
      PROVE  \E r \in C : \A t \in targets'[r] : lock'[t] \notin C
  BY DEF NoCircularWait, Revoking
<1>2. PICK r \in C : \A t \in targets[r] : lock[t] \notin C
  BY <1>1 DEF NoCircularWait, Revoking
<1>3. targets'[r] = targets[r] /\ targets[r] \subseteq Tokens
  BY <1>1 DEF TypeOK, Revoking
<1>4. QED
  BY <1>1, <1>2, <1>3

LEMMA CircularStep == IInv /\ [Next]_vars => NoCircularWait'
<1> SUFFICES ASSUME IInv, [Next]_vars PROVE NoCircularWait'
  OBVIOUS
<1> TypeOK /\ LockHolder /\ DecisionIsCurrent /\ NoCircularWait
  BY DEF IInv
<1> USE NullsAreDistinct DEF database
<1>0. ASSUME NEW r \in Requests, End(r)
      PROVE  NoCircularWait'
  BY <1>0, NoNewWaiting DEF End, TypeOK, Revoking
<1>1. CASE UNCHANGED <<lock, control>>
  BY <1>1, NoNewWaiting DEF control, Revoking
<1>2. ASSUME NEW r \in Requests, NEW u \in Users, NEW ok \in BOOLEAN,
             LoginVerify(r, u, ok)
      PROVE  NoCircularWait'
  <2>1. CASE End(r)
    BY <1>0, <2>1
  <2>2. CASE ~End(r)
    BY <1>2, <2>2, NoNewWaiting DEF LoginVerify, TypeOK, Revoking
  <2>3. QED
    BY <2>1, <2>2
<1>3. ASSUME NEW r \in Requests, NEW t \in Tokens, LoginCommit(r, t) \/ Rotate(r, t)
      PROVE  NoCircularWait'
  BY <1>3, NoNewWaiting DEF LoginCommit, Rotate, TypeOK, Revoking
<1>4. ASSUME NEW r \in Requests, NEW t \in Tokens \cup {NoToken}, RefreshStart(r, t)
      PROVE  NoCircularWait'
  BY <1>4, NoNewWaiting DEF RefreshStart, TypeOK, Revoking
<1>5. ASSUME NEW r \in Requests, RefreshLock(r) \/ RefreshReadUser(r) \/ RevokeCommit(r)
      PROVE  NoCircularWait'
  <2>1. CASE End(r)
    BY <1>0, <2>1
  <2>2. CASE ~End(r)
    BY <1>5, <2>2, NoNewWaiting DEF RefreshLock, RefreshReadUser, RevokeCommit, TypeOK, Revoking
  <2>3. QED
    BY <2>1, <2>2
\* A request that starts to wait waits for live rows; whoever already waits
\* holds a revoked one.
<1>6. ASSUME NEW r \in Requests, RevokeSnapshot(r)
      PROVE  NoCircularWait'
  <2>1. /\ lock' = lock /\ Revoking' = Revoking \cup {r}
        /\ targets'[r] \subseteq Live
        /\ \A q \in Revoking \ {r} : targets'[q] = targets[q]
        /\ r \notin Revoking
    BY <1>6 DEF RevokeSnapshot, TypeOK, Revoking, LiveInFamily
  <2>2. SUFFICES ASSUME NEW C \in SUBSET Revoking', C # {}
        PROVE  \E q \in C : \A t \in targets'[q] : lock'[t] \notin C
    BY DEF NoCircularWait, Revoking
  <2>3. CASE r \in C
    <3>1. ASSUME NEW t \in targets'[r], lock[t] \in C
          PROVE  FALSE
      <4>1. lock[t] \in Requests /\ pc[lock[t]] \in {"reuse", "revoking"} /\ t \in Live /\ t \in Tokens
        BY <3>1, <2>1, <2>2, <1>6 DEF Revoking, RevokeSnapshot, Live, TypeOK
      <4>2. row[lock[t]] = t
        BY <4>1 DEF LockHolder
      <4>3. QED
        BY <4>1, <4>2 DEF DecisionIsCurrent, Live
    <3>2. QED
      BY <2>1, <2>3, <3>1
  <2>4. CASE r \notin C
    <3>1. C \in SUBSET Revoking /\ C # {}
      BY <2>1, <2>2, <2>4
    <3>2. PICK q \in C : \A t \in targets[q] : lock[t] \notin C
      BY <3>1 DEF NoCircularWait, Revoking
    <3>3. QED
      BY <2>1, <2>4, <3>1, <3>2
  <2>5. QED
    BY <2>3, <2>4
<1>7. ASSUME NEW r \in Requests, Mint(r) \/ RefreshUnknown(r) \/ Refuse(r) \/ Crash(r),
             UNCHANGED <<active, database, expired>>
      PROVE  NoCircularWait'
  BY <1>0, <1>7 DEF Mint, RefreshUnknown, Refuse, Crash
<1>8. ASSUME NEW u \in Users, NEW b \in BOOLEAN, SetActive(u, b)
      PROVE  NoCircularWait'
  BY <1>1, <1>8 DEF SetActive
<1>9. ASSUME NEW t \in Tokens, Expire(t)
      PROVE  NoCircularWait'
  BY <1>1, <1>9 DEF Expire
<1>10. QED
  BY StepCases, <1>1, <1>2, <1>3, <1>4, <1>5, <1>6, <1>7, <1>8, <1>9 DEF vars

-----------------------------------------------------------------------------
(* The theorems *)

LEMMA InitIInv == Init => IInv
BY TypeInit, NullsAreDistinct
   DEF Init, IInv, Columns, LockHolder, WaitsForARow, DecisionIsCurrent, Live,
       OneLiveTokenPerFamily, RotationChain, SnapshotCoversLive, NoCircularWait

\* The inductive invariant holds in every reachable state.
THEOREM Invariant == Spec => []IInv
<1>1. IInv /\ [Next]_vars => IInv'
  BY TypeStep, ColumnsStep, OneLiveStep, RotationChainStep, LockStep, WaitsStep,
     DecisionStep, SnapshotStep, CircularStep
     DEF IInv
<1>2. QED
  BY InitIInv, <1>1, PTL DEF Spec

\* Every variable keeps its type (columns of refresh_tokens, locals of a request).
THEOREM TypeCorrect == Spec => []TypeOK
<1>1. IInv => TypeOK
  BY DEF IInv
<1>2. QED
  BY Invariant, <1>1, PTL

\* However many requests race, a family has at most one token left to exchange.
THEOREM OneLive == Spec => []OneLiveTokenPerFamily
<1>1. IInv => OneLiveTokenPerFamily
  BY DEF IInv
<1>2. QED
  BY Invariant, <1>1, PTL

\* No two tokens are minted from one parent, and none without a parent.
THEOREM Chained == Spec => []RotationChain
<1>1. IInv => RotationChain
  BY DEF IInv
<1>2. QED
  BY Invariant, <1>1, PTL

\* Requests revoking families never deadlock on row locks.
THEOREM DeadlockFree == Spec => []NoCircularWait
<1>1. IInv => NoCircularWait
  BY DEF IInv
<1>2. QED
  BY Invariant, <1>1, PTL

\* A family without a live token stays without one.
THEOREM DeadStaysDead == Spec => DeadFamilyStaysDead
<1>1. IInv /\ [Next]_vars =>
        [\A f \in issued : Family(f) # {} /\ LiveInFamily(f) = {} => LiveInFamily(f)' = {}]_vars
  <2> SUFFICES ASSUME IInv, [Next]_vars, NEW f \in issued, LiveInFamily(f) = {}
               PROVE  LiveInFamily(f)' = {}
    OBVIOUS
  <2> TypeOK /\ LockHolder /\ DecisionIsCurrent
    BY DEF IInv
  <2>1. CASE UNCHANGED database
    BY <2>1 DEF database, LiveInFamily, Live
  <2>2. ASSUME NEW r \in Requests, NEW t \in Tokens, LoginCommit(r, t)
        PROVE  LiveInFamily(f)' = {}
    BY <2>2 DEF LoginCommit, LiveInFamily, Live, TypeOK
  \* The exchanged token was live, so its family was not dead.
  <2>3. ASSUME NEW r \in Requests, NEW t \in Tokens, Rotate(r, t)
        PROVE  LiveInFamily(f)' = {}
    <3>1. row[r] \in Live
      BY <2>3 DEF Rotate, LockHolder, DecisionIsCurrent, Live
    <3>2. family_id[row[r]] # f
      BY <3>1 DEF LiveInFamily
    <3>3. /\ Live' \subseteq Live \cup {t} /\ family_id'[t] = family_id[row[r]]
          /\ \A x \in Live : family_id'[x] = family_id[x]
      BY <2>3 DEF Rotate, Live, TypeOK
    <3>4. QED
      BY <3>2, <3>3 DEF LiveInFamily
  <2>4. ASSUME NEW r \in Requests, RevokeCommit(r)
        PROVE  LiveInFamily(f)' = {}
    BY <2>4 DEF RevokeCommit, LiveInFamily, Live
  <2>5. QED
    BY TableSteps, <2>1, <2>2, <2>3, <2>4
<1>2. QED
  BY Invariant, <1>1, PTL DEF Spec, DeadFamilyStaysDead

\* What a family revocation does guarantee, given that it is not complete.
THEOREM SurvivorRotated == Spec => SurvivorWasRotatedMeanwhile
<1>1. IInv /\ [Next]_vars =>
        [\A r \in Requests : RevocationCommits(r) =>
           \A t \in Live' : family_id'[t] = family_id[row[r]] =>
             \E s \in targets[r] : replaced_by[s] # NoToken]_vars
  <2> SUFFICES ASSUME IInv, [Next]_vars,
                      NEW r \in Requests, pc[r] = "revoking", pc'[r] = "refused",
                      NEW t \in Live', family_id'[t] = family_id[row[r]]
               PROVE  \E s \in targets[r] : replaced_by[s] # NoToken
    BY DEF RevocationCommits
  <2> TypeOK /\ SnapshotCoversLive
    BY DEF IInv
  <2>1. RevokeCommit(r)
    BY StepCases DEF vars, control, LoginVerify, LoginCommit, Rotate, RefreshStart, RefreshLock,
       RefreshReadUser, RevokeSnapshot, RevokeCommit, Mint, RefreshUnknown, Refuse, Crash,
       SetActive, Expire, End, TypeOK
  <2>2. t \in Live /\ t \notin targets[r] /\ family_id[t] = family_id[row[r]]
    BY <2>1 DEF RevokeCommit, Live
  <2>3. QED
    BY <2>2 DEF SnapshotCoversLive
<1>2. QED
  BY Invariant, <1>1, PTL DEF Spec, SurvivorWasRotatedMeanwhile

\* After a deactivation, once the requests that had passed the is_active check
\* are over, no row is inserted for the user and no request passes the check.
THEOREM InactiveGetsNothing == Spec => InactiveUserGetsNoToken
<1>1. IInv /\ [Next]_vars =>
        [\A u \in Users : CutOff(u) =>
           /\ u \in active' \/ CutOff(u)'
           /\ \A t \in issued' \ issued : user_id'[t] # u]_vars
  <2> SUFFICES ASSUME IInv, [Next]_vars, NEW u \in Users, CutOff(u)
               PROVE  /\ u \in active' \/ CutOff(u)'
                      /\ \A t \in issued' \ issued : user_id'[t] # u
    OBVIOUS
  <2> TypeOK /\ Columns /\ LockHolder
    BY DEF IInv
  <2> USE DEF CutOff
  <2>1. ASSUME NEW t \in issued' \ issued PROVE user_id'[t] # u
    <3>1. ASSUME NEW r \in Requests, NEW x \in Tokens, LoginCommit(r, x) \/ Rotate(r, x)
          PROVE  user_id'[t] # u
      BY <3>1, <2>1 DEF LoginCommit, Rotate, Cleared, TypeOK
    <3>2. QED
      BY TableSteps, <2>1, <3>1 DEF database, RevokeCommit
  <2>2. ASSUME NEW r \in Requests, u \notin active' PROVE ~Cleared(r, u)'
    <3>1. row[r] \in issued \/ pc[r] # "rotate"
      BY DEF LockHolder
    <3>2. ASSUME NEW q \in Requests, NEW x \in Tokens, LoginCommit(q, x) \/ Rotate(q, x)
          PROVE  ~Cleared(r, u)'
      BY <2>2, <3>1, <3>2 DEF LoginCommit, Rotate, Cleared, TypeOK
    <3>3. ASSUME UNCHANGED database PROVE ~Cleared(r, u)'
      <4>1. ASSUME NEW q \in Requests, NEW v \in Users, NEW ok \in BOOLEAN, LoginVerify(q, v, ok)
            PROVE  ~Cleared(r, u)'
        BY <2>2, <3>3, <4>1 DEF LoginVerify, End, Cleared, TypeOK, database
      <4>2. ASSUME NEW q \in Requests, RefreshReadUser(q) PROVE ~Cleared(r, u)'
        BY <2>2, <3>3, <4>2 DEF RefreshReadUser, End, Cleared, TypeOK, database
      <4>3. ASSUME NEW q \in Requests,
                   \/ Mint(q) \/ RefreshUnknown(q) \/ RefreshLock(q) \/ RevokeSnapshot(q)
                   \/ Refuse(q) \/ Crash(q) \/ \E t \in Tokens \cup {NoToken} : RefreshStart(q, t)
            PROVE  ~Cleared(r, u)'
        BY <2>2, <3>3, <4>3 DEF Mint, RefreshUnknown, RefreshLock, RevokeSnapshot, Refuse,
                                Crash, RefreshStart, End, Cleared, TypeOK, database
      <4>4. ASSUME NEW q \in Requests, RevokeCommit(q) PROVE ~Cleared(r, u)'
        BY <2>2, <3>3, <4>4 DEF RevokeCommit, Cleared, TypeOK, database
      <4>5. CASE UNCHANGED control
        BY <2>2, <3>3, <4>5 DEF Cleared, control, database
      <4>6. QED
        BY <3>2, <4>1, <4>2, <4>3, <4>4, <4>5 DEF Next, Step, SetActive, Expire, vars
    <3>4. ASSUME NEW q \in Requests, RevokeCommit(q) PROVE ~Cleared(r, u)'
      BY <2>2, <3>4 DEF RevokeCommit, Cleared, TypeOK
    <3>5. QED
      BY TableSteps, <3>2, <3>3, <3>4
  <2>3. QED
    BY <2>1, <2>2
<1>2. QED
  BY Invariant, <1>1, PTL DEF Spec, InactiveUserGetsNoToken

-----------------------------------------------------------------------------
(* Refinement *)

\* One step of the table is one step of the chain, or none.
LEMMA ChainStep == IInv /\ [Next]_vars => [Chain!Next]_(Chain!vars)
<1> SUFFICES ASSUME IInv, [Next]_vars PROVE [Chain!Next]_(Chain!vars)
  OBVIOUS
<1> TypeOK /\ Columns /\ LockHolder /\ DecisionIsCurrent
  BY DEF IInv
<1> USE DEF Chain!Next, Chain!vars
<1>1. CASE UNCHANGED database
  BY <1>1 DEF database, Live
<1>2. ASSUME NEW r \in Requests, NEW t \in Tokens, LoginCommit(r, t)
      PROVE  Chain!Begin(t)
  BY <1>2 DEF LoginCommit, Chain!Begin, Live, TypeOK
<1>3. ASSUME NEW r \in Requests, NEW t \in Tokens, Rotate(r, t)
      PROVE  Chain!Exchange(row[r], t) /\ row[r] \in Tokens
  <2>1. row[r] \in Live /\ row[r] \in Tokens
    BY <1>3 DEF Rotate, LockHolder, DecisionIsCurrent, Live, TypeOK
  <2>2. QED
    BY <1>3, <2>1 DEF Rotate, Chain!Exchange, Live, TypeOK
\* The rows matched are the family's live tokens, or were exchanged and revoked
\* before the UPDATE reached them.
<1>4. ASSUME NEW r \in Requests, RevokeCommit(r)
      PROVE  UNCHANGED <<issued, family_id, Live>> \/ \E f \in Tokens : Chain!Kill(f)
  <2> DEFINE f == family_id[row[r]]
  <2>1. /\ UNCHANGED <<issued, family_id>>
        /\ Live' = Live \ targets[r]
        /\ \A s \in targets[r] : family_id[s] = f
        /\ row[r] \in issued
    BY <1>4 DEF RevokeCommit, Live, IInv, SnapshotCoversLive, LockHolder
  <2>2. f \in Tokens
    BY <2>1 DEF Columns, TypeOK
  <2>3. CASE \E s \in targets[r] : s \in Live
    <3>1. \A t \in Live : family_id[t] = f => t \in targets[r]
      BY <2>1, <2>3 DEF IInv, OneLiveTokenPerFamily
    <3>2. Chain!Kill(f)
      BY <2>1, <3>1 DEF Chain!Kill
    <3>3. QED
      BY <2>2, <3>2
  <2>4. CASE ~\E s \in targets[r] : s \in Live
    BY <2>1, <2>4
  <2>5. QED
    BY <2>3, <2>4
<1>5. QED
  BY TableSteps, <1>1, <1>2, <1>3, <1>4

\* Rotation under locks implements the chain of tokens it promises.
THEOREM Implements == Spec => ImplementsSessionChain
<1>1. Init => Chain!Init
  BY DEF Init, Chain!Init, Live
<1>2. QED
  BY Invariant, ChainStep, <1>1, PTL DEF Spec, ImplementsSessionChain, Chain!Spec
=============================================================================
