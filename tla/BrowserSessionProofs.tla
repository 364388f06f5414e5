------------------------- MODULE BrowserSessionProofs -------------------------
(***************************************************************************)
(* A tab never presents a refresh token twice and shows the owner of its   *)
(* tokens, for any number of users, tokens and concurrent calls.           *)
(***************************************************************************)
EXTENDS BrowserSession, TLAPS

(***************************************************************************)
(* The inductive invariant.  That a token is presented once is no fact     *)
(* about the refresh alone: it depends on where else the tab still holds   *)
(* the token, and on what the tab has been told of its exchange.           *)
(***************************************************************************)

\* The pair of a login under way is new: nobody has it but the login.
GrantedIsNew ==
  granted # NoToken => granted \in live /\ granted \notin {current, presented, reply}

\* A token that is presented has not been exchanged until the server answers, and
\* the answer is the live successor, the same user's.
RefreshIsSound ==
  /\ reply = Awaited => presented # NoToken /\ presented \in live
  /\ reply \notin {Awaited, Failed} => /\ reply \in live /\ presented # NoToken
                                       /\ owner[reply] = owner[presented]

\* The store holds a dead token only while the answer that replaces it is on its way.
StoreIsLive ==
  current # NoToken => current \in live \/ (current = presented /\ reply # Awaited)

\* Who the pair of a login is for.
GrantedToAccount ==
  granted # NoToken => account # NoUser /\ owner[granted] = account

\* Unless a logout has left a refresh behind, a refresh is the store's, and a login
\* finds the store empty.
NothingCrosses ==
  ~crossed => /\ presented # NoToken => current = presented
              /\ account # NoUser => current = NoToken

TabInv ==
  /\ TypeOK
  /\ GrantedIsNew
  /\ RefreshIsSound
  /\ StoreIsLive
  /\ GrantedToAccount
  /\ NothingCrosses
  /\ ShowsItsOwner

-----------------------------------------------------------------------------
LEMMA TabInvInit == Init => TabInv
<1> SUFFICES ASSUME Init PROVE TabInv
  OBVIOUS
<1>1. TypeOK
  BY DEF Init, Server!Init, TypeOK
<1>2. GrantedIsNew /\ RefreshIsSound /\ StoreIsLive
  BY DEF Init, GrantedIsNew, RefreshIsSound, StoreIsLive, Awaited, Failed
<1>3. GrantedToAccount /\ NothingCrosses /\ ShowsItsOwner
  BY DEF Init, GrantedToAccount, NothingCrosses, ShowsItsOwner
<1> QED
  BY <1>1, <1>2, <1>3 DEF TabInv

\* A pair granted is no marker of the refresh's answer.
LEMMA GrantedIsToken ==
  ASSUME TypeOK, granted # NoToken
  PROVE  granted # Awaited /\ granted # Failed
BY BrowserConstants DEF TypeOK

LEMMA TwoMarkers == Awaited # Failed
BY DEF Awaited, Failed

\* A step of the calls alone disturbs only what is said of the calls.
LEMMA CallsOnly ==
  ASSUME TabInv, UNCHANGED <<sessions, stale, tab, refresh, logon>>,
         pc' \in [Calls -> {"idle", "sent", "waiting", "retried"}],
         sent' \in [Calls -> issued \cup {NoToken}],
         \A c \in Calls : pc'[c] = "waiting" => presented # NoToken
  PROVE  TabInv'
BY DEF TabInv, TypeOK, GrantedIsNew, RefreshIsSound, StoreIsLive, GrantedToAccount,
       NothingCrosses, ShowsItsOwner, sessions, tab, refresh, logon

\* The end of a call.
LEMMA OverKeeps ==
  ASSUME TabInv, NEW c \in Calls, Over(c)
  PROVE  /\ pc' \in [Calls -> {"idle", "sent", "waiting", "retried"}]
         /\ sent' \in [Calls -> issued \cup {NoToken}]
         /\ \A d \in Calls : pc'[d] = "waiting" => presented # NoToken
BY DEF TabInv, TypeOK, Over
-----------------------------------------------------------------------------
LEMMA LoginStep ==
  ASSUME TabInv, NEW u \in Users, Login(u)
  PROVE  TabInv'
BY BrowserConstants
   DEF Login, TabInv, TypeOK, GrantedIsNew, RefreshIsSound, StoreIsLive, GrantedToAccount,
       NothingCrosses, ShowsItsOwner, sessions, tab, refresh, calls

\* The token the server issues is not in the tab yet.
LEMMA FreshToken ==
  ASSUME TypeOK, NEW t \in Tokens, t \notin issued
  PROVE  t \notin {NoToken, Awaited, Failed, current, presented, granted, reply} /\ t \notin live
BY BrowserConstants DEF TypeOK

LEMMA ServerLoginStep ==
  ASSUME TabInv, NEW t \in Tokens, ServerLogin(t)
  PROVE  TabInv'
<1>1. /\ t \notin issued /\ issued' = issued \cup {t}
      /\ family' = [family EXCEPT ![t] = t] /\ live' = live \cup {t}
      /\ owner' = [owner EXCEPT ![t] = account] /\ granted' = t
      /\ UNCHANGED <<stale, current, user, crossed, presented, reply, account, pc, sent>>
      /\ account # NoUser
  BY DEF ServerLogin, Server!Begin, tab, refresh, calls
<1>2. t \notin {NoToken, Awaited, Failed, current, presented, granted, reply} /\ t \notin live
  BY <1>1, FreshToken DEF TabInv
<1>3. \A s \in issued : owner'[s] = owner[s]
  BY <1>1 DEF TabInv, TypeOK
<1>4. owner'[t] = account
  BY <1>1 DEF TabInv, TypeOK
<1>5. TypeOK'
  BY <1>1 DEF TabInv, TypeOK
<1>6. GrantedIsNew' /\ StoreIsLive'
  BY <1>1, <1>2 DEF TabInv, GrantedIsNew, StoreIsLive
<1>7. RefreshIsSound'
  BY <1>1, <1>3 DEF TabInv, TypeOK, RefreshIsSound
<1>8. GrantedToAccount' /\ NothingCrosses'
  BY <1>1, <1>4 DEF TabInv, GrantedToAccount, NothingCrosses
<1>9. ShowsItsOwner'
  BY <1>1, <1>3 DEF TabInv, TypeOK, ShowsItsOwner
<1> QED
  BY <1>5, <1>6, <1>7, <1>8, <1>9 DEF TabInv

LEMMA LoginReturnsStep ==
  ASSUME TabInv, LoginReturns
  PROVE  TabInv'
<1>1. /\ granted # NoToken /\ current' = granted /\ user' = account
      /\ crossed' = (crossed /\ presented # NoToken)
      /\ account' = NoUser /\ granted' = NoToken
      /\ UNCHANGED <<issued, family, live, owner, stale, presented, reply, pc, sent>>
  BY DEF LoginReturns, sessions, refresh, calls
\* A login that finds no refresh left behind finds none at all.
<1>2. ~crossed' => presented = NoToken
  BY <1>1 DEF TabInv, GrantedToAccount, NothingCrosses
<1>3. TypeOK'
  BY <1>1 DEF TabInv, TypeOK
<1>4. GrantedIsNew' /\ RefreshIsSound' /\ StoreIsLive'
  BY <1>1 DEF TabInv, GrantedIsNew, RefreshIsSound, StoreIsLive
<1>5. GrantedToAccount' /\ NothingCrosses' /\ ShowsItsOwner'
  BY <1>1, <1>2 DEF TabInv, GrantedToAccount, NothingCrosses, ShowsItsOwner
<1> QED
  BY <1>3, <1>4, <1>5 DEF TabInv

LEMMA LoginFailsStep ==
  ASSUME TabInv, LoginFails
  PROVE  TabInv'
BY DEF LoginFails, TabInv, TypeOK, GrantedIsNew, RefreshIsSound, StoreIsLive, GrantedToAccount,
       NothingCrosses, ShowsItsOwner, sessions, tab, refresh, calls

LEMMA LogoutStep ==
  ASSUME TabInv, Logout
  PROVE  TabInv'
BY DEF Logout, TabInv, TypeOK, GrantedIsNew, RefreshIsSound, StoreIsLive, GrantedToAccount,
       NothingCrosses, ShowsItsOwner, sessions, refresh, logon, calls
-----------------------------------------------------------------------------
LEMMA CallStep ==
  ASSUME TabInv, NEW c \in Calls, Call(c)
  PROVE  TabInv'
<1>1. /\ pc' = [pc EXCEPT ![c] = "sent"] /\ sent' = [sent EXCEPT ![c] = current]
      /\ UNCHANGED <<sessions, stale, tab, refresh, logon>>
  BY DEF Call
<1>2. /\ pc' \in [Calls -> {"idle", "sent", "waiting", "retried"}]
      /\ sent' \in [Calls -> issued \cup {NoToken}]
      /\ \A d \in Calls : pc'[d] = "waiting" => presented # NoToken
  BY <1>1 DEF TabInv, TypeOK
<1> QED
  BY <1>1, <1>2, CallsOnly

LEMMA AnsweredStep ==
  ASSUME TabInv, NEW c \in Calls, Answered(c) \/ UnauthorizedAgain(c)
  PROVE  TabInv'
<1>1. Over(c) /\ UNCHANGED <<sessions, stale, tab, refresh, logon>>
  BY DEF Answered, UnauthorizedAgain
<1> QED
  BY <1>1, OverKeeps, CallsOnly

LEMMA UnauthorizedStep ==
  ASSUME TabInv, NEW c \in Calls, Unauthorized(c)
  PROVE  TabInv'
<1>1. UNCHANGED <<sessions, stale, tab, logon>>
  BY DEF Unauthorized
<1>2. CASE current = NoToken
  <2>1. Over(c) /\ UNCHANGED refresh
    BY <1>2 DEF Unauthorized
  <2> QED
    BY <1>1, <2>1, OverKeeps, CallsOnly
<1>3. CASE current # NoToken /\ presented # NoToken
  <2>1. pc' = [pc EXCEPT ![c] = "waiting"] /\ UNCHANGED sent /\ UNCHANGED refresh
    BY <1>3 DEF Unauthorized
  <2>2. /\ pc' \in [Calls -> {"idle", "sent", "waiting", "retried"}]
        /\ sent' \in [Calls -> issued \cup {NoToken}]
        /\ \A d \in Calls : pc'[d] = "waiting" => presented # NoToken
    BY <1>3, <2>1 DEF TabInv, TypeOK
  <2> QED
    BY <1>1, <2>1, <2>2, CallsOnly
<1>4. CASE current # NoToken /\ presented = NoToken
  \* A refresh starts, with a token that has not been exchanged.
  <2>1. /\ pc' = [pc EXCEPT ![c] = "waiting"] /\ sent' = sent
        /\ presented' = current /\ reply' = Awaited
    BY <1>4 DEF Unauthorized
  <2>2. /\ UNCHANGED <<issued, family, live, owner, stale, current, user, crossed>>
        /\ UNCHANGED <<account, granted>>
    BY <1>1 DEF sessions, tab, logon
  <2>3. current \in live
    BY <1>4 DEF TabInv, StoreIsLive
  <2>4. TypeOK'
    BY <1>4, <2>1, <2>2 DEF TabInv, TypeOK
  <2>5. granted # NoToken => granted # Awaited
    BY GrantedIsToken DEF TabInv
  <2>6. GrantedIsNew' /\ RefreshIsSound' /\ StoreIsLive'
    BY <1>4, <2>1, <2>2, <2>3, <2>5 DEF TabInv, GrantedIsNew, RefreshIsSound, StoreIsLive
  <2>7. GrantedToAccount' /\ NothingCrosses' /\ ShowsItsOwner'
    BY <2>1, <2>2 DEF TabInv, GrantedToAccount, NothingCrosses, ShowsItsOwner
  <2> QED
    BY <2>4, <2>6, <2>7 DEF TabInv
<1> QED
  BY <1>2, <1>3, <1>4
-----------------------------------------------------------------------------
LEMMA ServerRefreshStep ==
  ASSUME TabInv, NEW t \in Tokens, ServerRefresh(t)
  PROVE  TabInv'
<1>1. /\ presented # NoToken /\ reply = Awaited /\ presented \in live /\ t \notin issued
      /\ issued' = issued \cup {t} /\ family' = [family EXCEPT ![t] = family[presented]]
      /\ live' = (live \ {presented}) \cup {t}
      /\ owner' = [owner EXCEPT ![t] = owner[presented]]
      /\ reply' \in {t, Failed}
      /\ UNCHANGED <<stale, current, user, crossed, presented, account, granted, pc, sent>>
  BY DEF ServerRefresh, Server!Exchange, tab, logon, calls
<1>2. t \notin {NoToken, Awaited, Failed, current, presented, granted, reply}
  BY <1>1, FreshToken DEF TabInv
<1>3. /\ presented \in issued /\ \A s \in issued : owner'[s] = owner[s]
      /\ owner'[t] = owner[presented]
  BY <1>1 DEF TabInv, TypeOK
<1>4. TypeOK'
  BY <1>1, <1>3 DEF TabInv, TypeOK
<1>5. (granted # NoToken => granted # Failed) /\ Awaited # Failed
  BY GrantedIsToken, TwoMarkers DEF TabInv
<1>6. GrantedIsNew'
  BY <1>1, <1>2, <1>5 DEF TabInv, GrantedIsNew
<1>7. RefreshIsSound'
  BY <1>1, <1>2, <1>3, <1>5 DEF RefreshIsSound
<1>8. StoreIsLive'
  BY <1>1, <1>2, <1>5 DEF TabInv, StoreIsLive
<1>9. GrantedToAccount' /\ NothingCrosses' /\ ShowsItsOwner'
  BY <1>1, <1>3 DEF TabInv, TypeOK, GrantedToAccount, NothingCrosses, ShowsItsOwner
<1> QED
  BY <1>4, <1>6, <1>7, <1>8, <1>9 DEF TabInv

\* The server never finds that a token was used already.
LEMMA ServerReuseStep ==
  ASSUME TabInv, ServerReuse
  PROVE  FALSE
BY DEF ServerReuse, TabInv, RefreshIsSound

LEMMA ServerRefusesStep ==
  ASSUME TabInv, ServerRefuses
  PROVE  TabInv'
<1>1. /\ presented # NoToken /\ reply' = Failed
      /\ UNCHANGED <<issued, family, live, owner, stale, current, user, crossed, presented>>
      /\ UNCHANGED <<account, granted, pc, sent>>
  BY DEF ServerRefuses, sessions, tab, logon, calls
<1>2. (granted # NoToken => granted # Failed) /\ Awaited # Failed
  BY GrantedIsToken, TwoMarkers DEF TabInv
<1>3. TypeOK'
  BY <1>1 DEF TabInv, TypeOK
<1>4. GrantedIsNew' /\ RefreshIsSound' /\ StoreIsLive'
  BY <1>1, <1>2 DEF TabInv, GrantedIsNew, RefreshIsSound, StoreIsLive
<1>5. GrantedToAccount' /\ NothingCrosses' /\ ShowsItsOwner'
  BY <1>1 DEF TabInv, GrantedToAccount, NothingCrosses, ShowsItsOwner
<1> QED
  BY <1>3, <1>4, <1>5 DEF TabInv

LEMMA RefreshReturnsStep ==
  ASSUME TabInv, RefreshReturns
  PROVE  TabInv'
<1>1. /\ presented # NoToken /\ reply # Awaited /\ presented' = NoToken /\ reply' = Failed
      /\ UNCHANGED <<issued, family, live, owner, stale, account, granted>>
      /\ Store(IF reply = Failed THEN NoToken ELSE reply) /\ Settle
  BY DEF RefreshReturns, sessions, logon
<1>2. (granted # NoToken => granted # Failed) /\ Awaited # Failed
  BY GrantedIsToken, TwoMarkers DEF TabInv
<1>3. /\ pc' \in [Calls -> {"idle", "sent", "waiting", "retried"}]
      /\ sent' \in [Calls -> issued \cup {NoToken}]
      /\ \A c \in Calls : pc'[c] # "waiting"
  BY <1>1 DEF TabInv, TypeOK, Settle
<1>4. CASE reply = Failed
  <2>1. current' = NoToken /\ user' = NoUser /\ crossed' = FALSE
    BY <1>1, <1>4 DEF Store
  <2>2. TypeOK'
    BY <1>1, <1>3, <2>1 DEF TabInv, TypeOK
  <2>3. GrantedIsNew' /\ RefreshIsSound' /\ StoreIsLive'
    BY <1>1, <1>2, <2>1 DEF TabInv, GrantedIsNew, RefreshIsSound, StoreIsLive
  <2>4. GrantedToAccount' /\ NothingCrosses' /\ ShowsItsOwner'
    BY <1>1, <2>1 DEF TabInv, GrantedToAccount, NothingCrosses, ShowsItsOwner
  <2> QED
    BY <2>2, <2>3, <2>4 DEF TabInv
<1>5. CASE reply # Failed
  <2>1. /\ reply \in live /\ reply \in issued /\ reply # NoToken
        /\ owner[reply] = owner[presented]
    BY <1>1, <1>5, BrowserConstants DEF TabInv, TypeOK, RefreshIsSound
  <2>2. current' = reply /\ user' = user /\ crossed' = crossed
    BY <1>1, <1>5, <2>1 DEF Store, TabInv, TypeOK
  <2>3. TypeOK'
    BY <1>1, <1>3, <2>1, <2>2 DEF TabInv, TypeOK
  <2>4. GrantedIsNew' /\ RefreshIsSound' /\ StoreIsLive'
    BY <1>1, <1>2, <2>1, <2>2 DEF TabInv, GrantedIsNew, RefreshIsSound, StoreIsLive
  \* If no logout crossed it, the pair replaces the one of the same session.
  <2>5. ~crossed => current = presented /\ account = NoUser
    BY <1>1 DEF TabInv, NothingCrosses
  <2>6. GrantedToAccount' /\ NothingCrosses' /\ ShowsItsOwner'
    BY <1>1, <2>1, <2>2, <2>5 DEF TabInv, GrantedToAccount, NothingCrosses, ShowsItsOwner
  <2> QED
    BY <2>3, <2>4, <2>6 DEF TabInv
<1> QED
  BY <1>4, <1>5
-----------------------------------------------------------------------------
LEMMA GoStaleStep ==
  ASSUME TabInv, NEW t \in Tokens, GoStale(t)
  PROVE  TabInv'
BY DEF GoStale, TabInv, TypeOK, GrantedIsNew, RefreshIsSound, StoreIsLive, GrantedToAccount,
       NothingCrosses, ShowsItsOwner, sessions, tab, refresh, logon, calls

LEMMA ReloadStep ==
  ASSUME TabInv, Reload
  PROVE  TabInv'
<1>1. TypeOK'
  BY DEF Reload, TabInv, TypeOK, sessions
<1>2. GrantedIsNew' /\ RefreshIsSound' /\ StoreIsLive'
  BY DEF Reload, GrantedIsNew, RefreshIsSound, StoreIsLive, Awaited, Failed
<1>3. GrantedToAccount' /\ NothingCrosses' /\ ShowsItsOwner'
  BY DEF Reload, GrantedToAccount, NothingCrosses, ShowsItsOwner
<1> QED
  BY <1>1, <1>2, <1>3 DEF TabInv

LEMMA TabInvNext == TabInv /\ [Next]_vars => TabInv'
<1> SUFFICES ASSUME TabInv, [Next]_vars
             PROVE  TabInv'
  OBVIOUS
<1>1. CASE UNCHANGED vars
  BY <1>1, CallsOnly DEF vars, calls, sessions, tab, refresh, logon, TabInv, TypeOK
<1>2. CASE \E u \in Users : Login(u)
  BY <1>2, LoginStep
<1>3. CASE \E t \in Tokens : ServerLogin(t) \/ GoStale(t)
  BY <1>3, ServerLoginStep, GoStaleStep
<1>4. CASE LoginReturns \/ LoginFails \/ Logout
  BY <1>4, LoginReturnsStep, LoginFailsStep, LogoutStep
<1>5. CASE \E c \in Calls : Call(c) \/ Deliver(c)
  BY <1>5, CallStep, AnsweredStep, UnauthorizedStep DEF Deliver
<1>6. CASE ServerAnswers
  BY <1>6, ServerRefreshStep, ServerReuseStep, ServerRefusesStep DEF ServerAnswers
<1>7. CASE RefreshReturns
  BY <1>7, RefreshReturnsStep
<1>8. CASE Reload
  BY <1>8, ReloadStep
<1> QED
  BY <1>1, <1>2, <1>3, <1>4, <1>5, <1>6, <1>7, <1>8 DEF Next

LEMMA TabInvAlways == Spec => []TabInv
<1>1. Init => TabInv
  BY TabInvInit
<1>2. TabInv /\ [Next]_vars => TabInv'
  BY TabInvNext
<1> QED
  BY <1>1, <1>2, PTL DEF Spec

\* Every variable of the tab and of the server's sessions keeps its type, and a call
\* waits only while a refresh is in flight (httpClient.ts, refreshInFlight).
THEOREM TypeCorrect == Spec => []TypeOK
<1>1. TabInv => TypeOK
  BY DEF TabInv
<1> QED
  BY <1>1, TabInvAlways, PTL

\* However 401s, lost answers, logouts and logins interleave, attemptRefresh never
\* presents a token the server has exchanged: the tab does not get its own session
\* revoked as reuse.
THEOREM PresentedOnce == Spec => []NeverKillsItsFamily
<1>1. TabInv => NeverKillsItsFamily
  BY DEF TabInv, RefreshIsSound, NeverKillsItsFamily
<1> QED
  BY <1>1, TabInvAlways, PTL

\* AuthContext's user is the owner of the tokens in the store, unless a logout has
\* left a refresh in flight behind.
THEOREM OwnerShown == Spec => []ShowsItsOwner
<1>1. TabInv => ShowsItsOwner
  BY DEF TabInv
<1> QED
  BY <1>1, TabInvAlways, PTL

\* The sessions a tab keeps are those SessionChain promises: what it does to them is
\* a step of the chain, and detected reuse none of them.
THEOREM ImplementsChain == Spec => Server!Spec
<1>1. Init => Server!Init
  BY DEF Init
<1>2. TabInv /\ [Next]_vars => [Server!Next]_(Server!vars)
  <2> SUFFICES ASSUME TabInv, Next
               PROVE  Server!Next \/ UNCHANGED Server!vars
    BY DEF vars, sessions, Server!vars
  <2>1. CASE \E t \in Tokens : ServerLogin(t)
    BY <2>1 DEF ServerLogin, Server!Next
  <2>2. CASE \E t \in Tokens : ServerRefresh(t)
    BY <2>2 DEF ServerRefresh, Server!Next, TabInv, TypeOK
  <2>3. CASE ServerReuse
    BY <2>3, ServerReuseStep
  <2> QED
    BY <2>1, <2>2, <2>3
    DEF Next, Login, LoginReturns, LoginFails, Logout, Call, Deliver, Answered, Unauthorized,
        UnauthorizedAgain, ServerAnswers, ServerRefuses, RefreshReturns, GoStale, Reload,
        sessions, Server!vars
<1> QED
  BY <1>1, <1>2, TabInvAlways, PTL DEF Spec, Server!Spec
=============================================================================
