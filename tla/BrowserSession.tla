--------------------------- MODULE BrowserSession ---------------------------
(***************************************************************************)
(* The analyst's browser tab: services/httpClient.ts, tokenStore.ts and    *)
(* features/auth/AuthContext.tsx over the server's sessions.               *)
(*                                                                         *)
(* JavaScript runs one task at a time; what interleaves are the responses. *)
(* The server exchanges a refresh token in one step, as SessionChain says  *)
(* and RefreshTokens implements.  A pair of tokens is named by its refresh *)
(* token.                                                                  *)
(***************************************************************************)
CONSTANTS
  Users, Tokens, Calls,
  NoUser, NoToken

VARIABLES
  issued, family, live,    \* the server's sessions
  owner,                   \* the user of each token
  stale,                   \* pairs whose access token is refused by now
  current,                 \* tokenStore.current
  user,                    \* AuthContext's user
  presented,               \* refreshInFlight: the token it presents
  reply,                   \* what the server has answered to it
  account,                 \* the login in flight: whose it is
  granted,                 \* and the pair the server has answered
  pc, sent,                \* each API call, and the pair whose access token it carries
  crossed                  \* history: a logout left a refresh in flight behind

sessions == <<issued, family, live, owner>>
tab      == <<current, user, crossed>>
refresh  == <<presented, reply>>
logon    == <<account, granted>>
calls    == <<pc, sent>>
vars     == <<sessions, stale, tab, refresh, logon, calls>>

Server == INSTANCE SessionChain

-----------------------------------------------------------------------------
\* Answers to a refresh that carry no pair.
Awaited == "awaited"
Failed  == "failed"

ASSUME BrowserConstants ==
  NoUser \notin Users /\ {NoToken, Awaited, Failed} \cap Tokens = {}

Init ==
  /\ Server!Init
  /\ owner = [t \in Tokens |-> NoUser]
  /\ stale = {}
  /\ current = NoToken
  /\ user = NoUser
  /\ presented = NoToken
  /\ reply = Failed
  /\ account = NoUser
  /\ granted = NoToken
  /\ pc = [c \in Calls |-> "idle"]
  /\ sent = [c \in Calls |-> NoToken]
  /\ crossed = FALSE
-----------------------------------------------------------------------------
(* Login and logout *)

\* LoginPage: the form is shown while there are no tokens.
Login(u) ==
  /\ current = NoToken /\ account = NoUser
  /\ account' = u
  /\ UNCHANGED <<sessions, stale, tab, refresh, granted, calls>>

\* AuthService.login and the pair it commits, behind the limit.
ServerLogin(t) ==
  /\ account # NoUser /\ granted = NoToken
  /\ Server!Begin(t)
  /\ owner' = [owner EXCEPT ![t] = account]
  /\ granted' = t
  /\ UNCHANGED <<stale, tab, refresh, account, calls>>

\* AuthContext.login continues with the pair.
LoginReturns ==
  /\ granted # NoToken
  /\ current' = granted
  /\ user' = account
  /\ crossed' = (crossed /\ presented # NoToken)
  /\ account' = NoUser
  /\ granted' = NoToken
  /\ UNCHANGED <<sessions, stale, refresh, calls>>

\* 401, 429, or no response, after which the server may have issued a pair.
LoginFails ==
  /\ account # NoUser
  /\ account' = NoUser
  /\ granted' = NoToken
  /\ UNCHANGED <<sessions, stale, tab, refresh, calls>>

\* logout; the server is not told, and a refresh in flight goes on.
Logout ==
  /\ current # NoToken
  /\ current' = NoToken
  /\ user' = NoUser
  /\ crossed' = (presented # NoToken)
  /\ UNCHANGED <<sessions, stale, refresh, logon, calls>>
-----------------------------------------------------------------------------
(* API calls *)

\* rawRequest, with the access token of the moment.
Call(c) ==
  /\ pc[c] = "idle" /\ current # NoToken
  /\ pc' = [pc EXCEPT ![c] = "sent"]
  /\ sent' = [sent EXCEPT ![c] = current]
  /\ UNCHANGED <<sessions, stale, tab, refresh, logon>>

\* The caller has its result, or an error.
Over(c) ==
  /\ pc' = [pc EXCEPT ![c] = "idle"]
  /\ sent' = [sent EXCEPT ![c] = NoToken]

\* Any answer but 401, or none at all.
Answered(c) ==
  /\ pc[c] \in {"sent", "retried"}
  /\ Over(c)
  /\ UNCHANGED <<sessions, stale, tab, refresh, logon>>

Refused(c) == sent[c] \in stale \cup {NoToken}

\* Fault: every 401 starts a refresh of its own.
UnauthorizedAlone(c) ==
  /\ pc[c] = "sent" /\ Refused(c) /\ current # NoToken
  /\ pc' = [pc EXCEPT ![c] = "waiting"]
  /\ presented' = current
  /\ reply' = Awaited
  /\ UNCHANGED <<sessions, stale, tab, logon, sent>>

\* 401: attemptRefresh joins the refresh in flight or starts one; without tokens the
\* call fails.
Unauthorized(c) ==
  /\ pc[c] = "sent" /\ Refused(c)
  /\ IF current = NoToken
     THEN Over(c) /\ UNCHANGED refresh
     ELSE /\ pc' = [pc EXCEPT ![c] = "waiting"]
          /\ UNCHANGED sent
          /\ IF presented # NoToken THEN UNCHANGED refresh
             ELSE presented' = current /\ reply' = Awaited
  /\ UNCHANGED <<sessions, stale, tab, logon>>

\* A second 401 is the caller's.
UnauthorizedAgain(c) ==
  /\ pc[c] = "retried" /\ Refused(c)
  /\ Over(c)
  /\ UNCHANGED <<sessions, stale, tab, refresh, logon>>
-----------------------------------------------------------------------------
(* The refresh in flight *)

\* POST /auth/refresh; the response may be lost on its way.
ServerRefresh(t) ==
  /\ presented # NoToken /\ reply = Awaited
  /\ Server!Exchange(presented, t)
  /\ owner' = [owner EXCEPT ![t] = owner[presented]]
  /\ reply' \in {t, Failed}
  /\ UNCHANGED <<stale, tab, presented, logon, calls>>

\* A token that was exchanged already: its family is revoked.
ServerReuse ==
  /\ presented # NoToken /\ reply = Awaited
  /\ presented \notin live
  /\ Server!Kill(family[presented])
  /\ reply' = Failed
  /\ UNCHANGED <<owner, stale, tab, presented, logon, calls>>

\* Refused without a change: expired, account deactivated, or not reached.
ServerRefuses ==
  /\ presented # NoToken /\ reply = Awaited
  /\ reply' = Failed
  /\ UNCHANGED <<sessions, stale, tab, presented, logon, calls>>

\* Fault: after a failure the callers are left waiting.
SettleSuccess ==
  /\ pc' = [c \in Calls |-> IF pc[c] = "waiting" /\ reply # Failed THEN "retried" ELSE pc[c]]
  /\ sent' = [c \in Calls |-> IF pc[c] = "waiting" /\ reply # Failed THEN reply ELSE sent[c]]

\* The calls that waited are sent again with the new pair, or fail.
Settle ==
  /\ pc' = [c \in Calls |-> IF pc[c] # "waiting" THEN pc[c]
                           ELSE IF reply = Failed THEN "idle" ELSE "retried"]
  /\ sent' = [c \in Calls |-> IF pc[c] # "waiting" THEN sent[c]
                             ELSE IF reply = Failed THEN NoToken ELSE reply]

\* Fault: nobody listens to the store.
StoreQuietly(token) == current' = token /\ UNCHANGED <<user, crossed>>

\* setTokens, and the listener of AuthContext.
Store(token) ==
  /\ current' = token
  /\ user' = IF token = NoToken THEN NoUser ELSE user
  /\ crossed' = (crossed /\ token # NoToken)

\* Fault: the answer is dropped when the analyst has logged out meanwhile.
ReturnsToSession ==
  /\ presented # NoToken /\ reply # Awaited /\ current # NoToken
  /\ presented' = NoToken /\ reply' = Failed
  /\ Store(IF reply = Failed THEN NoToken ELSE reply)
  /\ Settle
  /\ UNCHANGED <<sessions, stale, logon>>

\* The response arrives: the store is set and the waiting calls go on before anything
\* else runs.
RefreshReturns ==
  /\ presented # NoToken /\ reply # Awaited
  /\ presented' = NoToken /\ reply' = Failed
  /\ Store(IF reply = Failed THEN NoToken ELSE reply)
  /\ Settle
  /\ UNCHANGED <<sessions, stale, logon>>
-----------------------------------------------------------------------------
\* An access token expires, or its user is deactivated.
GoStale(t) ==
  /\ t \in issued \ stale
  /\ stale' = stale \cup {t}
  /\ UNCHANGED <<sessions, tab, refresh, logon, calls>>

\* The page is loaded anew: the store is a variable of the module and is gone.
Reload ==
  /\ current' = NoToken
  /\ user' = NoUser
  /\ presented' = NoToken
  /\ reply' = Failed
  /\ account' = NoUser
  /\ granted' = NoToken
  /\ pc' = [c \in Calls |-> "idle"]
  /\ sent' = [c \in Calls |-> NoToken]
  /\ crossed' = FALSE
  /\ UNCHANGED <<sessions, stale>>

\* What becomes of a refresh on the server.
ServerAnswers == (\E t \in Tokens : ServerRefresh(t)) \/ ServerReuse \/ ServerRefuses

\* The network and the server deal with a call that has been sent.
Deliver(c) ==
  \/ Answered(c)
  \/ Unauthorized(c)
  \/ UnauthorizedAgain(c)

Next ==
  \/ \E u \in Users : Login(u)
  \/ \E t \in Tokens : ServerLogin(t) \/ GoStale(t)
  \/ LoginReturns \/ LoginFails \/ Logout
  \/ \E c \in Calls : Call(c) \/ Deliver(c)
  \/ ServerAnswers \/ RefreshReturns
  \/ Reload

Spec == Init /\ [][Next]_vars

\* fetch is answered or fails, and the server answers or is not reached.
Fairness ==
  /\ \A c \in Calls : WF_vars(Deliver(c))
  /\ WF_vars(ServerAnswers)
  /\ WF_vars(RefreshReturns)
-----------------------------------------------------------------------------
(* Properties *)

\* Every variable has its type, and a call waits only while a refresh is in flight.
TypeOK ==
  /\ issued \subseteq Tokens /\ live \subseteq issued /\ stale \subseteq issued
  /\ family \in [Tokens -> Tokens \cup {NoToken}]
  /\ owner \in [Tokens -> Users \cup {NoUser}]
  /\ {current, presented, granted} \subseteq issued \cup {NoToken}
  /\ {user, account} \subseteq Users \cup {NoUser}
  /\ reply \in issued \cup {Awaited, Failed}
  /\ pc \in [Calls -> {"idle", "sent", "waiting", "retried"}]
  /\ sent \in [Calls -> issued \cup {NoToken}]
  /\ \A c \in Calls : pc[c] = "waiting" => presented # NoToken
  /\ crossed \in BOOLEAN

\* A tab never presents a refresh token a second time, which would make the server
\* revoke the family: several calls may meet the expiry, responses may be lost, and
\* the analyst may log out and in again meanwhile.
NeverKillsItsFamily == reply = Awaited => presented \in live

\* The name on the screen is the owner's of the tokens in the store, and nobody's when
\* there are none; unless a refresh was in flight at a logout, whose answer puts the
\* session back, even over the one of somebody who has logged in since.
ShowsItsOwner ==
  ~crossed => user = IF current = NoToken THEN NoUser ELSE owner[current]

\* No call is kept waiting, whatever becomes of the refresh it waits for.
EveryCallEnds == \A c \in Calls : pc[c] # "idle" ~> pc[c] = "idle"
=============================================================================
