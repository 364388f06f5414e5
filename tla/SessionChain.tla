---------------------------- MODULE SessionChain ----------------------------
(***************************************************************************)
(* What refresh-token rotation promises (services/token_service.py, module *)
(* docstring), with no transactions, locks or requests: a session, called  *)
(* a family, is a chain of tokens of which at most the last one is live.   *)
(* A login begins a chain, a refresh exchanges the live token for its      *)
(* successor, and detected reuse kills whatever is live, each in one step. *)
(***************************************************************************)
CONSTANTS Tokens, NoToken

VARIABLES
  issued,    \* tokens handed out so far
  family,    \* the first token of each token's chain
  live       \* tokens that can still be exchanged

vars == <<issued, family, live>>

Init ==
  /\ issued = {}
  /\ family = [t \in Tokens |-> NoToken]
  /\ live = {}

Begin(t) ==
  /\ t \notin issued
  /\ issued' = issued \cup {t}
  /\ family' = [family EXCEPT ![t] = t]
  /\ live' = live \cup {t}

Exchange(s, t) ==
  /\ s \in live
  /\ t \notin issued
  /\ issued' = issued \cup {t}
  /\ family' = [family EXCEPT ![t] = family[s]]
  /\ live' = (live \ {s}) \cup {t}

Kill(f) ==
  /\ live' = {t \in live : family[t] # f}
  /\ UNCHANGED <<issued, family>>

Next == \E t \in Tokens : \/ Begin(t)
                          \/ \E s \in Tokens : Exchange(s, t)
                          \/ Kill(t)

Spec == Init /\ [][Next]_vars
=============================================================================
