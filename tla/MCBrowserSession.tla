-------------------------- MODULE MCBrowserSession --------------------------
(***************************************************************************)
(* An instance of BrowserSession for TLC, and of the two parts of the      *)
(* server a tab meets before it has a session, the limit on logins and the *)
(* registration.  The three share no variable; TLC explores each while the *)
(* other two are at rest, instead of their product.                        *)
(***************************************************************************)
EXTENDS BrowserSession, LoginRateLimit, Registration, TLC

CONSTANTS ann, bob, t1, t2, t3, c1, c2

TwoUsers    == {ann, bob}
ThreeTokens == {t1, t2, t3}
TwoCalls    == {c1, c2}

TwoSpellings == {"Ann@soc", "ann@soc"}
LowerCase    == [e \in TwoSpellings |-> "ann@soc"]

All == <<vars, limiter, registration>>

TabIsShut == issued = {} /\ account = NoUser
NobodyLogsIn == /\ counter = 0 /\ \A c \in Clients : step[c] = "idle"
                /\ \A age \in Ages : recent[age] = 0
                /\ ~unlimited
NobodyRegisters == \A r \in Registrants : stage[r] = "idle"
NobodyIsRegistered == \A a \in Addresses : password_of[a] = NoPassword

MCInit == Init /\ LimiterInit /\ RegistrationInit

MCNext ==
  \/ Next /\ NobodyLogsIn /\ NobodyRegisters /\ NobodyIsRegistered
          /\ UNCHANGED <<limiter, registration>>
  \/ LimiterNext /\ TabIsShut /\ NobodyRegisters /\ NobodyIsRegistered
                 /\ UNCHANGED <<vars, registration>>
  \/ RegistrationNext /\ TabIsShut /\ NobodyLogsIn /\ UNCHANGED <<vars, limiter>>

MCSpec == MCInit /\ [][MCNext]_All /\ Fairness
=============================================================================
