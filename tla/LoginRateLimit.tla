--------------------------- MODULE LoginRateLimit ---------------------------
(***************************************************************************)
(* The limit on login attempts from one address: core/rate_limit.py, which *)
(* counts in Redis, and enforce_login_rate_limit of api/dependencies.py,   *)
(* which decides.                                                          *)
(*                                                                         *)
(* Each command to Redis is a step: INCR, EXPIRE by the request that       *)
(* created the key, and TTL for the Retry-After header, with the commands  *)
(* of other requests and the clock in between.  Time passes in ticks.      *)
(***************************************************************************)
EXTENDS Integers

CONSTANTS
  Clients,        \* login requests from the address, one at a time each
  max_attempts, window_seconds,
  MaxCount        \* bounds the counter

ASSUME RateLimitConstants ==
  /\ max_attempts \in Nat \ {0}
  /\ window_seconds \in Nat \ {0}
  /\ MaxCount \in Nat

VARIABLES
  counter,     \* the key's value, 0 when there is no key
  ttl,         \* ticks until the key expires
  step,        \* where each login request is
  count,       \* what INCR returned to it
  recent,      \* history: attempts let through by the limiter, by age in ticks
  unlimited    \* history: an EXPIRE was lost

limiter == <<counter, ttl, step, count, recent, unlimited>>

-----------------------------------------------------------------------------
\* A key that has no time to live.
NoExpiry == -1

Ages == 0..window_seconds - 1

LimiterInit ==
  /\ counter = 0
  /\ ttl = NoExpiry
  /\ step = [c \in Clients |-> "idle"]
  /\ count = [c \in Clients |-> 0]
  /\ recent = [age \in Ages |-> 0]
  /\ unlimited = FALSE

\* Fault: one attempt too many.
WithinOneMore(n) == n <= max_attempts + 1

Within(n) == n <= max_attempts

Incr(c) ==
  /\ step[c] = "idle"
  /\ counter < MaxCount
  /\ counter' = counter + 1
  /\ count' = [count EXCEPT ![c] = counter']
  /\ step' = [step EXCEPT ![c] = IF counter' = 1 THEN "expire" ELSE "ttl"]
  /\ recent' = IF Within(counter') THEN [recent EXCEPT ![0] = @ + 1] ELSE recent
  /\ UNCHANGED <<ttl, unlimited>>

\* Fault: the expiry is set by the second attempt of a window.
ExpireLater(c) ==
  /\ step[c] = "expire"
  /\ ttl' = IF counter > 1 THEN window_seconds ELSE ttl
  /\ step' = [step EXCEPT ![c] = "ttl"]
  /\ UNCHANGED <<counter, count, recent, unlimited>>

\* EXPIRE; only the request whose INCR returned 1 issues it.
Expire(c) ==
  /\ step[c] = "expire"
  /\ ttl' = window_seconds
  /\ step' = [step EXCEPT ![c] = "ttl"]
  /\ UNCHANGED <<counter, count, recent, unlimited>>

\* TTL, whose answer only the 429 quotes, and the decision.
Decide(c) ==
  /\ step[c] = "ttl"
  /\ step' = [step EXCEPT ![c] = IF Within(count[c]) THEN "allowed" ELSE "refused"]
  /\ UNCHANGED <<counter, ttl, count, recent, unlimited>>

\* A command raises RedisError: the request passes.  After an INCR the count stays.
FailOpen(c) ==
  /\ step[c] \in {"idle", "expire", "ttl"}
  /\ step' = [step EXCEPT ![c] = "allowed"]
  /\ unlimited' = (unlimited \/ step[c] = "expire")
  /\ UNCHANGED <<counter, ttl, count, recent>>

\* The request is over: AuthService.login has answered or the 429 is out.
LoginOver(c) ==
  /\ step[c] \in {"allowed", "refused"}
  /\ step' = [step EXCEPT ![c] = "idle"]
  /\ count' = [count EXCEPT ![c] = 0]
  /\ UNCHANGED <<counter, ttl, recent, unlimited>>

\* The clock.  The key goes when its time is up.
Tick ==
  /\ \E age \in Ages : recent[age] > 0 \/ ttl # NoExpiry
  /\ recent' = [age \in Ages |-> IF age = 0 THEN 0 ELSE recent[age - 1]]
  /\ IF ttl = 1 THEN counter' = 0 /\ ttl' = NoExpiry
     ELSE ttl' = (IF ttl = NoExpiry THEN ttl ELSE ttl - 1) /\ UNCHANGED counter
  /\ UNCHANGED <<step, count, unlimited>>

LimiterNext ==
  \/ \E c \in Clients : Incr(c) \/ Expire(c) \/ Decide(c) \/ FailOpen(c) \/ LoginOver(c)
  \/ Tick

LimiterSpec == LimiterInit /\ [][LimiterNext]_limiter
-----------------------------------------------------------------------------
(* Properties *)

\* "A caller can send up to 2x the limit by clustering requests around a window
\* boundary" (core/rate_limit.py) and not more: in any window_seconds ticks the
\* limiter has let at most that many attempts through, however its commands
\* interleave with those of other requests and with the expiry.
AtMostTwiceTheLimit ==
  LET through[age \in -1..window_seconds - 1] ==
        IF age = -1 THEN 0 ELSE through[age - 1] + recent[age]
  IN  through[window_seconds - 1] <= 2 * max_attempts

\* An address is never locked out for good: a key that counts has a time to live, or
\* the request that is about to set it is still under way; unless that request lost
\* its connection to Redis between INCR and EXPIRE.
KeyWillExpire ==
  counter > 0 /\ ttl = NoExpiry => unlimited \/ \E c \in Clients : step[c] = "expire"
=============================================================================
