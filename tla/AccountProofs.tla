--------------------------- MODULE AccountProofs ----------------------------
(***************************************************************************)
(* Proofs about accounts and the way in, for any numbers of users, clients *)
(* and requests: AccountAdministration, LoginRateLimit and Registration,   *)
(* which share no variable.                                                *)
(***************************************************************************)
EXTENDS AccountAdministration, LoginRateLimit, Registration, Induction

-----------------------------------------------------------------------------
(* AccountAdministration *)

\* A request about to commit targets somebody else than its admin.
NeverOneself ==
  \A r \in Requests : pc[r] = "commit" => target[r] \in Users \ {actor[r]}

\* The inductive invariant.  AdminRemains needs NeverOneself: the admin of a
\* commit survives it.
IInv == TypeOK /\ NeverOneself /\ TrailTellsTheFlag /\ AdminRemains

\* The invariant holds when every account is active and no request runs.
LEMMA InitIInv == Init => IInv
  BY AccountConstants
  DEF Init, IInv, TypeOK, NeverOneself, TrailTellsTheFlag, AdminRemains

\* Writing one user's flag keeps a set of users a set of users.
LEMMA WithType ==
  ASSUME NEW users \in SUBSET Users, NEW u \in Users, NEW b \in BOOLEAN
  PROVE  /\ With(users, u, b) \in SUBSET Users
         /\ \A v \in users : v # u => v \in With(users, u, b)
  BY DEF With

\* Every step keeps the invariant.
LEMMA StepIInv == IInv /\ [Next]_vars => IInv'
<1> SUFFICES ASSUME IInv, [Next]_vars PROVE IInv'
  OBVIOUS
<1> USE DEF IInv
<1>1. ASSUME NEW r \in Requests, NEW u \in Users, Authorize(r, u)
      PROVE  IInv'
  BY <1>1, AccountConstants
  DEF Authorize, TypeOK, NeverOneself, TrailTellsTheFlag, AdminRemains
<1>2. ASSUME NEW r \in Requests, NEW u \in Users, NEW b \in BOOLEAN, Prepare(r, u, b)
      PROVE  IInv'
  BY <1>2 DEF Prepare, TypeOK, NeverOneself, TrailTellsTheFlag, AdminRemains
<1>3. ASSUME NEW r \in Requests, Commit(r)
      PROVE  IInv'
  <2>1. /\ target[r] \in Users \ {actor[r]}
        /\ wanted[r] \in BOOLEAN /\ previous[r] \in BOOLEAN
        /\ actor[r] \in Admins \cup {NoUser}
        /\ told = active /\ active \in SUBSET Users
    BY <1>3 DEF Commit, TypeOK, NeverOneself, TrailTellsTheFlag
  <2>2. active' = told'
    BY <1>3, <2>1 DEF Commit, Flush
  <2>3. active' \in SUBSET Users
    BY <1>3, <2>1, WithType DEF Commit, Flush
  <2>4. TypeOK'
    BY <1>3, <2>2, <2>3 DEF Commit, End, TypeOK
  <2>5. NeverOneself'
    BY <1>3 DEF Commit, End, TypeOK, NeverOneself
  <2>6. ASSUME ~orphaned' PROVE active' \cap Admins # {}
    <3>1. actor[r] \in active
      BY <1>3, <2>6 DEF Commit
    <3>2. actor[r] \in Admins
      BY <3>1, <2>1, AccountConstants
    <3>3. actor[r] \in active'
      BY <1>3, <2>1, <3>1, WithType DEF Commit, Flush
    <3> QED
      BY <3>2, <3>3
  <2> QED
    BY <2>2, <2>4, <2>5, <2>6 DEF TrailTellsTheFlag, AdminRemains
<1>4. ASSUME NEW r \in Requests, Fail(r)
      PROVE  IInv'
  BY <1>4 DEF Fail, End, TypeOK, NeverOneself, TrailTellsTheFlag, AdminRemains
<1>5. CASE UNCHANGED vars
  BY <1>5 DEF vars, control, TypeOK, NeverOneself, TrailTellsTheFlag, AdminRemains
<1> QED
  BY <1>1, <1>2, <1>3, <1>4, <1>5 DEF Next

\* The inductive invariant holds in every reachable state.
THEOREM Invariant == Spec => []IInv
  BY InitIInv, StepIInv, PTL DEF Spec

\* The state has its type: in particular nobody but an admin ever acts.
THEOREM TypeCorrect == Spec => []TypeOK
  BY Invariant, PTL DEF IInv

\* The audit trail of change_user_status never falls behind the flags.
THEOREM FlagAudited == Spec => []TrailTellsTheFlag
  BY Invariant, PTL DEF IInv

\* An admin stays active as long as every commit is made for an admin who is.
THEOREM AdminStays == Spec => []AdminRemains
  BY Invariant, PTL DEF IInv

-----------------------------------------------------------------------------
(* The limit on login attempts *)

Steps == {"idle", "expire", "ttl", "allowed", "refused"}

LimiterTyped ==
  /\ counter \in Nat
  /\ ttl \in {NoExpiry} \cup 1..window_seconds
  /\ step \in [Clients -> Steps]
  /\ unlimited \in BOOLEAN

LimiterInv == LimiterTyped /\ KeyWillExpire

LEMMA LimiterInvInit == LimiterInit => LimiterInv
<1> SUFFICES ASSUME LimiterInit PROVE LimiterInv
  OBVIOUS
<1>1. KeyWillExpire
  BY DEF LimiterInit, KeyWillExpire
<1>2. LimiterTyped
  <2>1. counter \in Nat /\ ttl \in {NoExpiry} \cup 1..window_seconds
    BY DEF LimiterInit
  <2>2. step \in [Clients -> Steps]
    BY DEF LimiterInit, Steps
  <2>3. unlimited \in BOOLEAN
    BY DEF LimiterInit
  <2> QED
    BY <2>1, <2>2, <2>3 DEF LimiterTyped
<1> QED
  BY <1>1, <1>2 DEF LimiterInv

LEMMA LimiterInvNext == LimiterInv /\ [LimiterNext]_limiter => LimiterInv'
<1> SUFFICES ASSUME LimiterInv, [LimiterNext]_limiter
             PROVE  LimiterInv'
  OBVIOUS
<1> USE DEF LimiterInv, LimiterTyped, KeyWillExpire
<1>1. ASSUME NEW c \in Clients, Incr(c)
      PROVE  LimiterInv'
  <2>1. /\ step[c] = "idle" /\ counter' = counter + 1
        /\ ttl' = ttl /\ unlimited' = unlimited
        /\ step' = [step EXCEPT ![c] = IF counter' = 1 THEN "expire" ELSE "ttl"]
    BY <1>1 DEF Incr
  <2>2. LimiterTyped'
    BY <2>1 DEF Steps
  \* The request that created the key is the one to set its expiry.
  <2>3. CASE counter = 0
    <3>1. step'[c] = "expire"
      BY <2>1, <2>3
    <3> QED
      BY <2>2, <3>1
  <2>4. CASE counter # 0
    <3>1. \A d \in Clients : step[d] = "expire" => step'[d] = "expire"
      BY <2>1
    <3> QED
      BY <2>1, <2>2, <2>4, <3>1
  <2> QED
    BY <2>3, <2>4
<1>2. ASSUME NEW c \in Clients, Expire(c)
      PROVE  LimiterInv'
  BY <1>2, RateLimitConstants DEF Expire, Steps, NoExpiry
<1>3. ASSUME NEW c \in Clients, Decide(c)
      PROVE  LimiterInv'
  BY <1>3 DEF Decide, Steps
<1>4. ASSUME NEW c \in Clients, FailOpen(c)
      PROVE  LimiterInv'
  BY <1>4 DEF FailOpen, Steps
<1>5. ASSUME NEW c \in Clients, LoginOver(c)
      PROVE  LimiterInv'
  BY <1>5 DEF LoginOver, Steps
<1>6. CASE Tick
  <2>1. CASE ttl = 1
    BY <1>6, <2>1 DEF Tick, NoExpiry
  <2>2. CASE ttl # 1
    BY <1>6, <2>2, RateLimitConstants DEF Tick, NoExpiry
  <2> QED
    BY <2>1, <2>2
<1>7. CASE UNCHANGED limiter
  BY <1>7 DEF limiter
<1> QED
  BY <1>1, <1>2, <1>3, <1>4, <1>5, <1>6, <1>7 DEF LimiterNext

\* Whatever the interleaving of INCR, EXPIRE and TTL (core/rate_limit.py), a counting
\* key expires, unless the one EXPIRE was lost.
THEOREM Expires == LimiterSpec => []KeyWillExpire
<1>1. LimiterInit => LimiterInv
  BY LimiterInvInit
<1>2. LimiterInv /\ [LimiterNext]_limiter => LimiterInv'
  BY LimiterInvNext
<1>3. LimiterInv => KeyWillExpire
  BY DEF LimiterInv
<1> QED
  BY <1>1, <1>2, <1>3, PTL DEF LimiterSpec

-----------------------------------------------------------------------------
(* The attempts of a window *)

Attempts == [Ages -> Nat]

\* The sums of the attempts, from the youngest on.
Through(f) ==
  LET through[age \in -1..window_seconds - 1] ==
        IF age = -1 THEN 0 ELSE through[age - 1] + f[age]
  IN  through

Sum(f) == Through(f)[window_seconds - 1]

LEMMA PartialSums ==
  ASSUME NEW n \in Nat, NEW f \in [0..n - 1 -> Nat]
  PROVE  \E g \in [-1..n - 1 -> Nat] :
           g = [age \in -1..n - 1 |-> IF age = -1 THEN 0 ELSE g[age - 1] + f[age]]
<1> DEFINE plus == [p \in (1..n) \X Nat |-> p[2] + f[p[1] - 1]]
<1>1. plus \in StepFunctions(n, Nat)
  BY DEF StepFunctions
<1>2. \A i \in 1..n, m \in Nat : plus[<<i, m>>] = m + f[i - 1]
  OBVIOUS
<1> HIDE DEF plus
<1>3. PICK F \in [0..n -> Nat] : F[0] = 0 /\ \A i \in 1..n : F[i] = plus[<<i, F[i - 1]>>]
  <2>1. 0 \in Nat
    OBVIOUS
  <2>2. \E F : Recurs(F, n, Nat, 0, plus)
    BY <1>1, <2>1, Recursion
  <2> QED
    BY <2>2 DEF Recurs
<1> DEFINE g == [age \in -1..n - 1 |-> F[age + 1]]
<1>4. g \in [-1..n - 1 -> Nat]
  OBVIOUS
<1>5. ASSUME NEW age \in -1..n - 1
      PROVE  g[age] = IF age = -1 THEN 0 ELSE g[age - 1] + f[age]
  <2>1. CASE age = -1
    BY <1>3, <2>1
  <2>2. CASE age # -1
    <3>1. age + 1 \in 1..n /\ age - 1 \in -1..n - 1 /\ (age + 1) - 1 = age /\ (age - 1) + 1 = age
      BY <2>2
    <3>2. g[age] = F[age + 1] /\ g[age - 1] = F[age] /\ F[age] \in Nat
      BY <3>1
    <3>3. F[age + 1] = plus[<<age + 1, F[age]>>]
      BY <1>3, <3>1
    <3>4. plus[<<age + 1, F[age]>>] = F[age] + f[age]
      BY <1>2, <3>1, <3>2
    <3> QED
      BY <2>2, <3>2, <3>3, <3>4
  <2> QED
    BY <2>1, <2>2
<1> HIDE DEF g
<1> QED
  BY <1>4, <1>5

LEMMA ThroughAdds ==
  ASSUME NEW f \in Attempts
  PROVE  /\ Through(f) \in [-1..window_seconds - 1 -> Nat]
         /\ Through(f)[-1] = 0
         /\ \A age \in Ages : Through(f)[age] = Through(f)[age - 1] + f[age]
<1> DEFINE Ns == [-1..window_seconds - 1 -> Nat]
           Solves(g) ==
             g = [age \in -1..window_seconds - 1 |-> IF age = -1 THEN 0 ELSE g[age - 1] + f[age]]
<1>1. window_seconds \in Nat /\ f \in [0..window_seconds - 1 -> Nat]
  BY RateLimitConstants DEF Attempts, Ages
<1>2. \E g \in Ns : Solves(g)
  BY <1>1, PartialSums
<1>3. Through(f) = CHOOSE g : Solves(g)
  BY DEF Through
<1>4. Solves(Through(f))
  <2> HIDE DEF Solves
  <2> QED
    BY <1>2, <1>3
<1> DEFINE T == Through(f)
<1>5. /\ DOMAIN T = -1..window_seconds - 1 /\ T = [age \in -1..window_seconds - 1 |-> T[age]]
      /\ T[-1] = 0
      /\ \A age \in 0..window_seconds - 1 : T[age] = T[age - 1] + f[age]
  BY <1>1, <1>4
<1> DEFINE S == {i \in 0..window_seconds : T[i - 1] \in Nat}
<1> HIDE DEF T
<1>6. 0 \in S
  BY <1>1, <1>5
<1>7. ASSUME NEW i \in 1..window_seconds, i - 1 \in S PROVE i \in S
  <2>1. i - 1 \in 0..window_seconds - 1 /\ (i - 1) - 1 = i - 2 /\ i \in 0..window_seconds
    BY <1>1
  <2>2. T[i - 2] \in Nat /\ f[i - 1] \in Nat
    BY <1>1, <1>7, <2>1
  <2>3. T[i - 1] = T[i - 2] + f[i - 1]
    BY <1>5, <2>1
  <2> QED
    BY <2>1, <2>2, <2>3
<1>8. 0..window_seconds \subseteq S
  <2> HIDE DEF S
  <2> QED
    BY <1>1, <1>6, <1>7, UpTo
<1>9. ASSUME NEW age \in -1..window_seconds - 1 PROVE T[age] \in Nat
  <2>1. age + 1 \in 0..window_seconds /\ (age + 1) - 1 = age
    BY <1>1
  <2> QED
    BY <1>8, <2>1
<1> QED
  BY <1>5, <1>9 DEF T, Ages

\* Sums add up.
LEMMA SumOfBoth ==
  ASSUME NEW f \in Attempts, NEW g \in Attempts, NEW h \in Attempts,
         \A age \in Ages : h[age] = f[age] + g[age]
  PROVE  Sum(h) = Sum(f) + Sum(g)
<1> DEFINE w == window_seconds
           F == Through(f)
           G == Through(g)
           H == Through(h)
           S == {i \in 0..w : H[i - 1] = F[i - 1] + G[i - 1]}
<1>1. w \in Nat /\ \A i \in 1..w : i - 1 \in Ages /\ i - 2 \in -1..w - 1
  BY RateLimitConstants DEF Ages
<1>2. /\ F \in [-1..w - 1 -> Nat] /\ G \in [-1..w - 1 -> Nat] /\ H \in [-1..w - 1 -> Nat]
      /\ F[-1] = 0 /\ G[-1] = 0 /\ H[-1] = 0
      /\ \A age \in Ages : /\ F[age] = F[age - 1] + f[age]
                           /\ G[age] = G[age - 1] + g[age]
                           /\ H[age] = H[age - 1] + h[age]
  BY ThroughAdds
<1> HIDE DEF w, F, G, H
<1>3. 0 \in S
  BY <1>1, <1>2
<1>4. ASSUME NEW i \in 1..w, i - 1 \in S PROVE i \in S
  <2>1. /\ i - 1 \in Ages /\ i - 2 \in -1..w - 1 /\ (i - 1) - 1 = i - 2
        /\ H[i - 2] = F[i - 2] + G[i - 2]
    BY <1>1, <1>4
  <2>2. /\ F[i - 1] = F[i - 2] + f[i - 1] /\ G[i - 1] = G[i - 2] + g[i - 1]
        /\ H[i - 1] = H[i - 2] + h[i - 1] /\ h[i - 1] = f[i - 1] + g[i - 1]
    BY <1>2, <2>1
  <2>3. /\ F[i - 2] \in Nat /\ G[i - 2] \in Nat /\ f[i - 1] \in Nat /\ g[i - 1] \in Nat
    BY <1>2, <2>1 DEF Attempts
  <2> QED
    BY <2>1, <2>2, <2>3
<1>5. 0..w \subseteq S
  <2> HIDE DEF S
  <2> QED
    BY <1>1, <1>3, <1>4, UpTo
<1>6. w \in S
  BY <1>1, <1>5
<1> QED
  BY <1>6 DEF Sum, w, F, G, H

\* Nothing adds up to nothing.
LEMMA SumOfNone ==
  ASSUME NEW f \in Attempts, \A age \in Ages : f[age] = 0
  PROVE  Sum(f) = 0
<1>1. \A age \in Ages : f[age] = f[age] + f[age]
  OBVIOUS
<1>2. Sum(f) = Sum(f) + Sum(f)
  BY <1>1, SumOfBoth
<1>3. \A n \in Nat : n = n + n => n = 0
  OBVIOUS
<1>4. Sum(f) \in Nat
  <2>1. window_seconds - 1 \in -1..window_seconds - 1
    BY RateLimitConstants
  <2> QED
    BY <2>1, ThroughAdds DEF Sum
<1> QED
  BY <1>2, <1>3, <1>4, Zenon

\* One more attempt in the tick of age 0.
LEMMA SumOfOneMore ==
  ASSUME NEW f \in Attempts
  PROVE  [f EXCEPT ![0] = @ + 1] \in Attempts /\ Sum([f EXCEPT ![0] = @ + 1]) = Sum(f) + 1
<1> DEFINE w == window_seconds
           g == [f EXCEPT ![0] = @ + 1]
           F == Through(f)
           G == Through(g)
           S == {i \in 0..w : i # 0 => G[i - 1] = F[i - 1] + 1}
<1>1. /\ w \in Nat \ {0} /\ 0 \in Ages
      /\ \A i \in 1..w : i - 1 \in Ages /\ i - 2 \in -1..w - 1
  BY RateLimitConstants DEF Ages
<1>2. /\ g \in Attempts /\ g[0] = f[0] + 1 /\ \A age \in Ages \ {0} : g[age] = f[age]
  BY <1>1 DEF Attempts
<1> HIDE DEF g
<1>3. /\ F \in [-1..w - 1 -> Nat] /\ G \in [-1..w - 1 -> Nat] /\ F[-1] = 0 /\ G[-1] = 0
      /\ \A age \in Ages : F[age] = F[age - 1] + f[age] /\ G[age] = G[age - 1] + g[age]
  BY <1>2, ThroughAdds
<1> HIDE DEF w, F, G
<1>4. 0 \in S
  BY <1>1
<1>5. ASSUME NEW i \in 1..w, i - 1 \in S PROVE i \in S
  <2> USE DEF Attempts
  <2>1. i - 1 \in Ages /\ i - 2 \in -1..w - 1 /\ (i - 1) - 1 = i - 2 /\ i \in 0..w
    BY <1>1
  <2>2. /\ F[i - 1] = F[i - 2] + f[i - 1] /\ G[i - 1] = G[i - 2] + g[i - 1]
        /\ F[i - 2] \in Nat /\ f[i - 1] \in Nat
    BY <1>3, <2>1
  <2>3. CASE i = 1
    BY <1>2, <1>3, <2>1, <2>2, <2>3
  <2>4. CASE i # 1
    <3>1. i - 1 # 0 /\ G[i - 2] = F[i - 2] + 1 /\ g[i - 1] = f[i - 1]
      BY <1>2, <1>5, <2>1, <2>4
    <3> QED
      BY <2>1, <2>2, <3>1
  <2> QED
    BY <2>3, <2>4
<1>6. 0..w \subseteq S
  <2> HIDE DEF S
  <2> QED
    BY <1>1, <1>4, <1>5, UpTo
<1>7. w \in S
  BY <1>1, <1>6
<1> QED
  BY <1>1, <1>2, <1>7 DEF Sum, w, F, G, g

\* A tick later.
Older(f) == [age \in Ages |-> IF age = 0 THEN 0 ELSE f[age - 1]]

LEMMA SumAfterTick ==
  ASSUME NEW f \in Attempts
  PROVE  Older(f) \in Attempts /\ Sum(Older(f)) <= Sum(f)
<1> DEFINE w == window_seconds
           g == Older(f)
           F == Through(f)
           G == Through(g)
           S == {i \in 0..w : i # 0 => G[i - 1] = F[i - 2]}
<1>1. /\ w \in Nat \ {0}
      /\ \A i \in 1..w : i - 1 \in Ages /\ i - 2 \in -1..w - 1
      /\ \A i \in 2..w : i - 2 \in Ages
  BY RateLimitConstants DEF Ages
<1>2. /\ g \in Attempts /\ g[0] = 0 /\ \A i \in 2..w : g[i - 1] = f[i - 2]
  BY RateLimitConstants DEF Attempts, Older, Ages
<1> HIDE DEF g
<1>3. /\ F \in [-1..w - 1 -> Nat] /\ G \in [-1..w - 1 -> Nat] /\ F[-1] = 0 /\ G[-1] = 0
      /\ \A age \in Ages : F[age] = F[age - 1] + f[age] /\ G[age] = G[age - 1] + g[age]
  BY <1>2, ThroughAdds
<1> HIDE DEF w, F, G
<1>4. 0 \in S
  BY <1>1
<1>5. ASSUME NEW i \in 1..w, i - 1 \in S PROVE i \in S
  <2>1. i - 1 \in Ages /\ (i - 1) - 1 = i - 2 /\ i \in 0..w
    BY <1>1
  <2>2. G[i - 1] = G[i - 2] + g[i - 1]
    BY <1>3, <2>1
  <2>3. CASE i = 1
    BY <1>2, <1>3, <2>2, <2>3
  <2>4. CASE i # 1
    <3>1. /\ i \in 2..w /\ (i - 2) - 1 = i - 3 /\ (i - 1) - 2 = i - 3
          /\ i - 1 # 0
      BY <1>1, <2>4
    <3>2. i - 2 \in Ages
      BY <1>1, <3>1
    <3>3. G[i - 2] = F[i - 3] /\ g[i - 1] = f[i - 2]
      BY <1>2, <1>5, <2>1, <3>1
    <3>4. F[i - 2] = F[i - 3] + f[i - 2]
      BY <1>3, <3>1, <3>2
    <3> QED
      BY <2>1, <2>2, <3>3, <3>4
  <2> QED
    BY <2>3, <2>4
<1>6. 0..w \subseteq S
  <2> HIDE DEF S
  <2> QED
    BY <1>1, <1>4, <1>5, UpTo
<1>7. G[w - 1] = F[w - 2]
  BY <1>1, <1>6
<1>8. F[w - 1] = F[w - 2] + f[w - 1] /\ F[w - 2] \in Nat /\ f[w - 1] \in Nat
  <2>1. w - 1 \in Ages /\ w - 2 \in -1..w - 1 /\ (w - 1) - 1 = w - 2
    BY <1>1
  <2> QED
    BY <1>3, <2>1 DEF Attempts
<1> QED
  BY <1>2, <1>7, <1>8 DEF Sum, w, F, G, g

\* The attempts of the window are those the present key has counted and those of the
\* one before it, which are as old as the present key at least.
Split(old, current) ==
  /\ \A age \in Ages : recent[age] = old[age] + current[age]
  /\ Sum(old) <= max_attempts
  /\ Sum(current) <= max_attempts /\ Sum(current) <= counter
  /\ ttl # NoExpiry => \A age \in Ages : age < window_seconds - ttl => old[age] = 0

WindowInv ==
  /\ LimiterTyped /\ recent \in Attempts
  /\ \E old, current \in Attempts : Split(old, current)

LEMMA WindowInvInit == LimiterInit => WindowInv
<1> SUFFICES ASSUME LimiterInit PROVE WindowInv
  OBVIOUS
<1>1. LimiterTyped
  BY LimiterInvInit DEF LimiterInv
<1>2. recent \in Attempts /\ \A age \in Ages : recent[age] = 0
  BY DEF LimiterInit, Attempts
<1>3. Sum(recent) = 0
  BY <1>2, SumOfNone
<1>4. Split(recent, recent)
  BY <1>2, <1>3, RateLimitConstants DEF Split, LimiterInit
<1> QED
  BY <1>1, <1>2, <1>4 DEF WindowInv

LEMMA WindowInvNext == WindowInv /\ LimiterInv /\ [LimiterNext]_limiter => WindowInv'
<1> SUFFICES ASSUME WindowInv, LimiterInv, [LimiterNext]_limiter
             PROVE  WindowInv'
  OBVIOUS
<1>1. LimiterTyped'
  BY LimiterInvNext DEF LimiterInv
<1>2. LimiterTyped /\ recent \in Attempts
  BY DEF WindowInv
<1>3. PICK old \in Attempts, current \in Attempts : Split(old, current)
  BY DEF WindowInv
<1>4. Sum(old) \in Nat /\ Sum(current) \in Nat /\ max_attempts \in Nat
  BY ThroughAdds, RateLimitConstants DEF Sum
<1>5. ASSUME NEW c \in Clients, Incr(c)
      PROVE  WindowInv'
  <2>1. counter' = counter + 1 /\ ttl' = ttl
    BY <1>5 DEF Incr
  <2>2. CASE Within(counter')
    <3> DEFINE more == [current EXCEPT ![0] = @ + 1]
    <3>1. recent' = [recent EXCEPT ![0] = @ + 1]
      BY <1>5, <2>2 DEF Incr
    <3>2. recent' \in Attempts
      BY <1>2, <3>1, SumOfOneMore
    <3>3. more \in Attempts /\ Sum(more) = Sum(current) + 1
      BY SumOfOneMore
    <3>4. \A age \in Ages : recent'[age] = old[age] + more[age]
      BY <1>2, <1>3, <3>1 DEF Split, Attempts
    <3>5. Sum(more) <= max_attempts /\ Sum(more) <= counter'
      BY <1>2, <1>3, <1>4, <2>1, <2>2, <3>3 DEF Split, Within, LimiterTyped
    <3> HIDE DEF more
    <3>6. Split(old, more)'
      BY <1>3, <2>1, <3>4, <3>5 DEF Split, Sum, Through
    <3> QED
      BY <1>1, <3>2, <3>3, <3>6 DEF WindowInv
  <2>3. CASE ~Within(counter')
    <3>1. recent' = recent
      BY <1>5, <2>3 DEF Incr
    <3>2. Sum(current) <= counter'
      BY <1>2, <1>3, <1>4, <2>1 DEF Split, LimiterTyped
    <3>3. Split(old, current)'
      BY <1>3, <2>1, <3>1, <3>2 DEF Split, Sum, Through
    <3> QED
      BY <1>1, <1>2, <3>1, <3>3 DEF WindowInv
  <2> QED
    BY <2>2, <2>3
<1>6. ASSUME NEW c \in Clients, Expire(c)
      PROVE  WindowInv'
  <2>1. ttl' = window_seconds /\ UNCHANGED <<counter, recent>>
    BY <1>6 DEF Expire
  <2>2. \A age \in Ages : ~(age < window_seconds - ttl')
    BY <2>1, RateLimitConstants DEF Ages
  <2>3. Split(old, current)'
    BY <1>3, <2>1, <2>2 DEF Split, Sum, Through
  <2> QED
    BY <1>1, <1>2, <2>1, <2>3 DEF WindowInv
<1>7. CASE UNCHANGED <<counter, ttl, recent>>
  <2>1. Split(old, current)'
    BY <1>3, <1>7 DEF Split, Sum, Through
  <2> QED
    BY <1>1, <1>2, <1>7, <2>1 DEF WindowInv
<1>8. CASE Tick
  <2>1. recent' = Older(recent)
    BY <1>8 DEF Tick, Older
  <2>2. /\ Older(recent) \in Attempts
        /\ Older(old) \in Attempts /\ Sum(Older(old)) <= Sum(old)
        /\ Older(current) \in Attempts /\ Sum(Older(current)) <= Sum(current)
    BY <1>2, SumAfterTick
  <2>3. Sum(Older(old)) \in Nat /\ Sum(Older(current)) \in Nat
    BY <2>2, ThroughAdds, RateLimitConstants DEF Sum
  <2>4. \A age \in Ages : age # 0 => age - 1 \in Ages
    BY RateLimitConstants DEF Ages
  <2>5. ASSUME NEW age \in Ages
        PROVE  Older(recent)[age] = Older(old)[age] + Older(current)[age]
    <3>1. CASE age = 0
      BY <3>1 DEF Older
    <3>2. CASE age # 0
      <4>1. recent[age - 1] = old[age - 1] + current[age - 1]
        BY <1>3, <2>4, <3>2 DEF Split
      <4> QED
        BY <3>2, <4>1 DEF Older
    <3> QED
      BY <3>1, <3>2
  \* The key expires: what it has counted is what is left of the window.
  <2>6. CASE ttl = 1
    <3> DEFINE none == [age \in Ages |-> 0]
    <3>1. counter' = 0 /\ ttl' = NoExpiry
      BY <1>8, <2>6 DEF Tick
    <3>2. ASSUME NEW age \in Ages PROVE Older(old)[age] = 0
      <4>1. CASE age = 0
        BY <4>1 DEF Older
      <4>2. CASE age # 0
        <5>1. age - 1 \in Ages /\ age - 1 < window_seconds - ttl
          BY <2>4, <2>6, <4>2, RateLimitConstants DEF Ages
        <5>2. old[age - 1] = 0
          BY <1>3, <2>6, <5>1 DEF Split, NoExpiry
        <5> QED
          BY <4>2, <5>2 DEF Older
      <4> QED
        BY <4>1, <4>2
    <3>3. none \in Attempts /\ \A age \in Ages : none[age] = 0
      BY DEF Attempts
    <3> HIDE DEF none
    <3>4. Sum(none) = 0
      BY <3>3, SumOfNone
    <3>5. \A age \in Ages : recent'[age] = Older(current)[age] + none[age]
      BY <2>1, <2>2, <2>5, <3>2, <3>3 DEF Attempts
    <3>6. Sum(Older(current)) <= max_attempts
      BY <1>3, <1>4, <2>2, <2>3 DEF Split
    <3>7. Split(Older(current), none)'
      BY <1>4, <3>1, <3>4, <3>5, <3>6 DEF Split, Sum, Through, Older, Ages
    <3> QED
      BY <1>1, <2>1, <2>2, <3>3, <3>7 DEF WindowInv
  <2>7. CASE ttl # 1
    <3>1. counter' = counter /\ ttl' = IF ttl = NoExpiry THEN ttl ELSE ttl - 1
      BY <1>8, <2>7 DEF Tick
    <3>2. ASSUME ttl' # NoExpiry, NEW age \in Ages, age < window_seconds - ttl'
          PROVE  Older(old)[age] = 0
      <4>1. ttl # NoExpiry /\ ttl \in 1..window_seconds /\ ttl' = ttl - 1
        BY <1>2, <3>1, <3>2 DEF LimiterTyped
      <4>2. CASE age = 0
        BY <4>2 DEF Older
      <4>3. CASE age # 0
        <5>1. age - 1 \in Ages /\ age - 1 < window_seconds - ttl
          BY <2>4, <3>2, <4>1, <4>3, RateLimitConstants DEF Ages
        <5>2. old[age - 1] = 0
          BY <1>3, <4>1, <5>1 DEF Split
        <5> QED
          BY <4>3, <5>2 DEF Older
      <4> QED
        BY <4>2, <4>3
    <3>3. Sum(Older(old)) <= max_attempts
      BY <1>3, <1>4, <2>2, <2>3 DEF Split
    <3>4. Sum(Older(current)) <= max_attempts /\ Sum(Older(current)) <= counter
      BY <1>2, <1>3, <1>4, <2>2, <2>3 DEF Split, LimiterTyped
    <3>5. Split(Older(old), Older(current))'
      BY <2>1, <2>5, <3>1, <3>2, <3>3, <3>4 DEF Split, Sum, Through, Older, Ages
    <3> QED
      BY <1>1, <2>1, <2>2, <3>5 DEF WindowInv
  <2> QED
    BY <2>6, <2>7
<1> QED
  BY <1>5, <1>6, <1>7, <1>8 DEF LimiterNext, Decide, FailOpen, LoginOver, limiter

\* "A caller can send up to 2x the limit by clustering requests around a window
\* boundary" (core/rate_limit.py), and not more, for any limit and window.
THEOREM TwoWindowsAtMost == LimiterSpec => []AtMostTwiceTheLimit
<1>1. LimiterInit => LimiterInv /\ WindowInv
  BY LimiterInvInit, WindowInvInit
<1>2. LimiterInv /\ WindowInv /\ [LimiterNext]_limiter => (LimiterInv /\ WindowInv)'
  BY LimiterInvNext, WindowInvNext
<1>3. WindowInv => AtMostTwiceTheLimit
  <2> SUFFICES ASSUME WindowInv PROVE AtMostTwiceTheLimit
    OBVIOUS
  <2>1. PICK old \in Attempts, current \in Attempts : Split(old, current)
    BY DEF WindowInv
  <2>2. Sum(recent) = Sum(old) + Sum(current)
    BY <2>1, SumOfBoth DEF Split, WindowInv
  <2>3. Sum(old) \in Nat /\ Sum(current) \in Nat /\ max_attempts \in Nat
    BY ThroughAdds, RateLimitConstants DEF Sum
  <2>4. Sum(recent) <= 2 * max_attempts
    BY <2>1, <2>2, <2>3 DEF Split
  <2> QED
    BY <2>4 DEF AtMostTwiceTheLimit, Sum, Through
<1> QED
  BY <1>1, <1>2, <1>3, PTL DEF LimiterSpec
-----------------------------------------------------------------------------
(* Registration *)

Typed ==
  /\ password_of \in [Addresses -> Passwords \cup {NoPassword}]
  /\ stage \in [Registrants -> {"idle", "create", "created"}]
  /\ email \in [Registrants -> Addresses \cup {NoAddress}]
  /\ password \in [Registrants -> Passwords \cup {NoPassword}]
  /\ winner \in [Addresses -> Passwords \cup {NoPassword}]

\* A request past its check knows its address and its password.
Checked ==
  \A r \in Registrants :
    stage[r] # "idle" => email[r] \in Addresses /\ password[r] \in Passwords

\* A request whose row is committed has the account, before it is told so.
Inserted ==
  \A r \in Registrants : stage[r] = "created" => password_of[email[r]] = password[r]

RegistrationInv == Typed /\ Checked /\ Inserted /\ WinnerHasTheAccount
-----------------------------------------------------------------------------
LEMMA RegistrationInvInit == RegistrationInit => RegistrationInv
BY DEF RegistrationInit, RegistrationInv, Typed, Checked, Inserted, WinnerHasTheAccount

\* The end of a request disturbs nothing the invariant says of the others.
LEMMA CloseKeeps ==
  ASSUME RegistrationInv, NEW r \in Registrants, Close(r), UNCHANGED password_of
  PROVE  /\ stage' \in [Registrants -> {"idle", "create", "created"}]
         /\ email' \in [Registrants -> Addresses \cup {NoAddress}]
         /\ password' \in [Registrants -> Passwords \cup {NoPassword}]
         /\ Checked' /\ Inserted'
BY DEF RegistrationInv, Typed, Checked, Inserted, Close

LEMMA RegistrationInvNext ==
  RegistrationInv /\ [RegistrationNext]_registration => RegistrationInv'
<1> SUFFICES ASSUME RegistrationInv, [RegistrationNext]_registration
             PROVE  RegistrationInv'
  OBVIOUS
<1> USE DEF RegistrationInv
<1>1. ASSUME NEW r \in Registrants, NEW e \in Spellings, NEW p \in Passwords, Check(r, e, p)
      PROVE  RegistrationInv'
  <2>1. normalize_email[e] \in Addresses
    BY DEF Addresses
  <2>2. p # NoPassword
    BY RegistrationConstants
  <2> QED
    BY <1>1, <2>1, <2>2 DEF Check, Typed, Checked, Inserted, WinnerHasTheAccount
<1>2. ASSUME NEW r \in Registrants, Create(r)
      PROVE  RegistrationInv'
  <2>1. email[r] \in Addresses /\ password[r] \in Passwords /\ winner' = winner
    BY <1>2 DEF Create, Checked
  <2>2. CASE password_of[email[r]] = NoPassword
    \* The address was free: no request has inserted it and nobody has been told 201.
    <3>1. /\ password_of' = [password_of EXCEPT ![email[r]] = password[r]]
          /\ stage' = [stage EXCEPT ![r] = "created"]
          /\ email' = email /\ password' = password
      BY <1>2, <2>2 DEF Create
    <3>2. Typed'
      BY <2>1, <3>1 DEF Typed
    <3>3. Checked'
      BY <2>1, <3>1 DEF Typed, Checked
    <3>4. ASSUME NEW q \in Registrants, stage'[q] = "created"
          PROVE  password_of'[email'[q]] = password'[q]
      <4>1. CASE q = r
        BY <2>1, <3>1, <4>1 DEF Typed
      <4>2. CASE q # r
        <5>1. /\ stage[q] = "created" /\ email[q] \in Addresses
              /\ password_of[email[q]] = password[q] /\ password[q] \in Passwords
          BY <3>1, <3>4, <4>2 DEF Typed, Checked, Inserted
        <5>2. email[q] # email[r]
          BY <2>2, <5>1, RegistrationConstants
        <5> QED
          BY <3>1, <5>1, <5>2 DEF Typed
      <4> QED
        BY <4>1, <4>2
    <3>5. WinnerHasTheAccount'
      BY <2>1, <2>2, <3>1 DEF Typed, WinnerHasTheAccount
    <3> QED
      BY <3>2, <3>3, <3>4, <3>5 DEF Inserted
  <2>3. CASE password_of[email[r]] # NoPassword
    <3>1. Close(r) /\ UNCHANGED password_of
      BY <1>2, <2>3 DEF Create
    <3> QED
      BY <2>1, <3>1, CloseKeeps DEF Typed, WinnerHasTheAccount
  <2> QED
    BY <2>2, <2>3
<1>3. ASSUME NEW r \in Registrants, Created(r)
      PROVE  RegistrationInv'
  <2>1. /\ email[r] \in Addresses /\ password[r] \in Passwords
        /\ password_of[email[r]] = password[r]
    BY <1>3 DEF Created, Checked, Inserted
  <2>2. winner' = [winner EXCEPT ![email[r]] = password[r]] /\ Close(r) /\ UNCHANGED password_of
    BY <1>3 DEF Created
  <2>3. WinnerHasTheAccount'
    BY <2>1, <2>2 DEF Typed, WinnerHasTheAccount
  <2> QED
    BY <2>1, <2>2, <2>3, CloseKeeps DEF Typed
<1>4. ASSUME NEW r \in Registrants, RegistrationFails(r)
      PROVE  RegistrationInv'
  BY <1>4, CloseKeeps DEF RegistrationFails, Typed, WinnerHasTheAccount
<1>5. CASE UNCHANGED registration
  BY <1>5 DEF registration, Typed, Checked, Inserted, WinnerHasTheAccount
<1> QED
  BY <1>1, <1>2, <1>3, <1>4, <1>5 DEF RegistrationNext

\* However registrations of one address overlap between AuthService's lookup and its
\* insert, the one that is told 201 has its password on the account from then on.
THEOREM Winner == RegistrationSpec => []WinnerHasTheAccount
<1>1. RegistrationInit => RegistrationInv
  BY RegistrationInvInit
<1>2. RegistrationInv /\ [RegistrationNext]_registration => RegistrationInv'
  BY RegistrationInvNext
<1>3. RegistrationInv => WinnerHasTheAccount
  BY DEF RegistrationInv
<1> QED
  BY <1>1, <1>2, <1>3, PTL DEF RegistrationSpec
=============================================================================
