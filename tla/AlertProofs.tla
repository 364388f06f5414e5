---------------------------- MODULE AlertProofs -----------------------------
(***************************************************************************)
(* Proofs about AlertPipeline, for any rules, telemetry, window and number *)
(* of requests, and about AlertTriage, for any number of analysts.         *)
(*                                                                         *)
(* First comes the scan of a sorted group by itself, which finds the       *)
(* earliest window.  What the rules compute plays no part in how           *)
(* duplicates come about, so that comes next.  Then: what the rules        *)
(* report; the types; that every alert is justified; that nothing slips    *)
(* through.                                                                *)
(***************************************************************************)
EXTENDS AlertPipeline, AlertTriage, Induction

-----------------------------------------------------------------------------
(* The scan: it finds what the rule's docstring promises, for any          *)
(* threshold, window and number of timestamps.                             *)

\* The first of a set of indices.
LEMMA FirstIndex ==
  ASSUME NEW S \in SUBSET Nat, S # {}
  PROVE  Min(S) \in S /\ \A i \in S : Min(S) <= i
BY Smallest DEF Min

\* The indices that t[right] is not more than a window later than.
InWindow(t, right) == {l \in 1..right : t[right] - t[l] <= window_seconds}

\* Although the scan starts from where left was, it stops where a search from the
\* first timestamp would: what has left the window does not come back.
LEMMA LeftIsTheFirst ==
  ASSUME NEW n \in Nat, NEW t \in [1..n -> Int], Ascending(t)
  PROVE  \A right \in 1..n : Left(t)[right] = Min(InWindow(t, right))
<1> DEFINE From(left, right) == IF right = 1 THEN 1 ELSE left[right - 1]
           Ahead(left, right) ==
             {l \in From(left, right)..right : t[right] - t[l] <= window_seconds}
           IsLeft(left) == left = [right \in 1..n |-> Min(Ahead(left, right))]
           first == [right \in 1..n |-> Min(InWindow(t, right))]
<1>1. \A i, j \in 1..n : i <= j => t[i] <= t[j]
  BY DEF Ascending
<1>2. ASSUME NEW right \in 1..n
      PROVE  first[right] \in InWindow(t, right) /\ \A l \in InWindow(t, right) : first[right] <= l
  <2>1. right \in InWindow(t, right)
    BY WindowConstants DEF InWindow
  <2>2. InWindow(t, right) \in SUBSET Nat
    BY DEF InWindow
  <2> QED
    BY <2>1, <2>2, FirstIndex
<1>3. ASSUME NEW right \in 1..n, NEW left, right # 1 => left[right - 1] = first[right - 1]
      PROVE  Ahead(left, right) = InWindow(t, right)
  <2>1. CASE right = 1
    BY <2>1 DEF InWindow
  <2>2. CASE right # 1
    <3>1. right - 1 \in 1..n /\ From(left, right) = first[right - 1]
      BY <1>3, <2>2
    <3>2. first[right - 1] \in 1..right - 1
      BY <1>2, <3>1 DEF InWindow
    <3>3. ASSUME NEW l \in InWindow(t, right) PROVE first[right - 1] <= l
      <4>1. l \in 1..right /\ t[right] - t[l] <= window_seconds
        BY DEF InWindow
      <4>2. CASE l = right
        BY <3>2, <4>2
      <4>3. CASE l # right
        <5>1. l \in 1..right - 1 /\ t[right - 1] <= t[right]
          BY <1>1, <3>1, <4>1, <4>3
        <5>2. t[right] \in Int /\ t[right - 1] \in Int /\ t[l] \in Int
          BY <3>1, <4>1
        <5>3. l \in InWindow(t, right - 1)
          BY <4>1, <5>1, <5>2, WindowConstants DEF InWindow
        <5> QED
          BY <1>2, <3>1, <5>3
      <4> QED
        BY <4>2, <4>3
    <3> QED
      BY <3>1, <3>2, <3>3 DEF InWindow
  <2> QED
    BY <2>1, <2>2
<1>4. IsLeft(first)
  <2>1. \A right \in 1..n : Ahead(first, right) = InWindow(t, right)
    BY <1>3
  <2> QED
    BY <2>1
<1>5. IsLeft(Left(t))
  <2>1. Left(t) = CHOOSE left : IsLeft(left)
    BY DEF Left
  <2> HIDE DEF IsLeft, first
  <2> QED
    BY <1>4, <2>1
<1>6. ASSUME NEW left, IsLeft(left)
      PROVE  \A right \in 1..n : left[right] = first[right]
  <2> DEFINE Same == {i \in 0..n : i # 0 => left[i] = first[i]}
  <2>1. ASSUME NEW i \in 1..n, i - 1 \in Same PROVE i \in Same
    <3>1. Ahead(left, i) = InWindow(t, i)
      <4>1. i # 1 => left[i - 1] = first[i - 1]
        BY <2>1
      <4> HIDE DEF first, Ahead, Same
      <4> QED
        BY <1>3, <4>1
    <3>2. left[i] = Min(Ahead(left, i)) /\ first[i] = Min(InWindow(t, i))
      BY <1>6
    <3> HIDE DEF first, Ahead
    <3> QED
      BY <3>1, <3>2
  <2>2. 0 \in Same
    OBVIOUS
  <2>3. 0..n \subseteq Same
    <3> HIDE DEF Same
    <3> QED
      BY <2>1, <2>2, UpTo
  <2> HIDE DEF first
  <2> QED
    BY <2>3
<1> QED
  BY <1>5, <1>6

\* Where left stands: in the window that ends at right, and before all of it.
LEMMA LeftBounds ==
  ASSUME NEW n \in Nat, NEW t \in [1..n -> Int], Ascending(t), NEW right \in 1..n
  PROVE  /\ Left(t)[right] \in 1..right /\ t[right] - t[Left(t)[right]] <= window_seconds
         /\ \A l \in 1..right : t[right] - t[l] <= window_seconds => Left(t)[right] <= l
<1> DEFINE left == Left(t)
<1>1. left[right] = Min(InWindow(t, right))
  BY LeftIsTheFirst
<1>2. InWindow(t, right) \in SUBSET Nat /\ right \in InWindow(t, right)
  BY WindowConstants DEF InWindow
<1>3. left[right] \in InWindow(t, right) /\ \A l \in InWindow(t, right) : left[right] <= l
  BY <1>1, <1>2, FirstIndex
<1> QED
  BY <1>3 DEF InWindow

\* How many indices a window holds.
LEMMA WindowSize ==
  ASSUME NEW l \in Nat, NEW r \in Nat
  PROVE  Cardinality(l..r) = IF l > r THEN 0 ELSE r - l + 1
BY FS_Interval

\* "Two-pointer scan for the earliest window of >= threshold events whose span does
\* not exceed window_seconds" (detections/rules/brute_force.py), of any timestamps in
\* ascending order.
THEOREM ScanIsEarliest ==
  ASSUME NEW n \in Nat, NEW t \in [1..n -> Int], Ascending(t)
  PROVE  FindsEarliest(t)
<1> DEFINE left == Left(t)
           returns == {right \in 1..n : right - left[right] + 1 >= threshold}
           found == FindQualifyingWindow(t)
<1>1. \A i, j \in 1..n : i <= j => t[i] <= t[j]
  BY DEF Ascending
<1>2. ASSUME NEW right \in 1..n
      PROVE  /\ left[right] \in 1..right /\ t[right] - t[left[right]] <= window_seconds
             /\ \A l \in 1..right : t[right] - t[l] <= window_seconds => left[right] <= l
  BY LeftBounds
<1>3. found = IF returns = {} THEN {} ELSE left[Min(returns)]..Min(returns)
  BY DEF FindQualifyingWindow
<1> HIDE DEF left
<1>4. returns # {} => Min(returns) \in returns /\ \A right \in returns : Min(returns) <= right
  <2>1. returns \in SUBSET Nat
    OBVIOUS
  <2> QED
    BY <2>1, FirstIndex
\* A window that qualifies has its last event among those the scan may return at.
<1>5. ASSUME NEW v \in Qualifying(t)
      PROVE  \E l, r \in 1..n : v = l..r /\ l <= r /\ r \in returns /\ left[r] <= l
  <2>1. PICK l \in 1..n, r \in 1..n : v = l..r
    BY DEF Qualifying
  <2>2. Cardinality(v) >= threshold /\ \A i, j \in v : t[i] - t[j] <= window_seconds
    BY DEF Qualifying
  <2>3. l <= r /\ r - l + 1 >= threshold
    BY <2>1, <2>2, WindowSize, WindowConstants
  <2>4. t[r] - t[l] <= window_seconds
    BY <2>1, <2>2, <2>3
  <2>5. left[r] \in 1..r /\ left[r] <= l
    BY <1>2, <2>3, <2>4
  <2>6. r \in returns
    BY <2>3, <2>5, WindowConstants
  <2> QED
    BY <2>1, <2>3, <2>5, <2>6
<1>6. ASSUME NEW r \in returns
      PROVE  left[r]..r \in Qualifying(t)
  <2>1. r \in 1..n /\ left[r] \in 1..r /\ r - left[r] + 1 >= threshold
    BY <1>2
  <2> HIDE DEF returns, found
  <2>2. Cardinality(left[r]..r) >= threshold
    BY <2>1, WindowSize
  <2>3. ASSUME NEW i \in left[r]..r, NEW j \in left[r]..r
        PROVE  t[i] - t[j] <= window_seconds
    <3>1. i \in 1..n /\ j \in 1..n /\ left[r] \in 1..n
      BY <2>1
    <3>2. t[i] <= t[r] /\ t[left[r]] <= t[j]
      BY <1>1, <2>1, <3>1
    <3>3. t[r] - t[left[r]] <= window_seconds
      BY <1>2, <2>1
    <3>4. t[i] \in Int /\ t[j] \in Int /\ t[r] \in Int /\ t[left[r]] \in Int
      BY <2>1, <3>1
    <3>5. t[i] - t[j] <= t[r] - t[left[r]]
      BY <3>2, <3>4
    <3>6. window_seconds \in Int
      BY WindowConstants
    <3> DEFINE span == t[i] - t[j]
               widest == t[r] - t[left[r]]
    <3>7. span \in Int /\ widest \in Int
      BY <3>4
    <3> HIDE DEF span, widest
    <3>8. span <= widest /\ widest <= window_seconds
      BY <3>3, <3>5 DEF span, widest
    <3>9. span <= window_seconds
      BY <3>6, <3>7, <3>8
    <3> QED
      BY <3>9 DEF span
  <2>4. left[r]..r \in {l..k : l \in DOMAIN t, k \in DOMAIN t}
    <3>1. DOMAIN t = 1..n /\ r \in 1..n /\ left[r] \in 1..n
      BY <2>1
    <3> QED
      BY <3>1
  <2> QED
    BY <2>2, <2>3, <2>4 DEF Qualifying
<1>7. CASE Qualifying(t) = {}
  <2>1. returns = {}
    BY <1>6, <1>7
  <2> QED
    BY <1>3, <1>7, <2>1 DEF FindsEarliest
<1>8. CASE Qualifying(t) # {}
  <2>1. returns # {}
    BY <1>5, <1>8
  <2> DEFINE right == Min(returns)
  <2>2. right \in returns /\ found = left[right]..right
    BY <1>3, <1>4, <2>1
  <2>3. found \in Qualifying(t)
    BY <1>6, <2>2
  <2>4. ASSUME NEW v \in Qualifying(t) PROVE Earlier(found, v)
    <3>1. PICK l \in 1..n, r \in 1..n : v = l..r /\ l <= r /\ r \in returns /\ left[r] <= l
      BY <1>5
    <3>2. right <= r /\ right \in 1..n /\ left[right] \in 1..right
      BY <1>2, <1>4, <2>1, <3>1
    <3> HIDE DEF right, found, returns
    <3>3. CASE right < r
      <4>1. r \in v /\ \A j \in found : j < r
        BY <2>2, <3>1, <3>2, <3>3
      <4> QED
        BY <4>1 DEF Earlier
    <3>4. CASE right = r
      <4>1. v \subseteq found
        BY <2>2, <3>1, <3>2, <3>4
      <4> QED
        BY <4>1 DEF Earlier
    <3> QED
      BY <3>2, <3>3, <3>4
  <2> QED
    BY <1>8, <2>3, <2>4 DEF FindsEarliest
<1> QED
  BY <1>7, <1>8

\* The window found is of the smallest size that qualifies.
THEOREM SmallestWindow ==
  ASSUME NEW n \in Nat, NEW t \in [1..n -> Int], Ascending(t), FindQualifyingWindow(t) # {}
  PROVE  /\ FindQualifyingWindow(t) \subseteq 1..n
         /\ Cardinality(FindQualifyingWindow(t)) = threshold
<1> DEFINE left == Left(t)
           returns == {right \in 1..n : right - left[right] + 1 >= threshold}
           right == Min(returns)
<1>1. \A i \in 1..n : /\ left[i] \in 1..i /\ t[i] - t[left[i]] <= window_seconds
                      /\ \A l \in 1..i : t[i] - t[l] <= window_seconds => left[i] <= l
  BY LeftBounds
<1>2. returns # {} /\ FindQualifyingWindow(t) = left[right]..right
  BY DEF FindQualifyingWindow
<1>3. right \in returns /\ \A i \in returns : right <= i
  <2>1. returns \in SUBSET Nat
    OBVIOUS
  <2> HIDE DEF returns
  <2> QED
    BY <1>2, <2>1, FirstIndex
<1> HIDE DEF left, right
<1>4. right \in 1..n /\ left[right] \in 1..right /\ right - left[right] + 1 >= threshold
  BY <1>1, <1>3
<1> HIDE DEF returns
<1>5. Cardinality(left[right]..right) = right - left[right] + 1
  BY <1>4, WindowSize
\* One event earlier the window was too small, and left has not moved back since.
<1>6. right - left[right] + 1 <= threshold
  <2>1. CASE right = 1
    BY <1>4, <2>1, WindowConstants
  <2>2. CASE right # 1
    <3>1. right - 1 \in 1..n /\ right - 1 \notin returns
      BY <1>3, <1>4, <2>2 DEF returns
    <3>2. (right - 1) - left[right - 1] + 1 < threshold /\ left[right - 1] \in 1..right - 1
      BY <1>1, <3>1, WindowConstants DEF returns
    <3> DEFINE l == left[right]
               k == left[right - 1]
    <3>4. right \in Int /\ l \in Int /\ k \in Int /\ threshold \in Int /\ k <= right - 1 /\ l <= right
      BY <1>4, <3>2, WindowConstants
    <3>3. k <= l
      <4>1. CASE left[right] = right
        BY <3>4, <4>1
      <4>2. CASE left[right] # right
        <5>1. left[right] \in 1..right - 1 /\ t[right - 1] <= t[right]
          BY <1>4, <3>1, <4>2 DEF Ascending
        <5>2. t[right] \in Int /\ t[right - 1] \in Int /\ t[left[right]] \in Int
          BY <1>4, <3>1, <5>1
        <5>3. t[right - 1] - t[left[right]] <= window_seconds
          <6>1. t[right] - t[left[right]] <= window_seconds
            BY <1>1, <1>4
          <6>2. window_seconds \in Int /\ t[right - 1] <= t[right]
            BY <5>1, WindowConstants
          <6> QED
            BY <5>2, <6>1, <6>2
        <5>4. \A i \in 1..right - 1 : t[right - 1] - t[i] <= window_seconds => k <= i
          BY <1>1, <3>1
        <5> QED
          BY <5>1, <5>3, <5>4
      <4> QED
        BY <4>1, <4>2
    <3>5. right - k < threshold
      BY <3>2, <3>4
    <3> HIDE DEF l, k
    <3>6. right - l + 1 <= threshold
      BY <3>3, <3>4, <3>5
    <3> QED
      BY <3>6 DEF l
  <2> QED
    BY <2>1, <2>2
<1>7. left[right]..right \subseteq 1..n
  BY <1>4
<1>8. right - left[right] + 1 = threshold
  <2>1. right \in Int /\ left[right] \in Int /\ threshold \in Int
    BY <1>4, WindowConstants
  <2>2. right - left[right] + 1 >= threshold
    BY <1>4
  <2> QED
    BY <1>6, <2>1, <2>2
<1> QED
  BY <1>2, <1>5, <1>7, <1>8

-----------------------------------------------------------------------------
(* Duplicates *)

IsSequence(s) == Len(s) \in Nat /\ s = [i \in 1..Len(s) |-> s[i]]

SameAlert(a, d) == a.rule = d.rule /\ a.evidence = d.evidence

\* A request about to create an alert has seen a part of the table that holds
\* no alert for its detection.
NoneSeen ==
  \A r \in Requests : pc[r] = "create" =>
    /\ seen[r] \in 0..Len(alerts)
    /\ \A i \in 1..seen[r] : ~SameAlert(alerts[i], Head(todo[r]))

IInv ==
  /\ pc \in [Requests -> Phases] /\ DOMAIN seen = Requests /\ DOMAIN todo = Requests
  /\ IsSequence(alerts)
  /\ NoneSeen
  /\ DuplicatesOverlapped

-----------------------------------------------------------------------------
\* Appending to the table adds one row at its end.
LEMMA Appended ==
  ASSUME NEW s, IsSequence(s), NEW x
  PROVE  /\ IsSequence(Append(s, x))
         /\ Len(Append(s, x)) = Len(s) + 1
         /\ \A i \in 1..Len(s) : Append(s, x)[i] = s[i]
         /\ Append(s, x)[Len(s) + 1] = x
<1> DEFINE S == {s[i] : i \in 1..Len(s)} \cup {x}
<1>1. s \in Seq(S)
  BY DEF IsSequence
<1>2. x \in S
  OBVIOUS
<1> HIDE DEF S
<1>3. /\ Append(s, x) \in Seq(S)
      /\ Len(Append(s, x)) = Len(s) + 1
      /\ \A i \in 1..Len(s) : Append(s, x)[i] = s[i]
      /\ Append(s, x)[Len(s) + 1] = x
  BY <1>1, <1>2, AppendProperties
<1>4. IsSequence(Append(s, x))
  <2> DEFINE t == Append(s, x)
  <2>1. t \in Seq(S)
    BY <1>3
  <2> HIDE DEF t
  <2>2. Len(t) \in Nat /\ t = [i \in 1..Len(t) |-> t[i]]
    BY <2>1, LenProperties
  <2>3. QED
    BY <2>2 DEF t, IsSequence
<1>5. QED
  BY <1>3, <1>4

\* Only r changes its control state, and not to the point of creating an alert.
Moves(r) ==
  /\ pc' \in [Requests -> Phases] /\ DOMAIN seen' = Requests /\ DOMAIN todo' = Requests
  /\ pc'[r] # "create"
  /\ \A q \in Requests \ {r} : pc'[q] = pc[q] /\ seen'[q] = seen[q] /\ todo'[q] = todo[q]

LEMMA Movements ==
  ASSUME IInv, NEW r \in Requests
  PROVE  /\ End(r) => Moves(r)
         /\ \A left : GoOn(r, left) => Moves(r)
         /\ \A in_memory : Caught(r, in_memory) => Moves(r)
<1>1. End(r) => Moves(r)
  BY DEF IInv, End, Moves, Phases
<1>2. ASSUME NEW left, GoOn(r, left) PROVE Moves(r)
  BY <1>2 DEF IInv, GoOn, Moves, Phases
<1>3. ASSUME NEW in_memory, Caught(r, in_memory) PROVE Moves(r)
  BY <1>3 DEF IInv, Caught, Moves, Phases
<1>4. QED
  BY <1>1, <1>2, <1>3

\* Steps of one request that leave the table alone and do not bring it to the
\* point of creating an alert.
LEMMA QuietStep ==
  ASSUME IInv, alerts' = alerts, NEW r \in Requests, Moves(r)
  PROVE  IInv'
<1>1. NoneSeen'
  BY DEF IInv, NoneSeen, SameAlert, Moves
<1>2. DuplicatesOverlapped'
  BY DEF IInv, DuplicatesOverlapped
<1>3. QED
  BY <1>1, <1>2 DEF IInv, IsSequence, Moves

\* The same for a step that adds the alert of r's detection.
LEMMA AddStep ==
  ASSUME IInv, NEW r \in Requests, Add(r), Moves(r)
  PROVE  IInv'
<1> DEFINE d == Head(todo[r])
           x == [rule |-> d.rule, evidence |-> d.evidence, seen |-> seen[r]]
<1>1. /\ IsSequence(alerts')
      /\ Len(alerts') = Len(alerts) + 1 /\ Len(alerts) \in Nat
      /\ \A i \in 1..Len(alerts) : alerts'[i] = alerts[i]
      /\ alerts'[Len(alerts) + 1] = x
  BY Appended DEF Add, IInv, IsSequence
<1>2. /\ seen[r] \in 0..Len(alerts)
      /\ \A i \in 1..seen[r] : ~SameAlert(alerts[i], d)
  BY DEF IInv, NoneSeen, Add, Accepted
<1>3. x.rule = d.rule /\ x.evidence = d.evidence /\ x.seen = seen[r]
  OBVIOUS
<1>4. NoneSeen'
  <2> SUFFICES ASSUME NEW q \in Requests, pc'[q] = "create"
               PROVE  /\ seen'[q] \in 0..Len(alerts')
                      /\ \A i \in 1..seen'[q] : ~SameAlert(alerts'[i], Head(todo'[q]))
    BY DEF NoneSeen, SameAlert
  <2>1. q # r /\ pc[q] = "create" /\ seen'[q] = seen[q] /\ todo'[q] = todo[q]
    BY DEF Moves
  <2>2. /\ seen[q] \in 0..Len(alerts)
        /\ \A i \in 1..seen[q] : ~SameAlert(alerts[i], Head(todo[q]))
    BY <2>1 DEF IInv, NoneSeen
  <2>3. QED
    BY <1>1, <2>1, <2>2
<1> HIDE DEF x, d
<1>5. DuplicatesOverlapped'
  <2> SUFFICES ASSUME NEW i \in DOMAIN alerts', NEW j \in DOMAIN alerts', i < j,
                      alerts'[i].rule = alerts'[j].rule,
                      alerts'[i].evidence = alerts'[j].evidence
               PROVE  alerts'[j].seen < i
    BY DEF DuplicatesOverlapped
  <2>1. DOMAIN alerts' = 1..(Len(alerts) + 1) /\ DOMAIN alerts = 1..Len(alerts)
    BY <1>1 DEF IInv, IsSequence
  <2>2. CASE j \in 1..Len(alerts)
    BY <1>1, <2>1, <2>2 DEF IInv, DuplicatesOverlapped
  <2>3. CASE j = Len(alerts) + 1
    <3>1. i \in 1..Len(alerts) /\ SameAlert(alerts[i], d)
      BY <1>1, <1>3, <2>1, <2>3 DEF SameAlert
    <3>2. i \notin 1..seen[r]
      BY <1>2, <3>1
    <3>3. QED
      BY <1>1, <1>2, <1>3, <2>3, <3>1, <3>2
  <2>4. QED
    BY <1>1, <2>1, <2>2, <2>3
<1>6. QED
  BY <1>1, <1>4, <1>5 DEF IInv, Moves

\* A duplicate check that finds nothing has seen the whole table.
LEMMA CheckStep ==
  ASSUME IInv, NEW r \in Requests, Check(r)
  PROVE  IInv'
<1>1. CASE GoOn(r, Tail(todo[r]))
  BY <1>1, QuietStep, Movements DEF Check
<1>2. CASE /\ ~Exists(Head(todo[r]))
           /\ pc' = [pc EXCEPT ![r] = "create"]
           /\ seen' = [seen EXCEPT ![r] = Len(alerts)]
           /\ todo' = todo
  <2>1. alerts' = alerts
    BY DEF Check
  <2>2. \A i \in 1..Len(alerts) : ~SameAlert(alerts[i], Head(todo[r]))
    BY <1>2 DEF Exists, SameAlert, IInv, IsSequence
  <2>3. NoneSeen'
    BY <1>2, <2>1, <2>2 DEF IInv, NoneSeen, SameAlert, IsSequence
  <2>4. QED
    <3>1. pc' \in [Requests -> Phases] /\ DOMAIN seen' = Requests /\ DOMAIN todo' = Requests
      BY <1>2 DEF IInv, Phases
    <3>2. IsSequence(alerts') /\ DuplicatesOverlapped'
      BY <2>1 DEF IInv, IsSequence, DuplicatesOverlapped
    <3>3. QED
      BY <2>3, <3>1, <3>2 DEF IInv
<1>3. QED
  BY <1>1, <1>2 DEF Check

\* The inductive invariant.
THEOREM Invariant == Spec => []IInv
<1>1. Init => IInv
  BY DEF Init, IInv, Phases, IsSequence, NoneSeen, DuplicatesOverlapped
<1>2. IInv /\ [Next \/ AtBound]_vars => IInv'
  <2> SUFFICES ASSUME IInv, [Next \/ AtBound]_vars PROVE IInv'
    OBVIOUS
  <2>1. CASE AtBound \/ UNCHANGED vars
    <3>1. UNCHANGED <<alerts, pc, todo, seen>>
      BY <2>1 DEF AtBound, vars, control
    <3>2. QED
      BY <3>1 DEF IInv, IsSequence, NoneSeen, SameAlert, DuplicatesOverlapped
  <2>2. ASSUME NEW r \in Requests, NEW e \in Telemetry, Ingest(r, e) PROVE IInv'
    BY <2>2, QuietStep DEF Ingest, IInv, Moves, Phases
  <2>3. ASSUME NEW r \in Requests, Detect(r) PROVE IInv'
    BY <2>3, QuietStep, Movements DEF Detect
  <2>4. ASSUME NEW r \in Requests, Create(r) \/ RefreshFails(r) PROVE IInv'
    BY <2>4, AddStep, Movements DEF Create, RefreshFails
  <2>5. ASSUME NEW r \in Requests, SelectFails(r) \/ FlushFails(r) PROVE IInv'
    <3>1. Moves(r)
      BY <2>5, Movements DEF SelectFails, FlushFails
    <3>2. QED
      BY <2>5, <3>1, QuietStep DEF SelectFails, FlushFails
  <2>6. ASSUME NEW r \in Requests, Respond(r) \/ AnswerError(r) \/ Crash(r) PROVE IInv'
    BY <2>6, QuietStep, Movements DEF Respond, AnswerError, Crash
  <2>7. ASSUME NEW r \in Requests, Refuse(r) PROVE IInv'
    <3>1. alerts' = alerts /\ Moves(r)
      BY <2>7, Movements DEF Refuse
    <3>2. QED
      BY <3>1, QuietStep
  <2>8. QED
    BY <2>1, <2>2, <2>3, <2>4, <2>5, <2>6, <2>7, CheckStep DEF Next
<1>3. QED
  BY <1>1, <1>2, PTL DEF Spec

\* Two alerts of one rule with the same evidence come only from requests that
\* overlapped, whatever the rules and the telemetry.
THEOREM DuplicatesAreRaces == Spec => []DuplicatesOverlapped
BY Invariant, PTL DEF IInv

-----------------------------------------------------------------------------
(* Rows of the table of events *)

\* The last of a set of indices.
LEMMA LastIndex ==
  ASSUME NEW n \in Nat, NEW S \in SUBSET (0..n), S # {}
  PROVE  Max(S) \in S /\ \A i \in S : i <= Max(S)
<1> DEFINE T == {n - i : i \in S}
<1>1. T \in SUBSET Nat /\ T # {}
  <2>1. ASSUME NEW i \in S PROVE n - i \in Nat
    <3>1. i \in 0..n
      OBVIOUS
    <3> QED
      BY <3>1
  <2> QED
    BY <2>1
<1>2. PICK m \in T : \A k \in T : m <= k
  <2> HIDE DEF T
  <2> QED
    BY <1>1, Smallest
<1>3. PICK i \in S : m = n - i
  BY <1>2
<1>4. ASSUME NEW j \in S PROVE j <= i
  <2>1. n - i <= n - j
    BY <1>2, <1>3
  <2>2. i \in Int /\ j \in Int
    BY 0..n \subseteq Int
  <2> QED
    BY <2>1, <2>2
<1> QED
  BY <1>4 DEF Max

\* Rows in the order of their timestamps, no row twice.
Rows(ids, n) ==
  /\ n \in Nat /\ ids \in [1..n -> DOMAIN events]
  /\ \A i, j \in 1..n : ids[i] = ids[j] => i = j
  /\ \A i, j \in 1..n : i <= j => events[ids[i]].at <= events[ids[j]].at

EventsTyped == events \in Seq(Telemetry)

LEMMA TypedEvent ==
  ASSUME EventsTyped, NEW e \in DOMAIN events
  PROVE  /\ events[e] \in Telemetry /\ events[e].at \in Int /\ e \in Nat \ {0}
         /\ events[e].matches \subseteq ToSet(Patterns)
         /\ events[e].oversized \subseteq ToSet(Patterns)
         /\ Identity(e) \in ToSet(Pairs)
         /\ DOMAIN events = 1..Len(events) /\ Len(events) \in Nat
<1>1. DOMAIN events = 1..Len(events) /\ Len(events) \in Nat
  BY LenProperties DEF EventsTyped
<1>2. events[e] \in Telemetry
  BY <1>1, ElementOfSeq DEF EventsTyped
<1> QED
  BY <1>1, <1>2, PipelineConstants DEF Identity

\* What the query can return are rows, and all that were asked for unless the cap bites.
LEMMA OrderedRows ==
  ASSUME EventsTyped, NEW S \in SUBSET DOMAIN events, NEW ids \in Orders(S)
  PROVE  /\ Rows(Capped(ids), Len(Capped(ids)))
         /\ ToSet(Capped(ids)) \subseteq S
         /\ Cardinality(S) <= MAX_CORRELATION_CANDIDATES => ToSet(Capped(ids)) = S
<1> DEFINE n == Cardinality(S)
           k == IF n <= MAX_CORRELATION_CANDIDATES THEN n ELSE MAX_CORRELATION_CANDIDATES
<1>1. IsFiniteSet(S) /\ n \in Nat
  <2>1. Len(events) \in Nat /\ DOMAIN events = 1..Len(events)
    BY LenProperties DEF EventsTyped
  <2>2. IsFiniteSet(1..Len(events))
    BY <2>1, FS_Interval
  <2> QED
    BY <2>1, <2>2, FS_Subset, FS_CardinalityType
<1>2. ids \in [1..n -> S] /\ \A i, j \in 1..n : ids[i] = ids[j] => i = j
  BY DEF Orders
<1>3. \A i, j \in 1..n : i <= j => events[ids[i]].at <= events[ids[j]].at
  BY <1>2 DEF Orders, Ascending, At
<1>4. k \in 0..n
  BY <1>1, PipelineConstants
<1>5. ids \in Seq(S) /\ Len(ids) = n
  <2>1. ids \in Seq(S)
    BY <1>1, <1>2, SeqDef
  <2> QED
    BY <1>1, <1>2, <2>1, LenProperties
<1> DEFINE cut == Capped(ids)
<1>6. cut \in Seq(S) /\ Len(cut) = k /\ \A i \in 1..k : cut[i] = ids[i]
  <2>1. cut = SubSeq(ids, 1, k)
    BY <1>5 DEF Capped
  <2>2. ASSUME NEW i \in 1..k PROVE ids[i] \in S
    <3> HIDE DEF k, n
    <3>1. i \in 1..n
      BY <1>1, <1>4
    <3> QED
      BY <1>2, <3>1
  <2> HIDE DEF k, n, cut
  <2>3. /\ SubSeq(ids, 1, k) \in Seq(S)
        /\ Len(SubSeq(ids, 1, k)) = IF 1 <= k THEN k - 1 + 1 ELSE 0
        /\ \A i \in 1..k - 1 + 1 : SubSeq(ids, 1, k)[i] = ids[1 + i - 1]
    BY <1>1, <1>4, <2>2, SubSeqProperties
  <2> QED
    BY <1>1, <1>4, <2>1, <2>3
<1> HIDE DEF k, n, cut
<1>7. cut \in [1..k -> S] /\ k \in Nat /\ 1..k \subseteq 1..n
  BY <1>1, <1>4, <1>6, LenProperties
<1>8. Rows(cut, k)
  <2>1. cut \in [1..k -> DOMAIN events]
    BY <1>7
  <2>2. \A i, j \in 1..k : cut[i] = cut[j] => i = j
    BY <1>2, <1>6, <1>7
  <2>3. \A i, j \in 1..k : i <= j => events[cut[i]].at <= events[cut[j]].at
    BY <1>3, <1>6, <1>7
  <2> QED
    BY <1>7, <2>1, <2>2, <2>3 DEF Rows
<1>9. ToSet(cut) \subseteq S
  BY <1>7 DEF ToSet
<1>10. ASSUME n <= MAX_CORRELATION_CANDIDATES PROVE S \subseteq ToSet(cut)
  <2>1. k = n
    BY <1>10 DEF k
  <2>2. ids \in Injection(1..n, S)
    BY <1>2 DEF Injection, IsInjective
  <2>3. Cardinality(1..n) = Cardinality(S) /\ IsFiniteSet(1..n)
    BY <1>1, FS_Interval DEF n
  <2>4. ids \in Surjection(1..n, S)
    BY <1>1, <2>2, <2>3, FS_Injection
  <2>5. ASSUME NEW x \in S PROVE x \in ToSet(cut)
    <3>1. PICK i \in 1..n : ids[i] = x
      BY <2>4 DEF Surjection
    <3> QED
      BY <1>6, <1>7, <2>1, <3>1 DEF ToSet
  <2> QED
    BY <2>5
<1> QED
  BY <1>6, <1>8, <1>9, <1>10 DEF n, cut

LEMMA SelectedRows ==
  ASSUME EventsTyped, NEW n, NEW ids, Rows(ids, n), NEW S
  PROVE  /\ Rows(Selected(ids, S), Len(Selected(ids, S)))
         /\ \A e : e \in ToSet(Selected(ids, S)) <=> e \in ToSet(ids) /\ e \in S
<1> DEFINE g == Selected(ids, S)
           m == Len(g)
           V == DOMAIN events
<1>1. ids \in Seq(V) /\ Len(ids) = n /\ n \in Nat /\ DOMAIN ids = 1..n
  <2>1. n \in Nat /\ ids \in [1..n -> V]
    BY DEF Rows
  <2>2. ids \in Seq(V)
    BY <2>1, SeqDef
  <2> QED
    BY <2>1, <2>2, LenProperties
<1>2. g \in Seq(V)
  BY <1>1, SelectedPicks
<1>3. PICK p : Picks(g, p, ids, n, S)
  BY <1>1, SelectedPicks
<1>4. m \in Nat /\ g \in [1..m -> V] /\ DOMAIN g = 1..m
  BY <1>2, LenProperties
<1> HIDE DEF g
<1>5. /\ \A k \in 1..m : p[k] \in 1..n /\ g[k] = ids[p[k]] /\ g[k] \in S
      /\ \A k, l \in 1..m : k < l => p[k] < p[l]
      /\ \A i \in 1..n : ids[i] \in S => \E k \in 1..m : p[k] = i
  BY <1>3 DEF Picks
<1> HIDE DEF m, V
<1>6. \A k, l \in 1..m : g[k] = g[l] => k = l
  <2> SUFFICES ASSUME NEW k \in 1..m, NEW l \in 1..m, g[k] = g[l], k # l PROVE FALSE
    OBVIOUS
  <2>1. p[k] = p[l] /\ p[k] \in Int /\ p[l] \in Int
    BY <1>5 DEF Rows
  <2>2. k < l \/ l < k
    OBVIOUS
  <2> QED
    BY <1>5, <2>1, <2>2
<1>7. ASSUME NEW k \in 1..m, NEW l \in 1..m, k <= l
      PROVE  events[g[k]].at <= events[g[l]].at
  <2>1. p[k] <= p[l]
    <3>1. p[k] \in Int /\ p[l] \in Int
      BY <1>5
    <3>2. k = l \/ k < l
      BY <1>7
    <3> QED
      BY <1>5, <3>1, <3>2
  <2> QED
    BY <1>5, <2>1 DEF Rows
<1>8. Rows(g, m)
  BY <1>4, <1>6, <1>7 DEF Rows, V
<1>9. \A e : e \in ToSet(g) <=> e \in ToSet(ids) /\ e \in S
  BY <1>1, <1>4, <1>5 DEF ToSet
<1> QED
  BY <1>8, <1>9 DEF g, m

\* The timestamps of rows are what the scan is for.
LEMMA Timestamps ==
  ASSUME EventsTyped, NEW n, NEW g, Rows(g, n)
  PROVE  /\ n \in Nat /\ At(g) \in [1..n -> Int] /\ Ascending(At(g))
         /\ DOMAIN g = 1..n
         /\ \A k \in 1..n : At(g)[k] = events[g[k]].at /\ g[k] \in DOMAIN events
<1>1. n \in Nat /\ DOMAIN g = 1..n /\ \A k \in 1..n : g[k] \in DOMAIN events
  BY DEF Rows
<1>2. At(g) = [k \in 1..n |-> events[g[k]].at]
  BY <1>1 DEF At
<1>3. \A k \in 1..n : events[g[k]].at \in Int
  BY <1>1, TypedEvent
<1>4. At(g) \in [1..n -> Int] /\ \A k \in 1..n : At(g)[k] = events[g[k]].at
  BY <1>2, <1>3
<1>5. \A i, j \in 1..n : i <= j => events[g[i]].at <= events[g[j]].at
  BY DEF Rows
<1>6. Ascending(At(g))
  BY <1>4, <1>5 DEF Ascending
<1> QED
  BY <1>1, <1>4, <1>6

\* The rows of a window.
Window(g) == {g[i] : i \in FindQualifyingWindow(At(g))}

\* The window found in the failures of one pair is a burst of the smallest size.
LEMMA WindowIsABurst ==
  ASSUME EventsTyped, NEW n, NEW g, Rows(g, n), NEW pair,
         \A k \in 1..n : Correlatable(g[k]) /\ Identity(g[k]) = pair,
         Window(g) # {}
  PROVE  Burst(Window(g)) /\ Cardinality(Window(g)) = threshold /\ Window(g) \subseteq ToSet(g)
<1> DEFINE w == FindQualifyingWindow(At(g))
<1>1. /\ n \in Nat /\ At(g) \in [1..n -> Int] /\ Ascending(At(g))
      /\ DOMAIN g = 1..n
      /\ \A k \in 1..n : At(g)[k] = events[g[k]].at /\ g[k] \in DOMAIN events
  BY Timestamps
<1>2. w # {}
  BY DEF Window
<1>3. w \subseteq 1..n /\ Cardinality(w) = threshold
  BY <1>1, <1>2, SmallestWindow
<1>4. w \in Qualifying(At(g))
  <2>1. FindsEarliest(At(g))
    BY <1>1, ScanIsEarliest
  <2> QED
    BY <1>2, <2>1 DEF FindsEarliest
<1>5. \A i, j \in w : At(g)[i] - At(g)[j] <= window_seconds
  BY <1>4 DEF Qualifying
<1>6. Window(g) = {g[i] : i \in w}
  BY DEF Window
<1> HIDE DEF w
<1>7. Cardinality(Window(g)) = threshold
  <2> DEFINE f == [i \in w |-> g[i]]
  <2>1. IsFiniteSet(w)
    <3>1. IsFiniteSet(1..n)
      BY <1>1, FS_Interval
    <3> QED
      BY <1>3, <3>1, FS_Subset
  <2>2. f \in [w -> Window(g)] /\ \A x \in Window(g) : \E i \in w : f[i] = x
    BY <1>6
  <2>3. \A i, j \in w : f[i] = f[j] => i = j
    BY <1>3 DEF Rows
  <2>4. f \in Bijection(w, Window(g))
    <3> HIDE DEF f
    <3> QED
      BY <2>2, <2>3 DEF Bijection, Injection, Surjection, IsInjective
  <2>5. ExistsBijection(w, Window(g))
    BY <2>4 DEF ExistsBijection
  <2> QED
    BY <1>3, <2>1, <2>5, FS_Bijection
<1>8. ASSUME NEW e \in Window(g), NEW f \in Window(g)
      PROVE  /\ Correlatable(e) /\ Identity(e) = Identity(f)
             /\ events[e].at - events[f].at <= window_seconds
  <2>1. PICK i \in w, j \in w : e = g[i] /\ f = g[j]
    BY <1>6
  <2>2. i \in 1..n /\ j \in 1..n
    BY <1>3
  <2> QED
    BY <1>1, <1>5, <2>1, <2>2
<1>9. Burst(Window(g))
  <2>1. threshold >= threshold
    BY WindowConstants
  <2> QED
    BY <1>7, <1>8, <2>1 DEF Burst
<1>10. Window(g) \subseteq ToSet(g)
  BY <1>1, <1>3, <1>6 DEF ToSet
<1> QED
  BY <1>7, <1>9, <1>10

\* If there is a burst among rows, there is a window.
LEMMA BurstHasAWindow ==
  ASSUME EventsTyped, NEW n, NEW g, Rows(g, n), NEW B \in SUBSET ToSet(g), Burst(B)
  PROVE  Window(g) # {}
<1> DEFINE K == {k \in 1..n : g[k] \in B}
           t == At(g)
<1>1. /\ n \in Nat /\ t \in [1..n -> Int] /\ Ascending(t)
      /\ DOMAIN g = 1..n
      /\ \A k \in 1..n : t[k] = events[g[k]].at /\ g[k] \in DOMAIN events
  BY Timestamps
<1>2. B # {} /\ Cardinality(B) >= threshold
      /\ \A e, f \in B : events[e].at - events[f].at <= window_seconds
  BY DEF Burst
<1>3. K # {} /\ K \in SUBSET Nat /\ K \in SUBSET (0..n)
  BY <1>1, <1>2 DEF ToSet
<1> DEFINE l == Min(K)
           r == Max(K)
<1>4. l \in K /\ r \in K /\ \A k \in K : l <= k /\ k <= r
  <2> HIDE DEF K
  <2> QED
    BY <1>1, <1>3, FirstIndex, LastIndex
<1> HIDE DEF l, r, t
<1>5. l \in 1..n /\ r \in 1..n /\ g[l] \in B /\ g[r] \in B
  BY <1>4
<1>6. \A i, j \in l..r : t[i] - t[j] <= window_seconds
  <2> SUFFICES ASSUME NEW i \in l..r, NEW j \in l..r PROVE t[i] - t[j] <= window_seconds
    OBVIOUS
  <2>1. i \in 1..n /\ j \in 1..n /\ i <= r /\ l <= j
    BY <1>1, <1>5
  <2>2. t[i] <= t[r] /\ t[l] <= t[j]
    BY <1>1, <1>5, <2>1 DEF Ascending
  <2>3. t[r] - t[l] <= window_seconds
    BY <1>1, <1>2, <1>5
  <2>4. t[i] \in Int /\ t[j] \in Int /\ t[r] \in Int /\ t[l] \in Int
    BY <1>1, <1>5, <2>1
  <2> QED
    BY <2>2, <2>3, <2>4, WindowConstants
<1>7. Cardinality(l..r) >= threshold
  <2> DEFINE f == [k \in K |-> g[k]]
  <2>1. IsFiniteSet(l..r) /\ K \subseteq l..r
    <3>1. l \in Int /\ r \in Int
      BY <1>1, <1>5
    <3>2. \A k \in K : k \in l..r
      BY <1>1, <1>4, <1>5
    <3> HIDE DEF K
    <3> QED
      BY <3>1, <3>2, FS_Interval
  <2>2. IsFiniteSet(K) /\ Cardinality(K) <= Cardinality(l..r)
    BY <2>1, FS_Subset
  <2>3. f \in Surjection(K, B)
    <3>1. f \in [K -> B]
      OBVIOUS
    <3>2. ASSUME NEW e \in B PROVE \E k \in K : f[k] = e
      BY <1>1 DEF ToSet
    <3> HIDE DEF f, K
    <3> QED
      BY <3>1, <3>2 DEF Surjection
  <2>4. IsFiniteSet(B) /\ Cardinality(B) <= Cardinality(K)
    <3> HIDE DEF f, K
    <3> QED
      BY <2>2, <2>3, FS_Surjection
  <2>5. Cardinality(B) \in Nat /\ Cardinality(K) \in Nat /\ Cardinality(l..r) \in Nat
    BY <2>1, <2>2, <2>4, FS_CardinalityType
  <2> HIDE DEF K
  <2> QED
    BY <1>2, <2>2, <2>4, <2>5, WindowConstants
<1>8. l..r \in Qualifying(t)
  <2>1. l..r \in {i..j : i \in DOMAIN t, j \in DOMAIN t}
    BY <1>1, <1>5
  <2> QED
    BY <1>6, <1>7, <2>1 DEF Qualifying
<1>9. FindQualifyingWindow(t) \in Qualifying(t)
  <2>1. FindsEarliest(t)
    BY <1>1, ScanIsEarliest
  <2> QED
    BY <1>8, <2>1 DEF FindsEarliest
<1>10. Cardinality(FindQualifyingWindow(t)) >= threshold
  BY <1>9 DEF Qualifying
<1>11. FindQualifyingWindow(t) # {}
  BY <1>10, FS_EmptySet, WindowConstants
<1> QED
  BY <1>11 DEF Window, t

-----------------------------------------------------------------------------
(* What the rules report *)

LEMMA GroupRows ==
  ASSUME EventsTyped, NEW n, NEW ids, Rows(ids, n), NEW pair
  PROVE  /\ Rows(Group(ids, pair), Len(Group(ids, pair)))
         /\ \A e : e \in ToSet(Group(ids, pair)) <=>
                     e \in ToSet(ids) /\ Correlatable(e) /\ Identity(e) = pair
         /\ \A k \in 1..Len(Group(ids, pair)) :
              Correlatable(Group(ids, pair)[k]) /\ Identity(Group(ids, pair)[k]) = pair
<1> DEFINE S == {e \in ToSet(ids) : Correlatable(e) /\ Identity(e) = pair}
           g == Group(ids, pair)
<1>1. g = Selected(ids, S)
  BY DEF Group
<1> HIDE DEF g, S
<1>2. Rows(g, Len(g)) /\ \A e : e \in ToSet(g) <=> e \in ToSet(ids) /\ e \in S
  BY <1>1, SelectedRows
<1>3. \A e : e \in ToSet(g) <=> e \in ToSet(ids) /\ Correlatable(e) /\ Identity(e) = pair
  BY <1>2 DEF S
<1>4. \A k \in 1..Len(g) : g[k] \in ToSet(g)
  BY <1>2 DEF Rows, ToSet
<1> QED
  BY <1>2, <1>3, <1>4 DEF g

BurstDetection(E) == [rule |-> BruteForce, evidence |-> E]

LEMMA BruteForceDetections ==
  ASSUME EventsTyped, NEW n, NEW ids, Rows(ids, n)
  PROVE  /\ BruteForceEvaluate(ids) \in Seq(Evidence)
         /\ \A d : d \in ToSet(BruteForceEvaluate(ids)) <=>
              \E pair \in ToSet(Pairs) : /\ Window(Group(ids, pair)) # {}
                                         /\ d = BurstDetection(Window(Group(ids, pair)))
<1> DEFINE k == Len(Pairs)
           E(i) == Window(Group(ids, Pairs[i]))
           seqs == [i \in 1..k |-> IF E(i) = {} THEN <<>> ELSE <<BurstDetection(E(i))>>]
<1>1. k \in Nat /\ DOMAIN Pairs = 1..k /\ \A i \in 1..k : Pairs[i] \in ToSet(Pairs)
  BY PipelineConstants, LenProperties DEF ToSet
<1>2. BruteForceEvaluate(ids) = FlattenSeq(seqs)
  BY <1>1 DEF BruteForceEvaluate, Window, BurstDetection
<1>3. ASSUME NEW i \in 1..k PROVE E(i) # {} => BurstDetection(E(i)) \in Evidence
  <2> SUFFICES ASSUME E(i) # {} PROVE BurstDetection(E(i)) \in Evidence
    OBVIOUS
  <2> DEFINE g == Group(ids, Pairs[i])
  <2>1. Rows(g, Len(g)) /\ \A j \in 1..Len(g) : Correlatable(g[j]) /\ Identity(g[j]) = Pairs[i]
    BY GroupRows
  <2>2. Window(g) \subseteq ToSet(g)
    <3> HIDE DEF g
    <3>1. Window(g) # {}
      BY DEF g
    <3> QED
      BY <2>1, <3>1, WindowIsABurst
  <2>3. ToSet(g) \subseteq DOMAIN events
    BY <2>1 DEF Rows, ToSet
  <2>4. E(i) \in SUBSET DOMAIN events
    BY <2>2, <2>3
  <2> HIDE DEF E
  <2> QED
    BY <2>4 DEF Evidence, Rules, BurstDetection
<1>4. seqs \in Parts(k, Seq(Evidence))
  <2>1. ASSUME NEW i \in 1..k PROVE seqs[i] \in Seq(Evidence)
    <3> HIDE DEF E
    <3>1. <<>> \in Seq(Evidence)
      BY EmptySeq
    <3>2. CASE E(i) = {}
      BY <3>1, <3>2
    <3>3. CASE E(i) # {}
      <4>1. BurstDetection(E(i)) \in Evidence
        BY <1>3, <3>3
      <4> DEFINE V == Evidence
      <4> HIDE DEF V
      <4>2. <<BurstDetection(E(i))>> \in Seq(V)
        BY <4>1 DEF V
      <4> QED
        BY <3>3, <4>2 DEF V
    <3> QED
      BY <3>2, <3>3
  <2> HIDE DEF E, k
  <2> QED
    BY <2>1 DEF Parts
<1>5. /\ FlattenSeq(seqs) \in Seq(Evidence)
      /\ \A d : d \in ToSet(FlattenSeq(seqs)) <=> \E i \in 1..k : d \in ToSet(seqs[i])
  <2> HIDE DEF seqs, k
  <2> QED
    BY <1>1, <1>4, FlattenItems
<1>6. \A i \in 1..k : \A d : d \in ToSet(seqs[i]) <=> E(i) # {} /\ d = BurstDetection(E(i))
  <2> SUFFICES ASSUME NEW i \in 1..k, NEW d
               PROVE  d \in ToSet(seqs[i]) <=> E(i) # {} /\ d = BurstDetection(E(i))
    OBVIOUS
  <2> HIDE DEF E
  <2>1. CASE E(i) = {}
    BY <2>1 DEF ToSet
  <2>2. CASE E(i) # {}
    <3>1. seqs[i] = <<BurstDetection(E(i))>>
      BY <2>2
    <3> QED
      BY <2>2, <3>1 DEF ToSet
  <2> QED
    BY <2>1, <2>2
<1>7. \A pair : pair \in ToSet(Pairs) <=> \E i \in 1..k : pair = Pairs[i]
  BY <1>1 DEF ToSet
<1>8. \A d : d \in ToSet(FlattenSeq(seqs)) <=>
               \E i \in 1..k : E(i) # {} /\ d = BurstDetection(E(i))
  <2> HIDE DEF seqs, E, k
  <2> QED
    BY <1>5, <1>6
<1> DEFINE Found(d, pair) == /\ Window(Group(ids, pair)) # {}
                             /\ d = BurstDetection(Window(Group(ids, pair)))
<1>9. \A d : d \in ToSet(FlattenSeq(seqs)) <=> \E i \in 1..k : Found(d, Pairs[i])
  BY <1>8
<1>10. \A d : d \in ToSet(FlattenSeq(seqs)) <=> \E pair \in ToSet(Pairs) : Found(d, pair)
  <2> HIDE DEF seqs, k, Found
  <2> QED
    BY <1>1, <1>7, <1>9
<1> QED
  BY <1>2, <1>5, <1>10

MatchDetection(p, e) == [rule |-> p, evidence |-> {e}]

LEMMA PatternDetections ==
  ASSUME EventsTyped, NEW n, NEW ids, Rows(ids, n), NEW p \in ToSet(Patterns)
  PROVE  /\ PatternEvaluate(p, ids) \in Seq(Evidence)
         /\ \A d : d \in ToSet(PatternEvaluate(p, ids)) <=>
              \E e \in ToSet(ids) : p \in events[e].matches /\ d = MatchDetection(p, e)
<1> DEFINE S == {e \in ToSet(ids) : p \in events[e].matches}
           g == Selected(ids, S)
           m == Len(g)
<1>1. Rows(g, m) /\ \A e : e \in ToSet(g) <=> e \in ToSet(ids) /\ e \in S
  <2> HIDE DEF S
  <2> QED
    BY SelectedRows
<1>2. PatternEvaluate(p, ids) = [i \in DOMAIN g |-> MatchDetection(p, g[i])]
  BY DEF PatternEvaluate, MatchDetection
<1> HIDE DEF g, m
<1>3. m \in Nat /\ DOMAIN g = 1..m /\ \A i \in 1..m : g[i] \in DOMAIN events
  BY <1>1 DEF Rows
<1>4. \A i \in 1..m : MatchDetection(p, g[i]) \in Evidence
  BY <1>3 DEF MatchDetection, Evidence, Rules
<1> DEFINE t == [i \in 1..m |-> MatchDetection(p, g[i])]
<1>5. t \in Seq(Evidence)
  BY <1>3, <1>4, SeqDef
<1>6. \A d : d \in ToSet(t) <=> \E i \in 1..m : d = MatchDetection(p, g[i])
  BY DEF ToSet
<1>7. \A e : e \in ToSet(ids) /\ p \in events[e].matches <=> \E i \in 1..m : e = g[i]
  BY <1>1, <1>3 DEF ToSet
<1>8. PatternEvaluate(p, ids) = t
  BY <1>2, <1>3
<1> HIDE DEF t, S
<1> QED
  BY <1>5, <1>6, <1>7, <1>8

\* The detections of the rows ids: the window of each pair that has one, unless the sort
\* raises, and the matches of each pattern.
LEMMA DetectionsAre ==
  ASSUME EventsTyped, NEW n, NEW ids, Rows(ids, n)
  PROVE  /\ Detections(ids) \in Seq(Evidence)
         /\ \A d : d \in ToSet(Detections(ids)) <=>
              \/ /\ Sortable(ToSet(ids))
                 /\ \E pair \in ToSet(Pairs) : /\ Window(Group(ids, pair)) # {}
                                               /\ d = BurstDetection(Window(Group(ids, pair)))
              \/ \E p \in ToSet(Patterns), e \in ToSet(ids) :
                   p \in events[e].matches /\ d = MatchDetection(p, e)
<1> DEFINE k == Len(Patterns)
           seqs == [i \in 1..k |-> PatternEvaluate(Patterns[i], ids)]
           s == IF Sortable(ToSet(ids)) THEN BruteForceEvaluate(ids) ELSE <<>>
<1>1. k \in Nat /\ DOMAIN Patterns = 1..k
      /\ \A p : p \in ToSet(Patterns) <=> \E i \in 1..k : p = Patterns[i]
  <2>1. k \in Nat /\ DOMAIN Patterns = 1..k
    BY PipelineConstants, LenProperties
  <2> HIDE DEF k
  <2> QED
    BY <2>1 DEF ToSet
<1>2. Detections(ids) = s \o FlattenSeq(seqs)
  BY <1>1 DEF Detections
<1>3. s \in Seq(Evidence)
  BY BruteForceDetections, EmptySeq
<1>4. seqs \in Parts(k, Seq(Evidence))
  <2>1. ASSUME NEW i \in 1..k PROVE PatternEvaluate(Patterns[i], ids) \in Seq(Evidence)
    BY <1>1, PatternDetections
  <2> HIDE DEF k
  <2> QED
    BY <2>1 DEF Parts
<1> DEFINE u == FlattenSeq(seqs)
<1>5. /\ u \in Seq(Evidence)
      /\ \A d : d \in ToSet(u) <=> \E i \in 1..k : d \in ToSet(seqs[i])
  <2> HIDE DEF seqs, k
  <2> QED
    BY <1>1, <1>4, FlattenItems
<1>6. \A d : d \in ToSet(u) <=> \E p \in ToSet(Patterns), e \in ToSet(ids) :
                                  p \in events[e].matches /\ d = MatchDetection(p, e)
  <2> DEFINE Matches(d, p) ==
               \E e \in ToSet(ids) : p \in events[e].matches /\ d = MatchDetection(p, e)
  <2>1. \A i \in 1..k : \A d : d \in ToSet(seqs[i]) <=> Matches(d, Patterns[i])
    BY <1>1, PatternDetections
  <2>2. \A d : d \in ToSet(u) <=> \E p \in ToSet(Patterns) : Matches(d, p)
    <3> HIDE DEF u, seqs, k, Matches
    <3>1. \A d : d \in ToSet(u) <=> \E i \in 1..k : Matches(d, Patterns[i])
      BY <1>5, <2>1
    <3> QED
      BY <1>1, <3>1, Zenon
  <2> QED
    BY <2>2
<1>7. \A d : d \in ToSet(s) <=>
        /\ Sortable(ToSet(ids))
        /\ \E pair \in ToSet(Pairs) : /\ Window(Group(ids, pair)) # {}
                                      /\ d = BurstDetection(Window(Group(ids, pair)))
  <2>1. ToSet(<<>>) = {}
    BY DEF ToSet
  <2> QED
    BY <2>1, BruteForceDetections
<1>8. s \o u \in Seq(Evidence) /\ ToSet(s \o u) = ToSet(s) \cup ToSet(u)
  <2> HIDE DEF s, u
  <2>1. Range(s \o u) = Range(s) \cup Range(u)
    BY <1>3, <1>5, RangeConcatenation
  <2>2. \A q : ToSet(q) = Range(q)
    BY DEF ToSet, Range
  <2> QED
    BY <1>3, <1>5, <2>1, <2>2, ConcatProperties
<1> HIDE DEF s, u
<1> QED
  BY <1>2, <1>6, <1>7, <1>8 DEF u

-----------------------------------------------------------------------------
(* Types *)

LEMMA SameEvidence ==
  ASSUME events' = events
  PROVE  Evidence' = Evidence
BY DEF Evidence

\* The next detection, and those after it.
LEMMA NextDetection ==
  ASSUME RequestsTyped, NEW r \in Requests, pc[r] \in {"check", "create"}
  PROVE  /\ todo[r] \in Seq(Evidence) /\ todo[r] # <<>>
         /\ Head(todo[r]) \in Evidence /\ Tail(todo[r]) \in Seq(Evidence)
         /\ Head(todo[r]) \in ToSet(todo[r]) /\ ToSet(Tail(todo[r])) \subseteq ToSet(todo[r])
         /\ \A d \in ToSet(todo[r]) : d = Head(todo[r]) \/ d \in ToSet(Tail(todo[r]))
<1> DEFINE s == todo[r]
           V == Evidence
           n == Len(s)
<1>1. s \in Seq(V) /\ s # <<>>
  BY DEF RequestsTyped
<1> HIDE DEF s, V
<1>2. n \in Nat \ {0} /\ DOMAIN s = 1..n
  BY <1>1, EmptySeq, LenProperties
<1>3. /\ Head(s) \in V /\ Tail(s) \in Seq(V) /\ Len(Tail(s)) = n - 1
      /\ \A i \in 1..Len(Tail(s)) : Tail(s)[i] = s[i + 1]
  BY <1>1, HeadTailProperties
<1>4. DOMAIN Tail(s) = 1..n - 1
  BY <1>3, LenProperties
<1>5. Head(s) = s[1]
  BY <1>1
<1> HIDE DEF n
<1>6. Head(s) \in ToSet(s)
  BY <1>2, <1>5 DEF ToSet
<1>7. ToSet(Tail(s)) \subseteq ToSet(s)
  <2> SUFFICES ASSUME NEW i \in 1..n - 1 PROVE Tail(s)[i] \in ToSet(s)
    BY <1>4 DEF ToSet
  <2>1. i + 1 \in 1..n /\ Tail(s)[i] = s[i + 1]
    BY <1>2, <1>3
  <2> QED
    BY <1>2, <2>1 DEF ToSet
<1>8. ASSUME NEW i \in 1..n PROVE s[i] = Head(s) \/ s[i] \in ToSet(Tail(s))
  <2>1. CASE i = 1
    BY <1>5, <2>1
  <2>2. CASE i # 1
    <3>1. i - 1 \in 1..n - 1 /\ (i - 1) + 1 = i
      BY <1>2, <2>2
    <3>2. Tail(s)[i - 1] = s[i]
      BY <1>3, <3>1
    <3> QED
      BY <1>4, <3>1, <3>2 DEF ToSet
  <2> QED
    BY <2>1, <2>2
<1>9. \A d \in ToSet(s) : d = Head(s) \/ d \in ToSet(Tail(s))
  BY <1>2, <1>8 DEF ToSet
<1> QED
  BY <1>1, <1>3, <1>6, <1>7, <1>9 DEF s, V

\* The two tables only grow, and the parts of a request's state keep their types.
Grown ==
  /\ events' = events /\ missed' \in BOOLEAN /\ loaded' \in [Requests -> BOOLEAN]
  /\ Len(alerts) \in Nat /\ Len(alerts') \in Nat /\ Len(alerts) <= Len(alerts')

LEMMA GoOnTyped ==
  ASSUME RequestsTyped, Grown, NEW r \in Requests, pc[r] # "idle",
         NEW left \in Seq(Evidence), GoOn(r, left), event' = event
  PROVE  RequestsTyped'
<1> DEFINE D == Seq(Evidence)
<1>1. D' = D
  BY SameEvidence DEF Grown
<1>2. left \in D /\ todo \in [Requests -> D]
  BY DEF RequestsTyped
<1> HIDE DEF D
<1>3. todo' \in [Requests -> D]
  BY <1>2 DEF GoOn
<1>4. seen' \in [Requests -> 0..Len(alerts')]
  BY DEF Grown, GoOn, RequestsTyped
<1>5. pc' \in [Requests -> Phases] /\ event' \in [Requests -> 0..Len(events')]
  BY DEF Grown, GoOn, RequestsTyped, Phases
<1>6. \A q \in Requests : /\ pc'[q] # "idle" => event'[q] # 0
                          /\ pc'[q] \in {"check", "create"} <=> todo'[q] # <<>>
  BY <1>2 DEF GoOn, RequestsTyped
<1> QED
  BY <1>1, <1>3, <1>4, <1>5, <1>6 DEF RequestsTyped, Grown, D

LEMMA EndTyped ==
  ASSUME RequestsTyped, Grown, NEW r \in Requests, End(r)
  PROVE  RequestsTyped'
<1> DEFINE D == Seq(Evidence)
<1>1. D' = D
  BY SameEvidence DEF Grown
<1>2. <<>> \in D /\ todo \in [Requests -> D]
  BY EmptySeq DEF RequestsTyped
<1> HIDE DEF D
<1>3. todo' \in [Requests -> D]
  BY <1>2 DEF End
<1>4. seen' \in [Requests -> 0..Len(alerts')]
  BY DEF Grown, End, RequestsTyped
<1>5. pc' \in [Requests -> Phases]
  BY DEF End, RequestsTyped, Phases
<1>6. event' \in [Requests -> 0..Len(events')]
  BY DEF Grown, End, RequestsTyped
<1>7. \A q \in Requests : /\ pc'[q] # "idle" => event'[q] # 0
                          /\ pc'[q] \in {"check", "create"} <=> todo'[q] # <<>>
  BY <1>2 DEF End, RequestsTyped
<1> QED
  BY <1>1, <1>3, <1>4, <1>5, <1>6, <1>7 DEF RequestsTyped, Grown, D

LEMMA CaughtTyped ==
  ASSUME RequestsTyped, Grown, NEW r \in Requests, pc[r] # "idle", NEW b, Caught(r, b)
  PROVE  RequestsTyped'
<1> DEFINE D == Seq(Evidence)
<1>1. D' = D
  BY SameEvidence DEF Grown
<1>2. <<>> \in D /\ todo \in [Requests -> D]
  BY EmptySeq DEF RequestsTyped
<1> HIDE DEF D
<1>3. todo' \in [Requests -> D]
  BY <1>2 DEF Caught
<1>4. seen' \in [Requests -> 0..Len(alerts')]
  BY DEF Grown, Caught, RequestsTyped
<1>5. pc' \in [Requests -> Phases] /\ event' \in [Requests -> 0..Len(events')]
  BY DEF Grown, Caught, RequestsTyped, Phases
<1>6. \A q \in Requests : /\ pc'[q] # "idle" => event'[q] # 0
                          /\ pc'[q] \in {"check", "create"} <=> todo'[q] # <<>>
  BY <1>2 DEF Caught, RequestsTyped
<1> QED
  BY <1>1, <1>3, <1>4, <1>5, <1>6 DEF RequestsTyped, Grown, D

LEMMA AlertAdded ==
  ASSUME TypeOK, NEW r \in Requests, Add(r), events' = events
  PROVE  /\ TablesTyped' /\ Len(alerts) \in Nat /\ Len(alerts') = Len(alerts) + 1
         /\ DOMAIN alerts = 1..Len(alerts) /\ DOMAIN alerts' = 1..Len(alerts) + 1
         /\ \A i \in 1..Len(alerts) : alerts'[i] = alerts[i]
         /\ alerts'[Len(alerts) + 1].rule = Head(todo[r]).rule
         /\ alerts'[Len(alerts) + 1].evidence = Head(todo[r]).evidence
         /\ alerts'[Len(alerts) + 1].seen = seen[r]
<1> DEFINE d == Head(todo[r])
           x == [rule |-> d.rule, evidence |-> d.evidence, seen |-> seen[r]]
           A == [rule : Rules, evidence : SUBSET DOMAIN events, seen : Nat]
           n == Len(alerts)
<1>1. d \in Evidence
  BY NextDetection DEF TypeOK, Add, Accepted
<1>2. alerts \in Seq(A) /\ n \in Nat /\ DOMAIN alerts = 1..n
  BY LenProperties DEF TypeOK, TablesTyped
<1>3. seen[r] \in 0..n
  BY DEF TypeOK, RequestsTyped
<1>4. x \in A /\ x.rule = d.rule /\ x.evidence = d.evidence /\ x.seen = seen[r]
  BY <1>1, <1>2, <1>3 DEF Evidence
<1>5. A' = A
  OBVIOUS
<1>6. alerts' = Append(alerts, x)
  BY DEF Add
<1> HIDE DEF A, x, d
<1>7. /\ alerts' \in Seq(A) /\ Len(alerts') = n + 1
      /\ \A i \in 1..n : alerts'[i] = alerts[i]
      /\ alerts'[n + 1] = x
  BY <1>2, <1>4, <1>6, AppendProperties
<1>8. DOMAIN alerts' = 1..n + 1
  BY <1>7, LenProperties
<1>9. \A i \in 1..n + 1 : alerts'[i].seen < i
  <2> HIDE DEF n
  <2>1. \A i \in 1..n : alerts[i].seen < i
    BY <1>2 DEF TypeOK, TablesTyped
  <2>2. 1..n + 1 = (1..n) \cup {n + 1} /\ seen[r] < n + 1
    BY <1>2, <1>3
  <2> QED
    BY <1>4, <1>7, <2>1, <2>2
<1>10. TablesTyped'
  <2>1. events' \in Seq(Telemetry) /\ Len(events') <= MaxEvents
    BY DEF TypeOK, TablesTyped
  <2> QED
    BY <1>5, <1>7, <1>8, <1>9, <2>1 DEF TablesTyped, A
<1> QED
  BY <1>2, <1>4, <1>7, <1>8, <1>10 DEF d

LEMMA IngestTyped ==
  ASSUME TypeOK, NEW r \in Requests, NEW e \in Telemetry, Ingest(r, e)
  PROVE  /\ TypeOK'
         /\ Len(events) \in Nat /\ Len(events') = Len(events) + 1
         /\ DOMAIN events = 1..Len(events) /\ DOMAIN events' = 1..Len(events) + 1
         /\ \A i \in 1..Len(events) : events'[i] = events[i]
<1> DEFINE n == Len(events)
           D == Seq(Evidence)
           A == [rule : Rules, evidence : SUBSET DOMAIN events, seen : Nat]
<1>1. events \in Seq(Telemetry) /\ n \in Nat /\ DOMAIN events = 1..n /\ n < MaxEvents
  BY LenProperties DEF TypeOK, TablesTyped, Ingest
<1>2. events' = Append(events, e)
  BY DEF Ingest
<1>3. /\ events' \in Seq(Telemetry) /\ Len(events') = n + 1
      /\ \A i \in 1..n : events'[i] = events[i]
  BY <1>1, <1>2, AppendProperties
<1>4. DOMAIN events' = 1..n + 1 /\ DOMAIN events \subseteq DOMAIN events'
  BY <1>1, <1>3, LenProperties
<1>5. Len(events') <= MaxEvents
  BY <1>1, <1>3, PipelineConstants
<1>6. alerts' \in Seq(A') /\ \A i \in DOMAIN alerts' : alerts'[i].seen < i
  <2>1. A \subseteq A'
    BY <1>4
  <2>2. alerts \in Seq(A) /\ alerts' = alerts
    BY DEF TypeOK, TablesTyped, Ingest
  <2>3. \A i \in DOMAIN alerts : alerts[i].seen < i
    BY DEF TypeOK, TablesTyped
  <2> HIDE DEF A
  <2> QED
    BY <2>1, <2>2, <2>3, SeqMonotonic
<1>7. TablesTyped'
  BY <1>3, <1>5, <1>6 DEF TablesTyped
<1>8. D \subseteq D'
  <2>1. Evidence \subseteq Evidence'
    BY <1>4 DEF Evidence
  <2> QED
    BY <2>1, SeqMonotonic
<1>9. todo \in [Requests -> D] /\ todo' = todo /\ todo[r] = <<>>
  BY DEF TypeOK, RequestsTyped, Ingest
<1> HIDE DEF D
<1>10. todo' \in [Requests -> D']
  BY <1>8, <1>9
<1>11. event' \in [Requests -> 0..Len(events')] /\ event'[r] # 0
  BY <1>1, <1>3 DEF TypeOK, RequestsTyped, Ingest
<1>12. /\ pc' \in [Requests -> Phases] /\ seen' \in [Requests -> 0..Len(alerts')]
       /\ loaded' \in [Requests -> BOOLEAN] /\ missed' \in BOOLEAN
  BY DEF TypeOK, RequestsTyped, Ingest, Phases
<1>13. \A q \in Requests : /\ pc'[q] # "idle" => event'[q] # 0
                           /\ pc'[q] \in {"check", "create"} <=> todo'[q] # <<>>
  BY <1>9, <1>11 DEF TypeOK, RequestsTyped, Ingest
<1>14. RequestsTyped'
  BY <1>10, <1>11, <1>12, <1>13 DEF RequestsTyped, D
<1> QED
  BY <1>1, <1>3, <1>4, <1>7, <1>14 DEF TypeOK

\* The rows a request that looks for candidates can get, and what it then has to do.
LEMMA DetectGoesOn ==
  ASSUME TypeOK, NEW r \in Requests, Detect(r)
  PROVE  \E ids : /\ Rows(ids, Len(ids)) /\ ToSet(ids) \subseteq Recent(event[r])
                  /\ (Cardinality(Recent(event[r])) <= MAX_CORRELATION_CANDIDATES =>
                        ToSet(ids) = Recent(event[r]))
                  /\ Detections(ids) \in Seq(Evidence)
                  /\ GoOn(r, Detections(ids))
<1>1. EventsTyped
  BY DEF TypeOK, TablesTyped, EventsTyped
<1>2. Recent(event[r]) \in SUBSET DOMAIN events
  BY DEF Recent
<1>3. PICK ids \in Orders(Recent(event[r])) : GoOn(r, Detections(Capped(ids)))
  BY DEF Detect
<1>4. /\ Rows(Capped(ids), Len(Capped(ids))) /\ ToSet(Capped(ids)) \subseteq Recent(event[r])
      /\ (Cardinality(Recent(event[r])) <= MAX_CORRELATION_CANDIDATES =>
            ToSet(Capped(ids)) = Recent(event[r]))
  BY <1>1, <1>2, OrderedRows
<1>5. Detections(Capped(ids)) \in Seq(Evidence)
  BY <1>1, <1>4, DetectionsAre
<1> QED
  BY <1>3, <1>4, <1>5

LEMMA TypeOKInit == Init => TypeOK
<1> SUFFICES ASSUME Init PROVE TypeOK
  OBVIOUS
<1>1. <<>> \in Seq(Telemetry) /\ Len(<<>>) = 0 /\ DOMAIN <<>> = {}
  BY EmptySeq
<1>2. TablesTyped
  <2>1. alerts \in Seq([rule : Rules, evidence : SUBSET DOMAIN events, seen : Nat])
    BY EmptySeq DEF Init
  <2>2. events \in Seq(Telemetry) /\ Len(events) <= MaxEvents
    BY <1>1, PipelineConstants DEF Init
  <2>3. \A i \in DOMAIN alerts : alerts[i].seen < i
    BY <1>1 DEF Init
  <2> QED
    BY <2>1, <2>2, <2>3 DEF TablesTyped
<1>3. RequestsTyped
  <2>1. todo \in [Requests -> Seq(Evidence)]
    <3>1. <<>> \in Seq(Evidence)
      BY EmptySeq
    <3> DEFINE D == Seq(Evidence)
    <3> HIDE DEF D
    <3>2. todo \in [Requests -> D]
      BY <3>1 DEF Init, D
    <3> QED
      BY <3>2 DEF D
  <2>2. Len(events) = 0 /\ Len(alerts) = 0
    BY <1>1 DEF Init
  <2>3. /\ pc \in [Requests -> Phases] /\ event \in [Requests -> 0..Len(events)]
        /\ seen \in [Requests -> 0..Len(alerts)]
        /\ loaded \in [Requests -> BOOLEAN] /\ missed \in BOOLEAN
    <3> DEFINE m == Len(events)
               n == Len(alerts)
    <3>1. 0 \in 0..m /\ 0 \in 0..n
      BY <2>2
    <3> HIDE DEF m, n
    <3>2. event \in [Requests -> 0..m] /\ seen \in [Requests -> 0..n]
      BY <3>1 DEF Init
    <3>3. pc \in [Requests -> Phases]
      BY DEF Init, Phases
    <3>4. loaded \in [Requests -> BOOLEAN] /\ missed \in BOOLEAN
      BY DEF Init
    <3> QED
      BY <3>2, <3>3, <3>4 DEF m, n
  <2>4. \A r \in Requests : /\ pc[r] # "idle" => event[r] # 0
                            /\ pc[r] \in {"check", "create"} <=> todo[r] # <<>>
    BY DEF Init
  <2> QED
    BY <2>1, <2>3, <2>4 DEF RequestsTyped
<1> QED
  BY <1>2, <1>3 DEF TypeOK

LEMMA TypeOKNext == TypeOK /\ [Next \/ AtBound]_vars => TypeOK'
<1> SUFFICES ASSUME TypeOK, [Next \/ AtBound]_vars PROVE TypeOK'
  OBVIOUS
<1>1. RequestsTyped /\ TablesTyped /\ Len(alerts) \in Nat
  BY LenProperties DEF TypeOK, TablesTyped
<1>2. CASE AtBound \/ UNCHANGED vars
  <2>1. UNCHANGED vars
    BY <1>2 DEF AtBound
  <2>2. TablesTyped'
    BY <1>1, <2>1 DEF vars, TablesTyped
  <2>3. Evidence' = Evidence
    BY <2>1, SameEvidence DEF vars
  <2>4. RequestsTyped'
    BY <1>1, <2>1, <2>3 DEF vars, control, RequestsTyped
  <2> QED
    BY <2>2, <2>4 DEF TypeOK
<1>3. ASSUME NEW r \in Requests, NEW e \in Telemetry, Ingest(r, e) PROVE TypeOK'
  BY <1>3, IngestTyped
\* A step that leaves the tables alone.
<1>4. ASSUME UNCHANGED <<events, alerts>>, missed' \in BOOLEAN, loaded' \in [Requests -> BOOLEAN]
      PROVE  TablesTyped' /\ Grown
  <2>1. TablesTyped'
    BY <1>1, <1>4 DEF TablesTyped
  <2> QED
    BY <1>1, <1>4, <2>1 DEF Grown
<1>5. ASSUME NEW r \in Requests, Detect(r) PROVE TypeOK'
  <2>1. PICK ids : Detections(ids) \in Seq(Evidence) /\ GoOn(r, Detections(ids))
    BY <1>5, DetectGoesOn
  <2>2. TablesTyped' /\ Grown
    BY <1>1, <1>4, <1>5 DEF Detect, RequestsTyped
  <2>3. pc[r] # "idle" /\ event' = event
    BY <1>5 DEF Detect
  <2> QED
    BY <1>1, <2>1, <2>2, <2>3, GoOnTyped DEF TypeOK
<1>6. ASSUME NEW r \in Requests, Check(r) PROVE TypeOK'
  <2>1. TablesTyped' /\ Grown
    BY <1>1, <1>4, <1>6 DEF Check, RequestsTyped
  <2>2. pc[r] \in {"check", "create"} /\ pc[r] # "idle" /\ event' = event
    BY <1>6 DEF Check
  <2>3. CASE GoOn(r, Tail(todo[r]))
    BY <1>1, <2>1, <2>2, <2>3, NextDetection, GoOnTyped DEF TypeOK
  <2>4. CASE /\ pc' = [pc EXCEPT ![r] = "create"]
             /\ seen' = [seen EXCEPT ![r] = Len(alerts)]
             /\ todo' = todo
    <3> DEFINE D == Seq(Evidence)
    <3>1. D' = D
      BY <2>1, SameEvidence DEF Grown
    <3>2. todo \in [Requests -> D]
      BY <1>1 DEF RequestsTyped
    <3> HIDE DEF D
    <3>3. todo' \in [Requests -> D']
      BY <2>4, <3>1, <3>2
    <3>4. seen' \in [Requests -> 0..Len(alerts')] /\ pc' \in [Requests -> Phases]
          /\ event' \in [Requests -> 0..Len(events')]
      BY <1>1, <1>6, <2>4 DEF RequestsTyped, Phases, Check
    <3>5. \A q \in Requests : /\ pc'[q] # "idle" => event'[q] # 0
                              /\ pc'[q] \in {"check", "create"} <=> todo'[q] # <<>>
      BY <1>1, <2>2, <2>4 DEF RequestsTyped
    <3> QED
      BY <2>1, <3>3, <3>4, <3>5 DEF TypeOK, RequestsTyped, Grown, D
  <2> QED
    BY <1>6, <2>3, <2>4 DEF Check
<1>7. ASSUME NEW r \in Requests, Create(r) PROVE TypeOK'
  <2>1. Add(r) /\ events' = events /\ event' = event /\ pc[r] = "create"
        /\ GoOn(r, Tail(todo[r]))
    BY <1>7 DEF Create, Add, Accepted
  <2>2. TablesTyped' /\ Len(alerts') = Len(alerts) + 1
    BY <2>1, AlertAdded
  <2>3. Grown
    BY <1>1, <1>7, <2>1, <2>2 DEF Grown, Create, RequestsTyped
  <2> QED
    BY <1>1, <2>1, <2>2, <2>3, NextDetection, GoOnTyped DEF TypeOK
<1>8. ASSUME NEW r \in Requests, RefreshFails(r) PROVE TypeOK'
  <2>1. Add(r) /\ events' = events /\ pc[r] # "idle" /\ Caught(r, FALSE)
    BY <1>8 DEF RefreshFails, Add, Accepted, Caught
  <2>2. TablesTyped' /\ Len(alerts') = Len(alerts) + 1
    BY <2>1, AlertAdded
  <2>3. Grown
    BY <1>1, <2>1, <2>2 DEF Grown, Caught, RequestsTyped
  <2> QED
    BY <1>1, <2>1, <2>2, <2>3, CaughtTyped DEF TypeOK
<1>9. ASSUME NEW r \in Requests, SelectFails(r) \/ FlushFails(r) PROVE TypeOK'
  <2>1. PICK b \in BOOLEAN : Caught(r, b)
    BY <1>1, <1>9 DEF SelectFails, FlushFails, RequestsTyped
  <2>2. pc[r] # "idle" /\ events' = events /\ alerts' = alerts
    BY <1>9 DEF SelectFails, FlushFails, Accepted, Caught
  <2>3. loaded' \in [Requests -> BOOLEAN] /\ missed' \in BOOLEAN
    BY <1>1, <2>1 DEF Caught, RequestsTyped
  <2>4. TablesTyped' /\ Grown
    BY <1>4, <2>2, <2>3
  <2> QED
    BY <1>1, <2>1, <2>2, <2>4, CaughtTyped DEF TypeOK
<1>10. ASSUME NEW r \in Requests, Respond(r) \/ AnswerError(r) \/ Crash(r) PROVE TypeOK'
  <2>1. End(r) /\ events' = events /\ alerts' = alerts
    BY <1>10 DEF Respond, AnswerError, Crash
  <2>2. loaded' \in [Requests -> BOOLEAN] /\ missed' \in BOOLEAN
    BY <1>1, <1>10, <2>1 DEF End, RequestsTyped, Respond, AnswerError, Crash
  <2>3. TablesTyped' /\ Grown
    BY <1>4, <2>1, <2>2
  <2> QED
    BY <1>1, <2>1, <2>3, EndTyped DEF TypeOK
<1>11. ASSUME NEW r \in Requests, Refuse(r) PROVE TypeOK'
  <2>1. pc[r] = "create" /\ events' = events /\ alerts' = alerts
    BY <1>11 DEF Refuse, Caught
  <2>2. loaded' \in [Requests -> BOOLEAN] /\ missed' \in BOOLEAN
    BY <1>1, <1>11 DEF Refuse, Caught, RequestsTyped
  <2>3. TablesTyped' /\ Grown
    BY <1>4, <2>1, <2>2
  <2>4. CASE GoOn(r, Tail(todo[r])) /\ event' = event
    BY <1>1, <2>1, <2>3, <2>4, NextDetection, GoOnTyped DEF TypeOK
  <2>5. CASE Caught(r, FALSE)
    BY <1>1, <2>1, <2>3, <2>5, CaughtTyped DEF TypeOK
  <2> QED
    BY <1>11, <2>4, <2>5 DEF Refuse
<1> QED
  BY <1>2, <1>3, <1>5, <1>6, <1>7, <1>8, <1>9, <1>10, <1>11 DEF Next

\* Whatever the rules report, an alert and a detection in hand name a rule of the engine and
\* events of the table, and a request holds detections exactly while it checks and creates.
THEOREM Typed == Spec => []TypeOK
BY TypeOKInit, TypeOKNext, PTL DEF Spec

-----------------------------------------------------------------------------
(* Justification *)

\* What a request has still to turn into alerts is justified too.
EvidenceInv ==
  /\ \A r \in Requests : \A d \in ToSet(todo[r]) : Justified(d)
  /\ EvidenceJustifies

\* The events already there do not change.
EventsKept == \A e \in DOMAIN events : e \in DOMAIN events' /\ events'[e] = events[e]

LEMMA BurstStays ==
  ASSUME EventsKept, NEW B \in SUBSET DOMAIN events
  PROVE  /\ Burst(B)' <=> Burst(B)
         /\ Alike(B)' <=> Alike(B)
<1>1. \A e \in B : events'[e] = events[e]
  BY DEF EventsKept
<1>2. \A e \in B : (Correlatable(e)' <=> Correlatable(e)) /\ Identity(e)' = Identity(e)
  BY <1>1 DEF Correlatable, Identity
<1>3. Burst(B)' <=> Burst(B)
  BY <1>1, <1>2 DEF Burst
<1>4. Alike(B)' <=> Alike(B)
  BY <1>1 DEF Alike
<1> QED
  BY <1>3, <1>4

LEMMA JustifiedStays ==
  ASSUME EventsKept, NEW d, d.evidence \subseteq DOMAIN events, Justified(d)
  PROVE  Justified(d)'
<1>1. CASE d.rule = BruteForce
  <2> DEFINE B == d.evidence
  <2>1. Burst(B) /\ Cardinality(B) = threshold /\ B \in SUBSET DOMAIN events
    BY <1>1 DEF Justified
  <2> HIDE DEF B
  <2>2. Burst(B)'
    BY <2>1, BurstStays
  <2> QED
    BY <1>1, <2>1, <2>2 DEF Justified, B
<1>2. CASE d.rule # BruteForce
  BY <1>2 DEF Justified, EventsKept
<1> QED
  BY <1>1, <1>2

\* Every detection of the rules is justified.
LEMMA DetectionsJustified ==
  ASSUME EventsTyped, NEW n, NEW ids, Rows(ids, n), NEW d \in ToSet(Detections(ids))
  PROVE  Justified(d)
<1>1. CASE \E pair \in ToSet(Pairs) : /\ Window(Group(ids, pair)) # {}
                                      /\ d = BurstDetection(Window(Group(ids, pair)))
  <2>1. PICK pair : Window(Group(ids, pair)) # {} /\ d = BurstDetection(Window(Group(ids, pair)))
    BY <1>1
  <2> DEFINE g == Group(ids, pair)
  <2>2. Rows(g, Len(g)) /\ \A k \in 1..Len(g) : Correlatable(g[k]) /\ Identity(g[k]) = pair
    BY GroupRows
  <2>3. Window(g) # {} /\ d.rule = BruteForce /\ d.evidence = Window(g)
    BY <2>1 DEF BurstDetection
  <2> HIDE DEF g
  <2>4. Burst(Window(g)) /\ Cardinality(Window(g)) = threshold
    BY <2>2, <2>3, WindowIsABurst
  <2> QED
    BY <2>3, <2>4 DEF Justified
<1>2. CASE \E p \in ToSet(Patterns), e \in ToSet(ids) :
             p \in events[e].matches /\ d = MatchDetection(p, e)
  <2>1. PICK p \in ToSet(Patterns), e \in ToSet(ids) :
               p \in events[e].matches /\ d = MatchDetection(p, e)
    BY <1>2
  <2>2. p # BruteForce /\ d.rule = p /\ d.evidence = {e}
    BY <2>1, PipelineConstants DEF MatchDetection
  <2> QED
    BY <2>1, <2>2 DEF Justified
<1> QED
  BY <1>1, <1>2, DetectionsAre

\* What is added is justified; what was there stays so.
LEMMA EvidenceStep ==
  ASSUME EventsKept,
         \A q \in Requests : \A d \in ToSet(todo'[q]) : d \in Evidence /\ Justified(d),
         \A i \in DOMAIN alerts' :
           \E d : d.evidence \subseteq DOMAIN events /\ Justified(d)
                  /\ alerts'[i].rule = d.rule /\ alerts'[i].evidence = d.evidence
  PROVE  EvidenceInv'
<1>1. ASSUME NEW q \in Requests, NEW d \in ToSet(todo'[q]) PROVE Justified(d)'
  <2>1. d \in Evidence /\ Justified(d)
    OBVIOUS
  <2>2. d.evidence \subseteq DOMAIN events
    BY <2>1 DEF Evidence
  <2> QED
    BY <2>1, <2>2, JustifiedStays
<1>2. ASSUME NEW i \in DOMAIN alerts' PROVE Justified(alerts[i])'
  <2>1. PICK d : /\ d.evidence \subseteq DOMAIN events /\ Justified(d)
                 /\ alerts'[i].rule = d.rule /\ alerts'[i].evidence = d.evidence
    OBVIOUS
  <2>2. Justified(d)'
    BY <2>1, JustifiedStays
  <2> QED
    BY <2>1, <2>2 DEF Justified
<1> QED
  BY <1>1, <1>2 DEF EvidenceInv, EvidenceJustifies, ToSet

LEMMA EvidenceInvNext ==
  TypeOK /\ EvidenceInv /\ [Next \/ AtBound]_vars => EvidenceInv'
<1> SUFFICES ASSUME TypeOK, EvidenceInv, [Next \/ AtBound]_vars PROVE EvidenceInv'
  OBVIOUS
<1>1. EventsTyped /\ RequestsTyped
  BY DEF TypeOK, TablesTyped, EventsTyped
<1>2. \A r \in Requests : \A d \in ToSet(todo[r]) : d \in Evidence /\ Justified(d)
  <2> SUFFICES ASSUME NEW r \in Requests, NEW d \in ToSet(todo[r]) PROVE d \in Evidence
    BY DEF EvidenceInv
  <2>1. todo[r] \in Seq(Evidence)
    BY <1>1 DEF RequestsTyped
  <2> QED
    BY <2>1, LenProperties DEF ToSet
<1>3. \A i \in DOMAIN alerts : alerts[i].evidence \subseteq DOMAIN events /\ Justified(alerts[i])
  <2> SUFFICES ASSUME NEW i \in DOMAIN alerts PROVE alerts[i].evidence \subseteq DOMAIN events
    BY DEF EvidenceInv, EvidenceJustifies
  <2> DEFINE A == [rule : Rules, evidence : SUBSET DOMAIN events, seen : Nat]
  <2>1. alerts \in Seq(A)
    BY DEF TypeOK, TablesTyped
  <2> HIDE DEF A
  <2>2. alerts[i] \in A
    BY <2>1, LenProperties
  <2> QED
    BY <2>2 DEF A
<1>4. ASSUME events' = events PROVE EventsKept
  BY <1>4 DEF EventsKept
<1>5. ToSet(<<>>) = {}
  BY DEF ToSet
\* A step that adds neither alerts nor detections.
<1>6. ASSUME EventsKept, alerts' = alerts,
             \A q \in Requests : ToSet(todo'[q]) \subseteq ToSet(todo[q])
      PROVE  EvidenceInv'
  <2>1. \A q \in Requests : \A d \in ToSet(todo'[q]) : d \in Evidence /\ Justified(d)
    BY <1>2, <1>6
  <2>2. \A i \in DOMAIN alerts' : \E d : d.evidence \subseteq DOMAIN events /\ Justified(d)
             /\ alerts'[i].rule = d.rule /\ alerts'[i].evidence = d.evidence
    BY <1>3, <1>6
  <2> QED
    BY <1>6, <2>1, <2>2, EvidenceStep
\* A step that adds the alert of the next detection.
<1>7. ASSUME NEW r \in Requests, Add(r), events' = events,
             \A q \in Requests : ToSet(todo'[q]) \subseteq ToSet(todo[q])
      PROVE  EvidenceInv'
  <2> DEFINE d == Head(todo[r])
             n == Len(alerts)
  <2>1. d \in Evidence /\ Justified(d)
    BY <1>1, <1>2, <1>7, NextDetection DEF Add, Accepted
  <2>2. d.evidence \subseteq DOMAIN events
    BY <2>1 DEF Evidence
  <2>3. /\ n \in Nat /\ DOMAIN alerts = 1..n /\ DOMAIN alerts' = 1..n + 1
        /\ \A i \in 1..n : alerts'[i] = alerts[i]
        /\ alerts'[n + 1].rule = d.rule /\ alerts'[n + 1].evidence = d.evidence
    BY <1>7, AlertAdded
  <2>4. 1..n + 1 = (1..n) \cup {n + 1}
    BY <2>3
  <2>5. \A q \in Requests : \A x \in ToSet(todo'[q]) : x \in Evidence /\ Justified(x)
    BY <1>2, <1>7
  <2> HIDE DEF d, n
  <2>6. \A i \in DOMAIN alerts' : \E x : x.evidence \subseteq DOMAIN events /\ Justified(x)
             /\ alerts'[i].rule = x.rule /\ alerts'[i].evidence = x.evidence
    BY <1>3, <2>1, <2>2, <2>3, <2>4
  <2> QED
    BY <1>4, <1>7, <2>5, <2>6, EvidenceStep
<1>8. ASSUME NEW r \in Requests, pc[r] \in {"check", "create"}, GoOn(r, Tail(todo[r]))
      PROVE  \A q \in Requests : ToSet(todo'[q]) \subseteq ToSet(todo[q])
  BY <1>1, <1>8, NextDetection DEF GoOn, RequestsTyped
<1>9. ASSUME NEW r \in Requests, NEW b, Caught(r, b) \/ End(r)
      PROVE  \A q \in Requests : ToSet(todo'[q]) \subseteq ToSet(todo[q])
  BY <1>1, <1>5, <1>9 DEF Caught, End, RequestsTyped
<1>10. CASE AtBound \/ UNCHANGED vars
  BY <1>4, <1>6, <1>10 DEF AtBound, vars, control
<1>11. ASSUME NEW r \in Requests, NEW e \in Telemetry, Ingest(r, e) PROVE EvidenceInv'
  <2>1. EventsKept
    BY <1>11, IngestTyped DEF EventsKept
  <2> QED
    BY <1>6, <1>11, <2>1 DEF Ingest
<1>12. ASSUME NEW r \in Requests, Detect(r) PROVE EvidenceInv'
  <2>1. PICK ids : /\ Rows(ids, Len(ids)) /\ Detections(ids) \in Seq(Evidence)
                   /\ GoOn(r, Detections(ids))
    BY <1>12, DetectGoesOn
  <2>2. \A d \in ToSet(Detections(ids)) : d \in Evidence /\ Justified(d)
    <3>1. \A d \in ToSet(Detections(ids)) : d \in Evidence
      BY <2>1, LenProperties DEF ToSet
    <3> QED
      BY <1>1, <2>1, <3>1, DetectionsJustified
  <2>3. \A q \in Requests : \A d \in ToSet(todo'[q]) : d \in Evidence /\ Justified(d)
    BY <1>1, <1>2, <2>1, <2>2 DEF GoOn, RequestsTyped
  <2>4. \A i \in DOMAIN alerts' : \E d : d.evidence \subseteq DOMAIN events /\ Justified(d)
             /\ alerts'[i].rule = d.rule /\ alerts'[i].evidence = d.evidence
    BY <1>3, <1>12 DEF Detect
  <2> QED
    BY <1>4, <1>12, <2>3, <2>4, EvidenceStep DEF Detect
<1>13. ASSUME NEW r \in Requests, Check(r) PROVE EvidenceInv'
  <2>1. \A q \in Requests : ToSet(todo'[q]) \subseteq ToSet(todo[q])
    BY <1>8, <1>13 DEF Check
  <2> QED
    BY <1>4, <1>6, <1>13, <2>1 DEF Check
<1>14. ASSUME NEW r \in Requests, Create(r) PROVE EvidenceInv'
  <2>1. Add(r) /\ events' = events /\ pc[r] = "create" /\ GoOn(r, Tail(todo[r]))
    BY <1>14 DEF Create, Add, Accepted
  <2> QED
    BY <1>7, <1>8, <2>1
<1>15. ASSUME NEW r \in Requests, RefreshFails(r) PROVE EvidenceInv'
  <2>1. Add(r) /\ events' = events /\ Caught(r, FALSE)
    BY <1>15 DEF RefreshFails, Caught
  <2> QED
    BY <1>7, <1>9, <2>1
<1>16. ASSUME NEW r \in Requests, SelectFails(r) \/ FlushFails(r) PROVE EvidenceInv'
  <2>1. PICK b : Caught(r, b)
    BY <1>16 DEF SelectFails, FlushFails
  <2>2. events' = events /\ alerts' = alerts
    BY <1>16, <2>1 DEF SelectFails, FlushFails, Caught
  <2> QED
    BY <1>4, <1>6, <1>9, <2>1, <2>2
<1>17. ASSUME NEW r \in Requests, Respond(r) \/ AnswerError(r) \/ Crash(r) PROVE EvidenceInv'
  <2>1. End(r) /\ events' = events /\ alerts' = alerts
    BY <1>17 DEF Respond, AnswerError, Crash
  <2> QED
    BY <1>4, <1>6, <1>9, <2>1
<1>18. ASSUME NEW r \in Requests, Refuse(r) PROVE EvidenceInv'
  <2>1. pc[r] = "create" /\ events' = events /\ alerts' = alerts
    BY <1>18 DEF Refuse, Caught
  <2>2. \A q \in Requests : ToSet(todo'[q]) \subseteq ToSet(todo[q])
    BY <1>8, <1>9, <1>18, <2>1 DEF Refuse
  <2> QED
    BY <1>4, <1>6, <2>1, <2>2
<1> QED
  BY <1>10, <1>11, <1>12, <1>13, <1>14, <1>15, <1>16, <1>17, <1>18 DEF Next

\* However requests interleave and fail, the evidence of every alert is what its rule looks
\* for: exactly threshold failures of one pair within a window, or one event that matches.
THEOREM Justification == Spec => []EvidenceJustifies
<1>1. Init => EvidenceInv
  BY DEF Init, EvidenceInv, EvidenceJustifies, ToSet
<1>2. EvidenceInv => EvidenceJustifies
  BY DEF EvidenceInv
<1> QED
  BY <1>1, <1>2, EvidenceInvNext, Typed, PTL DEF Spec

-----------------------------------------------------------------------------
(* Nothing slips through *)

\* Request r has ingested e and may still turn the detection d into an alert.
InHand(r, e, d) ==
  /\ event[r] = e
  /\ \/ pc[r] = "detect"
     \/ pc[r] \in {"check", "create"} /\ d \in ToSet(todo[r])

\* d is an alert or may still become one.
Due(e, d) == Exists(d) \/ \E r \in Requests : InHand(r, e, d)

\* A detection by the failures of e's pair among those e is correlated with.
Concerns(d, e) ==
  d.rule = BruteForce /\ \A f \in d.evidence : Identity(f) = Identity(e) /\ f \in Recent(e)

\* Whatever a rule should report when e is ingested is an alert or still in hand, as
\* long as AlertCreate takes it.
Answered(e) ==
  /\ \A p \in events[e].matches \ events[e].oversized : Due(e, MatchDetection(p, e))
  /\ Sortable(Recent(e)) =>
       \A B \in SUBSET DOMAIN events :
         Burst(B) /\ Alike(B) /\ Max(B) = e => \E d : Concerns(d, e) /\ Due(e, d)

SlipInv ==
  ~missed => \A e \in DOMAIN events :
               Cardinality(Recent(e)) <= MAX_CORRELATION_CANDIDATES => Answered(e)

\* A burst in one spelling lies in what its last event is correlated with.
LEMMA BurstIsRecent ==
  ASSUME EventsTyped, NEW B \in SUBSET DOMAIN events, Burst(B), Alike(B)
  PROVE  /\ Max(B) \in B /\ B \subseteq Recent(Max(B))
         /\ \A f \in B : f <= Max(B) /\ Correlatable(f) /\ Identity(f) = Identity(Max(B))
<1>1. Max(B) \in B /\ \A f \in B : f <= Max(B)
  <2>1. B # {} /\ Len(events) \in Nat /\ DOMAIN events = 1..Len(events)
    BY LenProperties DEF Burst, EventsTyped
  <2>2. B \in SUBSET (0..Len(events))
    BY <2>1
  <2> QED
    BY <2>1, <2>2, LastIndex
<1>2. ASSUME NEW f \in B
      PROVE  f \in Recent(Max(B)) /\ Correlatable(f) /\ Identity(f) = Identity(Max(B))
  <2> DEFINE e == Max(B)
  <2>0. e \in B /\ e \in DOMAIN events /\ f \in DOMAIN events
    BY <1>1
  <2> HIDE DEF e
  <2>1. /\ Correlatable(f) /\ Correlatable(e) /\ Identity(f) = Identity(e)
        /\ events[e].at - events[f].at <= window_seconds
    BY <2>0 DEF Burst
  <2>2. events[e].at \in Int /\ events[f].at \in Int /\ window_seconds \in Int
    BY <2>0, TypedEvent, WindowConstants
  <2>3. events[f].at >= events[e].at - window_seconds
    BY <2>1, <2>2
  <2>4. events[f].event_type = events[e].event_type
    BY <2>0 DEF Alike
  <2>5. f \in Recent(e)
    BY <2>0, <2>3, <2>4 DEF Recent
  <2> QED
    BY <2>1, <2>5 DEF e
<1> QED
  BY <1>1, <1>2

\* The rules miss nothing in the rows that e is to be correlated with.
LEMMA DetectionsAnswer ==
  ASSUME EventsTyped, NEW e \in DOMAIN events,
         NEW n, NEW ids, Rows(ids, n), ToSet(ids) = Recent(e)
  PROVE  /\ \A p \in events[e].matches : MatchDetection(p, e) \in ToSet(Detections(ids))
         /\ Sortable(Recent(e)) =>
              \A B \in SUBSET DOMAIN events :
                Burst(B) /\ Alike(B) /\ Max(B) = e =>
                  \E d \in ToSet(Detections(ids)) : Concerns(d, e)
<1>1. ASSUME NEW p \in events[e].matches PROVE MatchDetection(p, e) \in ToSet(Detections(ids))
  <2>1. p \in ToSet(Patterns) /\ events[e].at \in Int /\ window_seconds \in Nat
    BY TypedEvent, WindowConstants
  <2>2. e \in ToSet(ids)
    BY <2>1 DEF Recent
  <2> QED
    BY <2>1, <2>2, DetectionsAre
<1>2. ASSUME Sortable(Recent(e)), NEW B \in SUBSET DOMAIN events, Burst(B), Alike(B), Max(B) = e
      PROVE  \E d \in ToSet(Detections(ids)) : Concerns(d, e)
  <2> DEFINE pair == Identity(e)
             g == Group(ids, pair)
             m == Len(g)
  <2>1. pair \in ToSet(Pairs)
    BY TypedEvent
  <2>2. /\ Rows(g, m)
        /\ \A f : f \in ToSet(g) <=> f \in ToSet(ids) /\ Correlatable(f) /\ Identity(f) = pair
        /\ \A k \in 1..m : Correlatable(g[k]) /\ Identity(g[k]) = pair
    <3> HIDE DEF pair
    <3> QED
      BY GroupRows
  <2>3. B \in SUBSET ToSet(g)
    <3> HIDE DEF g, m
    <3> QED
      BY <1>2, <2>2, BurstIsRecent
  <2> HIDE DEF g, m, pair
  <2>4. Window(g) # {}
    BY <1>2, <2>2, <2>3, BurstHasAWindow
  <2>5. Window(g) \subseteq ToSet(g)
    BY <2>2, <2>4, WindowIsABurst
  <2> DEFINE d == BurstDetection(Window(g))
  <2>6. Sortable(ToSet(ids))
    BY <1>2
  <2>7. d \in ToSet(Detections(ids))
    BY <2>1, <2>4, <2>6, DetectionsAre DEF g
  <2>8. Concerns(d, e)
    BY <2>2, <2>5 DEF Concerns, BurstDetection, pair
  <2> QED
    BY <2>7, <2>8
<1> QED
  BY <1>1, <1>2

\* A burst's few columns always fit.
LEMMA BurstIsAccepted ==
  ASSUME EventsTyped, NEW e, NEW d, Concerns(d, e)
  PROVE  ~Refused(d)
<1> SUFFICES ASSUME NEW f \in d.evidence PROVE d.rule \notin events[f].oversized
  BY DEF Refused
<1>1. d.rule = BruteForce /\ f \in DOMAIN events
  BY DEF Concerns, Recent
<1>2. events[f].oversized \subseteq ToSet(Patterns)
  BY <1>1, TypedEvent
<1> QED
  BY <1>1, <1>2, PipelineConstants

\* Unless a request fails or it is the detection of e itself, what is due stays due, if
\* AlertCreate takes it.
LEMMA DueStays ==
  ASSUME TypeOK, [Next \/ AtBound]_vars, ~missed', NEW e, NEW d, Due(e, d), ~Refused(d),
         \A r \in Requests : Detect(r) => event[r] # e
  PROVE  Due(e, d)'
<1>0. RequestsTyped
  BY DEF TypeOK
\* The table keeps its alerts.
<1>1. ASSUME alerts' = alerts,
             NEW r \in Requests, \A q \in Requests \ {r} : /\ pc'[q] = pc[q] /\ event'[q] = event[q]
                                                          /\ todo'[q] = todo[q],
             InHand(r, e, d) => Exists(d) \/ InHand(r, e, d)'
      PROVE  Due(e, d)'
  <2>1. Exists(d) => Exists(d)'
    BY <1>1 DEF Exists
  <2>2. ASSUME NEW q \in Requests \ {r}, InHand(q, e, d) PROVE InHand(q, e, d)'
    BY <1>1, <2>2 DEF InHand
  <2> QED
    BY <1>1, <2>1, <2>2 DEF Due
<1>2. CASE AtBound \/ UNCHANGED vars
  BY <1>2 DEF AtBound, vars, control, Due, Exists, InHand
<1>3. ASSUME NEW r \in Requests, NEW x \in Telemetry, Ingest(r, x) PROVE Due(e, d)'
  <2>1. ~InHand(r, e, d)
    BY <1>3 DEF Ingest, InHand
  <2>2. \A q \in Requests \ {r} : pc'[q] = pc[q] /\ event'[q] = event[q] /\ todo'[q] = todo[q]
    BY <1>0, <1>3 DEF Ingest, RequestsTyped
  <2> QED
    BY <1>1, <1>3, <2>1, <2>2 DEF Ingest
<1>4. ASSUME NEW r \in Requests, Detect(r) PROVE Due(e, d)'
  <2>1. ~InHand(r, e, d)
    BY <1>4 DEF InHand
  <2>2. \A q \in Requests \ {r} : pc'[q] = pc[q] /\ event'[q] = event[q] /\ todo'[q] = todo[q]
    BY <1>0, <1>4 DEF Detect, GoOn, RequestsTyped
  <2> QED
    BY <1>1, <1>4, <2>1, <2>2 DEF Detect
<1>5. ASSUME NEW r \in Requests, Check(r) PROVE Due(e, d)'
  <2>1. \A q \in Requests \ {r} : pc'[q] = pc[q] /\ event'[q] = event[q] /\ todo'[q] = todo[q]
    BY <1>0, <1>5 DEF Check, GoOn, RequestsTyped
  <2>2. pc[r] = "check" /\ alerts' = alerts /\ event' = event
    BY <1>5 DEF Check
  <2>3. ASSUME InHand(r, e, d) PROVE Exists(d) \/ InHand(r, e, d)'
    <3>1. event'[r] = e /\ d \in ToSet(todo[r])
      BY <2>2, <2>3 DEF InHand
    <3>2. CASE Exists(Head(todo[r])) /\ GoOn(r, Tail(todo[r]))
      <4>1. CASE d \in ToSet(Tail(todo[r]))
        <5>1. ToSet(<<>>) = {}
          BY DEF ToSet
        <5>2. Tail(todo[r]) # <<>>
          BY <4>1, <5>1
        <5>3. pc'[r] = "check" /\ todo'[r] = Tail(todo[r])
          BY <1>0, <3>2, <5>2 DEF GoOn, RequestsTyped
        <5> QED
          BY <3>1, <4>1, <5>3 DEF InHand
      <4>2. CASE d = Head(todo[r])
        BY <3>2, <4>2
      <4> QED
        BY <1>0, <2>2, <3>1, <4>1, <4>2, NextDetection
    <3>3. CASE pc' = [pc EXCEPT ![r] = "create"] /\ todo' = todo
      <4>1. pc'[r] = "create" /\ todo'[r] = todo[r]
        BY <1>0, <3>3 DEF RequestsTyped
      <4> QED
        BY <3>1, <4>1 DEF InHand
    <3> QED
      BY <1>5, <3>2, <3>3 DEF Check
  <2> QED
    BY <1>1, <2>1, <2>2, <2>3
<1>6. ASSUME NEW r \in Requests, Create(r) PROVE Due(e, d)'
  <2> DEFINE n == Len(alerts)
  <2>0. Add(r) /\ events' = events /\ pc[r] = "create" /\ event' = event /\ GoOn(r, Tail(todo[r]))
    BY <1>6 DEF Create, Add, Accepted
  <2>1. /\ n \in Nat /\ DOMAIN alerts = 1..n /\ DOMAIN alerts' = 1..n + 1
        /\ \A i \in 1..n : alerts'[i] = alerts[i]
        /\ alerts'[n + 1].rule = Head(todo[r]).rule
        /\ alerts'[n + 1].evidence = Head(todo[r]).evidence
    BY <2>0, AlertAdded
  <2>2. n + 1 \in DOMAIN alerts' /\ 1..n \subseteq DOMAIN alerts'
    BY <2>1
  <2> HIDE DEF n
  <2>3. Exists(d) => Exists(d)'
    BY <2>1, <2>2 DEF Exists
  <2>4. \A q \in Requests \ {r} : pc'[q] = pc[q] /\ event'[q] = event[q] /\ todo'[q] = todo[q]
    BY <1>0, <2>0 DEF GoOn, RequestsTyped
  <2>5. ASSUME InHand(r, e, d) PROVE Exists(d)' \/ InHand(r, e, d)'
    <3>1. event'[r] = e /\ d \in ToSet(todo[r])
      BY <2>0, <2>5 DEF InHand
    <3>2. CASE d \in ToSet(Tail(todo[r]))
      <4>1. ToSet(<<>>) = {}
        BY DEF ToSet
      <4>2. Tail(todo[r]) # <<>>
        BY <3>2, <4>1
      <4>3. pc'[r] = "check" /\ todo'[r] = Tail(todo[r])
        BY <1>0, <2>0, <4>2 DEF GoOn, RequestsTyped
      <4> QED
        BY <3>1, <3>2, <4>3 DEF InHand
    <3>3. CASE d = Head(todo[r])
      BY <2>1, <2>2, <3>3 DEF Exists
    <3> QED
      BY <1>0, <2>0, <3>1, <3>2, <3>3, NextDetection
  <2>6. ASSUME NEW q \in Requests \ {r}, InHand(q, e, d) PROVE InHand(q, e, d)'
    BY <2>4, <2>6 DEF InHand
  <2> QED
    BY <2>3, <2>5, <2>6 DEF Due
<1>7. ASSUME NEW r \in Requests, Respond(r) \/ AnswerError(r) \/ Crash(r) PROVE Due(e, d)'
  <2>1. ~InHand(r, e, d) /\ End(r) /\ alerts' = alerts
    BY <1>7 DEF Respond, AnswerError, Crash, InHand
  <2>2. \A q \in Requests \ {r} : pc'[q] = pc[q] /\ event'[q] = event[q] /\ todo'[q] = todo[q]
    BY <1>0, <2>1 DEF End, RequestsTyped
  <2> QED
    BY <1>1, <2>1, <2>2
<1>8. ASSUME NEW r \in Requests, SelectFails(r) \/ FlushFails(r) \/ RefreshFails(r)
      PROVE  FALSE
  BY <1>8 DEF SelectFails, FlushFails, RefreshFails, Caught
\* It is another one that is refused.
<1>9. ASSUME NEW r \in Requests, Refuse(r) PROVE Due(e, d)'
  <2>1. /\ pc[r] = "create" /\ Refused(Head(todo[r])) /\ alerts' = alerts
        /\ event' = event /\ GoOn(r, Tail(todo[r]))
    BY <1>9 DEF Refuse, Caught
  <2>2. \A q \in Requests \ {r} : pc'[q] = pc[q] /\ event'[q] = event[q] /\ todo'[q] = todo[q]
    BY <1>0, <2>1 DEF GoOn, RequestsTyped
  <2>3. ASSUME InHand(r, e, d) PROVE InHand(r, e, d)'
    <3>1. event'[r] = e /\ d \in ToSet(todo[r])
      BY <2>1, <2>3 DEF InHand
    <3>2. d # Head(todo[r])
      BY <2>1
    <3>3. d \in ToSet(Tail(todo[r]))
      BY <1>0, <2>1, <3>1, <3>2, NextDetection
    <3>4. ToSet(<<>>) = {}
      BY DEF ToSet
    <3>5. Tail(todo[r]) # <<>>
      BY <3>3, <3>4
    <3>6. pc'[r] = "check" /\ todo'[r] = Tail(todo[r])
      BY <1>0, <2>1, <3>5 DEF GoOn, RequestsTyped
    <3> QED
      BY <3>1, <3>3, <3>6 DEF InHand
  <2> QED
    BY <1>1, <2>1, <2>2, <2>3
<1> QED
  BY <1>2, <1>3, <1>4, <1>5, <1>6, <1>7, <1>8, <1>9 DEF Next

\* Committed events stay, and later ones only add to what they are correlated with.
LEMMA RecentGrows ==
  ASSUME EventsKept, EventsTyped, EventsTyped', NEW e \in DOMAIN events
  PROVE  /\ Recent(e) \subseteq Recent(e)'
         /\ Cardinality(Recent(e)') <= MAX_CORRELATION_CANDIDATES =>
              Cardinality(Recent(e)) <= MAX_CORRELATION_CANDIDATES
<1>1. Recent(e) \subseteq Recent(e)'
  BY DEF Recent, EventsKept
<1>2. IsFiniteSet(Recent(e)')
  <2>1. Len(events') \in Nat /\ DOMAIN events' = 1..Len(events')
    BY LenProperties DEF EventsTyped
  <2>2. IsFiniteSet(1..Len(events'))
    BY <2>1, FS_Interval
  <2>3. Recent(e)' \subseteq 1..Len(events')
    BY <2>1 DEF Recent
  <2> QED
    BY <2>2, <2>3, FS_Subset
<1> DEFINE a == Cardinality(Recent(e))
           b == Cardinality(Recent(e)')
<1>3. a <= b /\ a \in Nat /\ b \in Nat
  <2>1. IsFiniteSet(Recent(e)) /\ a <= b
    BY <1>1, <1>2, FS_Subset
  <2> QED
    BY <1>2, <2>1, FS_CardinalityType
<1> HIDE DEF a, b
<1>4. b <= MAX_CORRELATION_CANDIDATES => a <= MAX_CORRELATION_CANDIDATES
  BY <1>3, PipelineConstants
<1> QED
  BY <1>1, <1>4 DEF a, b

\* What can be sorted could be sorted when there was less of it.
LEMMA SortableBefore ==
  ASSUME EventsKept, EventsTyped, EventsTyped', NEW e \in DOMAIN events, Sortable(Recent(e))'
  PROVE  Sortable(Recent(e))
<1>1. \A f \in Recent(e) : f \in Recent(e)' /\ events'[f] = events[f]
  BY RecentGrows DEF Recent, EventsKept
<1>2. \A f \in Recent(e) : Correlatable(f)' <=> Correlatable(f)
  BY <1>1 DEF Correlatable
<1> QED
  BY <1>1, <1>2 DEF Sortable

\* An event that was answered stays so.
LEMMA AnsweredStays ==
  ASSUME EventsKept, EventsTyped, EventsTyped', NEW e \in DOMAIN events, Answered(e),
         \A d : Due(e, d) /\ ~Refused(d) => Due(e, d)'
  PROVE  Answered(e)'
<1>1. ASSUME NEW p \in events'[e].matches \ events'[e].oversized
      PROVE  Due(e, MatchDetection(p, e))'
  <2>1. Due(e, MatchDetection(p, e)) /\ ~Refused(MatchDetection(p, e))
    BY DEF EventsKept, Answered, Refused, MatchDetection
  <2>2. Due(e, MatchDetection(p, e))'
    BY <2>1 DEF MatchDetection
  <2> QED
    BY <2>2
<1>2. ASSUME Sortable(Recent(e))', NEW B \in SUBSET DOMAIN events',
             Burst(B)', Alike(B)', Max(B)' = e
      PROVE  \E d : Concerns(d, e)' /\ Due(e, d)'
  <2>1. B \in SUBSET DOMAIN events
    <3>1. DOMAIN events = 1..Len(events) /\ Len(events) \in Nat
          /\ DOMAIN events' = 1..Len(events') /\ Len(events') \in Nat
      BY LenProperties DEF EventsTyped
    <3>2. B # {} /\ B \in SUBSET (0..Len(events'))
      BY <1>2, <3>1 DEF Burst
    <3>3. \A f \in B : f <= e
      BY <1>2, <3>1, <3>2, LastIndex
    <3> QED
      BY <3>1, <3>3
  <2>2. Burst(B) /\ Alike(B)
    BY <1>2, <2>1, BurstStays
  <2>3. Sortable(Recent(e))
    BY <1>2, SortableBefore
  <2>4. PICK d : Concerns(d, e) /\ Due(e, d)
    BY <1>2, <2>1, <2>2, <2>3 DEF Answered
  <2>5. Concerns(d, e)'
    <3>1. Recent(e) \subseteq Recent(e)' /\ Recent(e) \subseteq DOMAIN events
      BY RecentGrows DEF Recent
    <3> QED
      BY <2>4, <3>1 DEF Concerns, Identity, EventsKept
  <2> QED
    BY <2>4, <2>5, BurstIsAccepted
<1> QED
  BY <1>1, <1>2 DEF Answered

LEMMA SlipInvNext ==
  TypeOK /\ TypeOK' /\ SlipInv /\ [Next \/ AtBound]_vars => SlipInv'
<1> SUFFICES ASSUME TypeOK, TypeOK', SlipInv, [Next \/ AtBound]_vars, ~missed',
                    NEW e \in DOMAIN events',
                    Cardinality(Recent(e)') <= MAX_CORRELATION_CANDIDATES
             PROVE  Answered(e)'
  BY DEF SlipInv
<1>1. EventsTyped /\ EventsTyped' /\ RequestsTyped /\ RequestsTyped'
  BY DEF TypeOK, TablesTyped, EventsTyped
<1>2. EventsKept
  <2>1. ASSUME events' = events PROVE EventsKept
    BY <2>1 DEF EventsKept
  <2>2. ASSUME NEW r \in Requests, NEW x \in Telemetry, Ingest(r, x) PROVE EventsKept
    BY <2>2, IngestTyped DEF EventsKept
  <2>3. ASSUME NEW r \in Requests,
               \/ Detect(r) \/ Check(r) \/ Create(r) \/ Respond(r) \/ Refuse(r)
               \/ SelectFails(r) \/ FlushFails(r) \/ RefreshFails(r) \/ AnswerError(r)
               \/ Crash(r)
        PROVE  events' = events
    BY <2>3 DEF Detect, Check, Create, Respond, Refuse, SelectFails, FlushFails,
                RefreshFails, AnswerError, Crash, Caught
  <2> QED
    BY <2>1, <2>2, <2>3 DEF Next, AtBound, vars
\* No step takes back that a request has ended early.
<1>3. ~missed
  <2>1. ASSUME NEW r \in Requests, SelectFails(r) \/ FlushFails(r) \/ RefreshFails(r)
        PROVE  FALSE
    BY <2>1 DEF SelectFails, FlushFails, RefreshFails, Caught
  <2>2. ASSUME NEW r \in Requests,
               \/ \E x \in Telemetry : Ingest(r, x)
               \/ Detect(r) \/ Check(r) \/ Create(r) \/ Respond(r) \/ Refuse(r)
               \/ AnswerError(r) \/ Crash(r)
        PROVE  ~missed
    BY <2>2 DEF Ingest, Detect, Check, Create, Respond, Refuse, Caught, AnswerError, Crash
  <2> QED
    BY <2>1, <2>2 DEF Next, AtBound, vars
<1>4. CASE e \in DOMAIN events /\ \A r \in Requests : Detect(r) => event[r] # e
  <2>1. Answered(e)
    BY <1>1, <1>2, <1>3, <1>4, RecentGrows DEF SlipInv
  <2>2. \A d : Due(e, d) /\ ~Refused(d) => Due(e, d)'
    BY <1>4, DueStays
  <2> QED
    BY <1>1, <1>2, <1>4, <2>1, <2>2, AnsweredStays
\* The rules are evaluated for e.
<1>5. ASSUME NEW r \in Requests, Detect(r), event[r] = e PROVE Answered(e)'
  <2>0. events' = events /\ event' = event /\ pc[r] = "detect"
    BY <1>5 DEF Detect
  <2>1. e \in DOMAIN events /\ Recent(e)' = Recent(e)
    BY <2>0 DEF Recent
  <2>2. PICK ids : /\ Rows(ids, Len(ids)) /\ ToSet(ids) = Recent(e)
                   /\ GoOn(r, Detections(ids))
    BY <1>5, <2>1, DetectGoesOn
  <2>3. ASSUME NEW d \in ToSet(Detections(ids)) PROVE Due(e, d)'
    <3>1. Detections(ids) # <<>>
      BY DEF ToSet
    <3>2. pc'[r] = "check" /\ todo'[r] = Detections(ids)
      BY <1>1, <2>2, <3>1 DEF GoOn, RequestsTyped
    <3> QED
      BY <1>5, <2>0, <3>2 DEF Due, InHand
  <2>4. /\ \A p \in events[e].matches : MatchDetection(p, e) \in ToSet(Detections(ids))
        /\ Sortable(Recent(e)) =>
             \A B \in SUBSET DOMAIN events :
               Burst(B) /\ Alike(B) /\ Max(B) = e =>
                 \E d \in ToSet(Detections(ids)) : Concerns(d, e)
    BY <1>1, <2>1, <2>2, DetectionsAnswer
  <2>5. ASSUME NEW p \in events'[e].matches \ events'[e].oversized
        PROVE  Due(e, MatchDetection(p, e))'
    <3>1. MatchDetection(p, e) \in ToSet(Detections(ids))
      BY <2>0, <2>4
    <3>2. Due(e, MatchDetection(p, e))'
      BY <2>3, <3>1 DEF MatchDetection
    <3> QED
      BY <3>2
  <2>6. ASSUME Sortable(Recent(e))', NEW B \in SUBSET DOMAIN events',
               Burst(B)', Alike(B)', Max(B)' = e
        PROVE  \E d : Concerns(d, e)' /\ Due(e, d)'
    <3>1. Sortable(Recent(e)) /\ B \in SUBSET DOMAIN events /\ Burst(B) /\ Alike(B) /\ Max(B) = e
      <4>1. Sortable(Recent(e))
        BY <1>1, <1>2, <2>1, <2>6, SortableBefore
      <4>2. Burst(B) /\ Alike(B)
        BY <1>2, <2>0, <2>6, BurstStays
      <4> QED
        BY <2>0, <2>6, <4>1, <4>2
    <3>2. PICK d \in ToSet(Detections(ids)) : Concerns(d, e)
      BY <2>4, <3>1
    <3>3. Concerns(d, e)'
      BY <2>0, <2>1, <3>2 DEF Concerns, Identity
    <3> QED
      BY <2>3, <3>2, <3>3
  <2> QED
    BY <2>5, <2>6 DEF Answered
\* e is the event just ingested.
<1>6. CASE e \notin DOMAIN events
  <2>1. PICK r \in Requests : \E x \in Telemetry : Ingest(r, x)
    <3>1. ASSUME NEW r \in Requests,
                 \/ Detect(r) \/ Check(r) \/ Create(r) \/ Respond(r) \/ Refuse(r)
                 \/ SelectFails(r) \/ FlushFails(r) \/ RefreshFails(r) \/ AnswerError(r)
                 \/ Crash(r)
          PROVE  FALSE
      BY <1>6, <3>1 DEF Detect, Check, Create, Respond, Refuse, SelectFails, FlushFails,
                  RefreshFails, AnswerError, Crash, Caught
    <3> QED
      BY <1>6, <3>1 DEF Next, AtBound, vars
  <2>2. PICK x \in Telemetry : Ingest(r, x)
    BY <2>1
  <2>3. e = Len(events) + 1
    BY <1>6, <2>2, IngestTyped
  <2>4. event'[r] = e /\ pc'[r] = "detect"
    BY <1>1, <2>2, <2>3 DEF Ingest, RequestsTyped
  <2>5. \A d : Due(e, d)'
    BY <2>4 DEF Due, InHand
  <2>6. Concerns(BurstDetection({}), e)'
    BY DEF Concerns, BurstDetection
  <2>7. ASSUME NEW p \in events'[e].matches \ events'[e].oversized
        PROVE  Due(e, MatchDetection(p, e))'
    <3>1. Due(e, MatchDetection(p, e))'
      BY <2>5 DEF MatchDetection
    <3> QED
      BY <3>1
  <2>8. ASSUME NEW B \in SUBSET DOMAIN events', Burst(B)', Max(B)' = e
        PROVE  \E d : Concerns(d, e)' /\ Due(e, d)'
    <3> DEFINE d == BurstDetection({})
    <3>1. Concerns(d, e)' /\ Due(e, d)'
      BY <2>5, <2>6 DEF BurstDetection
    <3> QED
      BY <3>1
  <2> QED
    BY <2>7, <2>8 DEF Answered
<1> QED
  BY <1>4, <1>5, <1>6

LEMMA SlipInvSuffices == TypeOK /\ SlipInv => NothingSlipsThrough
<1> SUFFICES ASSUME TypeOK, SlipInv PROVE NothingSlipsThrough
  OBVIOUS
<1>1. EventsTyped
  BY DEF TypeOK, TablesTyped, EventsTyped
\* What is due for an event that no request has in hand is in the table.
<1>2. ASSUME NEW e, NEW d, Due(e, d), ~Pending(e) PROVE Exists(d)
  BY <1>2 DEF Due, InHand, Pending
<1>3. ASSUME NEW B \in SUBSET DOMAIN events,
             Burst(B), Alike(B), Handled(B), Sortable(Recent(Max(B)))
      PROVE  Noticed(B)
  <2> DEFINE e == Max(B)
  <2>1. e \in B
    BY <1>1, <1>3, BurstIsRecent
  <2>2. ~missed /\ ~Pending(e) /\ Cardinality(Recent(e)) <= MAX_CORRELATION_CANDIDATES
    BY <1>3, <2>1 DEF Handled
  <2>3. Answered(e)
    BY <2>1, <2>2 DEF SlipInv
  <2>4. PICK d : Concerns(d, e) /\ Due(e, d)
    BY <1>3, <2>3 DEF Answered
  <2>5. PICK i \in DOMAIN alerts : alerts[i].rule = d.rule /\ alerts[i].evidence = d.evidence
    BY <1>2, <2>2, <2>4 DEF Exists
  <2> QED
    BY <2>4, <2>5 DEF Noticed, Concerns
<1>4. ASSUME NEW e \in DOMAIN events, Handled({e}),
             NEW p \in events[e].matches \ events[e].oversized
      PROVE  Exists([rule |-> p, evidence |-> {e}])
  <2>1. Max({e}) = e
    <3>1. e \in Nat
      BY <1>1, TypedEvent
    <3>2. {e} \in SUBSET (0..e) /\ {e} # {}
      BY <3>1
    <3> QED
      BY <3>1, <3>2, LastIndex
  <2>2. ~missed /\ ~Pending(e) /\ Cardinality(Recent(e)) <= MAX_CORRELATION_CANDIDATES
    BY <1>4, <2>1 DEF Handled
  <2> QED
    BY <1>2, <1>4, <2>2 DEF SlipInv, Answered, MatchDetection
<1> QED
  BY <1>3, <1>4 DEF NothingSlipsThrough

\* Two ingestions that complete a burst together do not each leave it to the other, and a
\* refused alert keeps no other from being created: unless a request ended early, the cap
\* bit or the sort raised, every burst in one spelling has its alert once no request that
\* ingested a part of it is at work, and so has every match whose evidence is accepted.
THEOREM Completeness == Spec => []NothingSlipsThrough
<1>1. Init => SlipInv
  BY DEF Init, SlipInv
<1> QED
  BY <1>1, SlipInvNext, SlipInvSuffices, Typed, PTL DEF Spec

\* What TLC checks of the scan in the initial state, for every bound on the timestamps.
THEOREM ScanAlwaysEarliest == Spec => []ScanFindsEarliest
<1>1. ScanFindsEarliest
  <2> SUFFICES ASSUME NEW n \in 0..ScanLength, NEW t \in [1..n -> ScanTimes], Ascending(t)
               PROVE  FindsEarliest(t)
    BY DEF ScanFindsEarliest
  <2>1. n \in Nat
    BY PipelineConstants
  <2>2. t \in [1..n -> Int]
    BY PipelineConstants
  <2> QED
    BY <2>1, <2>2, ScanIsEarliest
<1> QED
  BY <1>1, PTL

-----------------------------------------------------------------------------
(* AlertTriage *)

\* A request in progress has read a status the alert has had, and means to write one
\* that the table allows after it.
Grounded ==
  \A a \in Analysts :
    next[a] # None => was[a] \in been /\ next[a] \in ALERT_STATUS_TRANSITIONS[was[a]]

\* Before there is an alert it has had no status.
Unborn == status = None => been = {}

\* An alert that was ever resolved was engaged before.
WasEngaged == "RESOLVED" \in been => been \cap {"INVESTIGATING", "ESCALATED"} # {}

TriageInv ==
  /\ was \in [Analysts -> AlertStatus \cup {None}]
  /\ next \in [Analysts -> AlertStatus \cup {None}]
  /\ been \subseteq AlertStatus
  /\ status \in been \cup {None}
  /\ Unborn
  /\ Grounded
  /\ WasEngaged

\* The table of services/alert_lifecycle.py, status by status.
LEMMA Table ==
  /\ AlertStatus = {"NEW", "ACKNOWLEDGED", "INVESTIGATING", "ESCALATED", "RESOLVED"}
  /\ ALERT_STATUS_TRANSITIONS["NEW"] = {"ACKNOWLEDGED", "INVESTIGATING", "ESCALATED"}
  /\ ALERT_STATUS_TRANSITIONS["ACKNOWLEDGED"] = {"INVESTIGATING", "ESCALATED"}
  /\ ALERT_STATUS_TRANSITIONS["INVESTIGATING"] = {"RESOLVED", "ESCALATED"}
  /\ ALERT_STATUS_TRANSITIONS["ESCALATED"] = {"RESOLVED"}
  /\ ALERT_STATUS_TRANSITIONS["RESOLVED"] = {}
BY DEF AlertStatus, ALERT_STATUS_TRANSITIONS

\* The table leads from a status to a status, to RESOLVED only from the two that
\* count as engagement, and from RESOLVED nowhere.
LEMMA Transitions ==
  ASSUME NEW s \in AlertStatus, NEW t \in ALERT_STATUS_TRANSITIONS[s]
  PROVE  /\ t \in AlertStatus
         /\ s # "RESOLVED"
         /\ t = "RESOLVED" => s \in {"INVESTIGATING", "ESCALATED"}
BY Table
-----------------------------------------------------------------------------
LEMMA TriageInvInit == TriageInit => TriageInv
BY DEF TriageInit, TriageInv, Unborn, Grounded, WasEngaged, None

LEMMA TriageInvNext == TriageInv /\ [TriageNext]_triage => TriageInv'
<1> SUFFICES ASSUME TriageInv, [TriageNext]_triage
             PROVE  TriageInv'
  OBVIOUS
<1> USE DEF TriageInv, Unborn
<1>1. CASE CreateAlert
  \* There was no alert, hence no status it has had and nothing read of it.
  <2>1. "NEW" \in AlertStatus /\ "NEW" # "RESOLVED" /\ status' = "NEW" /\ been' = {"NEW"}
    BY <1>1, Table DEF CreateAlert
  <2>2. was' = was /\ next' = next
    BY <1>1 DEF CreateAlert
  <2>3. been = {}
    BY <1>1 DEF CreateAlert
  <2>4. status' # None
    BY <2>1 DEF None
  <2>5. Grounded' /\ WasEngaged'
    BY <2>1, <2>2, <2>3 DEF Grounded, WasEngaged
  <2> QED
    BY <2>1, <2>2, <2>4, <2>5
<1>2. ASSUME NEW a \in Analysts, NEW s \in AlertStatus, UpdateStatus(a, s)
      PROVE  TriageInv'
  <2>1. status \in been /\ status \in AlertStatus /\ s \in ALERT_STATUS_TRANSITIONS[status]
    BY <1>2 DEF UpdateStatus
  <2>2. /\ was' = [was EXCEPT ![a] = status] /\ next' = [next EXCEPT ![a] = s]
        /\ status' = status /\ been' = been
    BY <1>2 DEF UpdateStatus
  <2>3. Grounded'
    BY <2>1, <2>2 DEF Grounded
  <2> QED
    BY <2>1, <2>2, <2>3 DEF WasEngaged
<1>3. ASSUME NEW a \in Analysts, Save(a)
      PROVE  TriageInv'
  <2>1. /\ was[a] \in been /\ was[a] \in AlertStatus
        /\ next[a] \in ALERT_STATUS_TRANSITIONS[was[a]]
    BY <1>3 DEF Save, Grounded
  <2>2. next[a] \in AlertStatus
        /\ (next[a] = "RESOLVED" => was[a] \in {"INVESTIGATING", "ESCALATED"})
    BY <2>1, Transitions
  <2>3. /\ status' = next[a] /\ been' = been \cup {next[a]}
        /\ was' = [was EXCEPT ![a] = None] /\ next' = [next EXCEPT ![a] = None]
    BY <1>3 DEF Save, TriageOver
  <2>4. Grounded'
    BY <2>3 DEF Grounded
  <2>5. WasEngaged'
    BY <2>1, <2>2, <2>3 DEF WasEngaged
  <2> QED
    BY <1>3, <2>2, <2>3, <2>4, <2>5 DEF Save
<1>4. ASSUME NEW a \in Analysts, SaveFails(a)
      PROVE  TriageInv'
  BY <1>4 DEF SaveFails, TriageOver, Grounded, WasEngaged, None
<1>5. CASE UNCHANGED triage
  BY <1>5 DEF triage, Grounded, WasEngaged
<1> QED
  BY <1>1, <1>2, <1>3, <1>4, <1>5 DEF TriageNext

\* The three facts above hold in every state.
LEMMA TriageInvAlways == TriageSpec => []TriageInv
<1>1. TriageInit => TriageInv
  BY TriageInvInit
<1>2. TriageInv /\ [TriageNext]_triage => TriageInv'
  BY TriageInvNext
<1> QED
  BY <1>1, <1>2, PTL DEF TriageSpec

\* However many analysts overwrite each other's changes (AlertService.update_status),
\* a resolved alert has been under investigation or escalated.
THEOREM Engaged == TriageSpec => []ResolvedWasEngaged
<1>1. TriageInv => ResolvedWasEngaged
  BY DEF TriageInv, WasEngaged, ResolvedWasEngaged, None
<1> QED
  BY <1>1, TriageInvAlways, PTL

\* An alert leaves RESOLVED only by the save of a request that had read it before.
THEOREM LeftByTheOvertaken == TriageSpec => ResolvedIsLeftByTheOvertaken
<1> DEFINE Leaves == status = "RESOLVED" /\ status' # "RESOLVED" =>
                     \E a \in Analysts : /\ next[a] = status' /\ next'[a] = None
                                         /\ was[a] \in been \ {"RESOLVED"}
<1>1. TriageInv /\ [TriageNext]_triage => [Leaves]_triage
  <2> SUFFICES ASSUME TriageInv, TriageNext, status = "RESOLVED", status' # "RESOLVED"
               PROVE  \E a \in Analysts : /\ next[a] = status' /\ next'[a] = None
                                          /\ was[a] \in been \ {"RESOLVED"}
    OBVIOUS
  <2>1. PICK a \in Analysts : Save(a)
    BY DEF TriageNext, CreateAlert, UpdateStatus, SaveFails, None
  <2>2. /\ was[a] \in been /\ was[a] \in AlertStatus
        /\ next[a] \in ALERT_STATUS_TRANSITIONS[was[a]]
    BY <2>1 DEF Save, Grounded, TriageInv
  <2>3. was[a] # "RESOLVED"
    BY <2>2, Transitions
  <2>4. next[a] = status' /\ next'[a] = None
    BY <2>1 DEF Save, TriageOver, TriageInv
  <2> QED
    BY <2>2, <2>3, <2>4
<1> QED
  BY <1>1, TriageInvAlways, PTL DEF TriageSpec, ResolvedIsLeftByTheOvertaken
=============================================================================
