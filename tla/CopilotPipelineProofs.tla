------------------------- MODULE CopilotPipelineProofs -------------------------
(***************************************************************************)
(* What the copilot's contexts contain, what its checks leave of a reply,  *)
(* and that the offline provider's answers pass them, for any alerts and   *)
(* events whose columns hold what their types allow.                       *)
(***************************************************************************)
EXTENDS CopilotPipeline, Induction, TLAPS

-----------------------------------------------------------------------------
(* Lists *)

\* The length of a sequence that is given item by item.
LEMMA LengthOf ==
  ASSUME NEW n \in Nat, NEW f, f = [i \in 1..n |-> f[i]]
  PROVE  Len(f) = n
<1> DEFINE S == {f[i] : i \in 1..n}
<1>1. f \in [1..n -> S]
  OBVIOUS
<1>2. f \in Seq(S)
  BY <1>1
<1> HIDE DEF S
<1>3. Len(f) \in Nat /\ DOMAIN f = 1..Len(f) /\ DOMAIN f = 1..n
  BY <1>1, <1>2, LenProperties
<1> QED
  BY <1>3

\* A sequence up to and from a position.
LEMMA TwoParts ==
  ASSUME NEW V, NEW s \in Seq(V), NEW m \in 0..Len(s), NEW k \in 1..Len(s) + 1
  PROVE  /\ SubSeq(s, 1, m) \in Seq(V) /\ Len(SubSeq(s, 1, m)) = m
         /\ \A i \in 1..m : SubSeq(s, 1, m)[i] = s[i]
         /\ SubSeq(s, k, Len(s)) \in Seq(V) /\ Len(SubSeq(s, k, Len(s))) = Len(s) - k + 1
         /\ \A i \in 1..Len(s) - k + 1 : SubSeq(s, k, Len(s))[i] = s[k + i - 1]
         /\ ToSet(SubSeq(s, 1, m)) \cup ToSet(SubSeq(s, k, Len(s))) \subseteq ToSet(s)
         /\ k = m + 1 => ToSet(SubSeq(s, 1, m)) \cup ToSet(SubSeq(s, k, Len(s))) = ToSet(s)
<1> DEFINE n == Len(s)
           p == SubSeq(s, 1, m)
           q == SubSeq(s, k, n)
<1>1. n \in Nat /\ DOMAIN s = 1..n /\ m \in Int /\ k \in Int /\ m <= n
  BY LenProperties
<1>2. \A i \in 1..n : s[i] \in V
  BY ElementOfSeq
<1> HIDE DEF n
<1>3. /\ SubSeq(s, 1, m) \in Seq(V)
      /\ Len(SubSeq(s, 1, m)) = IF 1 <= m THEN m - 1 + 1 ELSE 0
      /\ \A i \in 1..m - 1 + 1 : SubSeq(s, 1, m)[i] = s[1 + i - 1]
  <2>1. \A i \in 1..m : s[i] \in V
    BY <1>1, <1>2
  <2> QED
    BY <1>1, <2>1, SubSeqProperties
<1>4. /\ SubSeq(s, k, n) \in Seq(V)
      /\ Len(SubSeq(s, k, n)) = IF k <= n THEN n - k + 1 ELSE 0
      /\ \A i \in 1..n - k + 1 : SubSeq(s, k, n)[i] = s[k + i - 1]
  <2>1. \A i \in k..n : s[i] \in V
    BY <1>1, <1>2 DEF n
  <2> QED
    BY <1>1, <2>1, SubSeqProperties
<1>5. /\ p \in Seq(V) /\ Len(p) = m /\ \A i \in 1..m : p[i] = s[i]
  BY <1>1, <1>3
<1>6. /\ q \in Seq(V) /\ Len(q) = n - k + 1 /\ \A i \in 1..n - k + 1 : q[i] = s[k + i - 1]
  BY <1>1, <1>4 DEF n
<1> HIDE DEF p, q
<1>7. DOMAIN p = 1..m /\ DOMAIN q = 1..n - k + 1
  BY <1>5, <1>6, LenProperties
<1>8. ToSet(p) \cup ToSet(q) \subseteq ToSet(s)
  <2>1. ASSUME NEW i \in 1..m PROVE p[i] \in ToSet(s)
    <3>1. i \in 1..n /\ p[i] = s[i]
      BY <1>1, <1>5
    <3> QED
      BY <1>1, <3>1 DEF ToSet
  <2>2. ASSUME NEW i \in 1..n - k + 1 PROVE q[i] \in ToSet(s)
    <3>1. k + i - 1 \in 1..n /\ q[i] = s[k + i - 1]
      BY <1>1, <1>6 DEF n
    <3> QED
      BY <1>1, <3>1 DEF ToSet
  <2> QED
    BY <1>7, <2>1, <2>2 DEF ToSet
<1>9. ASSUME k = m + 1, NEW i \in 1..n PROVE s[i] \in ToSet(p) \cup ToSet(q)
  <2>1. CASE i <= m
    BY <1>1, <1>5, <1>7, <2>1 DEF ToSet
  <2>2. CASE i > m
    <3>1. i - m \in 1..n - k + 1 /\ k + (i - m) - 1 = i
      BY <1>1, <1>9, <2>2
    <3>2. q[i - m] = s[i]
      BY <1>6, <3>1
    <3> QED
      BY <1>7, <3>1, <3>2 DEF ToSet
  <2> QED
    BY <1>1, <2>1, <2>2
<1>10. k = m + 1 => ToSet(s) \subseteq ToSet(p) \cup ToSet(q)
  BY <1>1, <1>9 DEF ToSet
<1> QED
  BY <1>5, <1>6, <1>8, <1>10 DEF n, p, q

LEMMA JoinedItems ==
  ASSUME NEW V, NEW s \in Seq(V), NEW t \in Seq(V)
  PROVE  s \o t \in Seq(V) /\ ToSet(s \o t) = ToSet(s) \cup ToSet(t)
<1>1. s \o t \in Seq(V) /\ Range(s \o t) = Range(s) \cup Range(t)
  BY ConcatProperties, RangeConcatenation
<1>2. \A u : ToSet(u) = Range(u)
  BY DEF ToSet, Range
<1> QED
  BY <1>1, <1>2

LEMMA FirstItems ==
  ASSUME NEW V, NEW s \in Seq(V), NEW max \in Nat
  PROVE  /\ First(s, max) \in Seq(V) /\ ToSet(First(s, max)) \subseteq ToSet(s)
         /\ Len(First(s, max)) <= max /\ Len(First(s, max)) <= Len(s)
         /\ \A i \in 1..Len(First(s, max)) : First(s, max)[i] = s[i]
         /\ \A i \in 1..Len(s) : i <= max => s[i] \in ToSet(First(s, max))
<1> DEFINE m == IF Len(s) < max THEN Len(s) ELSE max
           p == First(s, max)
<1>1. m \in 0..Len(s) /\ m <= max /\ Len(s) \in Nat /\ Len(s) + 1 \in 1..Len(s) + 1
      /\ \A i \in 1..Len(s) : i <= max => i \in 1..m
  BY LenProperties
<1>2. p = SubSeq(s, 1, m)
  BY DEF First
<1> HIDE DEF m, p
<1>3. /\ p \in Seq(V) /\ Len(p) = m /\ ToSet(p) \subseteq ToSet(s)
      /\ \A i \in 1..m : p[i] = s[i]
  <2> DEFINE k == Len(s) + 1
  <2>1. k \in 1..Len(s) + 1
    BY <1>1
  <2> HIDE DEF k
  <2> QED
    BY <1>1, <1>2, <2>1, TwoParts
<1>4. DOMAIN p = 1..m
  BY <1>3, LenProperties
<1>5. \A i \in 1..Len(s) : i <= max => s[i] \in ToSet(p)
  BY <1>1, <1>3, <1>4 DEF ToSet
<1> QED
  BY <1>1, <1>3, <1>5 DEF p

\* A list given item by item.
LEMMA ListOfItems ==
  ASSUME NEW n \in Nat, NEW V, NEW f \in [1..n -> V]
  PROVE  f \in Seq(V) /\ Len(f) = n /\ ToSet(f) = {f[i] : i \in 1..n}
<1>1. f = [i \in 1..n |-> f[i]] /\ f \in Seq(V)
  OBVIOUS
<1>2. Len(f) = n
  BY <1>1, LengthOf
<1> QED
  BY <1>1, <1>2 DEF ToSet

\* At most one item.
Optional(V) == {<<>>} \cup {<<v>> : v \in V}

LEMMA Extended ==
  ASSUME NEW V, NEW s \in Seq(V), NEW k \in Nat, Len(s) <= k, NEW t \in Optional(V)
  PROVE  /\ s \o t \in Seq(V) /\ Len(s \o t) <= k + 1 /\ Len(s) <= Len(s \o t)
         /\ \A i \in 1..Len(s) : (s \o t)[i] = s[i]
<1>1. t \in Seq(V) /\ Len(t) \in 0..1
  <2>1. CASE t = <<>>
    BY <2>1
  <2>2. ASSUME NEW v \in V, t = <<v>> PROVE t \in Seq(V) /\ Len(t) \in 0..1
    BY <2>2
  <2> QED
    BY <2>1, <2>2 DEF Optional
<1>2. Len(s) \in Nat
  BY LenProperties
<1>3. /\ s \o t \in Seq(V) /\ Len(s \o t) = Len(s) + Len(t)
      /\ \A i \in 1..Len(s) + Len(t) :
           (s \o t)[i] = IF i <= Len(s) THEN s[i] ELSE t[i - Len(s)]
  BY <1>1, ConcatProperties
<1> QED
  BY <1>1, <1>2, <1>3

-----------------------------------------------------------------------------
(* The context of an alert *)

LEMMA TimelineLength ==
  ASSUME NEW alert \in Alerts
  PROVE  Len(_build_timeline(alert)) = Cardinality(AlertRow[alert].security_events)
         /\ Cardinality(AlertRow[alert].security_events) \in Nat
<1> DEFINE n == Cardinality(AlertRow[alert].security_events)
           s == _build_timeline(alert)
<1>1. n \in Nat
  BY ContextConstants, FS_CardinalityType
<1>2. s = [i \in 1..n |-> s[i]]
  <2> DEFINE S == AlertRow[alert].security_events
             Nth(i) == CHOOSE x \in S : Cardinality({y \in S : Earlier(y, x)}) = i - 1
  <2>1. s = [i \in 1..n |-> Nth(i)]
    BY DEF _build_timeline, Sorted
  <2> HIDE DEF Nth, n, s
  <2> QED
    BY <2>1
<1> HIDE DEF n, s
<1>3. Len(s) = n
  BY <1>1, <1>2, LengthOf
<1> QED
  BY <1>1, <1>3 DEF n, s

-----------------------------------------------------------------------------
(* Techniques *)

Techniques ==
  {_BRUTE_FORCE, _POWERSHELL_SUSPICIOUS, _POWERSHELL_ENCODED, _COMMAND_OBFUSCATION}

LEMMA TechniqueShapes ==
  ASSUME NEW rule
  PROVE  get_techniques_for_rule(rule) \in
           {<<>>, <<_BRUTE_FORCE>>, <<_POWERSHELL_SUSPICIOUS>>,
            <<_POWERSHELL_ENCODED, _COMMAND_OBFUSCATION>>}
<1> DEFINE brute == _BRUTE_FORCE
           script == _POWERSHELL_SUSPICIOUS
           encoded == _POWERSHELL_ENCODED
           obfuscated == _COMMAND_OBFUSCATION
<1>1. /\ _RULE_TECHNIQUES["brute_force_authentication"] = <<brute>>
      /\ _RULE_TECHNIQUES["suspicious_powershell_execution"] = <<script>>
      /\ _RULE_TECHNIQUES["encoded_powershell_command"] = <<encoded, obfuscated>>
      /\ _RULE_IDS = {"brute_force_authentication", "suspicious_powershell_execution",
                      "encoded_powershell_command"}
  BY DEF _RULE_TECHNIQUES, _RULE_IDS
<1> HIDE DEF brute, script, encoded, obfuscated
<1>2. get_techniques_for_rule(rule) \in {<<>>, <<brute>>, <<script>>, <<encoded, obfuscated>>}
  BY <1>1 DEF get_techniques_for_rule
<1> QED
  BY <1>2 DEF brute, script, encoded, obfuscated

LEMMA RuleTechniques ==
  ASSUME NEW rule
  PROVE  /\ get_techniques_for_rule(rule) \in Seq(Techniques)
         /\ Len(get_techniques_for_rule(rule)) <= 2
<1> DEFINE brute == _BRUTE_FORCE
           script == _POWERSHELL_SUSPICIOUS
           encoded == _POWERSHELL_ENCODED
           obfuscated == _COMMAND_OBFUSCATION
           T == Techniques
<1>1. /\ get_techniques_for_rule(rule) \in {<<>>, <<brute>>, <<script>>, <<encoded, obfuscated>>}
      /\ brute \in T /\ script \in T /\ encoded \in T /\ obfuscated \in T
  BY TechniqueShapes DEF Techniques
<1> HIDE DEF brute, script, encoded, obfuscated, T
<1>2. /\ <<brute>> \in Seq(T) /\ <<script>> \in Seq(T) /\ <<encoded, obfuscated>> \in Seq(T)
      /\ <<>> \in Seq(T)
      /\ Len(<<brute>>) = 1 /\ Len(<<script>>) = 1 /\ Len(<<encoded, obfuscated>>) = 2
      /\ Len(<<>>) = 0
  BY <1>1
<1> DEFINE none == <<>>
           one == <<brute>>
           other == <<script>>
           two == <<encoded, obfuscated>>
<1>3. get_techniques_for_rule(rule) \in {none, one, other, two}
  BY <1>1
<1>4. /\ none \in Seq(T) /\ Len(none) <= 2 /\ one \in Seq(T) /\ Len(one) <= 2
      /\ other \in Seq(T) /\ Len(other) <= 2 /\ two \in Seq(T) /\ Len(two) <= 2
  BY <1>2
<1> HIDE DEF none, one, other, two
<1> QED
  BY <1>3, <1>4 DEF T

LEMMA UnionOfTechniques ==
  ASSUME NEW s \in Seq(Alerts)
  PROVE  /\ _union_mitre_candidates(s) \in Seq(Techniques)
         /\ \A t \in ToSet(_union_mitre_candidates(s)) :
              \E a \in ToSet(s) : t \in ToSet(TechniquesOf(a))
<1> DEFINE n == Len(s)
           Part(i) == Selected(TechniquesOf(s[i]), NewTechniques(s, i))
           parts == [i \in 1..n |-> Part(i)]
           u == FlattenSeq(parts)
<1>1. n \in Nat /\ DOMAIN s = 1..n
  BY LenProperties
<1>2. ASSUME NEW i \in 1..n
      PROVE  Part(i) \in Seq(Techniques) /\ ToSet(Part(i)) \subseteq ToSet(TechniquesOf(s[i]))
  <2> DEFINE ts == TechniquesOf(s[i])
             g == Part(i)
  <2>1. ts \in Seq(Techniques)
    BY RuleTechniques DEF TechniquesOf
  <2> DEFINE S == NewTechniques(s, i)
  <2>2. g = Selected(ts, S)
    OBVIOUS
  <2> HIDE DEF ts, g, S
  <2>3. g \in Seq(Techniques)
    BY <2>1, <2>2, SelectedPicks
  <2>4. PICK p : Picks(g, p, ts, Len(ts), S)
    BY <2>1, <2>2, SelectedPicks
  <2>5. DOMAIN g = 1..Len(g) /\ DOMAIN ts = 1..Len(ts)
    BY <2>1, <2>3, LenProperties
  <2>6. ToSet(g) \subseteq ToSet(ts)
    BY <2>4, <2>5 DEF Picks, ToSet
  <2> QED
    BY <2>3, <2>6 DEF ts, g
<1> HIDE DEF Part, n
<1>3. parts \in Parts(n, Seq(Techniques))
  <2> DEFINE Q == Seq(Techniques)
  <2>1. \A i \in 1..n : Part(i) \in Q
    BY <1>2
  <2> HIDE DEF Q
  <2>2. parts \in Parts(n, Q)
    BY <2>1 DEF Parts
  <2> QED
    BY <2>2 DEF Q
<1>4. \A i \in 1..n : parts[i] = Part(i)
  OBVIOUS
<1> HIDE DEF parts
<1>5. /\ u \in Seq(Techniques)
      /\ \A x : x \in ToSet(u) <=> \E i \in 1..n : x \in ToSet(parts[i])
  BY <1>1, <1>3, FlattenItems
<1>6. _union_mitre_candidates(s) = First(u, MAX_CASE_MITRE_CANDIDATES)
  BY DEF _union_mitre_candidates, parts, Part, n
<1> HIDE DEF u
<1>7. MAX_CASE_MITRE_CANDIDATES \in Nat
  BY DEF MAX_CASE_MITRE_CANDIDATES
<1>8. First(u, MAX_CASE_MITRE_CANDIDATES) \in Seq(Techniques)
      /\ ToSet(First(u, MAX_CASE_MITRE_CANDIDATES)) \subseteq ToSet(u)
  BY <1>5, <1>7, FirstItems
<1>9. ASSUME NEW t \in ToSet(u) PROVE \E a \in ToSet(s) : t \in ToSet(TechniquesOf(a))
  <2>1. PICK i \in 1..n : t \in ToSet(parts[i])
    BY <1>5
  <2>2. t \in ToSet(TechniquesOf(s[i])) /\ s[i] \in ToSet(s)
    BY <1>1, <1>2, <1>4, <2>1 DEF ToSet
  <2> QED
    BY <2>2
<1> QED
  BY <1>6, <1>8, <1>9

-----------------------------------------------------------------------------
(* What the checks leave of a reply *)

\* What the checks that follow provider.generate leave of a reply.
LEMMA AcceptedStaysInContext ==
  ASSUME NEW type, NEW provided, NEW context, Outcome(type, provided, context) = "answered",
         NEW n \in Nat, Len(Timeline(type, context)) = n
  PROVE  /\ AlertRefsCited(type, provided[1]) \subseteq KnownAlertRefs(type, context)
         /\ Cardinality(EventRefsCited(type, provided[1])) <= n
         /\ TechniquesNamed(type, provided[1]) \subseteq Candidates(type, context)
<1>1. Accepted(type, provided[1], context)
  BY DEF Outcome
<1>2. /\ EventRefsCited(type, provided[1]) \subseteq 1..n
      /\ AlertRefsCited(type, provided[1]) \subseteq KnownAlertRefs(type, context)
  BY <1>1 DEF Accepted, _reject_fabricated_refs, KnownEventRefs
<1>3. TechniquesNamed(type, provided[1]) \subseteq Candidates(type, context)
  BY <1>1 DEF Accepted, _normalize_mitre_entries
<1>4. IsFiniteSet(1..n) /\ Cardinality(1..n) = n
  BY FS_Interval
<1>5. Cardinality(EventRefsCited(type, provided[1])) <= n
  BY <1>2, <1>4, FS_Subset
<1> QED
  BY <1>2, <1>3, <1>5

LEMMA AlertContext ==
  ASSUME NEW type \in AlertTypes, NEW a \in Alerts
  PROVE  /\ Len(Timeline(type, AIContext(a))) = Cardinality(AlertRow[a].security_events)
         /\ KnownAlertRefs(type, AIContext(a)) = {}
         /\ \A t \in Candidates(type, AIContext(a)) :
              \E technique \in ToSet(TechniquesOf(a)) : technique.technique_id = t
<1> DEFINE ts == TechniquesOf(a)
<1>1. Timeline(type, AIContext(a)) = _build_timeline(a)
  BY DEF Timeline, AIContext
<1>2. KnownAlertRefs(type, AIContext(a)) = {}
  BY DEF KnownAlertRefs, AlertTypes, CaseTypes
<1>3. Candidates(type, AIContext(a)) = {ts[i].technique_id : i \in 1..Len(ts)}
  BY DEF Candidates, Named, AIContext
<1>4. DOMAIN ts = 1..Len(ts)
  BY RuleTechniques, LenProperties DEF TechniquesOf
<1> HIDE DEF ts
<1>5. \A i \in 1..Len(ts) : ts[i] \in ToSet(ts)
  BY <1>4 DEF ToSet
<1>6. \A t \in Candidates(type, AIContext(a)) : \E technique \in ToSet(ts) :
        technique.technique_id = t
  BY <1>3, <1>5
<1> QED
  BY <1>1, <1>2, <1>6, TimelineLength DEF ts

LEMMA CaseContext ==
  ASSUME NEW type \in CaseTypes, NEW s \in Seq(Alerts), NEW focus
  PROVE  /\ Timeline(type, AICaseContext(s, focus)) =
              IF focus = NoAlert THEN <<>> ELSE _build_timeline(focus)
         /\ KnownAlertRefs(type, AICaseContext(s, focus)) = 1..Len(s)
         /\ \A t \in Candidates(type, AICaseContext(s, focus)) : \E a \in ToSet(s) :
              \E technique \in ToSet(TechniquesOf(a)) : technique.technique_id = t
<1> DEFINE ts == _union_mitre_candidates(s)
           mapped == [i \in 1..Len(s) |-> _map_alert(s[i])]
<1>1. type \notin AlertTypes
  BY DEF AlertTypes, CaseTypes
<1>2. Timeline(type, AICaseContext(s, focus)) =
        IF focus = NoAlert THEN <<>> ELSE _build_timeline(focus)
  BY <1>1 DEF Timeline, AICaseContext, _map_focused_alert
<1>3. KnownAlertRefs(type, AICaseContext(s, focus)) = 1..Len(mapped)
  BY DEF KnownAlertRefs, AICaseContext
<1>4. Len(mapped) = Len(s)
  <2>1. Len(s) \in Nat
    BY LenProperties
  <2> DEFINE n == Len(s)
  <2>2. n \in Nat /\ mapped = [i \in 1..n |-> mapped[i]]
    BY <2>1
  <2> HIDE DEF n, mapped
  <2>3. Len(mapped) = n
    BY <2>2, LengthOf
  <2> QED
    BY <2>3 DEF n
<1>5. Candidates(type, AICaseContext(s, focus)) = {ts[i].technique_id : i \in 1..Len(ts)}
  BY <1>1 DEF Candidates, Named, AICaseContext
<1>6. /\ DOMAIN ts = 1..Len(ts)
      /\ \A t \in ToSet(ts) : \E a \in ToSet(s) : t \in ToSet(TechniquesOf(a))
  BY UnionOfTechniques, LenProperties
<1> HIDE DEF ts, mapped
<1>7. \A i \in 1..Len(ts) : ts[i] \in ToSet(ts)
  BY <1>6 DEF ToSet
<1>8. \A t \in Candidates(type, AICaseContext(s, focus)) : \E a \in ToSet(s) :
        \E technique \in ToSet(TechniquesOf(a)) : technique.technique_id = t
  BY <1>5, <1>6, <1>7
<1> QED
  BY <1>2, <1>3, <1>4, <1>8

-----------------------------------------------------------------------------
(* Sets of events and of texts in order *)

LEMMA TimelineItems ==
  ASSUME NEW alert \in Alerts
  PROVE  /\ _build_timeline(alert) \in Seq(Events)
         /\ Len(_build_timeline(alert)) \in Nat \ {0}
<1> DEFINE S == AlertRow[alert].security_events
           n == Cardinality(S)
           R == {p \in S \X S : Earlier(p[1], p[2])}
           Nth(i) == CHOOSE x \in S : Cardinality({y \in S : Earlier(y, x)}) = i - 1
           s == _build_timeline(alert)
<1>1. S \subseteq Events /\ IsFiniteSet(S) /\ S # {}
  BY ContextConstants
<1>2. n \in Nat /\ n # 0
  BY <1>1, FS_CardinalityType, FS_EmptySet
<1>3. TotalOrder(R, S)
  <2>1. \A x, y \in S : <<x, y>> \in R <=> Earlier(x, y)
    OBVIOUS
  <2>2. /\ \A x \in S : EventRow[x].event_timestamp \in Nat /\ EventRow[x].id \in Nat
        /\ \A x, y \in S : x # y => EventRow[x].id # EventRow[y].id
    BY <1>1, ContextConstants
  <2> DEFINE at == [e \in S |-> EventRow[e].event_timestamp]
             id == [e \in S |-> EventRow[e].id]
  <2>3. \A x, y \in S : <<x, y>> \in R <=> at[x] < at[y] \/ (at[x] = at[y] /\ id[x] < id[y])
    BY <2>1 DEF Earlier
  <2>4. at \in [S -> Nat] /\ id \in [S -> Nat] /\ \A x, y \in S : x # y => id[x] # id[y]
    BY <2>2
  <2>5. ASSUME NEW x \in S, NEW y \in S
        PROVE  /\ at[x] \in Nat /\ at[y] \in Nat /\ id[x] \in Nat /\ id[y] \in Nat
               /\ x # y => id[x] # id[y]
               /\ <<x, y>> \in R <=> at[x] < at[y] \/ (at[x] = at[y] /\ id[x] < id[y])
               /\ <<y, x>> \in R <=> at[y] < at[x] \/ (at[y] = at[x] /\ id[y] < id[x])
    BY <2>3, <2>4
  <2> HIDE DEF R, S, at, id
  <2>6. ASSUME NEW x \in S, NEW y \in S
        PROVE  /\ ~(<<x, y>> \in R /\ <<y, x>> \in R)
               /\ x # y => <<x, y>> \in R \/ <<y, x>> \in R
    BY <2>5
  <2>7. ASSUME NEW x \in S, NEW y \in S, NEW z \in S, <<x, y>> \in R, <<y, z>> \in R
        PROVE  <<x, z>> \in R
    <3>1. /\ at[x] < at[y] \/ (at[x] = at[y] /\ id[x] < id[y])
          /\ at[y] < at[z] \/ (at[y] = at[z] /\ id[y] < id[z])
          /\ at[x] \in Nat /\ at[y] \in Nat /\ at[z] \in Nat
          /\ id[x] \in Nat /\ id[y] \in Nat /\ id[z] \in Nat
      BY <2>5, <2>7
    <3>2. at[x] < at[z] \/ (at[x] = at[z] /\ id[x] < id[z])
      BY <3>1
    <3> QED
      BY <2>5, <3>2
  <2> QED
    BY <2>6, <2>7 DEF TotalOrder
<1>4. ASSUME NEW i \in 1..n PROVE Nth(i) \in S
  <2>1. ASSUME NEW x \in S PROVE {y \in S : <<y, x>> \in R} = {y \in S : Earlier(y, x)}
    OBVIOUS
  <2> HIDE DEF R, S
  <2>2. \E x \in S : Cardinality({y \in S : <<y, x>> \in R}) = i - 1
    BY <1>1, <1>3, Ranked DEF n
  <2> QED
    BY <2>1, <2>2
<1>5. s = [i \in 1..n |-> Nth(i)]
  BY DEF _build_timeline, Sorted
<1>6. s \in [1..n -> Events]
  <2> HIDE DEF Nth, n, S
  <2> QED
    BY <1>1, <1>4, <1>5
<1> HIDE DEF s, n
<1> QED
  BY <1>2, <1>6, ListOfItems DEF s

LEMMA TextsInOrder ==
  ASSUME NEW S \in SUBSET SortedTexts, IsFiniteSet(S)
  PROVE  /\ Sorted(S, Precedes) \in Seq(S)
         /\ Len(Sorted(S, Precedes)) = Cardinality(S)
<1> DEFINE n == Cardinality(S)
           R == {p \in S \X S : Precedes(p[1], p[2])}
           Nth(i) == CHOOSE x \in S : Cardinality({y \in S : Precedes(y, x)}) = i - 1
           s == Sorted(S, Precedes)
<1>1. n \in Nat
  BY FS_CardinalityType
<1>2. TotalOrder(R, S)
  <2>1. \A x, y \in S : <<x, y>> \in R <=> Precedes(x, y)
    OBVIOUS
  <2> HIDE DEF R
  <2> QED
    BY <2>1, TextsAreOrdered DEF TotalOrder
<1>3. ASSUME NEW i \in 1..n PROVE Nth(i) \in S
  <2>1. ASSUME NEW x \in S PROVE {y \in S : <<y, x>> \in R} = {y \in S : Precedes(y, x)}
    OBVIOUS
  <2> HIDE DEF R
  <2>2. \E x \in S : Cardinality({y \in S : <<y, x>> \in R}) = i - 1
    BY <1>2, Ranked DEF n
  <2> QED
    BY <2>1, <2>2
<1>4. s = [i \in 1..n |-> Nth(i)]
  BY DEF Sorted
<1>5. s \in [1..n -> S]
  <2> HIDE DEF Nth, n
  <2> QED
    BY <1>3, <1>4
<1> HIDE DEF s, n
<1>6. s \in Seq(S) /\ Len(s) = n
  BY <1>1, <1>5, ListOfItems
<1> QED
  BY <1>6 DEF s, n

\* What CharsAreLengths says, item by item.
LEMMA ColumnsFit ==
  ASSUME NEW e \in Events, NEW column \in DOMAIN Width, EventRow[e][column] # Absent
  PROVE  Chars(EventRow[e][column]) \in 1..Width[column]
<1>1. \A f \in Events : \A c \in DOMAIN Width :
        EventRow[f][c] # Absent => Chars(EventRow[f][c]) \in 1..Width[c]
  BY CharsAreLengths
<1> QED
  BY <1>1

LEMMA RowsFit ==
  ASSUME NEW a \in Alerts
  PROVE  /\ Chars(AlertRow[a].rule_id) \in 1..100
         /\ AlertRow[a].title \in 1..500
         /\ AlertRow[a].severity \in Severity
         /\ AlertRow[a].confidence \in AssessmentConfidence
         /\ AlertRow[a].evidence \in Seq([key : Nat, value : Nat])
BY CharsAreLengths

LEMMA WordsFit ==
  /\ \A name \in Severity \cup AssessmentConfidence : Chars(name) \in 1..8
  /\ \A name \in Verdict \cup RegistryNames : Chars(name) \in 1..31
BY CharsAreLengths

\* Texts in a list, none longer than max.
NamesListed(s, max) == s \in Seq(SortedTexts) /\ \A i \in 1..Len(s) : Chars(s[i]) \in 1..max

\* The names in a column of an alert's events.
LEMMA ColumnItems ==
  ASSUME NEW alert \in Alerts, NEW column \in DOMAIN Width
  PROVE  NamesListed(Column(alert, column), Width[column])
<1> DEFINE E == AlertRow[alert].security_events
           text == [e \in E |-> EventRow[e][column]]
           T == {EventRow[e][column] : e \in E}
           S == T \ {Absent}
           s == Column(alert, column)
<1>1. E \subseteq Events /\ IsFiniteSet(E)
  BY ContextConstants
<1>2. IsFiniteSet(T)
  <2>1. text \in Surjection(E, T)
    BY DEF Surjection
  <2> HIDE DEF text, T, E
  <2> QED
    BY <1>1, <2>1, FS_Surjection
<1>3. IsFiniteSet(S) /\ S \in SUBSET SortedTexts
  <2>1. T \subseteq SortedTexts
    BY <1>1 DEF SortedTexts, EntityColumns, Width
  <2> HIDE DEF T
  <2> QED
    BY <1>2, <2>1, FS_Subset
<1>4. ASSUME NEW t \in S PROVE Chars(t) \in 1..Width[column]
  <2>1. PICK e \in E : t = EventRow[e][column]
    OBVIOUS
  <2>2. e \in Events /\ t # Absent
    BY <1>1
  <2>3. EventRow[e][column] # Absent => Chars(EventRow[e][column]) \in 1..Width[column]
    BY <2>2, ColumnsFit
  <2> QED
    BY <2>1, <2>2, <2>3
<1>5. s = Sorted(S, Precedes)
  BY DEF Column
<1> HIDE DEF s, S
<1>6. s \in Seq(S)
  BY <1>3, <1>5, TextsInOrder
<1>7. s \in Seq(SortedTexts)
  BY <1>3, <1>6
<1>8. \A i \in 1..Len(s) : s[i] \in S
  BY <1>6, ElementOfSeq
<1> QED
  BY <1>4, <1>7, <1>8 DEF s, NamesListed

-----------------------------------------------------------------------------
(* Numbers and joined texts *)

LEMMA FewDigits ==
  ASSUME NEW n \in Nat
  PROVE  Digits(n) \in 1..4
BY DEF Digits

LEMMA FirstRefs ==
  ASSUME NEW n \in Nat
  PROVE  /\ Len(SupportingRefs(n)) \in Nat /\ Len(SupportingRefs(n)) <= 5
         /\ ToSet(SupportingRefs(n)) \subseteq 1..n
         /\ n # 0 => 1 \in ToSet(SupportingRefs(n))
<1> DEFINE m == Cut(n, _MAX_SUPPORTING_REFS)
           s == SupportingRefs(n)
<1>1. m \in Nat /\ m <= 5 /\ m <= n /\ (n # 0 => m # 0)
  BY DEF Cut, _MAX_SUPPORTING_REFS
<1>2. s = [i \in 1..m |-> i]
  BY DEF SupportingRefs
<1> HIDE DEF m, s
<1>3. s \in [1..m -> Int] /\ \A i \in 1..m : s[i] = i
  BY <1>1, <1>2
<1>4. Len(s) = m
  BY <1>1, <1>3, ListOfItems
<1>5. DOMAIN s = 1..m
  BY <1>3
<1>6. ToSet(s) \subseteq 1..n /\ (n # 0 => 1 \in ToSet(s))
  BY <1>1, <1>3, <1>5 DEF ToSet
<1> QED
  BY <1>1, <1>4, <1>6 DEF s

\* What JoinedLength adds up, item by item.
Adds(F, n, lengths) ==
  /\ F[0] = 0
  /\ \A i \in 1..n : F[i - 1] \in Nat /\ lengths[i] \in Nat
                     /\ F[i] = F[i - 1] + lengths[i] + (IF i = 1 THEN 0 ELSE 2)

LEMMA AddsExists ==
  ASSUME NEW n \in Nat, NEW lengths, \A i \in 1..n : lengths[i] \in Nat
  PROVE  \E F : Adds(F, n, lengths) /\ \A i \in 0..n : F[i] \in Nat
<1> DEFINE add == [p \in (1..n) \X Nat |->
                     p[2] + lengths[p[1]] + (IF p[1] = 1 THEN 0 ELSE 2)]
<1>1. add \in StepFunctions(n, Nat)
  <2>1. ASSUME NEW p \in (1..n) \X Nat
        PROVE  p[2] + lengths[p[1]] + (IF p[1] = 1 THEN 0 ELSE 2) \in Nat
    <3>1. p[2] \in Nat /\ lengths[p[1]] \in Nat
      OBVIOUS
    <3> QED
      BY <3>1
  <2> QED
    BY <2>1 DEF StepFunctions
<1>2. \A i \in 1..n, k \in Nat : add[<<i, k>>] = k + lengths[i] + (IF i = 1 THEN 0 ELSE 2)
  OBVIOUS
<1> HIDE DEF add
<1>3. PICK F : Recurs(F, n, Nat, 0, add)
  BY <1>1, Recursion
<1>4. /\ F \in [0..n -> Nat] /\ F[0] = 0
      /\ \A i \in 1..n : F[i] = add[<<i, F[i - 1]>>]
  BY <1>3 DEF Recurs
<1>5. ASSUME NEW i \in 1..n
      PROVE  F[i - 1] \in Nat /\ F[i] = F[i - 1] + lengths[i] + (IF i = 1 THEN 0 ELSE 2)
  <2>1. i - 1 \in 0..n
    OBVIOUS
  <2>2. F[i - 1] \in Nat
    BY <1>4, <2>1
  <2> QED
    BY <1>2, <1>4, <2>2
<1>6. Adds(F, n, lengths) /\ \A i \in 0..n : F[i] \in Nat
  BY <1>4, <1>5 DEF Adds
<1> QED
  BY <1>6

LEMMA AddsUp ==
  ASSUME NEW n \in Nat, NEW lengths, Len(lengths) = n, NEW F, Adds(F, n, lengths)
  PROVE  JoinedLength(lengths) = F[n]
<1> DEFINE IsJoin(h) ==
             h = [i \in 0..n |-> IF i = 0 THEN 0
                                 ELSE h[i - 1] + lengths[i] + (IF i = 1 THEN 0 ELSE 2)]
           f == [i \in 0..n |-> F[i]]
<1>1. JoinedLength(lengths) = (CHOOSE h : IsJoin(h))[n]
  BY DEF JoinedLength
<1>2. IsJoin(f)
  <2>1. ASSUME NEW i \in 0..n, i # 0
        PROVE  i - 1 \in 0..n /\ f[i - 1] = F[i - 1]
               /\ F[i] = F[i - 1] + lengths[i] + (IF i = 1 THEN 0 ELSE 2)
    <3>1. i \in 1..n /\ i - 1 \in 0..n
      BY <2>1
    <3> QED
      BY <3>1 DEF Adds
  <2>2. F[0] = 0
    BY DEF Adds
  <2> QED
    BY <2>1, <2>2
<1>3. ASSUME NEW h, IsJoin(h) PROVE h[n] = F[n]
  <2> DEFINE Same == {i \in 0..n : h[i] = F[i]}
  <2>1. 0 \in Same
    BY <1>3 DEF Adds
  <2>2. ASSUME NEW i \in 1..n, i - 1 \in Same PROVE i \in Same
    <3>1. h[i] = h[i - 1] + lengths[i] + (IF i = 1 THEN 0 ELSE 2) /\ i \in 0..n
      BY <1>3
    <3>2. F[i] = F[i - 1] + lengths[i] + (IF i = 1 THEN 0 ELSE 2)
      BY DEF Adds
    <3>3. h[i - 1] = F[i - 1]
      BY <2>2
    <3> HIDE DEF IsJoin
    <3> QED
      BY <3>1, <3>2, <3>3
  <2>3. 0..n \subseteq Same
    <3> HIDE DEF Same
    <3> QED
      BY <2>1, <2>2, UpTo
  <2> QED
    BY <2>3
<1> HIDE DEF IsJoin, f
<1> QED
  BY <1>1, <1>2, <1>3

\* A joined text is as long as its first part at least, and longer than those of fewer parts.
LEMMA AddsGrows ==
  ASSUME NEW n \in Nat, NEW m \in 0..n, NEW lengths, NEW F, Adds(F, n, lengths),
         \A i \in 0..n : F[i] \in Nat
  PROVE  F[m] <= F[n] /\ (n # 0 => F[1] = lengths[1])
<1> DEFINE S == {i \in 0..n : i >= m => F[m] <= F[i]}
<1>1. 0 \in S
  OBVIOUS
<1>2. ASSUME NEW i \in 1..n, i - 1 \in S PROVE i \in S
  <2>1. /\ F[i - 1] \in Nat /\ lengths[i] \in Nat /\ F[m] \in Nat /\ F[i] \in Nat
        /\ F[i] = F[i - 1] + lengths[i] + (IF i = 1 THEN 0 ELSE 2)
    BY DEF Adds
  <2>2. F[i - 1] <= F[i]
    BY <2>1
  <2>3. CASE i = m
    BY <2>1, <2>3
  <2>4. CASE i < m
    BY <2>4
  <2>5. CASE i > m
    <3>1. F[m] <= F[i - 1]
      BY <1>2, <2>5
    <3>2. F[m] <= F[i]
      BY <2>1, <2>2, <3>1
    <3> QED
      BY <3>2
  <2> QED
    BY <2>3, <2>4, <2>5
<1>3. 0..n \subseteq S
  <2> HIDE DEF S
  <2> QED
    BY <1>1, <1>2, UpTo
<1>4. F[m] <= F[n]
  BY <1>3
<1>5. ASSUME n # 0 PROVE F[1] = lengths[1]
  BY <1>5 DEF Adds
<1> QED
  BY <1>4, <1>5

LEMMA JoinedNumbers ==
  ASSUME NEW n \in Nat, NEW lengths \in [1..n -> Nat]
  PROVE  /\ JoinedLength(lengths) \in Nat
         /\ n # 0 => lengths[1] <= JoinedLength(lengths)
<1>1. Len(lengths) = n
  BY ListOfItems
<1>2. PICK F : Adds(F, n, lengths) /\ \A i \in 0..n : F[i] \in Nat
  BY AddsExists
<1>3. JoinedLength(lengths) = F[n]
  BY <1>1, <1>2, AddsUp
<1>4. n # 0 => F[1] <= F[n] /\ F[1] = lengths[1]
  BY <1>2, AddsGrows
<1> QED
  BY <1>2, <1>3, <1>4

\* The same of texts, of which some may be left out at the end.
LEMMA JoinedTexts ==
  ASSUME NEW V, NEW s \in Seq(V), \A i \in 1..Len(s) : Chars(s[i]) \in Nat, NEW max \in Nat
  PROVE  /\ Joined(s) \in Nat
         /\ s # <<>> => Chars(s[1]) <= Joined(s)
         /\ Joined(First(s, max)) \in Nat /\ Joined(First(s, max)) <= Joined(s)
         /\ s # <<>> /\ max # 0 => Chars(s[1]) <= Joined(First(s, max))
         /\ s # <<>> /\ max = 1 => Joined(First(s, max)) = Chars(s[1])
<1> DEFINE n == Len(s)
           p == First(s, max)
           m == Len(p)
           chars == [i \in 1..n |-> Chars(s[i])]
           some == [i \in 1..m |-> Chars(p[i])]
<1>1. /\ n \in Nat /\ m \in Nat /\ m <= max /\ m <= n /\ p \in Seq(V)
      /\ \A i \in 1..m : p[i] = s[i]
  BY FirstItems, LenProperties
<1>2. n # 0 /\ max # 0 => m # 0
  BY <1>1 DEF First
<1>3. s # <<>> => n # 0
  BY <1>1, EmptySeq
<1>4. chars \in [1..n -> Nat] /\ some \in [1..m -> Nat] /\ \A i \in 1..m : some[i] = chars[i]
  BY <1>1
<1>5. Len(chars) = n /\ Len(some) = m
  BY <1>1, <1>4, ListOfItems
<1>6. Joined(s) = JoinedLength(chars) /\ Joined(p) = JoinedLength(some)
  BY DEF Joined
<1>7. n # 0 => chars[1] = Chars(s[1])
  BY <1>1
<1> HIDE DEF chars, some, n, m, p
<1>8. PICK F : Adds(F, n, chars) /\ \A i \in 0..n : F[i] \in Nat
  BY <1>1, <1>4, AddsExists
<1>9. Adds(F, m, some)
  <2>1. ASSUME NEW i \in 1..m
        PROVE  /\ F[i - 1] \in Nat /\ some[i] \in Nat
               /\ F[i] = F[i - 1] + some[i] + (IF i = 1 THEN 0 ELSE 2)
    <3>1. i \in 1..n /\ some[i] = chars[i]
      BY <1>1, <1>4
    <3> QED
      BY <1>8, <3>1 DEF Adds
  <2> QED
    BY <1>8, <2>1 DEF Adds
<1>10. JoinedLength(chars) = F[n] /\ JoinedLength(some) = F[m]
  BY <1>1, <1>5, <1>8, <1>9, AddsUp
<1>11. /\ F[m] <= F[n] /\ (n # 0 => F[1] <= F[n])
       /\ (n # 0 => F[1] = Chars(s[1])) /\ (m # 0 => F[1] <= F[m])
  <2>1. F[m] <= F[n] /\ (n # 0 => F[1] <= F[n] /\ F[1] = chars[1])
    BY <1>1, <1>8, AddsGrows
  <2>2. \A i \in 0..m : F[i] \in Nat
    BY <1>1, <1>8
  <2>3. m # 0 => F[1] <= F[m]
    BY <1>1, <1>9, <2>2, AddsGrows
  <2> QED
    BY <1>7, <2>1, <2>3
<1>12. F[n] \in Nat /\ F[m] \in Nat
  BY <1>1, <1>8
<1>13. n # 0 /\ max = 1 => m = 1
  BY <1>1, <1>2
<1>14. Joined(s) = F[n] /\ Joined(p) = F[m]
  BY <1>6, <1>10
<1> QED
  BY <1>2, <1>3, <1>11, <1>12, <1>13, <1>14 DEF p

-----------------------------------------------------------------------------
(* How many techniques and actions there are, and how long their names *)

TechniqueIds == {"T1110", "T1059.001", "T1027.010"}

LEMMA TechniqueFields ==
  ASSUME NEW t \in Techniques
  PROVE  /\ t.technique_id \in TechniqueIds /\ t.name \in 1..52
         /\ Chars(t.technique_id) \in 1..31 /\ Chars(t.source_rule_id) \in 1..31
<1>1. /\ _BRUTE_FORCE.technique_id = "T1110" /\ _BRUTE_FORCE.name = 11
      /\ _BRUTE_FORCE.source_rule_id = "brute_force_authentication"
      /\ _POWERSHELL_SUSPICIOUS.technique_id = "T1059.001" /\ _POWERSHELL_SUSPICIOUS.name = 45
      /\ _POWERSHELL_SUSPICIOUS.source_rule_id = "suspicious_powershell_execution"
      /\ _POWERSHELL_ENCODED.technique_id = "T1059.001" /\ _POWERSHELL_ENCODED.name = 45
      /\ _POWERSHELL_ENCODED.source_rule_id = "encoded_powershell_command"
      /\ _COMMAND_OBFUSCATION.technique_id = "T1027.010" /\ _COMMAND_OBFUSCATION.name = 52
      /\ _COMMAND_OBFUSCATION.source_rule_id = "encoded_powershell_command"
  BY DEF _BRUTE_FORCE, _POWERSHELL_SUSPICIOUS, _POWERSHELL_ENCODED, _COMMAND_OBFUSCATION
<1>2. /\ t.technique_id \in TechniqueIds /\ t.name \in 1..52
      /\ t.source_rule_id \in {"brute_force_authentication", "suspicious_powershell_execution",
                               "encoded_powershell_command"}
  BY <1>1 DEF Techniques, TechniqueIds
<1>3. _RULE_IDS = {"brute_force_authentication", "suspicious_powershell_execution",
                   "encoded_powershell_command"}
  BY DEF _RULE_TECHNIQUES, _RULE_IDS
<1>4. Chars(t.source_rule_id) \in 1..31
  BY <1>2, <1>3, WordsFit DEF RegistryNames
<1>5. \E id \in _RULE_IDS : t \in ToSet(_RULE_TECHNIQUES[id])
  <2> DEFINE brute == _BRUTE_FORCE
             script == _POWERSHELL_SUSPICIOUS
             encoded == _POWERSHELL_ENCODED
             obfuscated == _COMMAND_OBFUSCATION
             At(id) == _RULE_TECHNIQUES[id]
  <2>1. /\ _RULE_TECHNIQUES["brute_force_authentication"] = <<brute>>
        /\ _RULE_TECHNIQUES["suspicious_powershell_execution"] = <<script>>
        /\ _RULE_TECHNIQUES["encoded_powershell_command"] = <<encoded, obfuscated>>
    BY DEF _RULE_TECHNIQUES
  <2>2. t \in {brute, script, encoded, obfuscated}
    BY DEF Techniques
  <2> HIDE DEF brute, script, encoded, obfuscated
  <2>3. /\ brute \in ToSet(<<brute>>) /\ script \in ToSet(<<script>>)
        /\ encoded \in ToSet(<<encoded, obfuscated>>)
        /\ obfuscated \in ToSet(<<encoded, obfuscated>>)
    BY DEF ToSet
  <2> QED
    BY <1>3, <2>1, <2>2, <2>3
<1>6. t.technique_id \in RegistryNames
  BY <1>5 DEF RegistryNames
<1> QED
  BY <1>2, <1>4, <1>6, WordsFit

LEMMA RuleTechniquesDiffer ==
  ASSUME NEW rule, NEW i \in 1..Len(get_techniques_for_rule(rule)),
         NEW j \in 1..Len(get_techniques_for_rule(rule)), i # j
  PROVE  get_techniques_for_rule(rule)[i].technique_id
           # get_techniques_for_rule(rule)[j].technique_id
<1> DEFINE brute == _BRUTE_FORCE
           script == _POWERSHELL_SUSPICIOUS
           encoded == _POWERSHELL_ENCODED
           obfuscated == _COMMAND_OBFUSCATION
           s == get_techniques_for_rule(rule)
<1>1. encoded.technique_id = "T1059.001" /\ obfuscated.technique_id = "T1027.010"
  BY DEF _POWERSHELL_SUSPICIOUS, _POWERSHELL_ENCODED, _COMMAND_OBFUSCATION
<1>2. s = <<>> \/ s = <<brute>> \/ s = <<script>> \/ s = <<encoded, obfuscated>>
  BY TechniqueShapes
<1> HIDE DEF brute, script, encoded, obfuscated, s
<1>3. CASE s = <<>> \/ s = <<brute>> \/ s = <<script>>
  <2>1. Len(<<>>) = 0 /\ Len(<<brute>>) = 1 /\ Len(<<script>>) = 1
    OBVIOUS
  <2>2. Len(s) = 0 \/ Len(s) = 1
    BY <1>3, <2>1
  <2> QED
    BY <2>2 DEF s
<1>4. CASE s = <<encoded, obfuscated>>
  <2>1. Len(s) = 2 /\ s[1] = encoded /\ s[2] = obfuscated
    BY <1>4
  <2>2. (i = 1 /\ j = 2) \/ (i = 2 /\ j = 1)
    BY <2>1 DEF s
  <2> QED
    BY <1>1, <2>1, <2>2 DEF s
<1> QED
  BY <1>2, <1>3, <1>4

\* Of the techniques of an alert, the new ones.
LEMMA NewOnes ==
  ASSUME NEW s \in Seq(Alerts), NEW i \in 1..Len(s), NEW g,
         g = Selected(TechniquesOf(s[i]), NewTechniques(s, i))
  PROVE  /\ g \in Seq(Techniques)
         /\ \A k, l \in 1..Len(g) : k # l => g[k].technique_id # g[l].technique_id
         /\ \A k \in 1..Len(g) : g[k] \in ToSet(TechniquesOf(s[i])) /\ g[k] \in NewTechniques(s, i)
<1> DEFINE ts == TechniquesOf(s[i])
           S == NewTechniques(s, i)
<1>1. ts \in Seq(Techniques)
  BY RuleTechniques DEF TechniquesOf
<1>2. \A k, l \in 1..Len(ts) : k # l => ts[k].technique_id # ts[l].technique_id
  BY RuleTechniquesDiffer DEF TechniquesOf
<1> HIDE DEF ts, S
<1>3. g = Selected(ts, S)
  BY DEF ts, S
<1>4. g \in Seq(Techniques)
  BY <1>1, <1>3, SelectedPicks
<1>5. PICK p : Picks(g, p, ts, Len(ts), S)
  BY <1>1, <1>3, SelectedPicks
<1>6. Len(g) \in Nat /\ Len(ts) \in Nat /\ DOMAIN ts = 1..Len(ts)
  BY <1>1, <1>4, LenProperties
<1>7. /\ \A k \in 1..Len(g) : p[k] \in 1..Len(ts) /\ g[k] = ts[p[k]] /\ g[k] \in S
      /\ \A k, l \in 1..Len(g) : k < l => p[k] < p[l]
  BY <1>5 DEF Picks
<1>8. ASSUME NEW k \in 1..Len(g), NEW l \in 1..Len(g), k # l
      PROVE  g[k].technique_id # g[l].technique_id
  <2>1. k < l \/ l < k
    BY <1>8
  <2>2. p[k] \in 1..Len(ts) /\ p[l] \in 1..Len(ts) /\ g[k] = ts[p[k]] /\ g[l] = ts[p[l]]
    BY <1>7
  <2>3. p[k] < p[l] \/ p[l] < p[k]
    BY <1>7, <2>1
  <2>4. p[k] # p[l]
    BY <1>6, <2>2, <2>3
  <2>5. ts[p[k]].technique_id # ts[p[l]].technique_id
    BY <1>2, <2>2, <2>4
  <2> QED
    BY <2>2, <2>5
<1>9. \A k \in 1..Len(g) : g[k] \in ToSet(ts)
  BY <1>6, <1>7 DEF ToSet
<1> QED
  BY <1>4, <1>7, <1>8, <1>9 DEF ts, S

\* However many alerts there are, their techniques have three identifiers between them.
LEMMA FewTechniques ==
  ASSUME NEW s \in Seq(Alerts)
  PROVE  Len(_union_mitre_candidates(s)) <= 3
<1> DEFINE n == Len(s)
           Part(i) == Selected(TechniquesOf(s[i]), NewTechniques(s, i))
           parts == [i \in 1..n |-> Part(i)]
           u == FlattenSeq(parts)
           Q == Seq(Techniques)
<1>1. n \in Nat /\ DOMAIN s = 1..n
  BY LenProperties
<1>2. ASSUME NEW i \in 1..n
      PROVE  /\ Part(i) \in Seq(Techniques)
             /\ \A k, l \in 1..Len(Part(i)) :
                  k # l => Part(i)[k].technique_id # Part(i)[l].technique_id
             /\ \A k \in 1..Len(Part(i)) :
                  Part(i)[k] \in ToSet(TechniquesOf(s[i])) /\ Part(i)[k] \in NewTechniques(s, i)
  <2> DEFINE g == Part(i)
  <2>1. g = Selected(TechniquesOf(s[i]), NewTechniques(s, i))
    OBVIOUS
  <2> HIDE DEF g
  <2> QED
    BY <2>1, NewOnes DEF g
<1>3. _union_mitre_candidates(s) = First(u, MAX_CASE_MITRE_CANDIDATES)
  BY DEF _union_mitre_candidates
<1> HIDE DEF Part, n
<1>4. parts \in Parts(n, Seq(Techniques)) /\ \A i \in 1..n : parts[i] = Part(i)
  <2>1. \A i \in 1..n : Part(i) \in Q
    BY <1>2
  <2> HIDE DEF Q
  <2>2. parts \in Parts(n, Q)
    BY <2>1 DEF Parts
  <2> QED
    BY <2>2 DEF Q
<1> HIDE DEF parts, u
<1>5. PICK F : Partial(F, n, Seq(Techniques), parts)
  BY <1>1, <1>4, PartialExists
<1>6. u = F[n]
  BY <1>1, <1>4, <1>5, FlattenPartial DEF u
<1>7. u \in Seq(Techniques)
  BY <1>1, <1>4, FlattenItems DEF u
<1> DEFINE Differ(f) == \A k, l \in 1..Len(f) : k # l => f[k].technique_id # f[l].technique_id
           From(f, i) == \A k \in 1..Len(f) : \E j \in 1..i : f[k] \in ToSet(TechniquesOf(s[j]))
           Ok(i) == Differ(F[i]) /\ From(F[i], i)
           T == {i \in 0..n : Ok(i)}
<1>8. 0 \in T
  <2>1. F[0] = <<>> /\ Len(<<>>) = 0
    BY <1>5 DEF Partial
  <2>2. 1..Len(F[0]) = {}
    BY <2>1
  <2> QED
    BY <1>1, <2>2
<1>9. ASSUME NEW i \in 1..n, i - 1 \in T PROVE i \in T
  <2> DEFINE a == F[i - 1]
             b == parts[i]
             c == F[i]
  <2>1. a \in Seq(Techniques) /\ b \in Seq(Techniques) /\ c = a \o b
    <3>1. PartialAt(F, i, n, Seq(Techniques), parts)
      BY <1>1, <1>4, <1>5, PartialStep
    <3> QED
      BY <3>1 DEF PartialAt
  <2>2. /\ Differ(b)
        /\ \A k \in 1..Len(b) : b[k] \in ToSet(TechniquesOf(s[i])) /\ b[k] \in NewTechniques(s, i)
    BY <1>2, <1>4
  <2>3. Differ(a) /\ From(a, i - 1)
    BY <1>9
  <2> HIDE DEF a, b, c, T, Ok
  <2>4. /\ Len(a) \in Nat /\ Len(b) \in Nat /\ Len(c) = Len(a) + Len(b)
        /\ \A k \in 1..Len(a) + Len(b) :
             c[k] = IF k <= Len(a) THEN a[k] ELSE b[k - Len(a)]
    BY <2>1, ConcatProperties, LenProperties
  <2>5. ASSUME NEW k \in 1..Len(c)
        PROVE  \/ k \in 1..Len(a) /\ c[k] = a[k]
               \/ k - Len(a) \in 1..Len(b) /\ c[k] = b[k - Len(a)]
    BY <2>4
  <2>6. From(c, i)
    <3> SUFFICES ASSUME NEW k \in 1..Len(c)
                 PROVE  \E j \in 1..i : c[k] \in ToSet(TechniquesOf(s[j]))
      OBVIOUS
    <3>1. i \in 1..i /\ \A j \in 1..i - 1 : j \in 1..i
      OBVIOUS
    <3>2. CASE k \in 1..Len(a) /\ c[k] = a[k]
      BY <2>3, <3>1, <3>2
    <3>3. CASE k - Len(a) \in 1..Len(b) /\ c[k] = b[k - Len(a)]
      BY <2>2, <3>1, <3>3
    <3> QED
      BY <2>5, <3>2, <3>3
  <2>7. ASSUME NEW k \in 1..Len(a), NEW l \in 1..Len(b)
        PROVE  a[k].technique_id # b[l].technique_id
    <3>1. PICK j \in 1..i - 1 : a[k] \in ToSet(TechniquesOf(s[j]))
      BY <2>3
    <3> QED
      BY <2>2, <3>1 DEF NewTechniques
  <2>8. Differ(c)
    <3> SUFFICES ASSUME NEW k \in 1..Len(c), NEW l \in 1..Len(c), k # l
                 PROVE  c[k].technique_id # c[l].technique_id
      OBVIOUS
    <3>1. CASE k \in 1..Len(a) /\ c[k] = a[k] /\ l \in 1..Len(a) /\ c[l] = a[l]
      BY <2>3, <3>1
    <3>2. CASE /\ k \in 1..Len(a) /\ c[k] = a[k]
               /\ l - Len(a) \in 1..Len(b) /\ c[l] = b[l - Len(a)]
      BY <2>7, <3>2
    <3>3. CASE /\ k - Len(a) \in 1..Len(b) /\ c[k] = b[k - Len(a)]
               /\ l \in 1..Len(a) /\ c[l] = a[l]
      BY <2>7, <3>3
    <3>4. CASE /\ k - Len(a) \in 1..Len(b) /\ c[k] = b[k - Len(a)]
               /\ l - Len(a) \in 1..Len(b) /\ c[l] = b[l - Len(a)]
      <4>1. k - Len(a) # l - Len(a)
        BY <2>4, <3>4
      <4> QED
        BY <2>2, <3>4, <4>1
    <3> QED
      BY <2>5, <3>1, <3>2, <3>3, <3>4
  <2>9. i \in 0..n
    BY <1>1
  <2> QED
    BY <2>6, <2>8, <2>9 DEF T, Ok, c
<1>10. 0..n \subseteq T
  <2> HIDE DEF T
  <2> QED
    BY <1>1, <1>8, <1>9, UpTo
<1>11. Differ(u)
  <2>1. n \in T
    BY <1>1, <1>10
  <2> QED
    BY <1>6, <2>1
<1> DEFINE m == Len(u)
           id == [k \in 1..m |-> u[k].technique_id]
<1>12. m \in Nat /\ \A k \in 1..m : u[k] \in Techniques
  BY <1>7, LenProperties, ElementOfSeq
<1>13. id \in Injection(1..m, TechniqueIds)
  <2>1. \A k \in 1..m : u[k].technique_id \in TechniqueIds
    BY <1>12, TechniqueFields
  <2>2. id \in [1..m -> TechniqueIds]
    BY <2>1
  <2>3. \A k, l \in 1..m : id[k] = id[l] => k = l
    BY <1>11
  <2> HIDE DEF id, m
  <2> QED
    BY <2>2, <2>3 DEF Injection, IsInjective
<1>14. IsFiniteSet(TechniqueIds) /\ Cardinality(TechniqueIds) <= 3
  <2> DEFINE A == {"T1110"}
             B == A \cup {"T1059.001"}
             C == B \cup {"T1027.010"}
  <2>1. IsFiniteSet(A) /\ Cardinality(A) = 1
    BY FS_Singleton
  <2> HIDE DEF A
  <2>2. IsFiniteSet(B) /\ Cardinality(B) <= 2 /\ Cardinality(B) \in Nat
    BY <2>1, FS_AddElement, FS_CardinalityType
  <2> HIDE DEF B
  <2>3. IsFiniteSet(C) /\ (Cardinality(C) = Cardinality(B) \/ Cardinality(C) = Cardinality(B) + 1)
    BY <2>2, FS_AddElement
  <2>4. TechniqueIds = C
    BY DEF TechniqueIds, A, B
  <2> HIDE DEF C
  <2> QED
    BY <2>2, <2>3, <2>4
<1> HIDE DEF id, m
<1>15. Cardinality(1..m) <= 3
  <2>1. IsFiniteSet(1..m) /\ Cardinality(1..m) <= Cardinality(TechniqueIds)
    BY <1>13, <1>14, FS_Injection
  <2>2. Cardinality(1..m) \in Nat /\ Cardinality(TechniqueIds) \in Nat
    BY <1>14, <2>1, FS_CardinalityType
  <2> QED
    BY <1>14, <2>1, <2>2
<1>16. m <= 3
  BY <1>12, <1>15, FS_Interval
<1>17. MAX_CASE_MITRE_CANDIDATES \in Nat
  BY DEF MAX_CASE_MITRE_CANDIDATES
<1>18. Len(First(u, MAX_CASE_MITRE_CANDIDATES)) <= m
       /\ First(u, MAX_CASE_MITRE_CANDIDATES) \in Seq(Techniques)
  BY <1>7, <1>17, FirstItems DEF m
<1>19. Len(First(u, MAX_CASE_MITRE_CANDIDATES)) \in Nat
  BY <1>18, LenProperties
<1> QED
  BY <1>3, <1>12, <1>16, <1>18, <1>19

Catalog == ToSet(_CATALOG)

LEMMA Catalogue ==
  _CATALOG \in Seq(Catalog) /\ Len(_CATALOG) = 8 /\ \A a \in Catalog : a.action_id # Malformed
<1> DEFINE c == _CATALOG
<1>1. Len(c) = 8
  BY DEF _CATALOG
<1>2. DOMAIN c = 1..8
  BY DEF _CATALOG
<1>3. /\ c[1].action_id # Malformed /\ c[2].action_id # Malformed
      /\ c[3].action_id # Malformed /\ c[4].action_id # Malformed
      /\ c[5].action_id # Malformed /\ c[6].action_id # Malformed
      /\ c[7].action_id # Malformed /\ c[8].action_id # Malformed
  BY DEF _CATALOG, _InvestigationAction, Malformed
<1>4. c = [i \in 1..8 |-> c[i]]
  BY <1>2 DEF _CATALOG
<1> HIDE DEF c
<1>5. c \in Seq(ToSet(c))
  <2>1. c \in [1..8 -> ToSet(c)]
    BY <1>2, <1>4 DEF ToSet
  <2> QED
    BY <2>1, ListOfItems
<1>6. ASSUME NEW a \in ToSet(c) PROVE a.action_id # Malformed
  <2>1. PICK i \in 1..8 : a = c[i]
    BY <1>2 DEF ToSet
  <2> QED
    BY <1>3, <2>1
<1> QED
  BY <1>1, <1>5, <1>6 DEF c, Catalog

LEMMA CandidateActions ==
  ASSUME NEW rule, NEW entities
  PROVE  /\ get_candidate_actions(rule, entities) \in Seq(Catalog)
         /\ Len(get_candidate_actions(rule, entities)) <= 8
<1> DEFINE S == {action \in ToSet(_CATALOG) :
                   /\ rule \in action.applicable_rule_ids
                   /\ \A field \in action.required_entities : entities[field] # <<>>}
<1>1. get_candidate_actions(rule, entities) = Selected(_CATALOG, S)
  BY DEF get_candidate_actions
<1> HIDE DEF S
<1> QED
  BY <1>1, Catalogue, SelectedPicks, SelectedLength

-----------------------------------------------------------------------------
(* The lists of an answer *)

InParts(list, p, q, r, s) == list = p \o q \o r \o s

LEMMA FourParts ==
  ASSUME NEW V, NEW p \in Optional(V), NEW q \in Optional(V), NEW r \in Optional(V),
         NEW s \in Optional(V), NEW list, InParts(list, p, q, r, s)
  PROVE  /\ list \in Seq(V) /\ Len(list) \in 0..4
         /\ p # <<>> => 1 <= Len(list) /\ list[1] = p[1]
<1> DEFINE a == p
           b == a \o q
           c == b \o r
           d == c \o s
<1>1. ASSUME NEW t \in Optional(V)
      PROVE  t \in Seq(V) /\ Len(t) \in Nat /\ Len(t) <= 1 /\ (t # <<>> => Len(t) = 1)
  <2>1. CASE t = <<>>
    BY <2>1
  <2>2. ASSUME NEW v \in V, t = <<v>> PROVE t \in Seq(V) /\ Len(t) = 1
    BY <2>2
  <2>3. t = <<>> \/ \E v \in V : t = <<v>>
    BY DEF Optional
  <2>4. t \in Seq(V) /\ (t # <<>> => Len(t) = 1)
    BY <2>1, <2>2, <2>3
  <2>5. Len(t) = 0 \/ Len(t) = 1
    BY <2>1, <2>2, <2>3
  <2> DEFINE length == Len(t)
  <2>6. length = 0 \/ length = 1
    BY <2>5
  <2> HIDE DEF length
  <2>7. length \in Nat /\ length <= 1
    BY <2>6
  <2> QED
    BY <2>4, <2>7 DEF length
<1>2. a \in Seq(V) /\ Len(a) \in Nat /\ Len(a) <= 1 /\ (p # <<>> => Len(a) = 1)
  BY <1>1
<1> HIDE DEF a
<1>3. b \in Seq(V) /\ Len(b) <= 2 /\ Len(a) <= Len(b) /\ \A i \in 1..Len(a) : b[i] = a[i]
  BY <1>2, Extended
<1> HIDE DEF b
<1>4. Len(b) \in Nat
  BY <1>3, LenProperties
<1>5. c \in Seq(V) /\ Len(c) <= 3 /\ Len(b) <= Len(c) /\ \A i \in 1..Len(b) : c[i] = b[i]
  BY <1>3, Extended
<1> HIDE DEF c
<1>6. Len(c) \in Nat
  BY <1>5, LenProperties
<1>7. d \in Seq(V) /\ Len(d) <= 4 /\ Len(c) <= Len(d) /\ \A i \in 1..Len(c) : d[i] = c[i]
  BY <1>5, Extended
<1> HIDE DEF d
<1>8. Len(d) \in Nat
  BY <1>7, LenProperties
<1>9. ASSUME p # <<>> PROVE 1 <= Len(d) /\ d[1] = p[1]
  <2>1. Len(a) = 1 /\ Len(a) <= Len(b) /\ Len(b) <= Len(c) /\ Len(c) <= Len(d)
    BY <1>2, <1>3, <1>5, <1>7, <1>9
  <2>2. 1 \in 1..Len(a) /\ 1 \in 1..Len(b) /\ 1 \in 1..Len(c) /\ 1 <= Len(d)
    BY <1>4, <1>6, <1>8, <2>1
  <2>3. d[1] = a[1]
    BY <1>3, <1>5, <1>7, <2>2
  <2> QED
    BY <2>2, <2>3 DEF a
<1>10. list = d
  BY DEF InParts, a, b, c, d
<1>11. list \in Seq(V) /\ Len(list) \in 0..4
  <2> DEFINE length == Len(d)
  <2>1. length <= 4 /\ length \in Nat
    BY <1>7, <1>8
  <2> HIDE DEF length
  <2>2. length \in 0..4
    BY <2>1
  <2> QED
    BY <1>7, <1>10, <2>2 DEF length
<1>12. p # <<>> => 1 <= Len(list)
  BY <1>9, <1>10
<1>13. p # <<>> => list[1] = p[1]
  BY <1>9, <1>10
<1> QED
  BY <1>11, <1>12, <1>13

LEMMA Conditional ==
  ASSUME NEW V, NEW condition, NEW item, condition => item \in V
  PROVE  When(condition, item) \in Optional(V)
BY DEF When, Optional

LEMMA CitedWithin ==
  ASSUME NEW V, NEW items \in Seq(V), NEW field, NEW S, \A v \in V : ToSet(v[field]) \subseteq S
  PROVE  Cited(items, field) \subseteq S
<1>1. \A i \in 1..Len(items) : items[i] \in V
  BY ElementOfSeq
<1> QED
  BY <1>1 DEF Cited

LEMMA NamedWithin ==
  ASSUME NEW V, NEW items \in Seq(V), NEW field, NEW S, \A v \in V : v[field] \in S
  PROVE  Named(items, field) \subseteq S
<1>1. \A i \in 1..Len(items) : items[i] \in V
  BY ElementOfSeq
<1> QED
  BY <1>1 DEF Named

\* The techniques of a context, each with a rationale.
Analysis(ts, rationale, confidence, n) ==
  [i \in 1..Len(ts) |-> MitreEntry(ts[i], rationale[i], confidence, SupportingRefs(n))]

LEMMA MitreList ==
  ASSUME NEW ts \in Seq(Techniques), Len(ts) <= 3, NEW n \in Nat,
         NEW confidence \in AssessmentConfidence, NEW rationale, NEW m,
         \A i \in 1..Len(ts) : rationale[i] \in 1..800,
         m = Analysis(ts, rationale, confidence, n)
  PROVE  /\ ListOf(MitreAnalysisEntry, m, MAX_MITRE_ANALYSIS_ENTRIES)
         /\ Cited(m, "supporting_event_refs") \subseteq 1..n
         /\ Named(m, "technique_id") \subseteq Named(ts, "technique_id")
<1> DEFINE k == Len(ts)
           refs == SupportingRefs(n)
           V == [technique_id : Named(ts, "technique_id"), confidence : {confidence},
                 rationale : 1..800, supporting_event_refs : {refs}]
<1>1. k \in Nat /\ k <= 3 /\ \A i \in 1..k : ts[i] \in Techniques
  BY LenProperties, ElementOfSeq
<1>2. Len(refs) <= 5 /\ Len(refs) \in Nat /\ ToSet(refs) \subseteq 1..n
  BY FirstRefs
<1>3. Named(ts, "technique_id") \subseteq TechniqueIds
  <2>1. \A t \in Techniques : t["technique_id"] \in TechniqueIds
    BY TechniqueFields
  <2> QED
    BY <2>1, NamedWithin
<1> HIDE DEF k, refs
<1>4. m \in [1..k -> V]
  <2>0. m = [i \in 1..k |-> MitreEntry(ts[i], rationale[i], confidence, refs)]
    BY DEF k, refs, Analysis
  <2> SUFFICES ASSUME NEW i \in 1..k
               PROVE  MitreEntry(ts[i], rationale[i], confidence, refs) \in V
    <3> HIDE DEF V
    <3> QED
      BY <2>0
  <2>1. ts[i].technique_id \in Named(ts, "technique_id")
    BY DEF Named, k
  <2>2. rationale[i] \in 1..800
    BY DEF k
  <2> DEFINE id == ts[i].technique_id
             why == rationale[i]
  <2>3. [technique_id |-> id, confidence |-> confidence, rationale |-> why,
         supporting_event_refs |-> refs] \in V
    <3>1. id \in Named(ts, "technique_id") /\ why \in 1..800
      BY <2>1, <2>2
    <3> HIDE DEF k, id, why
    <3> QED
      BY <3>1
  <2> QED
    BY <2>3 DEF MitreEntry
<1>5. m \in Seq(V) /\ Len(m) = k
  <2> HIDE DEF V
  <2> QED
    BY <1>1, <1>4, ListOfItems
<1>6. \A v \in V : /\ MitreAnalysisEntry(v) /\ v["technique_id"] \in Named(ts, "technique_id")
                   /\ ToSet(v["supporting_event_refs"]) \subseteq 1..n
  <2> SUFFICES ASSUME NEW v \in V
               PROVE  /\ MitreAnalysisEntry(v) /\ v.technique_id \in Named(ts, "technique_id")
                      /\ ToSet(v.supporting_event_refs) \subseteq 1..n
    OBVIOUS
  <2>1. /\ v.technique_id \in Named(ts, "technique_id") /\ v.confidence = confidence
        /\ v.rationale \in 1..800 /\ v.supporting_event_refs = refs
    OBVIOUS
  <2>2. v.technique_id # Malformed
    BY <1>3, <2>1 DEF TechniqueIds, Malformed
  <2> HIDE DEF V
  <2> QED
    BY <1>2, <2>1, <2>2 DEF MitreAnalysisEntry, Text, MAX_RATIONALE_LENGTH, Refs,
                            MAX_SUPPORTING_REFS_PER_FINDING
<1> HIDE DEF V
<1>7. \A i \in 1..Len(m) : m[i] \in V
  BY <1>5, ElementOfSeq
<1>8. ListOf(MitreAnalysisEntry, m, MAX_MITRE_ANALYSIS_ENTRIES)
  BY <1>1, <1>5, <1>6, <1>7 DEF ListOf, MAX_MITRE_ANALYSIS_ENTRIES
<1>9. Cited(m, "supporting_event_refs") \subseteq 1..n
  BY <1>5, <1>6, CitedWithin
<1>10. \A v \in V : v["technique_id"] \in Named(ts, "technique_id")
  BY <1>6
<1> QED
  BY <1>5, <1>8, <1>9, <1>10, NamedWithin

ActionItem(action, refs) == [action_id |-> action.action_id, supporting_event_refs |-> refs]

\* The actions of a context.
LEMMA ActionList ==
  ASSUME NEW actions \in Seq(Catalog), Len(actions) <= 8, NEW n \in Nat, NEW m,
         m = [i \in 1..Len(actions) |-> ActionItem(actions[i], SupportingRefs(n))]
  PROVE  /\ ListOf(RecommendedInvestigationAction, m, MAX_RECOMMENDED_ACTIONS)
         /\ Cited(m, "supporting_event_refs") \subseteq 1..n
         /\ Named(m, "action_id") \subseteq Named(actions, "action_id")
<1> DEFINE k == Len(actions)
           refs == SupportingRefs(n)
           V == [action_id : Named(actions, "action_id"), supporting_event_refs : {refs}]
<1>1. k \in Nat /\ k <= 8 /\ \A i \in 1..k : actions[i] \in Catalog
  BY LenProperties, ElementOfSeq
<1>2. Len(refs) <= 5 /\ Len(refs) \in Nat /\ ToSet(refs) \subseteq 1..n
  BY FirstRefs
<1>3. Malformed \notin Named(actions, "action_id")
  <2>1. \A i \in 1..k : actions[i].action_id # Malformed
    BY <1>1, Catalogue
  <2> QED
    BY <2>1 DEF Named
<1> HIDE DEF k, refs
<1>4. m \in [1..k -> V]
  <2> SUFFICES ASSUME NEW i \in 1..k
               PROVE  ActionItem(actions[i], refs) \in V
    BY DEF k, refs
  <2>1. actions[i].action_id \in Named(actions, "action_id")
    BY DEF Named, k
  <2> QED
    BY <2>1 DEF ActionItem
<1>5. m \in Seq(V) /\ Len(m) = k
  <2> HIDE DEF V
  <2> QED
    BY <1>1, <1>4, ListOfItems
<1>6. \A v \in V : /\ RecommendedInvestigationAction(v) /\ v["action_id"] \in Named(actions, "action_id")
                   /\ ToSet(v["supporting_event_refs"]) \subseteq 1..n
  <2> SUFFICES ASSUME NEW v \in V
               PROVE  /\ RecommendedInvestigationAction(v)
                      /\ v.action_id \in Named(actions, "action_id")
                      /\ ToSet(v.supporting_event_refs) \subseteq 1..n
    OBVIOUS
  <2>1. v.action_id \in Named(actions, "action_id") /\ v.supporting_event_refs = refs
    OBVIOUS
  <2> HIDE DEF V
  <2> QED
    BY <1>2, <1>3, <2>1 DEF RecommendedInvestigationAction, Refs, MAX_SUPPORTING_REFS_PER_FINDING
<1> HIDE DEF V
<1>7. \A i \in 1..Len(m) : m[i] \in V
  BY <1>5, ElementOfSeq
<1>8. ListOf(RecommendedInvestigationAction, m, MAX_RECOMMENDED_ACTIONS)
  BY <1>1, <1>5, <1>6, <1>7 DEF ListOf, MAX_RECOMMENDED_ACTIONS
<1>9. Cited(m, "supporting_event_refs") \subseteq 1..n
  BY <1>5, <1>6, CitedWithin
<1>10. \A v \in V : v["action_id"] \in Named(actions, "action_id")
  BY <1>6
<1> QED
  BY <1>5, <1>8, <1>9, <1>10, NamedWithin

-----------------------------------------------------------------------------
(* The answers about an alert *)

\* What the provider relies on in the context of an alert.
Told(context) ==
  /\ context.timeline \in Seq(Events) /\ Len(context.timeline) \in Nat \ {0}
  /\ Chars(context.rule_id) \in 1..100 /\ context.title \in 1..500
  /\ context.severity \in Severity /\ context.confidence \in AssessmentConfidence
  /\ context.evidence \in Seq([key : Nat, value : Nat])
  /\ context.candidate_techniques \in Seq(Techniques) /\ Len(context.candidate_techniques) <= 3
  /\ context.action_candidates \in Seq(Catalog) /\ Len(context.action_candidates) <= 8
  /\ NamesListed(context.entities.usernames, 255) /\ NamesListed(context.entities.hostnames, 255)
  /\ NamesListed(context.entities.source_ips, 45)

LEMMA AlertIsTold ==
  ASSUME NEW a \in Alerts
  PROVE  Told(AIContext(a))
<1> DEFINE context == AIContext(a)
           entities == _extract_entities(a)
<1>1. /\ context.rule_id = AlertRow[a].rule_id /\ context.title = AlertRow[a].title
      /\ context.severity = AlertRow[a].severity /\ context.confidence = AlertRow[a].confidence
      /\ context.evidence = AlertRow[a].evidence /\ context.timeline = _build_timeline(a)
      /\ context.entities = entities /\ context.candidate_techniques = TechniquesOf(a)
      /\ context.action_candidates = get_candidate_actions(AlertRow[a].rule_id, entities)
  BY DEF AIContext
<1>2. /\ entities.usernames = Column(a, "username") /\ entities.hostnames = Column(a, "hostname")
      /\ entities.source_ips = Column(a, "source_ip")
  BY DEF _extract_entities
<1> HIDE DEF context, entities
<1>3. /\ NamesListed(Column(a, "username"), 255) /\ NamesListed(Column(a, "hostname"), 255)
      /\ NamesListed(Column(a, "source_ip"), 45)
  <2>1. /\ DOMAIN Width = {"username", "hostname", "source_ip"}
        /\ Width["username"] = 255 /\ Width["hostname"] = 255 /\ Width["source_ip"] = 45
    BY DEF Width
  <2>2. \A column \in DOMAIN Width : NamesListed(Column(a, column), Width[column])
    BY ColumnItems
  <2> QED
    BY <2>1, <2>2
<1>4. context.timeline \in Seq(Events) /\ Len(context.timeline) \in Nat \ {0}
  BY <1>1, TimelineItems
<1>5. /\ Chars(context.rule_id) \in 1..100 /\ context.title \in 1..500
      /\ context.severity \in Severity /\ context.confidence \in AssessmentConfidence
      /\ context.evidence \in Seq([key : Nat, value : Nat])
  BY <1>1, RowsFit
<1>6. context.candidate_techniques \in Seq(Techniques) /\ Len(context.candidate_techniques) <= 3
  <2>1. TechniquesOf(a) \in Seq(Techniques) /\ Len(TechniquesOf(a)) <= 2
    BY RuleTechniques DEF TechniquesOf
  <2>2. Len(TechniquesOf(a)) \in Nat
    BY <2>1, LenProperties
  <2> QED
    BY <1>1, <2>1, <2>2
<1>7. context.action_candidates \in Seq(Catalog) /\ Len(context.action_candidates) <= 8
  BY <1>1, CandidateActions
<1>8. /\ NamesListed(context.entities.usernames, 255) /\ NamesListed(context.entities.hostnames, 255)
      /\ NamesListed(context.entities.source_ips, 45)
  BY <1>1, <1>2, <1>3
<1> QED
  BY <1>4, <1>5, <1>6, <1>7, <1>8 DEF Told, context

\* The lengths that the texts are made of.
LEMMA ToldNumbers ==
  ASSUME NEW context, Told(context)
  PROVE  /\ context.title \in 1..500 /\ Chars(context.rule_id) \in 1..100
         /\ Chars(context.severity) \in 1..8 /\ Chars(context.confidence) \in 1..8
         /\ Digits(Len(context.timeline)) \in 1..4
         /\ Joined(context.entities.usernames) \in Nat
         /\ Joined(context.entities.hostnames) \in Nat
<1>1. Chars(context.severity) \in 1..8 /\ Chars(context.confidence) \in 1..8
  BY WordsFit DEF Told
<1>2. Digits(Len(context.timeline)) \in 1..4
  BY FewDigits DEF Told
<1>3. ASSUME NEW s, NamesListed(s, 255) PROVE Joined(s) \in Nat
  <2> DEFINE V == SortedTexts
             max == 1
  <2>1. s \in Seq(V) /\ max \in Nat
    BY <1>3 DEF NamesListed
  <2>2. \A i \in 1..Len(s) : Chars(s[i]) \in 1..255
    BY <1>3 DEF NamesListed
  <2>3. \A k \in 1..255 : k \in Nat
    OBVIOUS
  <2> HIDE DEF V, max
  <2>4. \A i \in 1..Len(s) : Chars(s[i]) \in Nat
    BY <2>2, <2>3
  <2> QED
    BY <2>1, <2>4, JoinedTexts
<1> QED
  BY <1>1, <1>2, <1>3 DEF Told

LEMMA Judgement ==
  ASSUME NEW context, Told(context)
  PROVE  /\ _verdict_and_confidence(context)[1] \in Verdict
         /\ _verdict_and_confidence(context)[2] \in AssessmentConfidence
<1> DEFINE given == _VERDICT_BY_SEVERITY[context.severity]
<1>1. context.severity \in {"low", "medium", "high", "critical"}
  BY DEF Told, Severity
<1>2. given[1] \in Verdict /\ given[2] \in AssessmentConfidence
  BY <1>1 DEF _VERDICT_BY_SEVERITY, Verdict, AssessmentConfidence
<1>3. "medium" \in AssessmentConfidence
  BY DEF AssessmentConfidence
<1> DEFINE verdict == given[1]
           confidence == given[2]
<1>4. _verdict_and_confidence(context) = <<verdict, "medium">>
      \/ _verdict_and_confidence(context) = given
  BY DEF _verdict_and_confidence
<1> QED
  BY <1>2, <1>3, <1>4

FindingsOf(S, refs) == [statement : S, supporting_event_refs : {refs, <<>>}]

LEMMA KeyFindings ==
  ASSUME NEW context, Told(context), NEW verdict \in Verdict
  PROVE  LET items == _build_key_findings(context, verdict)
         IN  /\ Cited(items, "supporting_event_refs") \subseteq 1..Len(context.timeline)
             /\ 1 \in Cited(items, "supporting_event_refs")
             /\ context.title <= 300 /\ Joined(context.entities.usernames) <= 240
                /\ Joined(context.entities.hostnames) <= 440
                  => ListOf(KeyFinding, items, MAX_KEY_FINDINGS)
<1> DEFINE n == Len(context.timeline)
           refs == SupportingRefs(n)
           none == <<>>
           users == context.entities.usernames
           hosts == context.entities.hostnames
           l1 == 88 + context.title + Chars(context.rule_id) + Chars(context.severity) + Digits(n)
           l2 == 46 + Joined(users)
           l3 == 46 + Joined(hosts)
           l4 == 132 + Chars(context.severity) + Chars(context.confidence) + Chars(verdict)
           Finding(statement, cited) == [statement |-> statement, supporting_event_refs |-> cited]
           p == <<Finding(l1, refs)>>
           q == When(users # <<>>, Finding(l2, refs))
           r == When(hosts # <<>>, Finding(l3, refs))
           s == <<Finding(l4, none)>>
           items == p \o q \o r \o s
<1>1. items = _build_key_findings(context, verdict)
  BY DEF _build_key_findings
<1>2. /\ context.title \in 1..500 /\ Chars(context.rule_id) \in 1..100
      /\ Chars(context.severity) \in 1..8 /\ Chars(context.confidence) \in 1..8
      /\ Digits(n) \in 1..4 /\ Joined(users) \in Nat /\ Joined(hosts) \in Nat
  BY ToldNumbers
<1>3. Chars(verdict) \in 1..31
  BY WordsFit
<1>4. /\ l1 \in Nat /\ l2 \in Nat /\ l3 \in Nat /\ l4 \in 1..500
      /\ context.title <= 300 => l1 \in 1..500
      /\ Joined(users) <= 240 => l2 \in 1..500
      /\ Joined(hosts) <= 440 => l3 \in 1..500
  <2> DEFINE title == context.title
             rule == Chars(context.rule_id)
             severity == Chars(context.severity)
             confidence == Chars(context.confidence)
             chars == Chars(verdict)
             digits == Digits(n)
             named == Joined(users)
             seen == Joined(hosts)
  <2>1. /\ title \in 1..500 /\ rule \in 1..100 /\ severity \in 1..8 /\ confidence \in 1..8
        /\ digits \in 1..4 /\ named \in Nat /\ seen \in Nat /\ chars \in 1..31
    BY <1>2, <1>3
  <2>2. /\ l1 = 88 + title + rule + severity + digits /\ l2 = 46 + named /\ l3 = 46 + seen
        /\ l4 = 132 + severity + confidence + chars
    OBVIOUS
  <2> HIDE DEF l1, l2, l3, l4, title, rule, severity, confidence, chars, digits, named, seen
  <2>3. l1 \in Nat /\ (title <= 300 => l1 \in 1..500)
    BY <2>1, <2>2
  <2>4. l2 \in Nat /\ (named <= 240 => l2 \in 1..500)
    BY <2>1, <2>2
  <2>5. l3 \in Nat /\ (seen <= 440 => l3 \in 1..500)
    BY <2>1, <2>2
  <2>6. l4 \in 1..500
    BY <2>1, <2>2
  <2> QED
    BY <2>3, <2>4, <2>5, <2>6 DEF title, named, seen
<1>5. n \in Nat /\ n # 0 /\ ToSet(refs) \subseteq 1..n /\ 1 \in ToSet(refs)
      /\ Len(refs) \in Nat /\ Len(refs) <= 5 /\ ToSet(none) = {} /\ Len(none) = 0
  <2>1. n \in Nat /\ n # 0
    BY DEF Told
  <2>2. ToSet(none) = {} /\ Len(none) = 0
    BY DEF ToSet
  <2> HIDE DEF n, none
  <2>3. ToSet(refs) \subseteq 1..n /\ 1 \in ToSet(refs) /\ Len(refs) \in Nat /\ Len(refs) <= 5
    BY <2>1, FirstRefs
  <2> QED
    BY <2>1, <2>2, <2>3
<1> HIDE DEF l1, l2, l3, l4, n, refs, none, users, hosts
<1>6. ASSUME NEW S, l1 \in S, l2 \in S, l3 \in S, l4 \in S
      PROVE  /\ items \in Seq(FindingsOf(S, refs)) /\ Len(items) \in 0..4
             /\ 1 <= Len(items) /\ items[1] = p[1]
  <2> DEFINE V == FindingsOf(S, refs)
  <2>1. ASSUME NEW l \in S, NEW cited \in {refs, <<>>} PROVE Finding(l, cited) \in V
    BY DEF FindingsOf
  <2>2. Finding(l1, refs) \in V /\ Finding(l2, refs) \in V /\ Finding(l3, refs) \in V
        /\ Finding(l4, none) \in V
    <3> HIDE DEF V, Finding
    <3> QED
      BY <1>6, <2>1 DEF none
  <2> HIDE DEF V, Finding
  <2>3. p \in Optional(V) /\ s \in Optional(V) /\ p # <<>>
    BY <2>2 DEF Optional
  <2>4. q \in Optional(V) /\ r \in Optional(V)
    BY <2>2, Conditional
  <2> HIDE DEF p, q, r, s
  <2>5. InParts(items, p, q, r, s)
    BY DEF InParts
  <2> HIDE DEF items
  <2>6. items \in Seq(V) /\ Len(items) \in 0..4 /\ 1 <= Len(items) /\ items[1] = p[1]
    BY <2>3, <2>4, <2>5, FourParts
  <2> QED
    BY <2>6 DEF V
<1>7. p[1].supporting_event_refs = refs
  OBVIOUS
<1> HIDE DEF p, q, r, s, items, Finding
<1>8. /\ items \in Seq(FindingsOf(Nat, refs)) /\ Len(items) \in 0..4
      /\ 1 <= Len(items) /\ items[1] = p[1]
  <2> DEFINE S == Nat
  <2>1. l1 \in S /\ l2 \in S /\ l3 \in S /\ l4 \in S
    BY <1>4
  <2> HIDE DEF S
  <2>2. /\ items \in Seq(FindingsOf(S, refs)) /\ Len(items) \in 0..4
        /\ 1 <= Len(items) /\ items[1] = p[1]
    BY <1>6, <2>1
  <2> QED
    BY <2>2 DEF S
<1>9. Cited(items, "supporting_event_refs") \subseteq 1..n
  <2>1. \A v \in FindingsOf(Nat, refs) : ToSet(v["supporting_event_refs"]) \subseteq 1..n
    BY <1>5 DEF FindingsOf, none
  <2> QED
    BY <1>8, <2>1, CitedWithin
<1>10. 1 \in Cited(items, "supporting_event_refs")
  <2>1. 1 \in 1..Len(items) /\ items[1].supporting_event_refs = refs
    BY <1>7, <1>8
  <2> QED
    BY <1>5, <2>1 DEF Cited
<1>11. ASSUME l1 \in 1..500, l2 \in 1..500, l3 \in 1..500
       PROVE  ListOf(KeyFinding, items, MAX_KEY_FINDINGS)
  <2> DEFINE S == 1..500
  <2>1. l1 \in S /\ l2 \in S /\ l3 \in S /\ l4 \in S
    BY <1>4, <1>11
  <2> HIDE DEF S
  <2>2. items \in Seq(FindingsOf(S, refs)) /\ Len(items) \in 0..4
    BY <1>6, <2>1
  <2>3. \A i \in 1..Len(items) : items[i] \in FindingsOf(S, refs)
    BY <2>2, ElementOfSeq
  <2>4. ASSUME NEW v \in FindingsOf(S, refs) PROVE KeyFinding(v)
    <3>1. v.statement \in 1..500 /\ v.supporting_event_refs \in {refs, none}
      BY DEF FindingsOf, S, none
    <3> QED
      BY <1>5, <3>1 DEF KeyFinding, Text, MAX_STATEMENT_LENGTH, Refs,
                        MAX_SUPPORTING_REFS_PER_FINDING
  <2> QED
    BY <2>2, <2>3, <2>4 DEF ListOf, MAX_KEY_FINDINGS
<1> QED
  BY <1>1, <1>4, <1>9, <1>10, <1>11 DEF n, users, hosts


\* Lists of short texts.
LEMMA ShortTexts ==
  ASSUME NEW max \in {300, 500}, NEW s \in Seq(1..max), Len(s) <= 10
  PROVE  /\ max = 300 => ListOf(Step, s, MAX_NEXT_STEPS) /\ ListOf(Limitation, s, MAX_LIMITATIONS)
         /\ max = 500 => /\ ListOf(ShortStatement, s, MAX_LIMITATIONS)
                         /\ ListOf(ShortStatement, s, MAX_NEXT_STEPS)
<1>1. \A i \in 1..Len(s) : s[i] \in 1..max
  BY ElementOfSeq
<1>2. Len(s) <= MAX_NEXT_STEPS /\ Len(s) <= MAX_LIMITATIONS
  BY DEF MAX_NEXT_STEPS, MAX_LIMITATIONS
<1>3. ASSUME max = 300
      PROVE  ListOf(Step, s, MAX_NEXT_STEPS) /\ ListOf(Limitation, s, MAX_LIMITATIONS)
  <2>1. \A i \in 1..Len(s) : Step(s[i]) /\ Limitation(s[i])
    BY <1>1, <1>3 DEF Step, Limitation, Text, MAX_STEP_LENGTH, MAX_LIMITATION_LENGTH
  <2> QED
    BY <1>2, <2>1 DEF ListOf
<1>4. ASSUME max = 500
      PROVE  /\ ListOf(ShortStatement, s, MAX_LIMITATIONS)
             /\ ListOf(ShortStatement, s, MAX_NEXT_STEPS)
  <2>1. \A i \in 1..Len(s) : ShortStatement(s[i])
    BY <1>1, <1>4 DEF ShortStatement, Text, MAX_STATEMENT_LENGTH
  <2> QED
    BY <1>2, <2>1 DEF ListOf
<1> QED
  BY <1>3, <1>4

LEMMA NextSteps ==
  ASSUME NEW context, Told(context), Joined(context.entities.usernames) <= 240
  PROVE  ListOf(Step, _build_next_steps(context), MAX_NEXT_STEPS)
<1> DEFINE V == 1..300
           users == context.entities.usernames
           ips == context.entities.source_ips
           hosts == context.entities.hostnames
           l1 == 54 + Joined(First(users, 3))
           l2 == 62 + Joined(First(ips, 1))
           l3 == 34 + Joined(First(hosts, 1))
           p == When(users # <<>>, l1)
           q == When(ips # <<>>, l2)
           r == When(hosts # <<>>, l3)
           s == <<92>>
           list == _build_next_steps(context)
<1>1. InParts(list, p, q, r, s)
  BY DEF InParts, _build_next_steps
<1>2. ASSUME NEW t, NEW width \in {45, 255}, NamesListed(t, width), NEW max \in 1..3
      PROVE  /\ Joined(t) \in Nat /\ Joined(First(t, max)) \in Nat
             /\ Joined(First(t, max)) <= Joined(t)
             /\ t # <<>> /\ max = 1 => Joined(First(t, max)) \in 1..width
  <2> DEFINE W == SortedTexts
  <2>1. t \in Seq(W) /\ \A i \in 1..Len(t) : Chars(t[i]) \in 1..width
    BY <1>2 DEF NamesListed
  <2>2. (\A k \in 1..width : k \in Nat) /\ max \in Nat
    OBVIOUS
  <2> HIDE DEF W
  <2>3. \A i \in 1..Len(t) : Chars(t[i]) \in Nat
    BY <2>1, <2>2
  <2>4. /\ Joined(t) \in Nat /\ Joined(First(t, max)) \in Nat
        /\ Joined(First(t, max)) <= Joined(t)
        /\ t # <<>> /\ max = 1 => Joined(First(t, max)) = Chars(t[1])
    <3>1. t \in Seq(W)
      BY <2>1
    <3>2. Joined(t) \in Nat
      BY <2>2, <2>3, <3>1, JoinedTexts
    <3>3. Joined(First(t, max)) \in Nat
      BY <2>2, <2>3, <3>1, JoinedTexts
    <3>4. Joined(First(t, max)) <= Joined(t)
      BY <2>2, <2>3, <3>1, JoinedTexts
    <3>5. t # <<>> /\ max = 1 => Joined(First(t, max)) = Chars(t[1])
      BY <2>2, <2>3, <3>1, JoinedTexts
    <3> QED
      BY <3>2, <3>3, <3>4, <3>5
  <2>5. t # <<>> => 1 \in 1..Len(t)
    <3>1. Len(t) \in Nat /\ (t # <<>> => Len(t) # 0)
      BY <2>1, LenProperties, EmptySeq
    <3> QED
      BY <3>1
  <2> QED
    BY <2>1, <2>4, <2>5
<1>3. /\ Joined(users) \in Nat /\ Joined(First(users, 3)) \in Nat
      /\ Joined(First(users, 3)) <= Joined(users)
  <2>1. NamesListed(users, 255)
    BY DEF Told
  <2> HIDE DEF users
  <2> QED
    BY <1>2, <2>1
<1>4. ips # <<>> => Joined(First(ips, 1)) \in 1..45
  <2>1. NamesListed(ips, 45)
    BY DEF Told
  <2> HIDE DEF ips
  <2> QED
    BY <1>2, <2>1
<1>5. hosts # <<>> => Joined(First(hosts, 1)) \in 1..255
  <2>1. NamesListed(hosts, 255)
    BY DEF Told
  <2> HIDE DEF hosts
  <2> QED
    BY <1>2, <2>1
<1>6. l1 \in V
  <2> DEFINE joined == Joined(First(users, 3))
             all == Joined(users)
  <2>1. joined \in Nat /\ all \in Nat /\ joined <= all /\ all <= 240
    BY <1>3
  <2> HIDE DEF joined, all
  <2> QED
    BY <2>1 DEF joined
<1>7. ips # <<>> => l2 \in V
  <2> DEFINE joined == Joined(First(ips, 1))
  <2>1. ips # <<>> => joined \in 1..45
    BY <1>4
  <2> HIDE DEF joined
  <2>2. joined \in 1..45 => 62 + joined \in V
    OBVIOUS
  <2> QED
    BY <2>1, <2>2 DEF joined
<1>8. hosts # <<>> => l3 \in V
  <2> DEFINE joined == Joined(First(hosts, 1))
  <2>1. hosts # <<>> => joined \in 1..255
    BY <1>5
  <2> HIDE DEF joined
  <2>2. joined \in 1..255 => 34 + joined \in V
    OBVIOUS
  <2> QED
    BY <2>1, <2>2 DEF joined
<1>9. s \in Optional(V)
  BY DEF Optional
<1> HIDE DEF V, l1, l2, l3, s, users, ips, hosts
<1>10. p \in Optional(V) /\ q \in Optional(V) /\ r \in Optional(V)
  BY <1>6, <1>7, <1>8, Conditional
<1> HIDE DEF p, q, r, list
<1>11. list \in Seq(V) /\ Len(list) \in 0..4
  BY <1>1, <1>9, <1>10, FourParts
<1> DEFINE max == 300
<1>12. list \in Seq(1..max) /\ max \in {300, 500} /\ max = 300
  BY <1>11 DEF V
<1>13. Len(list) <= 10
  <2> DEFINE length == Len(list)
  <2>1. length \in 0..4
    BY <1>11
  <2> HIDE DEF length
  <2>2. length <= 10
    BY <2>1
  <2> QED
    BY <2>2 DEF length
<1> HIDE DEF max
<1> QED
  BY <1>12, <1>13, ShortTexts DEF list


LEMMA Limitations ==
  ASSUME NEW context, Told(context)
  PROVE  ListOf(Limitation, _build_limitations(context), MAX_LIMITATIONS)
<1> DEFINE V == 1..300
           rule == Chars(context.rule_id)
           failed == ~\E i \in 1..Len(context.timeline) : EventRow[context.timeline[i]].success
           a == <<77, 58>>
           p == When(failed, 67)
           q == When(context.timeline = <<>>, 57)
           r == When(context.candidate_techniques = <<>>, 159 + rule)
           b == a \o p
           c == b \o q
           d == c \o r
<1>1. d = _build_limitations(context)
  BY DEF _build_limitations
<1>2. rule \in 1..100
  BY DEF Told
<1>3. a \in Seq(V) /\ Len(a) <= 2
  OBVIOUS
<1> HIDE DEF a, rule
<1>4. 67 \in V /\ 57 \in V /\ 159 + rule \in V
  BY <1>2
<1> HIDE DEF V, failed
<1>5. p \in Optional(V) /\ q \in Optional(V) /\ r \in Optional(V)
  BY <1>4, Conditional
<1> HIDE DEF p, q, r
<1>6. b \in Seq(V) /\ Len(b) <= 3
  BY <1>3, <1>5, Extended
<1> HIDE DEF b
<1>7. c \in Seq(V) /\ Len(c) <= 4
  BY <1>5, <1>6, Extended
<1> HIDE DEF c
<1>8. d \in Seq(V) /\ Len(d) <= 5
  BY <1>5, <1>7, Extended
<1>9. Len(d) \in Nat
  BY <1>8, LenProperties
<1> HIDE DEF d
<1>10. Len(d) <= 10
  BY <1>8, <1>9
<1> DEFINE max == 300
<1>11. d \in Seq(1..max) /\ max \in {300, 500} /\ max = 300
  BY <1>8 DEF V
<1> HIDE DEF max
<1> QED
  BY <1>1, <1>10, <1>11, ShortTexts

\* Lists of at most n items.
Few(V, n) == {s \in Seq(V) : Len(s) <= n}

\* The items of a list of evidence, by the sets its texts are in.
EvidenceOf(F, W) ==
  [field : F, value : W, event_ref : {NoRef, 1}, explanation : 1..500]

\* What the alert has captured, and the first event's address and host.
LEMMA AlertEvidence ==
  ASSUME NEW context, Told(context)
  PROVE  LET items == _build_evidence(context)
         IN  /\ Evidence(items, "event_ref") \subseteq {1}
             /\ (\A i \in 1..Len(context.evidence) : 0 \notin {context.evidence[i].key,
                                                               context.evidence[i].value})
                  => ListOf(EvidenceItem, items, MAX_EVIDENCE_ITEMS)
<1> DEFINE E == [key : Nat, value : Nat]
           kept == First(context.evidence, _MAX_EVIDENCE_FROM_ALERT_DICT)
           k == Len(kept)
           Item(field, value, ref, explanation) ==
             [field |-> field, value |-> value, event_ref |-> ref, explanation |-> explanation]
           captured == [i \in 1..k |->
                          Item(Cut(kept[i].key, 100), Cut(kept[i].value, 500), NoRef, 55)]
           first == EventRow[context.timeline[1]]
           ip == Chars(first.source_ip)
           host == Chars(first.hostname)
           p == When(first.source_ip # Absent, Item(9, ip, 1, 49))
           q == When(first.hostname # Absent, Item(8, host, 1, 48))
           b == captured \o p
           c == b \o q
<1>1. context.timeline \in Seq(Events) /\ Len(context.timeline) \in Nat \ {0}
  BY DEF Told
<1>2. context.timeline # <<>> /\ context.timeline[1] \in Events
  <2>1. 1 \in 1..Len(context.timeline)
    BY <1>1
  <2>2. context.timeline[1] \in Events
    BY <1>1, <2>1, ElementOfSeq
  <2> QED
    BY <1>1, <2>2
<1>3. c = _build_evidence(context)
  BY <1>2 DEF _build_evidence
<1>4. /\ first.source_ip # Absent => ip \in 1..500
      /\ first.hostname # Absent => host \in 1..500
  <2> DEFINE e == context.timeline[1]
  <2>1. /\ DOMAIN Width = {"username", "hostname", "source_ip"}
        /\ Width["hostname"] = 255 /\ Width["source_ip"] = 45
    BY DEF Width
  <2>2. \A column \in DOMAIN Width :
          EventRow[e][column] # Absent => Chars(EventRow[e][column]) \in 1..Width[column]
    BY <1>2, ColumnsFit
  <2> HIDE DEF e
  <2>3. /\ EventRow[e].source_ip # Absent => Chars(EventRow[e].source_ip) \in 1..45
        /\ EventRow[e].hostname # Absent => Chars(EventRow[e].hostname) \in 1..255
    BY <2>1, <2>2
  <2>4. (\A x \in 1..45 : x \in 1..500) /\ (\A x \in 1..255 : x \in 1..500)
    OBVIOUS
  <2>5. EventRow[e].source_ip # Absent => Chars(EventRow[e].source_ip) \in 1..500
    BY <2>3, <2>4
  <2>6. EventRow[e].hostname # Absent => Chars(EventRow[e].hostname) \in 1..500
    BY <2>3, <2>4
  <2>7. first = EventRow[e]
    BY DEF e
  <2> HIDE DEF first
  <2> QED
    BY <2>5, <2>6, <2>7
<1>5. /\ kept \in Seq(E) /\ k <= 5 /\ k <= Len(context.evidence)
      /\ \A i \in 1..k : kept[i] = context.evidence[i]
  <2>1. context.evidence \in Seq(E) /\ _MAX_EVIDENCE_FROM_ALERT_DICT \in Nat
    BY DEF Told, _MAX_EVIDENCE_FROM_ALERT_DICT
  <2>2. k <= _MAX_EVIDENCE_FROM_ALERT_DICT
    BY <2>1, FirstItems
  <2> HIDE DEF E
  <2> QED
    BY <2>1, <2>2, FirstItems DEF _MAX_EVIDENCE_FROM_ALERT_DICT
<1>6. k \in Nat /\ Len(context.evidence) \in Nat
  BY <1>5, LenProperties DEF Told
<1>7. \A i \in 1..k : kept[i].key \in Nat /\ kept[i].value \in Nat
  <2>1. \A i \in 1..k : kept[i] \in E
    BY <1>5, ElementOfSeq
  <2> QED
    BY <2>1
<1> HIDE DEF E, kept, k, ip, host, first
<1>8. ASSUME NEW F, NEW W, 8 \in F, 9 \in F, 1..500 \subseteq W,
             \A i \in 1..k : Cut(kept[i].key, 100) \in F /\ Cut(kept[i].value, 500) \in W
      PROVE  c \in Few(EvidenceOf(F, W), 7)
  <2> DEFINE V == EvidenceOf(F, W)
  <2>1. ASSUME NEW f \in F, NEW w \in W, NEW ref \in {NoRef, 1}, NEW x \in 1..500
        PROVE  Item(f, w, ref, x) \in V
    BY DEF EvidenceOf
  <2>2. ASSUME NEW i \in 1..k
        PROVE  Item(Cut(kept[i].key, 100), Cut(kept[i].value, 500), NoRef, 55) \in V
    <3> DEFINE key == Cut(kept[i].key, 100)
               value == Cut(kept[i].value, 500)
               ref == NoRef
               x == 55
    <3>1. key \in F /\ value \in W /\ ref \in {NoRef, 1} /\ x \in 1..500
      BY <1>8
    <3> HIDE DEF V, Item, key, value, ref, x
    <3>2. Item(key, value, ref, x) \in V
      BY <2>1, <3>1
    <3> QED
      BY <3>2 DEF key, value, ref, x
  <2>3. /\ first.source_ip # Absent => Item(9, ip, 1, 49) \in V
        /\ first.hostname # Absent => Item(8, host, 1, 48) \in V
    <3> DEFINE address == 9
               machine == 8
               ref == 1
               x == 49
               y == 48
    <3>1. address \in F /\ machine \in F /\ ref \in {NoRef, 1} /\ x \in 1..500 /\ y \in 1..500
      BY <1>8
    <3> HIDE DEF V, Item, address, machine, ref, x, y
    <3>2. first.source_ip # Absent => ip \in W
      BY <1>4, <1>8
    <3>3. first.hostname # Absent => host \in W
      BY <1>4, <1>8
    <3>4. ASSUME NEW w \in W PROVE Item(address, w, ref, x) \in V
      BY <2>1, <3>1
    <3>5. ASSUME NEW w \in W PROVE Item(machine, w, ref, y) \in V
      BY <2>1, <3>1
    <3> QED
      BY <3>2, <3>3, <3>4, <3>5 DEF address, machine, ref, x, y
  <2> HIDE DEF V, Item
  <2>4. captured \in [1..k -> V]
    BY <2>2
  <2> HIDE DEF captured
  <2>5. captured \in Seq(V) /\ Len(captured) <= 5
    BY <1>5, <1>6, <2>4, ListOfItems
  <2>6. p \in Optional(V) /\ q \in Optional(V)
    BY <2>3, Conditional
  <2> HIDE DEF p, q
  <2>7. b \in Seq(V) /\ Len(b) <= 6
    BY <2>5, <2>6, Extended
  <2> HIDE DEF b
  <2>8. c \in Seq(V) /\ Len(c) <= 7
    BY <2>6, <2>7, Extended
  <2> HIDE DEF c
  <2> QED
    BY <2>8 DEF V, Few
<1> HIDE DEF captured, p, q, b, c
<1>9. Evidence(c, "event_ref") \subseteq {1}
  <2> DEFINE F == Nat
             W == Nat
             V == EvidenceOf(F, W)
  <2>1. /\ 8 \in F /\ 9 \in F /\ 1..500 \subseteq W
        /\ \A i \in 1..k : Cut(kept[i].key, 100) \in F /\ Cut(kept[i].value, 500) \in W
    BY <1>7 DEF Cut
  <2>2. \A v \in V : v["event_ref"] \in {NoRef, 1}
    BY DEF EvidenceOf
  <2> HIDE DEF F, W
  <2>3. c \in Few(V, 7)
    BY <1>8, <2>1
  <2> HIDE DEF V
  <2>4. Named(c, "event_ref") \subseteq {NoRef, 1}
    BY <2>2, <2>3, NamedWithin DEF Few
  <2> QED
    BY <2>4 DEF Evidence
<1>10. ASSUME \A i \in 1..Len(context.evidence) :
                0 \notin {context.evidence[i].key, context.evidence[i].value}
       PROVE  ListOf(EvidenceItem, c, MAX_EVIDENCE_ITEMS)
  <2> DEFINE F == 1..100
             W == 1..500
             V == EvidenceOf(F, W)
  <2>1. ASSUME NEW i \in 1..k
        PROVE  Cut(kept[i].key, 100) \in F /\ Cut(kept[i].value, 500) \in W
    <3>1. i \in 1..Len(context.evidence)
      BY <1>5, <1>6
    <3>2. kept[i].key # 0 /\ kept[i].value # 0
      BY <1>5, <1>10, <3>1
    <3>3. \A x \in Nat : x # 0 => Cut(x, 100) \in F /\ Cut(x, 500) \in W
      BY DEF Cut
    <3>4. kept[i].key \in Nat /\ kept[i].value \in Nat
      BY <1>7
    <3> HIDE DEF F, W
    <3> QED
      BY <3>2, <3>3, <3>4
  <2>2. 8 \in F /\ 9 \in F /\ 1..500 \subseteq W
    OBVIOUS
  <2>3. ASSUME NEW v \in V PROVE EvidenceItem(v)
    BY DEF EvidenceOf, EvidenceItem, Text, MAX_SHORT_FIELD_LENGTH, MAX_STATEMENT_LENGTH
  <2> HIDE DEF F, W
  <2>4. c \in Seq(V) /\ Len(c) \in Nat /\ Len(c) <= 7
    <3>1. \A i \in 1..k : Cut(kept[i].key, 100) \in F /\ Cut(kept[i].value, 500) \in W
      BY <2>1
    <3>2. c \in Few(V, 7)
      BY <1>8, <2>2, <3>1
    <3> QED
      BY <3>2, LenProperties DEF Few
  <2> HIDE DEF V
  <2>5. \A i \in 1..Len(c) : c[i] \in V
    BY <2>4, ElementOfSeq
  <2>6. Len(c) <= MAX_EVIDENCE_ITEMS
    BY <2>4 DEF MAX_EVIDENCE_ITEMS
  <2> QED
    BY <2>3, <2>5, <2>6 DEF ListOf
<1> QED
  BY <1>3, <1>9, <1>10


LEMMA AlertTechniques ==
  ASSUME NEW context, Told(context), NEW confidence \in AssessmentConfidence
  PROVE  LET items == _build_mitre_analysis(context, confidence)
         IN  /\ ListOf(MitreAnalysisEntry, items, MAX_MITRE_ANALYSIS_ENTRIES)
             /\ Cited(items, "supporting_event_refs") \subseteq 1..Len(context.timeline)
             /\ Named(items, "technique_id")
                  \subseteq Named(context.candidate_techniques, "technique_id")
<1> DEFINE ts == context.candidate_techniques
           n == Len(context.timeline)
           rationale == [i \in 1..Len(ts) |-> 301 + 2 * Chars(context.rule_id)
                                                  + 2 * Chars(ts[i].technique_id) + ts[i].name]
           items == [i \in 1..Len(ts) |->
                       MitreEntry(ts[i], rationale[i], confidence, SupportingRefs(n))]
<1>1. items = _build_mitre_analysis(context, confidence)
  BY DEF _build_mitre_analysis
<1>2. ts \in Seq(Techniques) /\ Len(ts) <= 3 /\ n \in Nat
  BY DEF Told
<1>3. ASSUME NEW i \in 1..Len(ts) PROVE rationale[i] \in 1..800
  <2> DEFINE rule == Chars(context.rule_id)
             id == Chars(ts[i].technique_id)
             name == ts[i].name
  <2>1. ts[i] \in Techniques
    BY <1>2, ElementOfSeq
  <2>2. id \in 1..31 /\ name \in 1..52
    BY <2>1, TechniqueFields
  <2>3. rule \in 1..100
    BY DEF Told
  <2>4. rationale[i] = 301 + 2 * rule + 2 * id + name
    OBVIOUS
  <2> HIDE DEF rule, id, name, rationale
  <2> QED
    BY <2>2, <2>3, <2>4
<1> HIDE DEF rationale
<1>4. items = Analysis(ts, rationale, confidence, n)
  BY DEF Analysis
<1> HIDE DEF items, ts, n
<1>5. \A i \in 1..Len(ts) : rationale[i] \in 1..800
  BY <1>3
<1>6. /\ ListOf(MitreAnalysisEntry, items, MAX_MITRE_ANALYSIS_ENTRIES)
      /\ Cited(items, "supporting_event_refs") \subseteq 1..n
      /\ Named(items, "technique_id") \subseteq Named(ts, "technique_id")
  BY <1>2, <1>4, <1>5, MitreList
<1> QED
  BY <1>1, <1>6 DEF ts, n

LEMMA AlertActions ==
  ASSUME NEW context, Told(context)
  PROVE  LET items == _build_recommended_actions(context)
         IN  /\ ListOf(RecommendedInvestigationAction, items, MAX_RECOMMENDED_ACTIONS)
             /\ Cited(items, "supporting_event_refs") \subseteq 1..Len(context.timeline)
             /\ Named(items, "action_id") \subseteq Named(context.action_candidates, "action_id")
<1> DEFINE actions == context.action_candidates
           n == Len(context.timeline)
           items == _build_recommended_actions(context)
<1>1. items = [i \in 1..Len(actions) |-> ActionItem(actions[i], SupportingRefs(n))]
  BY DEF _build_recommended_actions, ActionItem
<1>2. actions \in Seq(Catalog) /\ Len(actions) <= 8 /\ n \in Nat
  BY DEF Told
<1> HIDE DEF items, actions, n
<1> QED
  BY <1>1, <1>2, ActionList DEF items, actions, n

\* An answer that the mock can build passes the service's checks: then the request is
\* answered, and otherwise no reply came.
LEMMA OutcomeOfValid ==
  ASSUME NEW type, NEW context, NEW question, NEW turns,
         LET answer == MockAnswer(type, context, question, turns)
         IN  Schema(type, answer) => Accepted(type, answer, context)
  PROVE  LET outcome == Outcome(type, MockGenerate(type, context, question, turns), context)
         IN  /\ outcome \in {"answered", "transport"}
             /\ Schema(type, MockAnswer(type, context, question, turns)) => outcome = "answered"
<1> DEFINE answer == MockAnswer(type, context, question, turns)
           provided == MockGenerate(type, context, question, turns)
<1>1. CASE Schema(type, answer)
  <2>1. provided = <<answer>>
    BY <1>1 DEF MockGenerate
  <2> HIDE DEF answer, provided
  <2>2. provided # <<>> /\ provided[1] = answer
    BY <2>1
  <2>3. Accepted(type, answer, context)
    BY <1>1 DEF answer
  <2> QED
    BY <2>2, <2>3 DEF Outcome, answer, provided
<1>2. CASE ~Schema(type, answer)
  <2>1. provided = <<>>
    BY <1>2 DEF MockGenerate
  <2> HIDE DEF provided
  <2> QED
    BY <1>2, <2>1 DEF Outcome, provided
<1> QED
  BY <1>1, <1>2

\* The texts that an assessment quotes have a place in it.
Quotable(context) ==
  /\ context.title <= 300 /\ Joined(context.entities.usernames) <= 240
  /\ Joined(context.entities.hostnames) <= 440
  /\ \A i \in 1..Len(context.evidence) :
       0 \notin {context.evidence[i].key, context.evidence[i].value}

LEMMA SummaryFits ==
  ASSUME NEW context, Told(context), NEW verdict \in Verdict
  PROVE  Text(_build_summary(context, verdict), MAX_SUMMARY_LENGTH)
<1> DEFINE title == context.title
           rule == Chars(context.rule_id)
           severity == Chars(context.severity)
           confidence == Chars(context.confidence)
           digits == Digits(Len(context.timeline))
           chars == Chars(verdict)
<1>1. /\ title \in 1..500 /\ rule \in 1..100 /\ severity \in 1..8 /\ confidence \in 1..8
      /\ digits \in 1..4
  BY ToldNumbers
<1>2. chars \in 1..31
  BY WordsFit
<1>3. _build_summary(context, verdict) =
        369 + title + rule + severity + confidence + digits + chars
  BY DEF _build_summary
<1> HIDE DEF title, rule, severity, confidence, digits, chars
<1> QED
  BY <1>1, <1>2, <1>3 DEF Text, MAX_SUMMARY_LENGTH

LEMMA AskIsValid ==
  ASSUME NEW context, Told(context), NEW question, NEW turns
  PROVE  LET outcome == Outcome("ask", MockGenerate("ask", context, question, turns), context)
         IN  /\ outcome \in {"answered", "transport"}
             /\ Quotable(context) => outcome = "answered"
<1> DEFINE n == Len(context.timeline)
           judged == _verdict_and_confidence(context)
           verdict == judged[1]
           confidence == judged[2]
           summary == _build_summary(context, verdict)
           findings == _build_key_findings(context, verdict)
           evidence == _build_evidence(context)
           mitre == _build_mitre_analysis(context, confidence)
           actions == _build_recommended_actions(context)
           steps == _build_next_steps(context)
           limits == _build_limitations(context)
           answer == MockAnswer("ask", context, question, turns)
<1>1. verdict \in Verdict /\ confidence \in AssessmentConfidence
  BY Judgement
<1>2. /\ answer.verdict = verdict /\ answer.confidence = confidence
      /\ answer.summary = summary /\ answer.key_findings = findings
      /\ answer.evidence = evidence /\ answer.mitre_analysis = mitre
      /\ answer.recommended_actions = actions /\ answer.recommended_next_steps = steps
      /\ answer.limitations = limits
  BY DEF MockAnswer, _build_assessment
<1> HIDE DEF answer, judged, verdict, confidence
<1>3. n \in Nat /\ n # 0
  BY DEF Told
<1>4. /\ Cited(findings, "supporting_event_refs") \subseteq 1..n
      /\ 1 \in Cited(findings, "supporting_event_refs")
      /\ Quotable(context) => ListOf(KeyFinding, findings, MAX_KEY_FINDINGS)
  <2>1. Cited(findings, "supporting_event_refs") \subseteq 1..n
    BY <1>1, KeyFindings
  <2>2. 1 \in Cited(findings, "supporting_event_refs")
    BY <1>1, KeyFindings
  <2>3. ASSUME Quotable(context) PROVE ListOf(KeyFinding, findings, MAX_KEY_FINDINGS)
    <3>1. context.title <= 300 /\ Joined(context.entities.usernames) <= 240
          /\ Joined(context.entities.hostnames) <= 440
      BY <2>3 DEF Quotable
    <3> QED
      BY <1>1, <3>1, KeyFindings
  <2> QED
    BY <2>1, <2>2, <2>3
<1>5. /\ Evidence(evidence, "event_ref") \subseteq {1}
      /\ Quotable(context) => ListOf(EvidenceItem, evidence, MAX_EVIDENCE_ITEMS)
  <2>1. Evidence(evidence, "event_ref") \subseteq {1}
    BY AlertEvidence
  <2>2. ASSUME Quotable(context) PROVE ListOf(EvidenceItem, evidence, MAX_EVIDENCE_ITEMS)
    <3>1. \A i \in 1..Len(context.evidence) :
            0 \notin {context.evidence[i].key, context.evidence[i].value}
      BY <2>2 DEF Quotable
    <3> QED
      BY <3>1, AlertEvidence
  <2> QED
    BY <2>1, <2>2
<1>6. /\ ListOf(MitreAnalysisEntry, mitre, MAX_MITRE_ANALYSIS_ENTRIES)
      /\ Cited(mitre, "supporting_event_refs") \subseteq 1..n
      /\ Named(mitre, "technique_id")
           \subseteq Named(context.candidate_techniques, "technique_id")
  BY <1>1, AlertTechniques
<1>7. /\ ListOf(RecommendedInvestigationAction, actions, MAX_RECOMMENDED_ACTIONS)
      /\ Cited(actions, "supporting_event_refs") \subseteq 1..n
      /\ Named(actions, "action_id") \subseteq Named(context.action_candidates, "action_id")
  BY AlertActions
<1>8. Quotable(context) => ListOf(Step, steps, MAX_NEXT_STEPS)
  BY NextSteps DEF Quotable
<1>9. ListOf(Limitation, limits, MAX_LIMITATIONS)
  BY Limitations
<1>10. Text(summary, MAX_SUMMARY_LENGTH)
  BY <1>1, SummaryFits
<1> HIDE DEF n, summary, findings, evidence, mitre, actions, steps, limits
<1>11. Quotable(context) => Schema("ask", answer)
  BY <1>1, <1>2, <1>4, <1>5, <1>6, <1>7, <1>8, <1>9, <1>10 DEF Schema, CopilotAssessment
<1>12. ASSUME Schema("ask", answer) PROVE Accepted("ask", answer, context)
  <2>1. EventRefsCited("ask", answer) =
          Cited(findings, "supporting_event_refs") \cup Evidence(evidence, "event_ref")
          \cup Cited(mitre, "supporting_event_refs") \cup Cited(actions, "supporting_event_refs")
    BY <1>2 DEF EventRefsCited, _event_refs_cited_in_assessment
  <2>2. EventRefsCited("ask", answer) \subseteq 1..n
    <3>1. 1 \in 1..n
      BY <1>3
    <3> QED
      BY <1>4, <1>5, <1>6, <1>7, <2>1, <3>1
  <2>3. _reject_fabricated_refs("ask", answer, context)
    BY <2>2 DEF _reject_fabricated_refs, KnownEventRefs, Timeline, AlertTypes, AlertRefsCited, n
  <2>4. _enforce_confidence_calibration(answer)
    BY <1>2, <1>4 DEF _enforce_confidence_calibration, _event_refs_cited_in_assessment
  <2>5. _normalize_mitre_entries("ask", answer, context)
    BY <1>2, <1>6 DEF _normalize_mitre_entries, TechniquesNamed, MitreEntries, Candidates,
                      AlertTypes
  <2>6. _normalize_recommended_actions("ask", answer, context)
    BY <1>2, <1>7 DEF _normalize_recommended_actions, ActionsNamed, AlertTypes
  <2> QED
    BY <1>12, <2>3, <2>4, <2>5, <2>6 DEF Accepted
<1> QED
  BY <1>11, <1>12, OutcomeOfValid DEF answer


LEMMA GoodRefs ==
  ASSUME NEW n \in Nat
  PROVE  Refs(SupportingRefs(n)) /\ ToSet(SupportingRefs(n)) \subseteq 1..n
<1> DEFINE refs == SupportingRefs(n)
           length == Len(refs)
<1>1. length \in Nat /\ length <= 5 /\ ToSet(refs) \subseteq 1..n
  BY FirstRefs
<1> HIDE DEF length, refs
<1>2. length <= MAX_SUPPORTING_REFS_PER_FINDING
  BY <1>1 DEF MAX_SUPPORTING_REFS_PER_FINDING
<1> QED
  BY <1>1, <1>2 DEF Refs, length, refs

LEMMA FollowUpIsValid ==
  ASSUME NEW context, Told(context), NEW question \in Nat, NEW turns \in Nat
  PROVE  Outcome("follow_up", MockGenerate("follow_up", context, question, turns), context)
           = "answered"
<1> DEFINE n == Len(context.timeline)
           confidence == _verdict_and_confidence(context)[2]
           text == _build_follow_up_text(context, question, turns)
           refs == SupportingRefs(n)
           mitre == _build_mitre_analysis(context, confidence)
           actions == _build_recommended_actions(context)
           limits == _build_limitations(context)
           answer == MockAnswer("follow_up", context, question, turns)
<1>1. /\ answer.answer = text /\ answer.supporting_event_refs = refs
      /\ answer.mitre_refs = mitre /\ answer.recommended_actions = actions
      /\ answer.limitations = limits
  BY DEF MockAnswer, _build_follow_up_answer
<1>2. confidence \in AssessmentConfidence
  BY Judgement
<1> HIDE DEF answer, confidence
<1>3. n \in Nat /\ n # 0
  BY DEF Told
<1>4. Text(text, MAX_FOLLOW_UP_ANSWER_LENGTH)
  <2> DEFINE asked == Excerpt(question, 300)
             turn == Digits(turns + 1)
             title == Excerpt(context.title, 150)
             rule == Chars(context.rule_id)
             severity == Chars(context.severity)
             certainty == Chars(context.confidence)
             digits == Digits(n)
  <2>1. context.title \in 1..500 /\ rule \in 1..100 /\ severity \in 1..8
        /\ certainty \in 1..8 /\ digits \in 1..4
    BY ToldNumbers
  <2>2. asked \in 0..301 /\ title \in 0..151
    <3> DEFINE chars == context.title
    <3>1. chars \in 1..500
      BY <2>1
    <3> HIDE DEF chars
    <3>2. chars \in Nat
      BY <3>1
    <3>3. \A k \in Nat : Excerpt(k, 300) \in 0..301 /\ Excerpt(k, 150) \in 0..151
      BY DEF Excerpt
    <3> QED
      BY <3>2, <3>3 DEF chars
  <2>3. turn \in 1..4
    BY FewDigits
  <2>4. text = 665 + asked + turn + title + rule + severity + certainty + digits
    BY DEF _build_follow_up_text
  <2> HIDE DEF asked, turn, title, rule, severity, certainty, digits, text
  <2> QED
    BY <2>1, <2>2, <2>3, <2>4 DEF Text, MAX_FOLLOW_UP_ANSWER_LENGTH
<1>5. Refs(refs) /\ ToSet(refs) \subseteq 1..n
  BY <1>3, GoodRefs
<1>6. /\ ListOf(MitreAnalysisEntry, mitre, MAX_MITRE_ANALYSIS_ENTRIES)
      /\ Cited(mitre, "supporting_event_refs") \subseteq 1..n
      /\ Named(mitre, "technique_id")
           \subseteq Named(context.candidate_techniques, "technique_id")
  BY <1>2, AlertTechniques
<1>7. /\ ListOf(RecommendedInvestigationAction, actions, MAX_RECOMMENDED_ACTIONS)
      /\ Cited(actions, "supporting_event_refs") \subseteq 1..n
      /\ Named(actions, "action_id") \subseteq Named(context.action_candidates, "action_id")
  BY AlertActions
<1>8. ListOf(Limitation, limits, MAX_LIMITATIONS)
  BY Limitations
<1> HIDE DEF n, text, refs, mitre, actions, limits
<1>9. Schema("follow_up", answer)
  BY <1>1, <1>4, <1>5, <1>6, <1>7, <1>8 DEF Schema, CopilotFollowUpAnswer
<1>10. Accepted("follow_up", answer, context)
  <2>1. EventRefsCited("follow_up", answer) =
          ToSet(refs) \cup Cited(mitre, "supporting_event_refs")
          \cup Cited(actions, "supporting_event_refs")
    BY <1>1 DEF EventRefsCited, _event_refs_cited_in_follow_up
  <2>2. _reject_fabricated_refs("follow_up", answer, context)
    BY <1>5, <1>6, <1>7, <2>1 DEF _reject_fabricated_refs, KnownEventRefs, Timeline, AlertTypes,
                                  AlertRefsCited, n
  <2>3. _normalize_mitre_entries("follow_up", answer, context)
    BY <1>1, <1>6 DEF _normalize_mitre_entries, TechniquesNamed, MitreEntries, Candidates,
                      AlertTypes
  <2>4. _normalize_recommended_actions("follow_up", answer, context)
    BY <1>1, <1>7 DEF _normalize_recommended_actions, ActionsNamed, AlertTypes
  <2> QED
    BY <1>9, <2>2, <2>3, <2>4 DEF Accepted
<1> QED
  BY <1>9, <1>10, OutcomeOfValid DEF answer


-----------------------------------------------------------------------------
(* The answers about a case *)

\* What the provider relies on in the context of a case.
ToldCase(context) ==
  /\ Len(context.alerts) \in Nat /\ context.notes \in Nat
  /\ context.alerts = <<>> <=> Len(context.alerts) = 0
  /\ \A i \in 1..Len(context.alerts) : context.alerts[i].evidence_keys \in Seq(Nat)
  /\ Joined(RulesNamed(context)) \in Nat
  /\ context.focused_alert.alert_ref \in 0..Len(context.alerts)
  /\ context.focused_alert.timeline \in Seq(Events)
  /\ context.focused_alert.alert_ref = 0 => context.focused_alert.timeline = <<>>
  /\ context.mitre_candidates \in Seq(Techniques) /\ Len(context.mitre_candidates) <= 3

\* The texts that a brief lists have a place in it.
Listable(context) ==
  /\ Joined(RulesNamed(context)) <= 440
  /\ \A i \in 1..Len(context.alerts) : 0 \notin ToSet(context.alerts[i].evidence_keys)

CaseFindingsOf(S, n, m) ==
  [statement : S,
   supporting_alert_refs : {SupportingRefs(n), <<>>} \cup {<<i>> : i \in 1..n},
   supporting_event_refs : {SupportingRefs(m), <<>>}]

\* What the references of a finding are, whatever it says.
LEMMA CaseFindingRefs ==
  ASSUME NEW S, NEW n \in Nat, NEW m \in Nat, NEW v \in CaseFindingsOf(S, n, m)
  PROVE  /\ Refs(v.supporting_alert_refs) /\ Refs(v.supporting_event_refs)
         /\ ToSet(v.supporting_alert_refs) \subseteq 1..n
         /\ ToSet(v.supporting_event_refs) \subseteq 1..m
<1>1. /\ Refs(SupportingRefs(n)) /\ ToSet(SupportingRefs(n)) \subseteq 1..n
      /\ Refs(SupportingRefs(m)) /\ ToSet(SupportingRefs(m)) \subseteq 1..m
  BY GoodRefs
<1>2. Refs(<<>>) /\ ToSet(<<>>) = {}
  BY DEF Refs, ToSet, MAX_SUPPORTING_REFS_PER_FINDING
<1>3. ASSUME NEW i \in 1..n PROVE Refs(<<i>>) /\ ToSet(<<i>>) \subseteq 1..n
  BY <1>3 DEF Refs, ToSet, MAX_SUPPORTING_REFS_PER_FINDING
<1>4. v.supporting_event_refs = SupportingRefs(m) \/ v.supporting_event_refs = <<>>
  BY DEF CaseFindingsOf
<1>5. \/ v.supporting_alert_refs = SupportingRefs(n) \/ v.supporting_alert_refs = <<>>
      \/ \E i \in 1..n : v.supporting_alert_refs = <<i>>
  BY DEF CaseFindingsOf
<1> QED
  BY <1>1, <1>2, <1>3, <1>4, <1>5

LEMMA CaseKeyFindings ==
  ASSUME NEW context, ToldCase(context)
  PROVE  LET items == _build_case_key_findings(context)
         IN  /\ Cited(items, "supporting_alert_refs") \subseteq 1..Len(context.alerts)
             /\ Cited(items, "supporting_event_refs")
                  \subseteq 1..Len(context.focused_alert.timeline)
             /\ Joined(RulesNamed(context)) <= 440
                  => ListOf(CaseKeyFinding, items, MAX_KEY_FINDINGS)
<1> DEFINE n == Len(context.alerts)
           ref == context.focused_alert.alert_ref
           m == Len(context.focused_alert.timeline)
           rules == Joined(RulesNamed(context))
           l1 == 56 + Digits(n) + rules
           l2 == 44
           l3 == 96 + Digits(ref) + Digits(m)
           l4 == 152 + Digits(n) + Digits(context.notes) + CaseStatus
           mine == When(ref \in 1..n, ref)
           none == <<>>
           ns == SupportingRefs(n)
           ms == SupportingRefs(m)
           Finding(statement, alerts, events) ==
             [statement |-> statement, supporting_alert_refs |-> alerts,
              supporting_event_refs |-> events]
           a == IF n > 0 THEN <<Finding(l1, ns, none)>> ELSE <<Finding(l2, none, none)>>
           p == When(ref # 0, Finding(l3, mine, ms))
           q == <<Finding(l4, none, none)>>
           b == a \o p
           c == b \o q
<1>1. c = _build_case_key_findings(context)
  BY DEF _build_case_key_findings
<1>2. n \in Nat /\ m \in Nat /\ ref \in 0..n /\ context.notes \in Nat /\ rules \in Nat
  BY LenProperties DEF ToldCase
<1>3. l1 \in Nat /\ (rules <= 440 => l1 \in 1..500) /\ l2 \in 1..500 /\ l3 \in 1..500 /\ l4 \in 1..500
  <2> DEFINE notes == context.notes
             dn == Digits(n)
             dr == Digits(ref)
             dm == Digits(m)
             dt == Digits(notes)
  <2>1. ref \in Nat
    BY <1>2
  <2> HIDE DEF n, ref, m, notes, rules
  <2>2. dn \in 1..4 /\ dr \in 1..4 /\ dm \in 1..4 /\ dt \in 1..4
    BY <1>2, <2>1, FewDigits DEF notes
  <2>3. l1 = 56 + dn + rules /\ l2 = 44 /\ l3 = 96 + dr + dm /\ l4 = 152 + dn + dt + 13
    BY DEF notes, CaseStatus
  <2> HIDE DEF l1, l2, l3, l4, dn, dr, dm, dt
  <2>4. l1 \in Nat /\ (rules <= 440 => l1 \in 1..500)
    BY <1>2, <2>2, <2>3
  <2> QED
    BY <2>2, <2>3, <2>4
<1>4. mine \in {none} \cup {<<i>> : i \in 1..n}
  BY DEF When
<1> HIDE DEF n, ref, m, rules, l1, l2, l3, l4, mine
<1>5. ASSUME NEW S, l1 \in S, l2 \in S, l3 \in S, l4 \in S
      PROVE  c \in Few(CaseFindingsOf(S, n, m), 3)
  <2> DEFINE V == CaseFindingsOf(S, n, m)
  <2>1. ASSUME NEW l \in S, NEW as \in {ns, none} \cup {<<i>> : i \in 1..n}, NEW es \in {ms, none}
        PROVE  Finding(l, as, es) \in V
    BY DEF CaseFindingsOf
  <2>2. /\ Finding(l1, ns, none) \in V /\ Finding(l2, none, none) \in V
        /\ Finding(l3, mine, ms) \in V /\ Finding(l4, none, none) \in V
    <3> DEFINE As == {ns, none} \cup {<<i>> : i \in 1..n}
               Es == {ms, none}
    <3>1. ns \in As /\ none \in As /\ mine \in As /\ ms \in Es /\ none \in Es
      BY <1>4
    <3>2. \A l \in S : \A as \in As : \A es \in Es : Finding(l, as, es) \in V
      BY <2>1
    <3> HIDE DEF V, Finding, As, Es, none, ns, ms
    <3> QED
      BY <1>5, <3>1, <3>2
  <2> HIDE DEF V, Finding
  <2>3. a \in Seq(V) /\ Len(a) <= 1 /\ q \in Optional(V)
    BY <2>2 DEF Optional
  <2>4. p \in Optional(V)
    BY <2>2, Conditional
  <2> HIDE DEF a, p, q
  <2>5. b \in Seq(V) /\ Len(b) <= 2
    BY <2>3, <2>4, Extended
  <2> HIDE DEF b
  <2>6. c \in Seq(V) /\ Len(c) <= 3
    BY <2>3, <2>5, Extended
  <2> QED
    BY <2>6 DEF V, Few
<1> HIDE DEF a, b, c, p, q
<1>6. /\ Cited(c, "supporting_alert_refs") \subseteq 1..n
      /\ Cited(c, "supporting_event_refs") \subseteq 1..m
  <2> DEFINE S == Nat
             V == CaseFindingsOf(S, n, m)
  <2>1. l1 \in S /\ l2 \in S /\ l3 \in S /\ l4 \in S
    BY <1>3
  <2> HIDE DEF S
  <2>2. c \in Few(V, 3)
    BY <1>5, <2>1
  <2>3. \A v \in V : /\ ToSet(v["supporting_alert_refs"]) \subseteq 1..n
                     /\ ToSet(v["supporting_event_refs"]) \subseteq 1..m
    BY <1>2, CaseFindingRefs
  <2> HIDE DEF V
  <2> QED
    BY <2>2, <2>3, CitedWithin DEF Few
<1>7. ASSUME rules <= 440 PROVE ListOf(CaseKeyFinding, c, MAX_KEY_FINDINGS)
  <2> DEFINE S == 1..500
             V == CaseFindingsOf(S, n, m)
  <2>1. l1 \in S /\ l2 \in S /\ l3 \in S /\ l4 \in S
    BY <1>3, <1>7
  <2>2. ASSUME NEW v \in V PROVE Text(v.statement, MAX_STATEMENT_LENGTH)
    BY DEF CaseFindingsOf, Text, MAX_STATEMENT_LENGTH
  <2> HIDE DEF S
  <2>3. c \in Few(V, 3)
    BY <1>5, <2>1
  <2>4. ASSUME NEW v \in V PROVE CaseKeyFinding(v)
    BY <1>2, <2>2, CaseFindingRefs DEF CaseKeyFinding
  <2> HIDE DEF V
  <2>5. c \in Seq(V) /\ Len(c) <= 3 /\ Len(c) \in Nat
    BY <2>3, LenProperties DEF Few
  <2>6. Len(c) <= MAX_KEY_FINDINGS
    BY <2>5 DEF MAX_KEY_FINDINGS
  <2>7. \A i \in 1..Len(c) : c[i] \in V
    BY <2>5, ElementOfSeq
  <2> QED
    BY <2>4, <2>6, <2>7 DEF ListOf
<1> QED
  BY <1>1, <1>6, <1>7 DEF n, m, rules


CaseEvidenceOf(W, n, m) ==
  [field : 1..100, value : W, alert_ref : 1..n, event_ref : {NoRef} \cup 1..m,
   explanation : 1..500]

\* An item for every alert with evidence, among the first five, and the host of the
\* first event of the alert the brief is about.
LEMMA CaseEvidence ==
  ASSUME NEW context, ToldCase(context)
  PROVE  LET items == _build_case_evidence(context)
         IN  /\ Evidence(items, "alert_ref") \subseteq 1..Len(context.alerts)
             /\ Evidence(items, "event_ref") \subseteq 1..Len(context.focused_alert.timeline)
             /\ (\A i \in 1..Len(context.alerts) : 0 \notin ToSet(context.alerts[i].evidence_keys))
                  => ListOf(CaseEvidenceItem, items, MAX_EVIDENCE_ITEMS)
<1> DEFINE n == Len(context.alerts)
           timeline == context.focused_alert.timeline
           m == Len(timeline)
           ref == context.focused_alert.alert_ref
           k == Cut(n, _MAX_EVIDENCE_FROM_ALERT_DICT)
           keys(i) == context.alerts[i].evidence_keys
           value(i) == Cut(JoinedLength(keys(i)), 500)
           Item(field, val, alert, event, explanation) ==
             [field |-> field, value |-> val, alert_ref |-> alert, event_ref |-> event,
              explanation |-> explanation]
           Part(i) == When(keys(i) # <<>>, Item(13, value(i), i, NoRef, 73 + Digits(i)))
           parts == [i \in 1..k |-> Part(i)]
           a == FlattenSeq(parts)
           host == IF timeline = <<>> THEN Absent ELSE EventRow[timeline[1]].hostname
           p == When(host # Absent, Item(8, Chars(host), ref, 1, 61))
           c == a \o p
<1>1. c = _build_case_evidence(context)
  BY DEF _build_case_evidence
<1>2. /\ n \in Nat /\ timeline \in Seq(Events) /\ m \in Nat /\ ref \in 0..n
      /\ ref = 0 => timeline = <<>>
      /\ \A i \in 1..n : keys(i) \in Seq(Nat)
  BY LenProperties DEF ToldCase
<1>3. k \in Nat /\ k <= 5 /\ k <= n
  BY <1>2 DEF Cut, _MAX_EVIDENCE_FROM_ALERT_DICT
<1>4. host # Absent => /\ Chars(host) \in 1..500 /\ ref \in 1..n /\ 1 \in 1..m
  <2> SUFFICES ASSUME host # Absent
               PROVE  Chars(host) \in 1..500 /\ ref \in 1..n /\ 1 \in 1..m
    OBVIOUS
  <2>1. timeline # <<>> /\ host = EventRow[timeline[1]].hostname
    OBVIOUS
  <2>2. m # 0
    BY <1>2, <2>1, EmptySeq
  <2>3. 1 \in 1..m
    BY <1>2, <2>2
  <2>4. ref \in 1..n
    BY <1>2, <2>1
  <2> DEFINE e == timeline[1]
  <2>5. e \in Events
    BY <1>2, <2>3, ElementOfSeq
  <2>6. "hostname" \in DOMAIN Width /\ Width["hostname"] = 255
    BY DEF Width
  <2>7. EventRow[e]["hostname"] # Absent
    BY <2>1
  <2> HIDE DEF e
  <2> DEFINE column == "hostname"
  <2>8. column \in DOMAIN Width /\ EventRow[e][column] # Absent /\ Width[column] = 255
    BY <2>6, <2>7
  <2> HIDE DEF column
  <2>9. Chars(EventRow[e][column]) \in 1..Width[column]
    <3>1. \A name \in DOMAIN Width :
            EventRow[e][name] # Absent => Chars(EventRow[e][name]) \in 1..Width[name]
      BY <2>5, ColumnsFit
    <3> QED
      BY <2>8, <3>1
  <2>10. \A x \in 1..255 : x \in 1..500
    OBVIOUS
  <2>11. Chars(EventRow[e][column]) \in 1..500
    BY <2>8, <2>9, <2>10
  <2>12. host = EventRow[e][column]
    BY <2>1 DEF e, column
  <2> HIDE DEF host
  <2> QED
    BY <2>3, <2>4, <2>11, <2>12
<1>5. ASSUME NEW i \in 1..n, keys(i) # <<>>
      PROVE  /\ JoinedLength(keys(i)) \in Nat
             /\ 0 \notin ToSet(keys(i)) => JoinedLength(keys(i)) # 0
  <2> DEFINE ks == keys(i)
             len == Len(ks)
  <2>1. ks \in Seq(Nat)
    BY <1>2
  <2>2. len \in Nat /\ ks \in [1..len -> Nat] /\ len # 0 /\ DOMAIN ks = 1..len
    BY <1>5, <2>1, LenProperties, EmptySeq
  <2> HIDE DEF ks, len
  <2>3. JoinedLength(ks) \in Nat /\ (len # 0 => ks[1] <= JoinedLength(ks))
    BY <2>2, JoinedNumbers
  <2>4. 1 \in 1..len /\ ks[1] \in Nat /\ ks[1] \in ToSet(ks)
    BY <2>2 DEF ToSet
  <2> DEFINE first == ks[1]
             joined == JoinedLength(ks)
  <2>5. first \in Nat /\ joined \in Nat /\ first <= joined
    BY <2>2, <2>3, <2>4
  <2> HIDE DEF first, joined
  <2>6. first # 0 => joined # 0
    BY <2>5
  <2>7. 0 \notin ToSet(ks) => first # 0
    BY <2>4 DEF first
  <2> QED
    BY <2>5, <2>6, <2>7 DEF joined, ks
<1> HIDE DEF n, timeline, m, ref, k, keys, host
<1>6. ASSUME NEW W, 1..500 \subseteq W, \A i \in 1..n : keys(i) # <<>> => value(i) \in W
      PROVE  c \in Few(CaseEvidenceOf(W, n, m), 6)
  <2> DEFINE V == CaseEvidenceOf(W, n, m)
             S == Seq(V)
  <2>1. ASSUME NEW i \in 1..k PROVE Part(i) \in Optional(V)
    <3>1. i \in 1..n /\ i \in Nat
      BY <1>2, <1>3
    <3> DEFINE explanation == 73 + Digits(i)
               val == value(i)
    <3>2. explanation \in 1..500
      <4> DEFINE d == Digits(i)
      <4>1. d \in 1..4
        BY <3>1, FewDigits
      <4> HIDE DEF d
      <4>2. 73 + d \in 1..500
        BY <4>1
      <4> QED
        BY <4>2 DEF d
    <3>3. keys(i) # <<>> => val \in W
      BY <1>6, <3>1
    <3> HIDE DEF explanation, val
    <3>4. keys(i) # <<>> => Item(13, val, i, NoRef, explanation) \in V
      BY <3>1, <3>2, <3>3 DEF CaseEvidenceOf
    <3> HIDE DEF V, Item
    <3>5. When(keys(i) # <<>>, Item(13, val, i, NoRef, explanation)) \in Optional(V)
      BY <3>4, Conditional
    <3> QED
      BY <3>5 DEF val, explanation
  <2> HIDE DEF Part
  <2>2. ASSUME NEW t \in Optional(V) PROVE t \in S /\ Len(t) <= 1
    <3> HIDE DEF V
    <3>1. CASE t = <<>>
      BY <3>1
    <3>2. ASSUME NEW v \in V, t = <<v>> PROVE t \in Seq(V) /\ Len(t) <= 1
      BY <3>2
    <3> QED
      BY <3>1, <3>2 DEF Optional
  <2>3. host # Absent => Item(8, Chars(host), ref, 1, 61) \in V
    <3> DEFINE chars == Chars(host)
    <3>1. host # Absent => chars \in W /\ ref \in 1..n /\ 1 \in 1..m
      BY <1>4, <1>6
    <3> HIDE DEF chars
    <3>2. host # Absent => Item(8, chars, ref, 1, 61) \in V
      BY <3>1 DEF CaseEvidenceOf
    <3> QED
      BY <3>2 DEF chars
  <2> HIDE DEF V, Item
  <2>4. p \in Optional(V)
    BY <2>3, Conditional
  <2>5. parts \in Parts(k, S) /\ \A i \in 1..k : Len(parts[i]) <= 1
    <3>1. \A i \in 1..k : Part(i) \in S /\ Len(Part(i)) <= 1
      BY <2>1, <2>2
    <3>2. parts \in [1..k -> S] /\ \A i \in 1..k : parts[i] = Part(i)
      <4> HIDE DEF S
      <4> QED
        BY <3>1
    <3> QED
      BY <3>1, <3>2 DEF Parts
  <2> HIDE DEF parts
  <2>6. a \in Seq(V) /\ Len(a) <= k
    BY <1>3, <2>5, FlattenItems, FlattenLength
  <2> HIDE DEF a, p
  <2>7. Len(a) <= 5
    <3> DEFINE length == Len(a)
    <3>1. length \in Nat /\ length <= k
      BY <2>6, LenProperties
    <3> HIDE DEF length
    <3>2. length <= 5
      BY <1>3, <3>1
    <3> QED
      BY <3>2 DEF length
  <2>8. c \in Seq(V) /\ Len(c) <= 6
    BY <2>4, <2>6, <2>7, Extended
  <2> QED
    BY <2>8 DEF V, Few
<1> HIDE DEF c
<1>7. /\ Evidence(c, "alert_ref") \subseteq 1..n
      /\ Evidence(c, "event_ref") \subseteq 1..m
  <2> DEFINE W == Nat
             V == CaseEvidenceOf(W, n, m)
  <2>1. 1..500 \subseteq W /\ \A i \in 1..n : keys(i) # <<>> => value(i) \in W
    BY <1>5 DEF Cut
  <2> HIDE DEF W
  <2>2. c \in Few(V, 6)
    BY <1>6, <2>1
  <2>3. \A v \in V : v["alert_ref"] \in 1..n /\ v["event_ref"] \in {NoRef} \cup 1..m
    BY DEF CaseEvidenceOf
  <2> HIDE DEF V
  <2>4. c \in Seq(V)
    BY <2>2 DEF Few
  <2>5. Named(c, "alert_ref") \subseteq 1..n
    BY <2>3, <2>4, NamedWithin
  <2>6. Named(c, "event_ref") \subseteq {NoRef} \cup 1..m
    BY <2>3, <2>4, NamedWithin
  <2> QED
    BY <2>5, <2>6 DEF Evidence
<1>8. ASSUME \A i \in 1..n : 0 \notin ToSet(keys(i))
      PROVE  ListOf(CaseEvidenceItem, c, MAX_EVIDENCE_ITEMS)
  <2> DEFINE W == 1..500
             V == CaseEvidenceOf(W, n, m)
  <2>1. ASSUME NEW i \in 1..n, keys(i) # <<>> PROVE value(i) \in W
    <3> DEFINE joined == JoinedLength(keys(i))
    <3>1. joined \in Nat /\ joined # 0
      BY <1>5, <1>8, <2>1
    <3> HIDE DEF joined
    <3>2. Cut(joined, 500) \in W
      BY <3>1 DEF Cut
    <3> QED
      BY <3>2 DEF joined
  <2>2. ASSUME NEW v \in V PROVE CaseEvidenceItem(v)
    BY DEF CaseEvidenceOf, CaseEvidenceItem, EvidenceItem, Text, MAX_SHORT_FIELD_LENGTH,
           MAX_STATEMENT_LENGTH
  <2>3. 1..500 \subseteq W
    OBVIOUS
  <2> HIDE DEF W, value
  <2>4. c \in Few(V, 6)
    BY <1>6, <2>1, <2>3
  <2> HIDE DEF V
  <2>5. c \in Seq(V) /\ Len(c) <= 6 /\ Len(c) \in Nat
    BY <2>4, LenProperties DEF Few
  <2>6. Len(c) <= MAX_EVIDENCE_ITEMS
    BY <2>5 DEF MAX_EVIDENCE_ITEMS
  <2>7. \A i \in 1..Len(c) : c[i] \in V
    BY <2>5, ElementOfSeq
  <2> QED
    BY <2>2, <2>6, <2>7 DEF ListOf
<1> QED
  BY <1>1, <1>7, <1>8 DEF n, m, timeline, keys


LEMMA CaseTechniques ==
  ASSUME NEW context, ToldCase(context), NEW n \in Nat
  PROVE  LET items == _build_case_mitre_analysis(context, n)
         IN  /\ ListOf(MitreAnalysisEntry, items, MAX_MITRE_ANALYSIS_ENTRIES)
             /\ Cited(items, "supporting_event_refs") \subseteq 1..n
             /\ Named(items, "technique_id")
                  \subseteq Named(context.mitre_candidates, "technique_id")
<1> DEFINE ts == context.mitre_candidates
           confidence == "low"
           rationale == [i \in 1..Len(ts) |-> 315 + 2 * Chars(ts[i].source_rule_id)
                                                  + Chars(ts[i].technique_id) + ts[i].name]
           items == [i \in 1..Len(ts) |->
                       MitreEntry(ts[i], rationale[i], confidence, SupportingRefs(n))]
<1>1. items = _build_case_mitre_analysis(context, n)
  BY DEF _build_case_mitre_analysis
<1>2. ts \in Seq(Techniques) /\ Len(ts) <= 3
  BY DEF ToldCase
<1>3. ASSUME NEW i \in 1..Len(ts) PROVE rationale[i] \in 1..800
  <2> DEFINE rule == Chars(ts[i].source_rule_id)
             id == Chars(ts[i].technique_id)
             name == ts[i].name
  <2>1. ts[i] \in Techniques
    BY <1>2, ElementOfSeq
  <2>2. rule \in 1..31 /\ id \in 1..31 /\ name \in 1..52
    BY <2>1, TechniqueFields
  <2>3. rationale[i] = 315 + 2 * rule + id + name
    OBVIOUS
  <2> HIDE DEF rule, id, name, rationale
  <2> QED
    BY <2>2, <2>3
<1> HIDE DEF rationale
<1>4. items = Analysis(ts, rationale, confidence, n)
  BY DEF Analysis
<1>5. \A i \in 1..Len(ts) : rationale[i] \in 1..800
  BY <1>3
<1>6. confidence \in AssessmentConfidence
  BY DEF AssessmentConfidence
<1> HIDE DEF items, ts, confidence
<1>7. /\ ListOf(MitreAnalysisEntry, items, MAX_MITRE_ANALYSIS_ENTRIES)
      /\ Cited(items, "supporting_event_refs") \subseteq 1..n
      /\ Named(items, "technique_id") \subseteq Named(ts, "technique_id")
  BY <1>2, <1>4, <1>5, <1>6, MitreList
<1> QED
  BY <1>1, <1>7 DEF ts

\* Up to four statements that are given or not.
LEMMA FewStatements ==
  ASSUME NEW p \in Optional(1..500), NEW q \in Optional(1..500), NEW r \in Optional(1..500),
         NEW s \in Optional(1..500), NEW list, InParts(list, p, q, r, s)
  PROVE  /\ ListOf(ShortStatement, list, MAX_LIMITATIONS)
         /\ ListOf(ShortStatement, list, MAX_NEXT_STEPS)
<1> DEFINE max == 500
           V == 1..max
           length == Len(list)
<1>1. /\ p \in Optional(V) /\ q \in Optional(V) /\ r \in Optional(V) /\ s \in Optional(V)
      /\ max \in {300, 500} /\ max = 500
  OBVIOUS
<1> HIDE DEF V
<1>2. list \in Seq(V) /\ length \in 0..4
  BY <1>1, FourParts
<1> HIDE DEF length
<1>3. length <= 10
  BY <1>2
<1>4. list \in Seq(1..max) /\ Len(list) <= 10
  BY <1>2, <1>3 DEF V, length
<1> HIDE DEF max
<1> QED
  BY <1>1, <1>4, ShortTexts

LEMMA CaseUncertainties ==
  ASSUME NEW context
  PROVE  ListOf(ShortStatement, _build_case_uncertainties(context), MAX_LIMITATIONS)
<1> DEFINE V == 1..500
           unfocused == context.focused_alert.alert_ref = 0
           silent == context.notes = 0
           unknown == context.mitre_candidates = <<>>
           p == <<72>>
           q == When(unfocused, 133)
           r == When(silent, 50)
           s == When(unknown, 79)
           list == _build_case_uncertainties(context)
<1>1. InParts(list, p, q, r, s)
  BY DEF InParts, _build_case_uncertainties
<1>2. 133 \in V /\ 50 \in V /\ 79 \in V /\ p \in Optional(V)
  BY DEF Optional
<1> HIDE DEF V, p, unfocused, silent, unknown, list
<1>3. q \in Optional(V) /\ r \in Optional(V) /\ s \in Optional(V)
  BY <1>2, Conditional
<1> HIDE DEF q, r, s
<1> QED
  BY <1>1, <1>2, <1>3, FewStatements DEF V, list

LEMMA CaseNextSteps ==
  ASSUME NEW context
  PROVE  ListOf(ShortStatement, _build_case_next_steps(context), MAX_NEXT_STEPS)
<1> DEFINE V == 1..500
           empty == context.alerts = <<>>
           unfocused == context.focused_alert.alert_ref = 0 /\ context.alerts # <<>>
           silent == context.notes = 0
           p == When(empty, 70)
           q == When(unfocused, 57)
           r == When(silent, 67)
           s == <<80>>
           list == _build_case_next_steps(context)
<1>1. InParts(list, p, q, r, s)
  BY DEF InParts, _build_case_next_steps
<1>2. 70 \in V /\ 57 \in V /\ 67 \in V /\ s \in Optional(V)
  BY DEF Optional
<1> HIDE DEF V, s, empty, unfocused, silent, list
<1>3. p \in Optional(V) /\ q \in Optional(V) /\ r \in Optional(V)
  BY <1>2, Conditional
<1> HIDE DEF p, q, r
<1> QED
  BY <1>1, <1>2, <1>3, FewStatements DEF V, list

\* The texts of a brief and of an answer to a question about the case.
LEMMA CaseTexts ==
  ASSUME NEW context, ToldCase(context), NEW question \in Nat, NEW turns \in Nat
  PROVE  /\ Text(_build_case_summary(context), MAX_BRIEF_SUMMARY_LENGTH)
         /\ Text(_build_case_timeline_summary(context), MAX_TIMELINE_SUMMARY_LENGTH)
         /\ Text(_build_case_follow_up_text(context, question, turns), MAX_FOLLOW_UP_ANSWER_LENGTH)
<1> DEFINE n == Len(context.alerts)
           ref == context.focused_alert.alert_ref
           m == Len(context.focused_alert.timeline)
           notes == context.notes
           dn == Digits(n)
           dr == Digits(ref)
           dm == Digits(m)
           dt == Digits(notes)
           turn == Digits(turns + 1)
           asked == Excerpt(question, 300)
           summary == _build_case_summary(context)
           timeline == _build_case_timeline_summary(context)
           text == _build_case_follow_up_text(context, question, turns)
<1>1. n \in Nat /\ m \in Nat /\ ref \in 0..n /\ notes \in Nat
  BY LenProperties DEF ToldCase
<1>2. summary = 357 + 500 + 13 + 8 + dn + dt + 2 + 3
  BY DEF _build_case_summary, CaseTitle, CaseStatus
<1>3. timeline = 161 + dr + dm \/ timeline = 185 + dn \/ timeline = 73
  BY DEF _build_case_timeline_summary
<1>4. text = 722 + asked + turn + 151 + 13 + 8 + dn + dt
  BY DEF _build_case_follow_up_text, CaseStatus
<1>5. asked \in 0..301
  BY DEF Excerpt
<1> HIDE DEF n, m, ref, notes, summary, timeline, text, asked
<1>6. dn \in 1..4 /\ dr \in 1..4 /\ dm \in 1..4 /\ dt \in 1..4 /\ turn \in 1..4
  <2>1. ref \in Nat /\ turns + 1 \in Nat
    BY <1>1
  <2> QED
    BY <1>1, <2>1, FewDigits
<1> HIDE DEF dn, dr, dm, dt, turn
<1>7. summary \in 1..3000
  BY <1>2, <1>6
<1>8. timeline \in 1..1000
  BY <1>3, <1>6
<1>9. text \in 1..3000
  BY <1>4, <1>5, <1>6
<1>10. Text(summary, MAX_BRIEF_SUMMARY_LENGTH)
  BY <1>7 DEF Text, MAX_BRIEF_SUMMARY_LENGTH
<1>11. Text(timeline, MAX_TIMELINE_SUMMARY_LENGTH)
  BY <1>8 DEF Text, MAX_TIMELINE_SUMMARY_LENGTH
<1>12. Text(text, MAX_FOLLOW_UP_ANSWER_LENGTH)
  BY <1>9 DEF Text, MAX_FOLLOW_UP_ANSWER_LENGTH
<1> QED
  BY <1>10, <1>11, <1>12 DEF summary, timeline, text

LEMMA BriefIsValid ==
  ASSUME NEW context, ToldCase(context), NEW question \in Nat, NEW turns \in Nat
  PROVE  LET outcome == Outcome("case_brief", MockGenerate("case_brief", context, question, turns),
                                context)
         IN  /\ outcome \in {"answered", "transport"}
             /\ Listable(context) => outcome = "answered"
<1> DEFINE type == "case_brief"
           n == Len(context.alerts)
           m == Len(context.focused_alert.timeline)
           summary == _build_case_summary(context)
           findings == _build_case_key_findings(context)
           evidence == _build_case_evidence(context)
           mitre == _build_case_mitre_analysis(context, m)
           timeline == _build_case_timeline_summary(context)
           unsure == _build_case_uncertainties(context)
           steps == _build_case_next_steps(context)
           answer == MockAnswer(type, context, question, turns)
<1>1. /\ answer.summary = summary /\ answer.key_findings = findings
      /\ answer.supporting_evidence = evidence /\ answer.mitre_analysis = mitre
      /\ answer.timeline_summary = timeline /\ answer.uncertainties = unsure
      /\ answer.recommended_next_steps = steps
  BY DEF MockAnswer, _build_case_brief
<1> HIDE DEF answer
<1>2. m \in Nat
  BY LenProperties DEF ToldCase
<1>3. /\ Cited(findings, "supporting_alert_refs") \subseteq 1..n
      /\ Cited(findings, "supporting_event_refs") \subseteq 1..m
      /\ Listable(context) => ListOf(CaseKeyFinding, findings, MAX_KEY_FINDINGS)
  <2>1. Cited(findings, "supporting_alert_refs") \subseteq 1..n
    BY CaseKeyFindings
  <2>2. Cited(findings, "supporting_event_refs") \subseteq 1..m
    BY CaseKeyFindings
  <2>3. Listable(context) => ListOf(CaseKeyFinding, findings, MAX_KEY_FINDINGS)
    BY CaseKeyFindings DEF Listable
  <2> QED
    BY <2>1, <2>2, <2>3
<1>4. /\ Evidence(evidence, "alert_ref") \subseteq 1..n
      /\ Evidence(evidence, "event_ref") \subseteq 1..m
      /\ Listable(context) => ListOf(CaseEvidenceItem, evidence, MAX_EVIDENCE_ITEMS)
  <2>1. Evidence(evidence, "alert_ref") \subseteq 1..n
    BY CaseEvidence
  <2>2. Evidence(evidence, "event_ref") \subseteq 1..m
    BY CaseEvidence
  <2>3. Listable(context) => ListOf(CaseEvidenceItem, evidence, MAX_EVIDENCE_ITEMS)
    BY CaseEvidence DEF Listable
  <2> QED
    BY <2>1, <2>2, <2>3
<1>5. /\ ListOf(MitreAnalysisEntry, mitre, MAX_MITRE_ANALYSIS_ENTRIES)
      /\ Cited(mitre, "supporting_event_refs") \subseteq 1..m
      /\ Named(mitre, "technique_id") \subseteq Named(context.mitre_candidates, "technique_id")
  BY <1>2, CaseTechniques
<1>6. ListOf(ShortStatement, unsure, MAX_LIMITATIONS) /\ ListOf(ShortStatement, steps, MAX_NEXT_STEPS)
  BY CaseUncertainties, CaseNextSteps
<1>7. Text(summary, MAX_BRIEF_SUMMARY_LENGTH) /\ Text(timeline, MAX_TIMELINE_SUMMARY_LENGTH)
  BY CaseTexts
<1> HIDE DEF n, m, summary, findings, evidence, mitre, timeline, unsure, steps
<1>8. Listable(context) => Schema(type, answer)
  BY <1>1, <1>3, <1>4, <1>5, <1>6, <1>7 DEF Schema, CaseInvestigationBrief
<1>9. ASSUME Schema(type, answer) PROVE Accepted(type, answer, context)
  <2>1. EventRefsCited(type, answer) =
          Cited(findings, "supporting_event_refs") \cup Evidence(evidence, "event_ref")
          \cup Cited(mitre, "supporting_event_refs")
    BY <1>1 DEF EventRefsCited, _event_refs_cited_in_brief
  <2>2. AlertRefsCited(type, answer) =
          Cited(findings, "supporting_alert_refs") \cup Evidence(evidence, "alert_ref")
    BY <1>1 DEF AlertRefsCited, AlertTypes
  <2>3. KnownEventRefs(type, context) = 1..m /\ KnownAlertRefs(type, context) = 1..n
    BY DEF KnownEventRefs, KnownAlertRefs, Timeline, AlertTypes, CaseTypes, n, m
  <2>4. _reject_fabricated_refs(type, answer, context)
    BY <1>3, <1>4, <1>5, <2>1, <2>2, <2>3 DEF _reject_fabricated_refs
  <2>5. _normalize_mitre_entries(type, answer, context)
    BY <1>1, <1>5 DEF _normalize_mitre_entries, TechniquesNamed, MitreEntries, Candidates,
                      AlertTypes
  <2>6. _normalize_recommended_actions(type, answer, context)
    BY DEF _normalize_recommended_actions, AlertTypes
  <2> QED
    BY <1>9, <2>4, <2>5, <2>6 DEF Accepted
<1> QED
  BY <1>8, <1>9, OutcomeOfValid DEF answer

LEMMA CaseFollowUpIsValid ==
  ASSUME NEW context, ToldCase(context), NEW question \in Nat, NEW turns \in Nat
  PROVE  Outcome("case_follow_up", MockGenerate("case_follow_up", context, question, turns),
                 context) = "answered"
<1> DEFINE type == "case_follow_up"
           n == Len(context.alerts)
           m == Len(context.focused_alert.timeline)
           none == <<>>
           text == _build_case_follow_up_text(context, question, turns)
           refs == SupportingRefs(n)
           mitre == _build_case_mitre_analysis(context, 0)
           unsure == _build_case_uncertainties(context)
           steps == _build_case_next_steps(context)
           answer == MockAnswer(type, context, question, turns)
<1>1. /\ answer.answer = text /\ answer.supporting_alert_refs = refs
      /\ answer.supporting_event_refs = none /\ answer.mitre_analysis = mitre
      /\ answer.uncertainties = unsure /\ answer.recommended_next_steps = steps
  BY DEF MockAnswer, _build_case_follow_up_answer
<1>2. Refs(none) /\ ToSet(none) = {}
  BY DEF Refs, ToSet, MAX_SUPPORTING_REFS_PER_FINDING
<1> HIDE DEF answer, none
<1>3. Refs(refs) /\ ToSet(refs) \subseteq 1..n
  BY GoodRefs DEF ToldCase
<1>4. /\ ListOf(MitreAnalysisEntry, mitre, MAX_MITRE_ANALYSIS_ENTRIES)
      /\ Cited(mitre, "supporting_event_refs") \subseteq {}
      /\ Named(mitre, "technique_id") \subseteq Named(context.mitre_candidates, "technique_id")
  <2> DEFINE zero == 0
  <2>1. zero \in Nat /\ 1..zero = {} /\ mitre = _build_case_mitre_analysis(context, zero)
    OBVIOUS
  <2> HIDE DEF zero, mitre
  <2> QED
    BY <2>1, CaseTechniques
<1>5. ListOf(ShortStatement, unsure, MAX_LIMITATIONS) /\ ListOf(ShortStatement, steps, MAX_NEXT_STEPS)
  BY CaseUncertainties, CaseNextSteps
<1>6. Text(text, MAX_FOLLOW_UP_ANSWER_LENGTH)
  BY CaseTexts
<1> HIDE DEF n, m, text, refs, mitre, unsure, steps
<1>7. Schema(type, answer)
  BY <1>1, <1>2, <1>3, <1>4, <1>5, <1>6 DEF Schema, CaseFollowUpAnswer
<1>8. Accepted(type, answer, context)
  <2>1. EventRefsCited(type, answer) = {}
    BY <1>1, <1>2, <1>4 DEF EventRefsCited, _event_refs_cited_in_case_follow_up
  <2>2. AlertRefsCited(type, answer) = ToSet(refs)
    BY <1>1 DEF AlertRefsCited, AlertTypes
  <2>3. KnownAlertRefs(type, context) = 1..n
    BY DEF KnownAlertRefs, CaseTypes, n
  <2>4. _reject_fabricated_refs(type, answer, context)
    BY <1>3, <2>1, <2>2, <2>3 DEF _reject_fabricated_refs
  <2>5. _normalize_mitre_entries(type, answer, context)
    BY <1>1, <1>4 DEF _normalize_mitre_entries, TechniquesNamed, MitreEntries, Candidates,
                      AlertTypes
  <2>6. _normalize_recommended_actions(type, answer, context)
    BY DEF _normalize_recommended_actions, AlertTypes
  <2> QED
    BY <1>7, <2>4, <2>5, <2>6 DEF Accepted
<1> QED
  BY <1>7, <1>8, OutcomeOfValid DEF answer


-----------------------------------------------------------------------------
(* The contexts of cases *)

RulesOf(s) == {AlertRow[a].rule_id : a \in ToSet(s)}

LEMMA RulesInOrder ==
  ASSUME NEW s \in Seq(Alerts)
  PROVE  Joined(Sorted(RulesOf(s), Precedes)) \in Nat
<1> DEFINE S == RulesOf(s)
           n == Len(s)
           rule == [i \in 1..n |-> AlertRow[s[i]].rule_id]
           t == Sorted(S, Precedes)
           max == 1
<1>1. n \in Nat /\ DOMAIN s = 1..n /\ \A i \in 1..n : s[i] \in Alerts
  BY LenProperties, ElementOfSeq
<1>2. rule \in Surjection(1..n, S)
  BY <1>1 DEF RulesOf, ToSet, Surjection
<1>3. S \subseteq SortedTexts
  BY <1>1 DEF RulesOf, ToSet, SortedTexts
<1>4. ASSUME NEW u \in S PROVE Chars(u) \in 1..100
  <2>1. PICK a \in Alerts : u = AlertRow[a].rule_id
    BY <1>1 DEF RulesOf, ToSet
  <2> QED
    BY <2>1, RowsFit
<1> HIDE DEF S, rule, n, t
<1>5. IsFiniteSet(S)
  BY <1>1, <1>2, FS_Surjection, FS_Interval
<1>6. t \in Seq(S)
  BY <1>3, <1>5, TextsInOrder DEF t
<1>7. \A k \in 1..100 : k \in Nat
  OBVIOUS
<1>8. \A i \in 1..Len(t) : Chars(t[i]) \in Nat
  BY <1>4, <1>6, <1>7, ElementOfSeq
<1>9. max \in Nat
  OBVIOUS
<1> HIDE DEF max
<1> QED
  BY <1>6, <1>8, <1>9, JoinedTexts DEF t, S

\* The keys that are listed of an alert.
LEMMA KeysListed ==
  ASSUME NEW a \in Alerts
  PROVE  /\ _map_alert(a).evidence_keys \in Seq(Nat)
         /\ (\A item \in ToSet(AlertRow[a].evidence) : item.key # 0)
              => 0 \notin ToSet(_map_alert(a).evidence_keys)
<1> DEFINE E == [key : Nat, value : Nat]
           evidence == AlertRow[a].evidence
           max == MAX_CASE_EVIDENCE_KEYS
           k == Len(First(evidence, max))
           keys == [i \in 1..k |-> evidence[i].key]
<1>1. _map_alert(a).evidence_keys = keys
  BY DEF _map_alert
<1>2. evidence \in Seq(E) /\ max \in Nat
  BY RowsFit DEF MAX_CASE_EVIDENCE_KEYS
<1> HIDE DEF evidence, max, k
<1>3. k \in Nat /\ k <= Len(evidence) /\ Len(evidence) \in Nat /\ DOMAIN evidence = 1..Len(evidence)
  <2> HIDE DEF E
  <2>1. First(evidence, max) \in Seq(E) /\ k <= Len(evidence)
    BY <1>2, FirstItems DEF k
  <2> QED
    BY <1>2, <2>1, LenProperties DEF k
<1>4. \A i \in 1..k : i \in 1..Len(evidence)
  BY <1>3
<1>5. \A i \in 1..k : evidence[i] \in ToSet(evidence) /\ evidence[i].key \in Nat
  <2>1. \A i \in 1..Len(evidence) : evidence[i] \in E
    BY <1>2, ElementOfSeq
  <2>2. \A item \in E : item.key \in Nat
    OBVIOUS
  <2> HIDE DEF E
  <2> QED
    BY <1>3, <1>4, <2>1, <2>2 DEF ToSet
<1>6. keys \in [1..k -> Nat] /\ \A i \in 1..k : keys[i] = evidence[i].key
  BY <1>5
<1> HIDE DEF keys
<1>7. keys \in Seq(Nat)
  BY <1>3, <1>6, ListOfItems
<1>8. ASSUME \A item \in ToSet(evidence) : item.key # 0 PROVE 0 \notin ToSet(keys)
  <2>1. DOMAIN keys = 1..k
    BY <1>6
  <2> QED
    BY <1>5, <1>6, <1>8, <2>1 DEF ToSet
<1> QED
  BY <1>1, <1>7, <1>8 DEF evidence

LEMMA CaseIsTold ==
  ASSUME NEW s \in Seq(Alerts), NEW focus, focus = NoAlert \/ focus \in ToSet(s)
  PROVE  /\ ToldCase(AICaseContext(s, focus))
         /\ Joined(Sorted(RulesOf(s), Precedes)) <= 440
            /\ (\A a \in ToSet(s) : \A item \in ToSet(AlertRow[a].evidence) : item.key # 0)
              => Listable(AICaseContext(s, focus))
<1> DEFINE context == AICaseContext(s, focus)
           n == Len(s)
           mapped == [i \in 1..n |-> _map_alert(s[i])]
<1>1. /\ context.alerts = mapped
      /\ context.notes = (IF NoteCount < 20 THEN NoteCount ELSE 20)
      /\ context.focused_alert = _map_focused_alert(s, focus)
      /\ context.mitre_candidates = _union_mitre_candidates(s)
  BY DEF AICaseContext, MAX_CASE_NOTES_IN_CONTEXT
<1> HIDE DEF context
<1>2. n \in Nat /\ DOMAIN s = 1..n /\ \A i \in 1..n : s[i] \in Alerts
  BY LenProperties, ElementOfSeq
<1>3. Len(mapped) = n /\ (mapped = <<>> <=> n = 0) /\ \A i \in 1..n : mapped[i] = _map_alert(s[i])
  <2> DEFINE V == {_map_alert(s[i]) : i \in 1..n}
  <2>1. mapped \in [1..n -> V] /\ \A i \in 1..n : mapped[i] = _map_alert(s[i])
    OBVIOUS
  <2> HIDE DEF V, mapped, n
  <2>2. mapped \in Seq(V) /\ Len(mapped) = n
    BY <1>2, <2>1, ListOfItems
  <2> QED
    BY <2>1, <2>2, EmptySeq
<1> HIDE DEF mapped, n
<1>4. context.notes \in Nat
  BY <1>1, ContextConstants
<1>5. RulesNamed(context) = Sorted(RulesOf(s), Precedes)
  <2>1. \A i \in 1..n : mapped[i].rule_id = AlertRow[s[i]].rule_id
    BY <1>3 DEF _map_alert
  <2>2. {mapped[i].rule_id : i \in 1..n} = RulesOf(s)
    BY <1>2, <2>1 DEF RulesOf, ToSet
  <2>3. RulesNamed(context) = Sorted({mapped[i].rule_id : i \in 1..n}, Precedes)
    <3>1. RulesNamed(context)
            = Sorted({context.alerts[i].rule_id : i \in 1..Len(context.alerts)}, Precedes)
      BY DEF RulesNamed
    <3> QED
      BY <1>1, <1>3, <3>1, Zenon
  <2> QED
    BY <2>2, <2>3
<1>6. Joined(RulesNamed(context)) \in Nat
  BY <1>5, RulesInOrder
<1>7. \A i \in 1..n : context.alerts[i].evidence_keys \in Seq(Nat)
  BY <1>1, <1>2, <1>3, KeysListed
<1>8. /\ context.focused_alert.alert_ref \in 0..n
      /\ context.focused_alert.timeline \in Seq(Events)
      /\ context.focused_alert.alert_ref = 0 => context.focused_alert.timeline = <<>>
  <2>1. CASE focus = NoAlert
    <3>1. context.focused_alert = [alert_ref |-> 0, timeline |-> <<>>]
      BY <1>1, <2>1 DEF _map_focused_alert
    <3> QED
      BY <1>2, <3>1
  <2>2. CASE focus # NoAlert
    <3>1. context.focused_alert = [alert_ref |-> Position(s, focus),
                                   timeline |-> _build_timeline(focus)]
      BY <1>1, <2>2 DEF _map_focused_alert
    <3>2. focus \in ToSet(s)
      BY <2>2
    <3>3. focus \in Alerts /\ \E i \in 1..n : s[i] = focus
      BY <1>2, <3>2 DEF ToSet
    <3>4. Position(s, focus) \in 1..n
      BY <3>3 DEF Position, n
    <3>5. _build_timeline(focus) \in Seq(Events)
      BY <3>3, TimelineItems
    <3> QED
      BY <1>2, <3>1, <3>4, <3>5
  <2> QED
    BY <2>1, <2>2
<1>9. context.mitre_candidates \in Seq(Techniques) /\ Len(context.mitre_candidates) <= 3
  BY <1>1, UnionOfTechniques, FewTechniques
<1>10. ToldCase(context)
  BY <1>1, <1>2, <1>3, <1>4, <1>6, <1>7, <1>8, <1>9 DEF ToldCase
<1>11. ASSUME Joined(Sorted(RulesOf(s), Precedes)) <= 440,
              \A a \in ToSet(s) : \A item \in ToSet(AlertRow[a].evidence) : item.key # 0
       PROVE  Listable(context)
  <2>1. ASSUME NEW i \in 1..n PROVE 0 \notin ToSet(context.alerts[i].evidence_keys)
    <3>1. s[i] \in Alerts /\ s[i] \in ToSet(s)
      BY <1>2 DEF ToSet
    <3>2. 0 \notin ToSet(_map_alert(s[i]).evidence_keys)
      BY <1>11, <3>1, KeysListed
    <3> QED
      BY <1>1, <1>3, <3>2
  <2> QED
    BY <1>1, <1>3, <1>5, <1>11, <2>1 DEF Listable
<1> QED
  BY <1>10, <1>11 DEF context

LEMMA AlertIsQuotable ==
  ASSUME NEW a \in Alerts, AlertRow[a].title <= 300, Joined(Column(a, "username")) <= 240,
         Joined(Column(a, "hostname")) <= 440,
         \A item \in ToSet(AlertRow[a].evidence) : 0 \notin {item.key, item.value}
  PROVE  Quotable(AIContext(a))
<1> DEFINE context == AIContext(a)
           evidence == AlertRow[a].evidence
           E == [key : Nat, value : Nat]
<1>1. /\ context.title = AlertRow[a].title /\ context.evidence = evidence
      /\ context.entities.usernames = Column(a, "username")
      /\ context.entities.hostnames = Column(a, "hostname")
  BY DEF AIContext, _extract_entities
<1>2. evidence \in Seq(E)
  BY RowsFit
<1> HIDE DEF E
<1>3. DOMAIN evidence = 1..Len(evidence)
  BY <1>2, LenProperties
<1>4. \A i \in 1..Len(evidence) : 0 \notin {evidence[i].key, evidence[i].value}
  BY <1>3 DEF ToSet
<1> HIDE DEF context, evidence
<1> QED
  BY <1>1, <1>4 DEF Quotable, context
=============================================================================
