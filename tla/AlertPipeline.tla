--------------------------- MODULE AlertPipeline ---------------------------
(***************************************************************************)
(* Ingestion of security events and the alerts it raises: POST /events     *)
(* (api/events.py) and AlertGenerationService, with the detection engine,  *)
(* its rules, and the session the whole request shares.                    *)
(*                                                                         *)
(* A request commits its event, selects the events to correlate it with,   *)
(* evaluates the rules on them, and for each detection looks for an alert  *)
(* with the same evidence before it commits a new one.  Nothing is locked, *)
(* so other requests commit between any two of these statements.           *)
(***************************************************************************)
EXTENDS BruteForceWindow, Selections

CONSTANTS
  Requests,                    \* server threads; each serves one request at a time
  Telemetry,                   \* the events that sources send
  BruteForce,                  \* the rule that correlates failures
  Patterns,                    \* the rules that look at one event, as registered
  Normalized(_),               \* event_type.strip().lower(), as the rules compare it
  Pairs,                       \* (username, source_ip) pairs, in the order of the sort
  Null,                        \* a column without a value
  MaxEvents,                   \* bound: events ingested
  MAX_CORRELATION_CANDIDATES,  \* cap of the candidate query
  ScanTimes, ScanLength        \* bound: timestamps and events of ScanFindsEarliest

AuthFailure     == "authentication_failure"
ProcessCreation == "process_creation"

\* What the rules look at: the type, spelled as the source spells it; a user name
\* and an address, either of which may be missing; and, of a process creation, which
\* single-event rules it matches, and for which of them the evidence would be more
\* than an alert may hold.
ASSUME PipelineConstants ==
  /\ \A e \in Telemetry :
       /\ DOMAIN e = {"event_type", "username", "source_ip", "at", "matches", "oversized"}
       /\ e.at \in Int
       /\ e.oversized \subseteq e.matches /\ e.matches \subseteq ToSet(Patterns)
       /\ e.matches # {} => Normalized(e.event_type) = ProcessCreation
       /\ <<e.username, e.source_ip>> \in ToSet(Pairs)
  /\ BruteForce \notin ToSet(Patterns)
  /\ Patterns \in Seq(ToSet(Patterns)) /\ IsInjective(Patterns)
  /\ Pairs \in Seq(ToSet(Pairs)) /\ IsInjective(Pairs)
  /\ MaxEvents \in Nat /\ MAX_CORRELATION_CANDIDATES \in Nat
  /\ ScanTimes \subseteq Int /\ ScanLength \in Nat

VARIABLES
  events,   \* the committed rows of security_events, in the order of their commits
  alerts,   \* the committed alerts, likewise; evidence is a set of indices of events
  pc,       \* where each request is
  event,    \* the event it has ingested
  todo,     \* the detections it has still to turn into alerts, in order
  seen,     \* how many alerts there were when it looked
  loaded,   \* whether the attributes of its event are in memory
  missed    \* history: some request ended before its detections were handled

control == <<pc, event, todo, seen, loaded>>
vars    == <<events, alerts, control, missed>>

Init ==
  /\ events = <<>> /\ alerts = <<>>
  /\ pc = [r \in Requests |-> "idle"]
  /\ event = [r \in Requests |-> 0]
  /\ todo = [r \in Requests |-> <<>>]
  /\ seen = [r \in Requests |-> 0]
  /\ loaded = [r \in Requests |-> FALSE]
  /\ missed = FALSE

-----------------------------------------------------------------------------
(* Detection *)

At(ids) == [i \in DOMAIN ids |-> events[ids[i]].at]

\* The rows of S as ORDER BY event_timestamp can return them: the order of
\* equal timestamps is not determined.
Orders(S) ==
  {ids \in [1..Cardinality(S) -> S] :
     /\ \A i, j \in DOMAIN ids : ids[i] = ids[j] => i = j
     /\ Ascending(At(ids))}

\* Fault: an event exactly window_seconds older is left out.
RecentLater(e) ==
  {f \in DOMAIN events :
     /\ events[f].event_type = events[e].event_type
     /\ events[f].at > events[e].at - window_seconds}

\* list_recent_by_type for the event e: the same type in the same spelling, at most
\* a window older.  There is no upper end: events stamped later than e are
\* correlated with it.
Recent(e) ==
  {f \in DOMAIN events :
     /\ events[f].event_type = events[e].event_type
     /\ events[f].at >= events[e].at - window_seconds}

\* A failure, however it is spelled.  Nothing to correlate on if both dimensions are
\* missing.
Correlatable(e) ==
  /\ Normalized(events[e].event_type) = AuthFailure
  /\ events[e].username # Null \/ events[e].source_ip # Null

Identity(e) == <<events[e].username, events[e].source_ip>>

\* The keys are tuples of strings and None.  Sorting them raises TypeError if
\* the first position in which two of them differ is None in one and a string
\* in the other.
Sortable(ids) ==
  \A e, f \in {g \in ids : Correlatable(g)} :
    /\ (events[e].username = Null) <=> (events[f].username = Null)
    /\ events[e].username = events[f].username =>
         ((events[e].source_ip = Null) <=> (events[f].source_ip = Null))

\* The failures of one (username, source_ip) pair among the rows ids, in their order.
Group(ids, pair) ==
  Selected(ids, {e \in ToSet(ids) : Correlatable(e) /\ Identity(e) = pair})

\* BruteForceDetectionRule.evaluate on the rows ids: one detection for each
\* pair that has a qualifying window.
BruteForceEvaluate(ids) ==
  LET evidence(group) == {group[i] : i \in FindQualifyingWindow(At(group))}
      detections(group) ==
        IF evidence(group) = {} THEN <<>>
        ELSE <<[rule |-> BruteForce, evidence |-> evidence(group)]>>
  IN  FlattenSeq([i \in DOMAIN Pairs |-> detections(Group(ids, Pairs[i]))])

\* A single-event rule: one detection for each row that matches.
PatternEvaluate(p, ids) ==
  LET matching == Selected(ids, {e \in ToSet(ids) : p \in events[e].matches})
  IN  [i \in DOMAIN matching |-> [rule |-> p, evidence |-> {matching[i]}]]

\* evaluate_events: the rules in the order they are registered; one that raises
\* contributes nothing and stops no other.
Detections(ids) ==
  (IF Sortable(ToSet(ids)) THEN BruteForceEvaluate(ids) ELSE <<>>)
  \o FlattenSeq([i \in DOMAIN Patterns |-> PatternEvaluate(Patterns[i], ids)])

Capped(ids) ==
  SubSeq(ids, 1, IF Len(ids) <= MAX_CORRELATION_CANDIDATES
                 THEN Len(ids) ELSE MAX_CORRELATION_CANDIDATES)

-----------------------------------------------------------------------------
(* Requests *)

\* The request is over and its session closed.
End(r) ==
  /\ pc' = [pc EXCEPT ![r] = "idle"]
  /\ event' = [event EXCEPT ![r] = 0]
  /\ todo' = [todo EXCEPT ![r] = <<>>]
  /\ seen' = [seen EXCEPT ![r] = 0]
  /\ loaded' = [loaded EXCEPT ![r] = FALSE]

\* Fault: the loop does not stop after the last detection.
NeverDone(r, left) ==
  /\ todo' = [todo EXCEPT ![r] = left]
  /\ pc' = [pc EXCEPT ![r] = "check"]
  /\ seen' = [seen EXCEPT ![r] = 0]

\* The request goes on with the detections left, or to the response.
GoOn(r, left) ==
  /\ todo' = [todo EXCEPT ![r] = left]
  /\ pc' = [pc EXCEPT ![r] = IF left = <<>> THEN "respond" ELSE "check"]
  /\ seen' = [seen EXCEPT ![r] = 0]

\* SecurityEventService.ingest: commit and refresh.  The rows are append-only.
Ingest(r, e) ==
  /\ pc[r] = "idle"
  /\ Len(events) < MaxEvents
  /\ events' = Append(events, e)
  /\ event' = [event EXCEPT ![r] = Len(events) + 1]
  /\ loaded' = [loaded EXCEPT ![r] = TRUE]
  /\ pc' = [pc EXCEPT ![r] = "detect"]
  /\ UNCHANGED <<alerts, todo, seen, missed>>

\* generate_from_event: candidates and rules.
Detect(r) ==
  /\ pc[r] = "detect"
  /\ \E ids \in Orders(Recent(event[r])) : GoOn(r, Detections(Capped(ids)))
  /\ UNCHANGED <<events, alerts, event, loaded, missed>>

\* Fault: the check is left out.
ExistsNever(d) == FALSE

\* exists_with_rule_and_exact_events: by rule and by exact set of events.
Exists(d) == \E i \in DOMAIN alerts : alerts[i].rule = d.rule /\ alerts[i].evidence = d.evidence

\* The duplicate check for the next detection.
Check(r) ==
  /\ pc[r] = "check"
  /\ \/ /\ Exists(Head(todo[r]))
        /\ GoOn(r, Tail(todo[r]))
     \/ /\ ~Exists(Head(todo[r]))
        /\ pc' = [pc EXCEPT ![r] = "create"]
        /\ seen' = [seen EXCEPT ![r] = Len(alerts)]
        /\ todo' = todo
  /\ UNCHANGED <<events, alerts, event, loaded, missed>>

\* _evidence_bounded of AlertCreate: the evidence of d is larger than
\* MAX_EVIDENCE_BYTES.  That of brute force never is.
Refused(d) == \E e \in d.evidence : d.rule \in events[e].oversized

\* The next detection makes an AlertCreate.
Accepted(r) == pc[r] = "create" /\ ~Refused(Head(todo[r]))

\* The alert is committed; the commit expires every object of the session, the
\* ingested event included.
Add(r) ==
  /\ Accepted(r)
  /\ alerts' = Append(alerts, [rule |-> Head(todo[r]).rule,
                               evidence |-> Head(todo[r]).evidence, seen |-> seen[r]])

\* AlertService.create: the events, the insert, the commit, the refresh.
Create(r) ==
  /\ Add(r)
  /\ loaded' = [loaded EXCEPT ![r] = FALSE]
  /\ GoOn(r, Tail(todo[r]))
  /\ UNCHANGED <<events, event, missed>>

\* The response reads the event, from the database if it is expired.
Respond(r) ==
  /\ pc[r] = "respond"
  /\ End(r)
  /\ UNCHANGED <<events, alerts, missed>>

-----------------------------------------------------------------------------
(* Failures *)

\* The exception is caught and logged with event.id.  If the attributes are
\* loaded this works, and so does the response.  If not, reading event.id is a
\* query on a session that nobody has rolled back: it raises out of the handler
\* of generate_from_event, and again out of the route's.
Caught(r, in_memory) ==
  /\ todo' = [todo EXCEPT ![r] = <<>>]
  /\ seen' = [seen EXCEPT ![r] = 0]
  /\ loaded' = [loaded EXCEPT ![r] = in_memory]
  /\ pc' = [pc EXCEPT ![r] = IF in_memory THEN "respond" ELSE "failed"]
  /\ missed' = TRUE
  /\ UNCHANGED <<events, event>>

\* AlertCreate refuses the next detection.  Nothing has failed in the session: for
\* the log event.id is read, from the database if the event is expired, and the next
\* detection has its turn.  That reading may fail.
Refuse(r) ==
  /\ pc[r] = "create" /\ Refused(Head(todo[r]))
  /\ alerts' = alerts
  /\ \/ /\ loaded' = [loaded EXCEPT ![r] = TRUE]
        /\ GoOn(r, Tail(todo[r]))
        /\ UNCHANGED <<events, event, missed>>
     \/ ~loaded[r] /\ Caught(r, FALSE)

\* A SELECT fails: of the candidates (or the start of their window lies before year
\* 1), of the duplicate check, or of the events to link.  The transaction is aborted,
\* so the remaining detections, if any, fail the same way.
SelectFails(r) ==
  /\ pc[r] \in {"detect", "check"} \/ Accepted(r)
  /\ Caught(r, loaded[r])
  /\ alerts' = alerts

\* The INSERT fails in the flush: SQLAlchemy rolls back and expires everything,
\* and the session stays unusable until somebody calls rollback().
FlushFails(r) ==
  /\ Accepted(r)
  /\ Caught(r, FALSE)
  /\ alerts' = alerts

\* The alert is committed and reading it back fails.
RefreshFails(r) ==
  /\ Add(r)
  /\ Caught(r, FALSE)

\* The ingestion is answered with 500.
AnswerError(r) ==
  /\ pc[r] = "failed"
  /\ End(r)
  /\ UNCHANGED <<events, alerts, missed>>

\* The worker dies, or the event just committed could not be read back.
Crash(r) ==
  /\ pc[r] \in {"detect", "check", "create", "respond"}
  /\ End(r)
  /\ missed' = (missed \/ pc[r] # "respond")
  /\ UNCHANGED <<events, alerts>>

Next ==
  \E r \in Requests :
    \/ \E e \in Telemetry : Ingest(r, e)
    \/ Detect(r)
    \/ Check(r)
    \/ Create(r)
    \/ Respond(r)
    \/ Refuse(r)
    \/ SelectFails(r)
    \/ FlushFails(r)
    \/ RefreshFails(r)
    \/ AnswerError(r)
    \/ Crash(r)

\* The instance is at its bound.
AtBound ==
  /\ Len(events) = MaxEvents /\ \A r \in Requests : pc[r] = "idle"
  /\ UNCHANGED vars

Spec == Init /\ [][Next \/ AtBound]_vars
-----------------------------------------------------------------------------
(* Properties *)

Rules == ToSet(Patterns) \cup {BruteForce}

Phases == {"idle", "detect", "check", "create", "respond", "failed"}

\* Detections name rules of the engine and events that exist.
Evidence == [rule : Rules, evidence : SUBSET DOMAIN events]

TablesTyped ==
  /\ events \in Seq(Telemetry) /\ Len(events) <= MaxEvents
  /\ alerts \in Seq([rule : Rules, evidence : SUBSET DOMAIN events, seen : Nat])
  /\ \A i \in DOMAIN alerts : alerts[i].seen < i

RequestsTyped ==
  /\ pc \in [Requests -> Phases]
  /\ event \in [Requests -> 0..Len(events)]
  /\ todo \in [Requests -> Seq(Evidence)]
  /\ seen \in [Requests -> 0..Len(alerts)]
  /\ loaded \in [Requests -> BOOLEAN]
  /\ missed \in BOOLEAN
  /\ \A r \in Requests :
       /\ pc[r] # "idle" => event[r] # 0
       /\ pc[r] \in {"check", "create"} <=> todo[r] # <<>>

\* Alerts name rules of the engine and events that exist, and a request has detections
\* left exactly while it checks and creates.
TypeOK == TablesTyped /\ RequestsTyped

\* "Two-pointer scan for the earliest window of >= threshold events whose span
\* does not exceed window_seconds": although left never moves back, the scan
\* returns a qualifying window whenever there is one, and the earliest.  It does
\* not depend on the state, so the initial one stands for all.
ScanFindsEarliest ==
  events = <<>> =>
    \A n \in 0..ScanLength : \A t \in [1..n -> ScanTimes] :
      Ascending(t) => FindsEarliest(t)

\* A burst: threshold or more failures of one pair, none more than
\* window_seconds from another.
Burst(B) ==
  /\ B # {} /\ Cardinality(B) >= threshold
  /\ \A e, f \in B :
       /\ Correlatable(e) /\ Identity(e) = Identity(f)
       /\ events[e].at - events[f].at <= window_seconds

\* A detection on a burst of the smallest size, or on one event that matches.
Justified(d) ==
  IF d.rule = BruteForce THEN Burst(d.evidence) /\ Cardinality(d.evidence) = threshold
  ELSE \E e \in d.evidence : d.evidence = {e} /\ d.rule \in events[e].matches

\* Whatever the order of arrival and however the requests overlap, an alert's
\* evidence is what its rule looks for: a burst of the smallest size, or one
\* event that matches the pattern.
EvidenceJustifies == \A i \in DOMAIN alerts : Justified(alerts[i])

\* Two alerts of one rule with the same evidence come from requests that
\* overlapped: the later one made its duplicate check before the earlier one's
\* commit.
DuplicatesOverlapped ==
  \A i, j \in DOMAIN alerts :
    /\ i < j
    /\ alerts[i].rule = alerts[j].rule /\ alerts[i].evidence = alerts[j].evidence
    => alerts[j].seen < i

Pending(e) == \E r \in Requests : event[r] = e /\ pc[r] \in {"detect", "check", "create"}

\* A burst whose ingestions are over has been noticed: there is an alert for
\* its pair on failures as recent as those its last ingested event is
\* correlated with.  The alert need not be on the same failures.
Noticed(B) ==
  \E i \in DOMAIN alerts :
    /\ alerts[i].rule = BruteForce
    /\ \A f \in alerts[i].evidence :
         Identity(f) = Identity(Max(B)) /\ f \in Recent(Max(B))

Handled(B) ==
  /\ ~missed /\ \A e \in B : ~Pending(e)
  /\ Cardinality(Recent(Max(B))) <= MAX_CORRELATION_CANDIDATES

\* All in one spelling.
Alike(B) == \A e, f \in B : events[e].event_type = events[f].event_type

\* Two ingestions that complete a burst together cannot each leave it to the
\* other, and a late event does not slip through: if no request failed and the
\* cap did not bite, every burst in one spelling is noticed, unless failures with and
\* without a user name or address are mixed among those it is correlated with; and
\* every match of a pattern is alerted unless its evidence is refused, whatever
\* becomes of the other detections.
NothingSlipsThrough ==
  /\ \A B \in SUBSET DOMAIN events :
       Burst(B) /\ Alike(B) /\ Handled(B) /\ Sortable(Recent(Max(B))) => Noticed(B)
  /\ \A e \in DOMAIN events : Handled({e}) =>
       \A p \in events[e].matches \ events[e].oversized :
         Exists([rule |-> p, evidence |-> {e}])

\* "Detects >= `threshold` authentication failures for the same (username,
\* source_ip) pair within `window_seconds`" (detections/rules/brute_force.py),
\* whatever other failures were reported, at least if all are in one spelling.
\* The code breaks it: one failure without a user name makes the sort raise, and the rule reports nothing.
EveryBurstIsNoticed ==
  \A B \in SUBSET DOMAIN events : Burst(B) /\ Alike(B) /\ Handled(B) => Noticed(B)

\* "A problem there can never turn a successful ingestion into a failed one"
\* (api/events.py).  The code breaks it: after a failed insert, or any failure
\* once an alert has been committed, reading event.id for the log raises.
IngestionIsIsolated == \A r \in Requests : pc[r] # "failed"
=============================================================================
