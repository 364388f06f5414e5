-------------------------- MODULE CopilotRequests --------------------------
(***************************************************************************)
(* The server side of the copilot: the requests of api/alerts.py and       *)
(* api/cases.py that ask it, from the first read to the audit row.         *)
(*                                                                         *)
(* A request about a case reads the linked alerts and the audit trail in   *)
(* statements of their own, under READ COMMITTED: analysts link and unlink *)
(* alerts in between.  What a request about an alert reads never changes.  *)
(*                                                                         *)
(* One case stands for all.  Of the case's trail only the rows about links *)
(* are kept, and of table copilot_audits the rows of calls in progress.    *)
(***************************************************************************)
EXTENDS CopilotPipeline

CONSTANTS
  Requests,        \* server threads; each serves one request at a time
  Replies(_, _),   \* what the Anthropic service may reply, <<>> for a failure
  MaxMoves         \* bounds the links and unlinks of a behaviour

ASSUME MaxMoves \in Nat

VARIABLES
  provider,        \* AI_PROVIDER
  linked,          \* the alerts linked to the case, newest link first
  trail,           \* case_audits rows about links, newest first
  pc,              \* where each request is
  call,            \* what it was sent
  alerts,          \* the alerts it has read
  audits,          \* the audit rows it has read
  answer,          \* how the provider's reply was taken
  copilot_audits,  \* the rows of table copilot_audits the call has inserted
  lost             \* history: writing its row failed

case     == <<linked, trail>>
progress == <<pc, call, alerts, audits, answer, copilot_audits, lost>>
server   == <<provider, case, progress>>

-----------------------------------------------------------------------------
Stages == {"alerts", "audits", "generate", "record", "reply"}

\* The trail's row for an alert, by action.
Row(action, alert) == [action |-> action, alert |-> alert]

NoCall == [type |-> "none", alert |-> NoAlert, question |-> 0, history |-> <<>>]

\* No reply was taken, for the reason given.
Without(outcome) ==
  [outcome |-> outcome, text |-> 0, alert_refs |-> {}, event_refs |-> {},
   techniques |-> {}, actions |-> {}]

IsFollowUp(r) == call[r].type \in FollowUps
AboutAlert(r) == call[r].type \in AlertTypes

\* What the provider is told: of an alert, or of the alerts read and the focus.
Context(r) ==
  IF AboutAlert(r) THEN AIContext(call[r].alert)
  ELSE AICaseContext(alerts[r], call[r].alert)

\* The status ask_copilot and ask_copilot_follow_up answer with.
AlertRouteStatus(outcome) ==
  CASE outcome = "answered" -> 200
    [] outcome = "refused"  -> 422
    [] outcome \in {"transport", "validation"} -> 502
    [] outcome = "error"    -> 500

\* And ask_case_copilot and ask_case_copilot_follow_up.
CaseRouteStatus(outcome) ==
  IF outcome = "not_linked" THEN 422 ELSE AlertRouteStatus(outcome)

HttpStatus(r) ==
  IF AboutAlert(r) THEN AlertRouteStatus(answer[r].outcome)
  ELSE CaseRouteStatus(answer[r].outcome)

Init ==
  /\ provider \in {"mock", "anthropic"}
  /\ linked = <<>>
  /\ trail = <<>>
  /\ pc = [r \in Requests |-> "idle"]
  /\ call = [r \in Requests |-> NoCall]
  /\ alerts = [r \in Requests |-> <<>>]
  /\ audits = [r \in Requests |-> <<>>]
  /\ answer = [r \in Requests |-> Without("none")]
  /\ copilot_audits = [r \in Requests |-> <<>>]
  /\ lost = [r \in Requests |-> FALSE]
-----------------------------------------------------------------------------
(* The analysts' work on the case, which the requests only read *)

\* Links and rows are sorted by now(), the start of the transaction that wrote them:
\* one that commits after another may sort behind it.
Insert(seq, item, behind) == InsertAt(seq, IF behind THEN 2 ELSE 1, item)

\* CaseService.link_alert commits the link and its row together.
LinkAlert(alert, behind) ==
  /\ Len(trail) < MaxMoves
  /\ behind => trail # <<>>
  /\ \A i \in 1..Len(linked) : linked[i] # alert
  /\ linked' = Insert(linked, alert,
                      behind /\ linked # <<>> /\ trail[1] = Row("CASE_ALERT_LINKED", linked[1]))
  /\ trail' = Insert(trail, Row("CASE_ALERT_LINKED", alert), behind)
  /\ UNCHANGED <<provider, progress>>

\* CaseService.unlink_alert.
UnlinkAlert(alert, behind) ==
  /\ Len(trail) < MaxMoves
  /\ behind => trail # <<>>
  /\ \E i \in 1..Len(linked) : linked[i] = alert /\ linked' = RemoveAt(linked, i)
  /\ trail' = Insert(trail, Row("CASE_ALERT_UNLINKED", alert), behind)
  /\ UNCHANGED <<provider, progress>>
-----------------------------------------------------------------------------
(* A request *)

\* The body is validated; a follow-up whose conversation is too long is refused.
Arrive(r, type, alert, question, history) ==
  /\ pc[r] = "idle"
  /\ call' = [call EXCEPT ![r] = [type |-> type, alert |-> alert, question |-> question,
                                  history |-> history]]
  /\ IF CopilotFollowUpRequest(question, history)
     THEN /\ pc' = [pc EXCEPT ![r] = "alerts"]
          /\ UNCHANGED answer
     ELSE /\ pc' = [pc EXCEPT ![r] = "reply"]
          /\ answer' = [answer EXCEPT ![r] = Without("refused")]
  /\ UNCHANGED <<provider, case, alerts, audits, copilot_audits, lost>>

\* get_with_events; an alert and its events are found as they always were.
ReadAlert(r) ==
  /\ pc[r] = "alerts" /\ AboutAlert(r)
  /\ pc' = [pc EXCEPT ![r] = "generate"]
  /\ UNCHANGED <<provider, case, call, alerts, audits, answer, copilot_audits, lost>>

\* list_alerts()[:MAX_CASE_ALERTS_IN_CONTEXT], after get_case.
ReadAlerts(r) ==
  /\ pc[r] = "alerts" /\ ~AboutAlert(r)
  /\ pc' = [pc EXCEPT ![r] = "audits"]
  /\ alerts' = [alerts EXCEPT ![r] = First(linked, MAX_CASE_ALERTS_IN_CONTEXT)]
  /\ UNCHANGED <<provider, case, call, audits, answer, copilot_audits, lost>>

\* list_audits, and then the check of the focused alert against the alerts read.
ReadAudits(r) ==
  /\ pc[r] = "audits"
  /\ audits' = [audits EXCEPT ![r] = First(trail, MAX_CASE_AUDIT_IN_CONTEXT)]
  /\ IF \/ call[r].alert = NoAlert
        \/ \E i \in 1..Len(alerts[r]) : alerts[r][i] = call[r].alert
     THEN /\ pc' = [pc EXCEPT ![r] = "generate"]
          /\ UNCHANGED answer
     ELSE /\ pc' = [pc EXCEPT ![r] = "reply"]
          /\ answer' = [answer EXCEPT ![r] = Without("not_linked")]
  /\ UNCHANGED <<provider, case, call, alerts, copilot_audits, lost>>

\* The text of an answer that a later request of the conversation quotes.
Quoted(type, content) == IF type \in FollowUps THEN content.answer ELSE content.summary

\* provider.generate and every check of its reply: nothing is read or written.
Generate(r) ==
  LET type    == call[r].type
      context == Context(r)
      replies == IF provider = "mock"
                 THEN {MockGenerate(type, context, call[r].question, Len(call[r].history))}
                 ELSE {AnthropicGenerate(type, reply) : reply \in Replies(type, context)}
  IN  /\ pc[r] = "generate"
      /\ \E provided \in replies :
           answer' = [answer EXCEPT ![r] =
             IF Outcome(type, provided, context) = "answered"
             THEN [outcome    |-> "answered",
                   text       |-> Quoted(type, provided[1]),
                   alert_refs |-> AlertRefsCited(type, provided[1]),
                   event_refs |-> EventRefsCited(type, provided[1]),
                   techniques |-> TechniquesNamed(type, provided[1]),
                   actions    |-> ActionsNamed(type, provided[1])]
             ELSE Without(Outcome(type, provided, context))]
      /\ pc' = [pc EXCEPT ![r] = "record"]
      /\ audits' = [audits EXCEPT ![r] = <<>>]
      /\ UNCHANGED <<provider, case, call, alerts, copilot_audits, lost>>

\* Of an answer, what the conversation keeps.
Kept(given) == [Without(given.outcome) EXCEPT !.text = given.text]

\* _record_copilot_audit; a row that record() or the table refuses is swallowed.
Record(r) ==
  LET turns == Len(call[r].history)
      row   == AuditRow(call[r].type, answer[r].outcome, turns)
  IN  /\ pc[r] = "record"
      /\ pc' = [pc EXCEPT ![r] = "reply"]
      /\ answer' = [answer EXCEPT ![r] = Kept(@)]
      /\ copilot_audits' = [copilot_audits EXCEPT ![r] =
           IF Recordable(row, turns) /\ Storable(row) THEN Append(@, row) ELSE @]
      /\ alerts' = [alerts EXCEPT ![r] = <<>>]
      /\ UNCHANGED <<provider, case, call, audits, lost>>

\* The INSERT or its commit fails, or the row cannot be read back once it is in.
RecordFails(r) ==
  LET row == AuditRow(call[r].type, answer[r].outcome, Len(call[r].history))
  IN  /\ pc[r] = "record"
      /\ pc' = [pc EXCEPT ![r] = "reply"]
      /\ answer' = [answer EXCEPT ![r] = Kept(@)]
      /\ \/ copilot_audits' = [copilot_audits EXCEPT ![r] = Append(@, row)]
         \/ UNCHANGED copilot_audits
      /\ lost' = [lost EXCEPT ![r] = TRUE]
      /\ alerts' = [alerts EXCEPT ![r] = <<>>]
      /\ UNCHANGED <<provider, case, call, audits>>

\* A statement fails, which none of the except clauses catches, or the worker dies:
\* the client sees an error whatever was done.
Fail(r) ==
  /\ pc[r] \in Stages
  /\ pc' = [pc EXCEPT ![r] = "reply"]
  /\ answer' = [answer EXCEPT ![r] = Without("error")]
  /\ alerts' = [alerts EXCEPT ![r] = <<>>]
  /\ audits' = [audits EXCEPT ![r] = <<>>]
  /\ UNCHANGED <<provider, case, call, copilot_audits, lost>>

\* The response is with the client.
End(r) ==
  /\ pc' = [pc EXCEPT ![r] = "idle"]
  /\ call' = [call EXCEPT ![r] = NoCall]
  /\ alerts' = [alerts EXCEPT ![r] = <<>>]
  /\ audits' = [audits EXCEPT ![r] = <<>>]
  /\ answer' = [answer EXCEPT ![r] = Without("none")]
  /\ copilot_audits' = [copilot_audits EXCEPT ![r] = <<>>]
  /\ lost' = [lost EXCEPT ![r] = FALSE]

\* What a request does by itself.
Serve(r) ==
  \/ ReadAlert(r) \/ ReadAlerts(r) \/ ReadAudits(r)
  \/ Generate(r) \/ Record(r) \/ RecordFails(r) \/ Fail(r)
=============================================================================
