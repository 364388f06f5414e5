------------------------ MODULE CaseCopilotPanelProofs ------------------------
(***************************************************************************)
(* The trail of the copilot's calls, the conversation on the screen, and   *)
(* what an answer may cite, for any number of requests, alerts, replies    *)
(* and events, and any limits.                                             *)
(*                                                                         *)
(* The first invariant, PanelInv, is about calls and turns: of an answer   *)
(* it knows which outcome it is.  The second, ContextInv, is about what a  *)
(* request has read of the case and what the checks leave of a reply.      *)
(***************************************************************************)
EXTENDS CaseCopilotPanel, CopilotPipelineProofs

-----------------------------------------------------------------------------
(* Outcomes and rows *)

\* The stages before a row is written, the outcomes a row is written for, and the
\* requests that begin a conversation.
Before    == {"alerts", "audits", "generate", "record"}
Judged    == {"answered", "transport", "validation"}
FirstOnes == {"ask", "case_brief"}

Status(type, outcome) ==
  IF type \in AlertTypes THEN AlertRouteStatus(outcome) ELSE CaseRouteStatus(outcome)

\* The rows tell what the client was answered.
RowsTell(rows, status, outcome, unwritten) ==
  /\ rows = <<>> => unwritten \/ status \in {422, 500}
  /\ Len(rows) <= 1
  /\ rows # <<>> /\ status # 500 =>
       /\ rows[1].http_status = status
       /\ rows[1].outcome = "success" <=> outcome = "answered"
       /\ rows[1].validation_status = "failed" <=> outcome = "validation"

LEMMA Statuses ==
  ASSUME NEW type
  PROVE  /\ Status(type, "answered") = 200
         /\ Status(type, "refused") = 422
         /\ Status(type, "transport") = 502
         /\ Status(type, "validation") = 502
         /\ Status(type, "error") = 500
         /\ type \in CaseTypes => Status(type, "not_linked") = 422
BY DEF Status, AlertRouteStatus, CaseRouteStatus, AlertTypes, CaseTypes

LEMMA Outcomes ==
  ASSUME NEW type, NEW provided, NEW context
  PROVE  Outcome(type, provided, context) \in Judged
BY DEF Outcome, Judged

LEMMA WithoutOutcome ==
  ASSUME NEW outcome
  PROVE  Without(outcome).outcome = outcome
BY DEF Without

LEMMA KeptOutcome ==
  ASSUME NEW given
  PROVE  Kept(given).outcome = given.outcome
BY DEF Kept, Without

\* Every row a service asks for is recorded: neither record() nor a constraint of the
\* table refuses it.
LEMMA RowsAreRecorded ==
  ASSUME NEW type \in RequestType, NEW outcome \in Judged, NEW sent,
         type \in FirstOnes => sent = 0
  PROVE  Recordable(AuditRow(type, outcome, sent), sent)
         /\ Storable(AuditRow(type, outcome, sent))
<1> DEFINE row == AuditRow(type, outcome, sent)
<1>1. /\ row.request_type = type
      /\ row.http_status = IF outcome = "answered" THEN 200 ELSE 502
      /\ row.outcome = IF outcome = "answered" THEN "success" ELSE "failure"
      /\ row.history_turn_count = IF type \in FollowUps THEN {sent} ELSE Null
  BY DEF AuditRow
<1>2. /\ outcome = "answered" => row.validation_status = "passed"
      /\ outcome = "validation" => row.validation_status = "failed"
      /\ outcome = "transport" => row.validation_status = "not_applicable"
  BY DEF AuditRow
<1> HIDE DEF row
<1>3. /\ _ALLOWED_VALIDATION_STATUSES_BY_OUTCOME["success"] = {"passed"}
      /\ _ALLOWED_VALIDATION_STATUSES_BY_OUTCOME["failure"] = {"failed", "not_applicable"}
  BY DEF _ALLOWED_VALIDATION_STATUSES_BY_OUTCOME
<1>4. row.validation_status \in _ALLOWED_VALIDATION_STATUSES_BY_OUTCOME[row.outcome]
  BY <1>1, <1>2, <1>3 DEF Judged
<1>5. Recordable(row, sent)
  BY <1>1, <1>4 DEF Recordable, FirstOnes
<1>6. Storable(row)
  BY <1>1, <1>2 DEF Storable, Judged, RequestType, AlertTypes, CaseTypes, FollowUps
<1> QED
  BY <1>5, <1>6 DEF row

LEMMA RowTells ==
  ASSUME NEW type \in RequestType, NEW outcome \in Judged, NEW sent, NEW unwritten
  PROVE  RowsTell(<<AuditRow(type, outcome, sent)>>, Status(type, outcome), outcome, unwritten)
<1> DEFINE row == AuditRow(type, outcome, sent)
<1>1. /\ row.http_status = IF outcome = "answered" THEN 200 ELSE 502
      /\ row.outcome = IF outcome = "answered" THEN "success" ELSE "failure"
      /\ outcome = "answered" => row.validation_status = "passed"
      /\ outcome = "validation" => row.validation_status = "failed"
      /\ outcome = "transport" => row.validation_status = "not_applicable"
  BY DEF AuditRow
<1> HIDE DEF row
<1>2. Status(type, outcome) = IF outcome = "answered" THEN 200 ELSE 502
  BY Statuses DEF Judged
<1>3. Len(<<row>>) = 1 /\ <<row>>[1] = row /\ <<row>> # <<>>
  OBVIOUS
<1> QED
  BY <1>1, <1>2, <1>3 DEF RowsTell, Judged, row
-----------------------------------------------------------------------------
(* The requests *)

\* What a request knows of its call.
CallKnown(r) ==
  /\ pc[r] # "idle" => /\ call[r].type \in RequestType
                       /\ call[r].type \in FirstOnes => Len(call[r].history) = 0
  /\ pc[r] = "audits" => call[r].type \in CaseTypes

\* It writes its row once, when the provider's reply has been judged.
RowComesLast(r) ==
  /\ pc[r] \in Before \cup {"idle"} => copilot_audits[r] = <<>>
  /\ pc[r] = "record" => answer[r].outcome \in Judged

RowTellsCall(r) ==
  pc[r] = "reply" =>
    RowsTell(copilot_audits[r], Status(call[r].type, answer[r].outcome), answer[r].outcome, lost[r])

\* A conversation that was too long is not answered.
HistoryFits(r) ==
  /\ call[r].type = "case_follow_up"
  /\ pc[r] \in Before \/ (pc[r] = "reply" /\ answer[r].outcome = "answered")
  => Len(call[r].history) <= MAX_HISTORY_MESSAGES

RequestInv(r) == CallKnown(r) /\ RowComesLast(r) /\ RowTellsCall(r) /\ HistoryFits(r)

ServerTyped ==
  /\ pc \in [Requests -> Stages \cup {"idle"}]
  /\ DOMAIN call = Requests
  /\ DOMAIN answer = Requests
  /\ DOMAIN copilot_audits = Requests
  /\ DOMAIN lost = Requests

ServerInv == ServerTyped /\ \A r \in Requests : RequestInv(r)

\* A step of one request leaves the others alone.
OthersKeep(r) ==
  \A q \in Requests \ {r} :
    /\ pc'[q] = pc[q] /\ call'[q] = call[q] /\ answer'[q] = answer[q]
    /\ copilot_audits'[q] = copilot_audits[q] /\ lost'[q] = lost[q]

LEMMA OneRequest ==
  ASSUME ServerInv, ServerTyped', NEW r \in Requests, OthersKeep(r), RequestInv(r)'
  PROVE  ServerInv'
<1> SUFFICES ASSUME NEW q \in Requests PROVE RequestInv(q)'
  BY DEF ServerInv
<1>1. CASE q = r
  BY <1>1
<1>2. CASE q # r
  <2>1. RequestInv(q)
    BY DEF ServerInv
  <2>2. /\ pc'[q] = pc[q] /\ call'[q] = call[q] /\ answer'[q] = answer[q]
        /\ copilot_audits'[q] = copilot_audits[q] /\ lost'[q] = lost[q]
    BY <1>2 DEF OthersKeep
  <2> QED
    BY <2>1, <2>2 DEF RequestInv, CallKnown, RowComesLast, RowTellsCall, HistoryFits
<1> QED
  BY <1>1, <1>2

LEMMA ArriveStep ==
  ASSUME ServerInv, NEW r \in Requests, NEW type \in RequestType, NEW alert, NEW question,
         NEW history, type \in FirstOnes => Len(history) = 0,
         Arrive(r, type, alert, question, history)
  PROVE  /\ ServerInv'
         /\ call'[r].type = type /\ call'[r].history = history
         /\ pc[r] = "idle" /\ pc'[r] # "idle"
         /\ OthersKeep(r)
<1>1. /\ pc[r] = "idle" /\ copilot_audits[r] = <<>>
      /\ copilot_audits' = copilot_audits /\ lost' = lost
  BY DEF Arrive, ServerInv, RequestInv, RowComesLast
<1>2. /\ call' = [call EXCEPT ![r] = [type |-> type, alert |-> alert, question |-> question,
                                     history |-> history]]
      /\ call'[r].type = type /\ call'[r].history = history
  BY DEF Arrive, ServerInv, ServerTyped
<1>3. CASE CopilotFollowUpRequest(question, history)
  <2>1. pc' = [pc EXCEPT ![r] = "alerts"] /\ answer' = answer
    BY <1>3 DEF Arrive
  <2>2. Len(history) <= MAX_HISTORY_MESSAGES
    BY <1>3 DEF CopilotFollowUpRequest, ListOf
  <2>3. ServerTyped' /\ OthersKeep(r) /\ pc'[r] = "alerts"
    BY <1>1, <1>2, <2>1 DEF ServerInv, ServerTyped, OthersKeep, Stages
  <2>4. RequestInv(r)'
    BY <1>1, <1>2, <2>2, <2>3
       DEF RequestInv, CallKnown, RowComesLast, RowTellsCall, HistoryFits
  <2> QED
    BY <1>1, <1>2, <2>3, <2>4, OneRequest
<1>4. CASE ~CopilotFollowUpRequest(question, history)
  <2>1. pc' = [pc EXCEPT ![r] = "reply"] /\ answer' = [answer EXCEPT ![r] = Without("refused")]
    BY <1>4 DEF Arrive
  <2>2. ServerTyped' /\ OthersKeep(r) /\ pc'[r] = "reply"
    BY <1>1, <1>2, <2>1 DEF ServerInv, ServerTyped, OthersKeep, Stages
  <2>3. answer'[r].outcome = "refused" /\ copilot_audits'[r] = <<>>
    BY <1>1, <2>1, WithoutOutcome DEF ServerInv, ServerTyped
  <2>4. Status(type, "refused") = 422
    BY Statuses
  <2>5. RowTellsCall(r)'
    BY <1>2, <2>3, <2>4 DEF RowTellsCall, RowsTell
  <2>6. RequestInv(r)'
    BY <1>1, <1>2, <2>2, <2>3, <2>5
       DEF RequestInv, CallKnown, RowComesLast, HistoryFits, Before
  <2> QED
    BY <1>1, <1>2, <2>2, <2>6, OneRequest
<1> QED
  BY <1>3, <1>4

\* A call that ends without a row.
LEMMA Unanswered ==
  ASSUME ServerInv, NEW r \in Requests, pc[r] # "idle", NEW outcome,
         outcome = "error" \/ (outcome = "not_linked" /\ pc[r] = "audits"),
         pc' = [pc EXCEPT ![r] = "reply"],
         answer' = [answer EXCEPT ![r] = Without(outcome)],
         UNCHANGED <<call, copilot_audits, lost>>
  PROVE  ServerInv'
<1>1. ServerTyped' /\ OthersKeep(r) /\ pc'[r] = "reply" /\ answer'[r].outcome = outcome
  BY WithoutOutcome DEF ServerInv, ServerTyped, OthersKeep, Stages
<1>2. /\ outcome = "error" => Status(call[r].type, outcome) = 500
      /\ outcome = "not_linked" => Status(call[r].type, outcome) = 422
  BY Statuses DEF ServerInv, RequestInv, CallKnown
<1>3. Len(copilot_audits[r]) <= 1
  <2>1. CASE pc[r] = "reply"
    BY <2>1 DEF ServerInv, RequestInv, RowTellsCall, RowsTell
  <2>2. CASE pc[r] # "reply"
    BY <2>2, EmptySeq DEF ServerInv, ServerTyped, RequestInv, RowComesLast, Before, Stages
  <2> QED
    BY <2>1, <2>2
<1>4. outcome = "not_linked" => copilot_audits[r] = <<>>
  BY DEF ServerInv, RequestInv, RowComesLast, Before
<1>5. RowTellsCall(r)'
  BY <1>1, <1>2, <1>3, <1>4 DEF RowTellsCall, RowsTell
<1>6. RequestInv(r)'
  BY <1>1, <1>5 DEF ServerInv, RequestInv, CallKnown, RowComesLast, HistoryFits, Before
<1> QED
  BY <1>1, <1>6, OneRequest

\* A call that goes on.
LEMMA Onward ==
  ASSUME ServerInv, NEW r \in Requests, pc[r] \in {"alerts", "audits", "generate"},
         NEW next \in {"audits", "generate", "record"},
         pc' = [pc EXCEPT ![r] = next],
         next = "audits" => call[r].type \in CaseTypes,
         OthersKeep(r), DOMAIN answer' = Requests,
         next = "record" => answer'[r].outcome \in Judged,
         UNCHANGED <<call, copilot_audits, lost>>
  PROVE  ServerInv'
<1>1. ServerTyped' /\ pc'[r] = next
  BY DEF ServerInv, ServerTyped, Stages
<1>2. RequestInv(r)'
  BY <1>1 DEF ServerInv, RequestInv, CallKnown, RowComesLast, RowTellsCall, HistoryFits, Before
<1> QED
  BY <1>1, <1>2, OneRequest

\* A row that is written tells the call, and one that is lost is remembered.
LEMMA RecordStep ==
  ASSUME ServerInv, NEW r \in Requests, Record(r) \/ RecordFails(r)
  PROVE  ServerInv'
<1> DEFINE sent == Len(call[r].history)
           row  == AuditRow(call[r].type, answer[r].outcome, sent)
<1>1. /\ pc[r] = "record" /\ pc' = [pc EXCEPT ![r] = "reply"] /\ call' = call
      /\ answer' = [answer EXCEPT ![r] = Kept(@)]
  BY DEF Record, RecordFails
<1>2. /\ call[r].type \in RequestType /\ answer[r].outcome \in Judged
      /\ call[r].type \in FirstOnes => sent = 0
      /\ copilot_audits[r] = <<>>
  BY <1>1 DEF ServerInv, RequestInv, CallKnown, RowComesLast, Before
<1>3. Recordable(row, sent) /\ Storable(row)
  BY <1>2, RowsAreRecorded
<1>4. answer'[r].outcome = answer[r].outcome
  BY <1>1, KeptOutcome DEF ServerInv, ServerTyped
<1>5. Append(<<>>, row) = <<row>>
  OBVIOUS
<1>6. \A unwritten : RowsTell(<<row>>, Status(call[r].type, answer[r].outcome),
                          answer[r].outcome, unwritten)
  BY <1>2, RowTells
<1> HIDE DEF row, sent
<1>7. /\ \/ copilot_audits' = [copilot_audits EXCEPT ![r] = Append(@, row)] /\ lost' = lost
         \/ /\ copilot_audits' = [copilot_audits EXCEPT ![r] = Append(@, row)]
            /\ lost' = [lost EXCEPT ![r] = TRUE]
         \/ copilot_audits' = copilot_audits /\ lost' = [lost EXCEPT ![r] = TRUE]
  <2>1. CASE Record(r)
    <3>1. copilot_audits' = [copilot_audits EXCEPT ![r] =
            IF Recordable(row, sent) /\ Storable(row) THEN Append(@, row) ELSE @]
      BY <2>1 DEF Record, row, sent
    <3>2. lost' = lost
      BY <2>1 DEF Record
    <3> QED
      BY <1>3, <3>1, <3>2
  <2>2. CASE RecordFails(r)
    BY <2>2 DEF RecordFails, row, sent
  <2> QED
    BY <2>1, <2>2
<1>8. ServerTyped' /\ OthersKeep(r) /\ pc'[r] = "reply"
  BY <1>1, <1>7 DEF ServerInv, ServerTyped, OthersKeep, Stages
<1>9. copilot_audits'[r] = <<row>> \/ (copilot_audits'[r] = <<>> /\ lost'[r] = TRUE)
  BY <1>2, <1>5, <1>7 DEF ServerInv, ServerTyped
<1>10. RowTellsCall(r)'
  <2>1. CASE copilot_audits'[r] = <<row>>
    BY <1>1, <1>4, <1>6, <2>1 DEF RowTellsCall
  <2>2. CASE copilot_audits'[r] = <<>> /\ lost'[r] = TRUE
    BY <2>2, EmptySeq DEF RowTellsCall, RowsTell
  <2> QED
    BY <1>9, <2>1, <2>2
<1>11. RequestInv(r)'
  BY <1>1, <1>2, <1>4, <1>8, <1>10
     DEF ServerInv, RequestInv, CallKnown, RowComesLast, HistoryFits, Before
<1> QED
  BY <1>8, <1>11, OneRequest

LEMMA ServeStep ==
  ASSUME ServerInv, NEW r \in Requests, Serve(r)
  PROVE  /\ ServerInv' /\ call' = call
         /\ pc[r] # "idle" /\ pc'[r] # "idle"
         /\ \A q \in Requests \ {r} : pc'[q] = pc[q]
<1> USE DEF Stages
<1>1. CASE ReadAlert(r)
  BY <1>1, Onward DEF ReadAlert, OthersKeep, ServerInv, ServerTyped
<1>2. CASE ReadAlerts(r)
  <2>1. call[r].type \in CaseTypes
    BY <1>2 DEF ReadAlerts, AboutAlert, RequestType, ServerInv, RequestInv, CallKnown
  <2> QED
    BY <1>2, <2>1, Onward DEF ReadAlerts, OthersKeep, ServerInv, ServerTyped
<1>3. CASE ReadAudits(r)
  <2>1. \/ pc' = [pc EXCEPT ![r] = "generate"] /\ answer' = answer
        \/ /\ pc' = [pc EXCEPT ![r] = "reply"]
           /\ answer' = [answer EXCEPT ![r] = Without("not_linked")]
    BY <1>3 DEF ReadAudits
  <2>2. pc[r] = "audits" /\ UNCHANGED <<call, copilot_audits, lost>>
    BY <1>3 DEF ReadAudits
  <2> QED
    BY <2>1, <2>2, Onward, Unanswered DEF OthersKeep, ServerInv, ServerTyped
<1>4. CASE Generate(r)
  <2>1. /\ pc[r] = "generate" /\ pc' = [pc EXCEPT ![r] = "record"]
        /\ UNCHANGED <<call, copilot_audits, lost>>
    BY <1>4 DEF Generate
  <2>2. PICK given : /\ answer' = [answer EXCEPT ![r] = given]
                     /\ given.outcome \in Judged
    <3> DEFINE Reply(provided) ==
                 [outcome    |-> "answered",
                  text       |-> Quoted(call[r].type, provided[1]),
                  alert_refs |-> AlertRefsCited(call[r].type, provided[1]),
                  event_refs |-> EventRefsCited(call[r].type, provided[1]),
                  techniques |-> TechniquesNamed(call[r].type, provided[1]),
                  actions    |-> ActionsNamed(call[r].type, provided[1])]
               OutcomeOf(provided) == Outcome(call[r].type, provided, Context(r))
               Given(provided) == IF OutcomeOf(provided) = "answered" THEN Reply(provided)
                                  ELSE Without(OutcomeOf(provided))
    <3>1. PICK provided : answer' = [answer EXCEPT ![r] = Given(provided)]
      BY <1>4 DEF Generate
    <3>2. Reply(provided).outcome = "answered"
      OBVIOUS
    <3>3. Without(OutcomeOf(provided)).outcome \in Judged
      BY Outcomes, WithoutOutcome
    <3> HIDE DEF Reply, Judgement
    <3>4. Given(provided).outcome \in Judged
      BY <3>2, <3>3 DEF Judged
    <3> HIDE DEF Given
    <3> QED
      BY <3>1, <3>4
  <2>3. DOMAIN answer' = Requests /\ answer'[r] = given
    BY <2>2 DEF ServerInv, ServerTyped
  <2>4. OthersKeep(r)
    BY <2>1, <2>2 DEF OthersKeep, ServerInv, ServerTyped
  <2>5. ServerInv'
    BY <2>1, <2>2, <2>3, <2>4, Onward
  <2> QED
    BY <2>1, <2>5 DEF ServerInv, ServerTyped
<1>5. CASE Record(r) \/ RecordFails(r)
  <2>1. ServerInv'
    BY <1>5, RecordStep
  <2> QED
    BY <1>5, <2>1 DEF Record, RecordFails, ServerInv, ServerTyped
<1>6. CASE Fail(r)
  <2>1. /\ pc[r] # "idle" /\ pc' = [pc EXCEPT ![r] = "reply"]
        /\ answer' = [answer EXCEPT ![r] = Without("error")]
        /\ UNCHANGED <<call, copilot_audits, lost>>
    BY <1>6 DEF Fail
  <2> QED
    BY <2>1, Unanswered DEF ServerInv, ServerTyped
<1> QED
  BY <1>1, <1>2, <1>3, <1>4, <1>5, <1>6 DEF Serve

\* The response is with the client.
LEMMA EndStep ==
  ASSUME ServerInv, NEW r \in Requests, End(r)
  PROVE  /\ ServerInv' /\ OthersKeep(r) /\ pc'[r] = "idle"
<1>1. /\ pc'[r] = "idle" /\ copilot_audits'[r] = <<>> /\ ServerTyped' /\ OthersKeep(r)
      /\ call'[r] = NoCall
  BY DEF End, ServerInv, ServerTyped, OthersKeep
<1>2. RequestInv(r)'
  BY <1>1 DEF RequestInv, CallKnown, RowComesLast, RowTellsCall, HistoryFits, Before, NoCall
<1> QED
  BY <1>1, <1>2, OneRequest

LEMMA TrailIsTold ==
  ASSUME ServerInv
  PROVE  AuditTellsEachCall
<1> SUFFICES ASSUME NEW r \in Requests, pc[r] = "reply"
             PROVE  LET rows == copilot_audits[r]
                    IN  /\ rows = <<>> => lost[r] \/ HttpStatus(r) \in {422, 500}
                        /\ Len(rows) <= 1
                        /\ rows # <<>> /\ HttpStatus(r) # 500 =>
                             /\ rows[1].http_status = HttpStatus(r)
                             /\ rows[1].outcome = "success" <=> answer[r].outcome = "answered"
                             /\ rows[1].validation_status = "failed"
                                  <=> answer[r].outcome = "validation"
  BY DEF AuditTellsEachCall
<1>1. HttpStatus(r) = Status(call[r].type, answer[r].outcome)
  BY DEF HttpStatus, Status, AboutAlert
<1>2. RowsTell(copilot_audits[r], Status(call[r].type, answer[r].outcome), answer[r].outcome, lost[r])
  BY DEF ServerInv, RequestInv, RowTellsCall
<1> QED
  BY <1>1, <1>2 DEF RowsTell
-----------------------------------------------------------------------------
(* The conversation *)

IsSequence(s) == Len(s) \in Nat /\ s = [i \in 1..Len(s) |-> s[i]]

LEMMA Appended ==
  ASSUME NEW s, IsSequence(s), NEW x
  PROVE  /\ IsSequence(Append(s, x))
         /\ Len(Append(s, x)) = Len(s) + 1
         /\ \A i \in 1..Len(s) : Append(s, x)[i] = s[i]
         /\ Append(s, x)[Len(s) + 1] = x
<1> DEFINE S == {s[i] : i \in 1..Len(s)} \cup {x}
           t == Append(s, x)
<1>1. s \in Seq(S) /\ x \in S
  BY DEF IsSequence
<1> HIDE DEF S
<1>2. /\ t \in Seq(S) /\ Len(t) = Len(s) + 1
      /\ \A i \in 1..Len(s) : t[i] = s[i]
      /\ t[Len(s) + 1] = x
  BY <1>1, AppendProperties
<1> HIDE DEF t
<1>3. IsSequence(t)
  BY <1>2, LenProperties DEF IsSequence
<1> QED
  BY <1>2, <1>3 DEF t

\* A sequence without items is the empty one.
LEMMA EmptyWhenLengthZero ==
  ASSUME NEW s, IsSequence(s), Len(s) = 0
  PROVE  s = <<>>
BY DEF IsSequence

LEMMA HistoryLength ==
  ASSUME NEW conversation, Len(conversation) \in Nat
  PROVE  Len(buildHistory(conversation)) = 2 * Len(conversation)
<1> DEFINE n == 2 * Len(conversation)
           f == buildHistory(conversation)
<1>1. n \in Nat
  OBVIOUS
<1>2. f = [i \in 1..n |-> f[i]]
  BY DEF buildHistory
<1> HIDE DEF f, n
<1>3. Len(f) = n
  BY <1>1, <1>2, LengthOf
<1> QED
  BY <1>3 DEF f, n

\* The calls about the case that are under way are those the panel shows as pending
\* and those a Clear has let go.
PendingIsKnown ==
  /\ \A r \in Requests : pc[r] # "idle" /\ call[r].type \in CaseTypes =>
       r \in let_go \cup {generating, asking}
  /\ let_go \subseteq Requests /\ \A r \in let_go : pc[r] # "idle"
  /\ generating # NoRequest =>
       /\ generating \in Requests \ let_go /\ pc[generating] # "idle"
       /\ call[generating].type = "case_brief"
  /\ asking # NoRequest =>
       /\ asking \in Requests \ let_go /\ pc[asking] # "idle"
       /\ call[asking].type = "case_follow_up"

\* A brief is awaited while there is no conversation, an answer while there is one.
BriefComesFirst ==
  NoStray => /\ generating # NoRequest => turns = <<>>
             /\ asking # NoRequest => turns # <<>>

PanelInv ==
  /\ ServerInv
  /\ IsSequence(turns)
  /\ PendingIsKnown
  /\ BriefComesFirst
  /\ AnswerFollowsItsHistory
  /\ ConversationStartsWithBrief
  /\ ConversationIsBounded

LEMMA PanelInvInit == PanelInit => PanelInv
<1> SUFFICES ASSUME PanelInit PROVE PanelInv
  OBVIOUS
<1> USE DEF PanelInit, Init
<1>1. ServerInv
  BY DEF ServerInv, ServerTyped, RequestInv, CallKnown, RowComesLast, RowTellsCall, HistoryFits,
         Before, NoCall
<1>2. IsSequence(turns) /\ Len(turns) = 0
  BY EmptySeq DEF IsSequence
<1>3. PendingIsKnown
  BY DEF PendingIsKnown
<1>4. BriefComesFirst /\ AnswerFollowsItsHistory /\ ConversationStartsWithBrief
  BY <1>2 DEF BriefComesFirst, AnswerFollowsItsHistory, ConversationStartsWithBrief
<1>5. ConversationIsBounded
  BY <1>2, HistoryBounds DEF ConversationIsBounded
<1> QED
  BY <1>1, <1>2, <1>3, <1>4, <1>5 DEF PanelInv

\* Steps that leave the panel and the calls it waits for as they are.
LEMMA ServerStep ==
  ASSUME PanelInv, ServerInv', UNCHANGED panel,
         \A r \in Requests : pc[r] # "idle" => call'[r] = call[r] /\ pc'[r] # "idle",
         \A r \in Requests : pc[r] = "idle" /\ pc'[r] # "idle" => call'[r].type \in AlertTypes
  PROVE  PanelInv'
<1> USE DEF PanelInv, panel
<1>1. PendingIsKnown'
  BY DEF PendingIsKnown, AlertTypes, CaseTypes
<1>2. AnswerFollowsItsHistory'
  BY DEF PendingIsKnown, AnswerFollowsItsHistory, NoStray
<1>3. /\ IsSequence(turns)' /\ BriefComesFirst' /\ ConversationStartsWithBrief'
      /\ ConversationIsBounded'
  BY DEF IsSequence, BriefComesFirst, ConversationStartsWithBrief, ConversationIsBounded, NoStray
<1> QED
  BY <1>1, <1>2, <1>3

LEMMA AskAboutAlertStep ==
  ASSUME PanelInv, NEW r \in Requests, NEW type \in AlertTypes, NEW alert, NEW n \in Nat,
         type = "ask" => n = 0, AskAboutAlert(r, type, alert, n)
  PROVE  PanelInv'
<1> DEFINE history == [i \in 1..n |-> QuestionLength]
<1>1. Arrive(r, type, alert, QuestionLength, history) /\ UNCHANGED panel
  BY DEF AskAboutAlert
<1>2. history = [i \in 1..n |-> history[i]]
  OBVIOUS
<1> HIDE DEF history
<1>3. Len(history) = n
  BY <1>2, LengthOf
<1>4. type \in RequestType /\ (type \in FirstOnes => Len(history) = 0)
  BY <1>3 DEF RequestType, AlertTypes, FirstOnes
<1>5. /\ ServerInv' /\ call'[r].type = type
      /\ pc[r] = "idle" /\ pc'[r] # "idle" /\ OthersKeep(r)
  BY <1>1, <1>4, ArriveStep DEF PanelInv
<1>6. /\ \A q \in Requests : pc[q] # "idle" => call'[q] = call[q] /\ pc'[q] # "idle"
      /\ \A q \in Requests : pc[q] = "idle" /\ pc'[q] # "idle" => call'[q].type \in AlertTypes
  BY <1>5 DEF OthersKeep
<1> QED
  BY <1>1, <1>5, <1>6, ServerStep

\* A call about the case begins, and the panel awaits it.
LEMMA Awaited ==
  ASSUME PendingIsKnown, NEW r \in Requests, pc[r] = "idle", pc'[r] # "idle", OthersKeep(r),
         r # NoRequest, let_go' = let_go,
         \/ /\ generating = NoRequest /\ generating' = r /\ asking' = asking
            /\ call'[r].type = "case_brief"
         \/ /\ asking = NoRequest /\ asking' = r /\ generating' = generating
            /\ call'[r].type = "case_follow_up"
  PROVE  PendingIsKnown'
<1>1. /\ \A q \in Requests \ {r} : pc'[q] = pc[q] /\ call'[q] = call[q]
      /\ r \notin let_go /\ let_go \subseteq Requests
      /\ generating # r /\ asking # r
  BY DEF OthersKeep, PendingIsKnown
<1>2. \A q \in Requests : pc'[q] # "idle" /\ call'[q].type \in CaseTypes =>
        q \in let_go' \cup {generating', asking'}
  BY <1>1, PanelConstants DEF PendingIsKnown
<1>3. let_go' \subseteq Requests /\ \A q \in let_go' : pc'[q] # "idle"
  BY <1>1 DEF PendingIsKnown
<1>4. generating' # NoRequest =>
        /\ generating' \in Requests \ let_go' /\ pc'[generating'] # "idle"
        /\ call'[generating'].type = "case_brief"
  BY <1>1 DEF PendingIsKnown
<1>5. asking' # NoRequest =>
        /\ asking' \in Requests \ let_go' /\ pc'[asking'] # "idle"
        /\ call'[asking'].type = "case_follow_up"
  BY <1>1 DEF PendingIsKnown
<1> QED
  BY <1>2, <1>3, <1>4, <1>5 DEF PendingIsKnown

LEMMA GenerateBriefStep ==
  ASSUME PanelInv, NEW r \in Requests, NEW focus, GenerateBrief(r, focus)
  PROVE  PanelInv'
<1>1. /\ turns = <<>> /\ generating = NoRequest /\ generating' = r
      /\ UNCHANGED <<turns, asking, let_go>>
      /\ Arrive(r, "case_brief", focus, QuestionLength, <<>>)
  BY DEF GenerateBrief, hasGenerated
<1>2. "case_brief" \in RequestType /\ Len(<<>>) = 0
  BY DEF RequestType, CaseTypes
<1>3. /\ ServerInv' /\ call'[r].type = "case_brief"
      /\ pc[r] = "idle" /\ pc'[r] # "idle" /\ OthersKeep(r)
  BY <1>1, <1>2, ArriveStep DEF PanelInv
<1>4. r # NoRequest
  BY PanelConstants
<1>5. PendingIsKnown'
  BY <1>1, <1>3, <1>4, Awaited DEF PanelInv
<1>6. AnswerFollowsItsHistory'
  BY <1>1, <1>3 DEF PanelInv, PendingIsKnown, OthersKeep, AnswerFollowsItsHistory, NoStray
<1>7. /\ IsSequence(turns)' /\ BriefComesFirst' /\ ConversationStartsWithBrief'
      /\ ConversationIsBounded'
  BY <1>1 DEF PanelInv, IsSequence, BriefComesFirst, ConversationStartsWithBrief,
              ConversationIsBounded, NoStray
<1> QED
  BY <1>3, <1>5, <1>6, <1>7 DEF PanelInv

LEMMA AskFollowUpStep ==
  ASSUME PanelInv, NEW r \in Requests, AskFollowUp(r)
  PROVE  PanelInv'
<1>1. /\ turns # <<>> /\ asking = NoRequest /\ asking' = r
      /\ UNCHANGED <<turns, generating, let_go>>
      /\ Arrive(r, "case_follow_up", NoAlert, QuestionLength, buildHistory(turns))
  BY DEF AskFollowUp, hasGenerated
<1>2. "case_follow_up" \in RequestType /\ "case_follow_up" \notin FirstOnes
  BY DEF RequestType, CaseTypes, FirstOnes
<1>3. /\ ServerInv' /\ call'[r].type = "case_follow_up" /\ call'[r].history = buildHistory(turns)
      /\ pc[r] = "idle" /\ pc'[r] # "idle" /\ OthersKeep(r)
  BY <1>1, <1>2, ArriveStep DEF PanelInv
<1>4. r # NoRequest
  BY PanelConstants
<1>5. PendingIsKnown'
  BY <1>1, <1>3, <1>4, Awaited DEF PanelInv
<1>6. buildHistory(turns)' = buildHistory(turns)
  BY <1>1 DEF buildHistory
<1>7. AnswerFollowsItsHistory'
  BY <1>1, <1>3, <1>6 DEF AnswerFollowsItsHistory
<1>8. /\ IsSequence(turns)' /\ BriefComesFirst' /\ ConversationStartsWithBrief'
      /\ ConversationIsBounded'
  BY <1>1 DEF PanelInv, IsSequence, BriefComesFirst, ConversationStartsWithBrief,
              ConversationIsBounded, NoStray
<1> QED
  BY <1>3, <1>5, <1>7, <1>8 DEF PanelInv

LEMMA ClearStep ==
  ASSUME PanelInv, Clear
  PROVE  PanelInv'
<1>1. /\ turns' = <<>> /\ generating' = NoRequest /\ asking' = NoRequest
      /\ let_go' = {r \in Requests : pc[r] # "idle" /\ ~AboutAlert(r)}
      /\ UNCHANGED <<pc, call, answer, copilot_audits, lost>>
  BY DEF Clear, server, progress
<1>2. ServerInv'
  BY <1>1 DEF PanelInv, ServerInv, ServerTyped, RequestInv, CallKnown, RowComesLast, RowTellsCall,
              HistoryFits
<1>3. IsSequence(turns)' /\ Len(turns') = 0
  BY <1>1, EmptySeq DEF IsSequence
<1>4. PendingIsKnown'
  BY <1>1 DEF PendingIsKnown, AboutAlert, AlertTypes, CaseTypes
<1>5. BriefComesFirst' /\ AnswerFollowsItsHistory' /\ ConversationStartsWithBrief'
  BY <1>1, <1>3 DEF BriefComesFirst, AnswerFollowsItsHistory, ConversationStartsWithBrief
<1>6. ConversationIsBounded'
  BY <1>3, HistoryBounds DEF ConversationIsBounded
<1> QED
  BY <1>2, <1>3, <1>4, <1>5, <1>6 DEF PanelInv

\* What an answer does to the panel, whether it is appended or not.
LEMMA Received ==
  ASSUME PanelInv, NEW r \in Requests, Receive(r)
  PROVE  /\ ServerInv' /\ PendingIsKnown'
         /\ pc[r] = "reply" /\ call[r].type \in RequestType
         /\ r # NoRequest /\ OthersKeep(r)
         /\ generating' = IF generating = r THEN NoRequest ELSE generating
         /\ asking' = IF asking = r THEN NoRequest ELSE asking
         /\ turns' = turns \/
              /\ call[r].type \in CaseTypes /\ answer[r].outcome = "answered"
              /\ \E turn : /\ turns' = Append(turns, turn)
                           /\ turn.stray <=> r \in let_go
                           /\ turn.kind = IF call[r].type = "case_follow_up" THEN "followUp"
                                          ELSE "initial"
<1>1. /\ pc[r] = "reply" /\ End(r) /\ let_go' = let_go \ {r}
      /\ generating' = IF generating = r THEN NoRequest ELSE generating
      /\ asking' = IF asking = r THEN NoRequest ELSE asking
  BY DEF Receive
<1>2. r # NoRequest
  BY PanelConstants
<1>3. ServerInv' /\ OthersKeep(r) /\ pc'[r] = "idle"
  BY <1>1, EndStep DEF PanelInv
<1>4. call[r].type \in RequestType
  BY <1>1 DEF PanelInv, ServerInv, RequestInv, CallKnown
<1>5. PendingIsKnown'
  <2>1. \A q \in Requests \ {r} : pc'[q] = pc[q] /\ call'[q] = call[q]
    BY <1>3 DEF OthersKeep
  <2>2. \A q \in Requests : pc'[q] # "idle" /\ call'[q].type \in CaseTypes =>
          q \in let_go' \cup {generating', asking'}
    BY <1>1, <1>3, <2>1 DEF PanelInv, PendingIsKnown
  <2>3. let_go' \subseteq Requests /\ \A q \in let_go' : pc'[q] # "idle"
    BY <1>1, <2>1 DEF PanelInv, PendingIsKnown
  <2>4. generating' # NoRequest =>
          /\ generating' \in Requests \ let_go' /\ pc'[generating'] # "idle"
          /\ call'[generating'].type = "case_brief"
    BY <1>1, <2>1 DEF PanelInv, PendingIsKnown
  <2>5. asking' # NoRequest =>
          /\ asking' \in Requests \ let_go' /\ pc'[asking'] # "idle"
          /\ call'[asking'].type = "case_follow_up"
    BY <1>1, <2>1 DEF PanelInv, PendingIsKnown
  <2> QED
    BY <2>2, <2>3, <2>4, <2>5 DEF PendingIsKnown
<1>6. turns' = turns \/
        /\ call[r].type \in CaseTypes /\ answer[r].outcome = "answered"
        /\ \E turn : /\ turns' = Append(turns, turn)
                     /\ turn.stray <=> r \in let_go
                     /\ turn.kind = IF call[r].type = "case_follow_up" THEN "followUp"
                                    ELSE "initial"
  <2> DEFINE turn == [kind     |-> IF IsFollowUp(r) THEN "followUp" ELSE "initial",
                      question |-> call[r].question,
                      text     |-> answer[r].text,
                      stray    |-> r \in let_go]
             answered == ~AboutAlert(r) /\ answer[r].outcome = "answered"
  <2>1. turns' = IF answered THEN Append(turns, turn) ELSE turns
    BY DEF Receive
  <2>2. /\ turn.stray <=> r \in let_go
        /\ turn.kind = IF IsFollowUp(r) THEN "followUp" ELSE "initial"
    OBVIOUS
  <2>3. ~AboutAlert(r) => /\ call[r].type \in CaseTypes
                          /\ IsFollowUp(r) <=> call[r].type = "case_follow_up"
    BY <1>4 DEF AboutAlert, IsFollowUp, RequestType, AlertTypes, CaseTypes, FollowUps
  <2> HIDE DEF turn
  <2> QED
    BY <2>1, <2>2, <2>3
<1> QED
  BY <1>1, <1>2, <1>3, <1>4, <1>5, <1>6

\* An answer that belongs to the conversation on the screen lengthens it by one turn.
LEMMA ReceiveStep ==
  ASSUME PanelInv, NEW r \in Requests, Receive(r)
  PROVE  PanelInv'
<1>1. /\ ServerInv' /\ PendingIsKnown'
      /\ pc[r] = "reply" /\ call[r].type \in RequestType /\ r # NoRequest /\ OthersKeep(r)
      /\ generating' = IF generating = r THEN NoRequest ELSE generating
      /\ asking' = IF asking = r THEN NoRequest ELSE asking
  BY Received
<1>2. asking' # NoRequest => asking' = asking /\ call'[asking'] = call[asking]
  BY <1>1 DEF PanelInv, PendingIsKnown, OthersKeep
<1>3. CASE turns' = turns
  <2>1. NoStray' <=> NoStray
    BY <1>3 DEF NoStray
  <2>2. IsSequence(turns)' /\ ConversationStartsWithBrief' /\ ConversationIsBounded'
    BY <1>3, <2>1 DEF PanelInv, IsSequence, ConversationStartsWithBrief, ConversationIsBounded
  <2>3. BriefComesFirst'
    BY <1>1, <1>3, <2>1 DEF PanelInv, BriefComesFirst
  <2>4. AnswerFollowsItsHistory'
    BY <1>2, <1>3, <2>1 DEF PanelInv, AnswerFollowsItsHistory, buildHistory
  <2> QED
    BY <1>1, <2>2, <2>3, <2>4 DEF PanelInv
<1>4. CASE turns' # turns
  <2>1. PICK turn : /\ turns' = Append(turns, turn)
                    /\ turn.stray <=> r \in let_go
                    /\ turn.kind = IF call[r].type = "case_follow_up" THEN "followUp"
                                   ELSE "initial"
    BY <1>4, Received
  <2>2. call[r].type \in CaseTypes /\ answer[r].outcome = "answered"
    BY <1>4, Received
  <2>3. IsSequence(turns) /\ Len(turns) \in Nat
    BY DEF PanelInv, IsSequence
  <2>4. /\ IsSequence(turns') /\ Len(turns') = Len(turns) + 1
        /\ \A i \in 1..Len(turns) : turns'[i] = turns[i]
        /\ turns'[Len(turns) + 1] = turn
    BY <2>1, <2>3, Appended
  <2>5. turns' # <<>>
    BY <2>3, <2>4, EmptySeq
  <2>6. NoStray' => NoStray /\ r \notin let_go
    BY <2>1, <2>3, <2>4 DEF NoStray
  <2>7. r = generating \/ r = asking \/ r \in let_go
    BY <1>1, <2>2 DEF PanelInv, PendingIsKnown
  <2>8. CASE ~NoStray'
    BY <1>1, <2>4, <2>8 DEF PanelInv, BriefComesFirst, AnswerFollowsItsHistory,
                            ConversationStartsWithBrief, ConversationIsBounded
  <2>9. CASE NoStray' /\ r = generating
    <3>1. turns = <<>> /\ asking = NoRequest /\ turn.kind = "initial"
      BY <1>1, <2>1, <2>6, <2>9 DEF PanelInv, BriefComesFirst, PendingIsKnown
    <3>2. Len(turns) = 0
      BY <3>1, EmptySeq
    <3>3. generating' = NoRequest /\ asking' = NoRequest
      BY <1>1, <2>9, <3>1
    <3>4. ConversationStartsWithBrief'
      BY <2>4, <3>1, <3>2 DEF ConversationStartsWithBrief
    <3>5. ConversationIsBounded'
      BY <2>4, <3>2, HistoryBounds DEF ConversationIsBounded
    <3> QED
      BY <1>1, <2>4, <3>3, <3>4, <3>5 DEF PanelInv, BriefComesFirst, AnswerFollowsItsHistory
  <2>10. CASE NoStray' /\ r = asking
    <3>1. turns # <<>> /\ generating = NoRequest /\ call[r].type = "case_follow_up"
      BY <1>1, <2>6, <2>10 DEF PanelInv, BriefComesFirst, PendingIsKnown
    <3>2. turn.kind = "followUp"
      BY <2>1, <3>1
    <3>3. generating' = NoRequest /\ asking' = NoRequest
      BY <1>1, <2>10, <3>1
    <3>4. Len(turns) >= 1
      BY <2>3, <3>1, EmptyWhenLengthZero
    <3>5. ConversationStartsWithBrief'
      BY <2>3, <2>4, <2>6, <2>10, <3>2, <3>4 DEF PanelInv, ConversationStartsWithBrief
    <3>6. call[r].history = buildHistory(turns)
      BY <1>1, <2>6, <2>10 DEF PanelInv, AnswerFollowsItsHistory
    <3>7. Len(call[r].history) <= MAX_HISTORY_MESSAGES
      BY <1>1, <2>2, <3>1 DEF PanelInv, ServerInv, RequestInv, HistoryFits
    <3>8. ConversationIsBounded'
      BY <2>3, <2>4, <3>6, <3>7, HistoryLength DEF ConversationIsBounded
    <3> QED
      BY <1>1, <2>4, <2>5, <3>3, <3>5, <3>8 DEF PanelInv, BriefComesFirst, AnswerFollowsItsHistory
  <2> QED
    BY <2>6, <2>7, <2>8, <2>9, <2>10
<1> QED
  BY <1>3, <1>4

-----------------------------------------------------------------------------
(* The theorems about the trail and the conversation *)

LEMMA PanelInvNext == PanelInv /\ [Next]_vars => PanelInv'
<1> SUFFICES ASSUME PanelInv, [Next]_vars PROVE PanelInv'
  OBVIOUS
<1>1. ASSUME NEW a \in Alerts, NEW behind \in BOOLEAN,
             LinkAlert(a, behind) \/ UnlinkAlert(a, behind), UNCHANGED panel
      PROVE  PanelInv'
  <2>1. UNCHANGED <<pc, call, answer, copilot_audits, lost>>
    BY <1>1 DEF LinkAlert, UnlinkAlert, progress
  <2>2. ServerInv'
    BY <2>1 DEF PanelInv, ServerInv, ServerTyped, RequestInv, CallKnown, RowComesLast,
                RowTellsCall, HistoryFits
  <2> QED
    BY <1>1, <2>1, <2>2, ServerStep
<1>2. ASSUME NEW r \in Requests, Serve(r), UNCHANGED panel
      PROVE  PanelInv'
  <2>1. /\ ServerInv' /\ call' = call /\ pc[r] # "idle" /\ pc'[r] # "idle"
        /\ \A q \in Requests \ {r} : pc'[q] = pc[q]
    BY <1>2, ServeStep DEF PanelInv
  <2> QED
    BY <1>2, <2>1, ServerStep
<1>3. ASSUME NEW r \in Requests, NEW a \in Alerts, AskAboutAlert(r, "ask", a, 0)
      PROVE  PanelInv'
  BY <1>3, AskAboutAlertStep DEF AlertTypes
<1>4. ASSUME NEW r \in Requests, NEW a \in Alerts, NEW n \in 0..MAX_HISTORY_MESSAGES,
             AskAboutAlert(r, "follow_up", a, n)
      PROVE  PanelInv'
  <2>1. n \in Nat /\ "follow_up" \in AlertTypes
    BY HistoryBounds DEF AlertTypes
  <2> QED
    BY <1>4, <2>1, AskAboutAlertStep
<1>5. ASSUME NEW r \in Requests, NEW a, GenerateBrief(r, a)
      PROVE  PanelInv'
  BY <1>5, GenerateBriefStep
<1>6. ASSUME NEW r \in Requests, AskFollowUp(r) \/ Receive(r)
      PROVE  PanelInv'
  BY <1>6, AskFollowUpStep, ReceiveStep
<1>7. CASE Clear
  BY <1>7, ClearStep
<1>8. CASE UNCHANGED vars
  <2>1. UNCHANGED panel /\ UNCHANGED <<pc, call, answer, copilot_audits, lost>>
    BY <1>8 DEF vars, server, progress
  <2>2. ServerInv'
    BY <2>1 DEF PanelInv, ServerInv, ServerTyped, RequestInv, CallKnown, RowComesLast,
                RowTellsCall, HistoryFits
  <2> QED
    BY <2>1, <2>2, ServerStep
<1> QED
  BY <1>1, <1>2, <1>3, <1>4, <1>5, <1>6, <1>7, <1>8 DEF Next

LEMMA PanelInvHolds == Spec => []PanelInv
  BY PanelInvInit, PanelInvNext, PTL DEF Spec

\* Whatever the provider replies, whichever insert or commit fails and wherever a
\* worker dies, each answer of the copilot has the one row that tells its status and
\* its outcome, or is one of those that may have none.
THEOREM TrailToldOfEachCall == Spec => []AuditTellsEachCall
<1>1. PanelInv => AuditTellsEachCall
  BY TrailIsTold DEF PanelInv
<1> QED
  BY <1>1, PanelInvHolds, PTL

\* While no answer of a cleared conversation is on the screen, the conversation is one
\* brief and the questions that followed it, however the answers arrive.
THEOREM BriefThenQuestions == Spec => []ConversationStartsWithBrief
<1>1. PanelInv => ConversationStartsWithBrief
  BY DEF PanelInv
<1> QED
  BY <1>1, PanelInvHolds, PTL

\* The question awaited was asked with the conversation that is still on the screen.
THEOREM AnswerFitsConversation == Spec => []AnswerFollowsItsHistory
<1>1. PanelInv => AnswerFollowsItsHistory
  BY DEF PanelInv
<1> QED
  BY <1>1, PanelInvHolds, PTL

\* For every limit on the history, the conversation has at most one answer more than
\* the history may carry.
THEOREM ConversationEnds == Spec => []ConversationIsBounded
<1>1. PanelInv => ConversationIsBounded
  BY DEF PanelInv
<1> QED
  BY <1>1, PanelInvHolds, PTL

-----------------------------------------------------------------------------
(* What the lists of a case go through *)

LEMMA InsertedItem ==
  ASSUME NEW V, NEW s \in Seq(V), NEW x \in V, NEW behind \in BOOLEAN, behind => s # <<>>
  PROVE  Insert(s, x, behind) \in Seq(V) /\ ToSet(Insert(s, x, behind)) = ToSet(s) \cup {x}
<1> DEFINE k == IF behind THEN 2 ELSE 1
           p == SubSeq(s, 1, k - 1)
           q == SubSeq(s, k, Len(s))
<1>1. k - 1 \in 0..Len(s) /\ k \in 1..Len(s) + 1 /\ k = (k - 1) + 1
  <2>1. Len(s) \in Nat /\ (s # <<>> => Len(s) # 0)
    BY LenProperties, EmptySeq
  <2> QED
    BY <2>1
<1> HIDE DEF k
<1>2. p \in Seq(V) /\ q \in Seq(V) /\ ToSet(p) \cup ToSet(q) = ToSet(s)
  <2> DEFINE m == k - 1
  <2>1. m \in 0..Len(s) /\ k = m + 1
    BY <1>1
  <2> HIDE DEF m
  <2>2. /\ SubSeq(s, 1, m) \in Seq(V) /\ q \in Seq(V)
        /\ ToSet(SubSeq(s, 1, m)) \cup ToSet(q) = ToSet(s)
    BY <1>1, <2>1, TwoParts
  <2> QED
    BY <2>2 DEF m
<1> HIDE DEF p, q
<1> DEFINE one == <<x>>
           front == p \o one
<1>3. one \in Seq(V) /\ ToSet(one) = {x}
  BY DEF ToSet
<1>4. Insert(s, x, behind) = front \o q
  BY DEF Insert, InsertAt, p, q, k
<1> HIDE DEF one
<1>5. front \in Seq(V) /\ ToSet(front) = ToSet(p) \cup ToSet(one)
  BY <1>2, <1>3, JoinedItems
<1> HIDE DEF front
<1>6. front \o q \in Seq(V) /\ ToSet(front \o q) = ToSet(front) \cup ToSet(q)
  BY <1>2, <1>5, JoinedItems
<1> QED
  BY <1>2, <1>3, <1>4, <1>5, <1>6

LEMMA RemovedItem ==
  ASSUME NEW V, NEW s \in Seq(V), NEW i \in 1..Len(s)
  PROVE  RemoveAt(s, i) \in Seq(V) /\ ToSet(RemoveAt(s, i)) \subseteq ToSet(s)
<1> DEFINE m == i - 1
           k == i + 1
           p == SubSeq(s, 1, m)
           q == SubSeq(s, k, Len(s))
<1>1. m \in 0..Len(s) /\ k \in 1..Len(s) + 1
  BY LenProperties
<1>2. RemoveAt(s, i) = p \o q
  BY DEF RemoveAt
<1> HIDE DEF m, k
<1>3. p \in Seq(V) /\ q \in Seq(V) /\ ToSet(p) \cup ToSet(q) \subseteq ToSet(s)
  BY <1>1, TwoParts
<1> HIDE DEF p, q
<1> QED
  BY <1>2, <1>3, JoinedItems

-----------------------------------------------------------------------------
(* The links, and what a request has read of them *)

TrailRows == [action : {"CASE_ALERT_LINKED", "CASE_ALERT_UNLINKED"}, alert : Alerts]
LinkRow(a) == Row("CASE_ALERT_LINKED", a)

\* An alert is linked only while the trail says so.
LinksAreTold ==
  /\ linked \in Seq(Alerts)
  /\ trail \in Seq(TrailRows)
  /\ \A a \in ToSet(linked) : LinkRow(a) \in ToSet(trail)

AnswerFields == {"outcome", "text", "alert_refs", "event_refs", "techniques", "actions"}

\* A call, and the alert it is about.
Sent(c) ==
  /\ c.type \in RequestType
  /\ c.type \in AlertTypes => c.alert \in Alerts
  /\ c.question \in Nat /\ Len(c.history) \in Nat

\* The focus of a brief is one of the alerts read.
FocusIsRead(r) ==
  pc[r] \in {"generate", "record"} /\ call[r].type \in CaseTypes =>
    call[r].alert = NoAlert \/ call[r].alert \in ToSet(alerts[r])

\* The alerts whose rules may give an answer its techniques.
About(r) == IF AboutAlert(r) THEN {call[r].alert} ELSE ToSet(alerts[r])

\* An answer cites what its context has.
Grounded(r) ==
  /\ answer[r].alert_refs \subseteq 1..Len(alerts[r])
  /\ Cardinality(answer[r].event_refs) <=
       IF call[r].alert = NoAlert THEN 0 ELSE Cardinality(AlertRow[call[r].alert].security_events)
  /\ \A t \in answer[r].techniques : \E a \in About(r) :
       \E technique \in ToSet(TechniquesOf(a)) : technique.technique_id = t

\* The offline provider has answered, or the alerts have texts that do not fit.
MockAnswered(r) ==
  \/ answer[r].outcome = "answered"
  \/ /\ answer[r].outcome = "transport"
     /\ \/ call[r].type = "ask" /\ CannotBeQuoted(call[r].alert)
        \/ call[r].type = "case_brief" /\ CannotBeListed(alerts[r])

\* What a request has read stays explained by the trail, which only grows.
ReadInv(r) ==
  /\ alerts[r] \in Seq(Alerts)
  /\ \A a \in ToSet(alerts[r]) : LinkRow(a) \in ToSet(trail)
  /\ DOMAIN answer[r] = AnswerFields
  /\ lost[r] \in BOOLEAN
  /\ call[r] = NoCall \/ Sent(call[r])
  /\ FocusIsRead(r)
  /\ pc[r] = "record" => Grounded(r)
  /\ pc[r] = "record" /\ provider = "mock" => MockAnswered(r)

ContextInv ==
  /\ provider \in {"mock", "anthropic"}
  /\ generate_error \in BOOLEAN
  /\ LinksAreTold
  /\ DOMAIN alerts = Requests /\ DOMAIN audits = Requests
  /\ \A r \in Requests : ReadInv(r)

\* What has been read stays explained whatever happens to the case.
LEMMA ReadStays ==
  ASSUME NEW r \in Requests, ReadInv(r), ToSet(trail) \subseteq ToSet(trail'),
         alerts'[r] = alerts[r], answer'[r] = answer[r], lost'[r] = lost[r],
         call'[r] = call[r], pc'[r] = pc[r], provider' = provider
  PROVE  ReadInv(r)'
<1>1. FocusIsRead(r)'
  BY DEF ReadInv, FocusIsRead
<1>2. pc'[r] = "record" => Grounded(r)'
  BY DEF ReadInv, Grounded, About, AboutAlert
<1>3. pc'[r] = "record" /\ provider' = "mock" => MockAnswered(r)'
  BY DEF ReadInv, MockAnswered
<1> QED
  BY <1>1, <1>2, <1>3 DEF ReadInv

\* A request's own step, which leaves the case alone.
LEMMA ReadStep ==
  ASSUME ContextInv, NEW r \in Requests, ReadInv(r)',
         UNCHANGED <<provider, case>>, generate_error' \in BOOLEAN,
         OthersKeep(r), \A q \in Requests \ {r} : alerts'[q] = alerts[q],
         DOMAIN alerts' = Requests, DOMAIN audits' = Requests
  PROVE  ContextInv'
<1>1. provider' = provider /\ linked' = linked /\ trail' = trail
  BY DEF case
<1>2. LinksAreTold'
  BY <1>1 DEF ContextInv, LinksAreTold
<1>3. ASSUME NEW q \in Requests PROVE ReadInv(q)'
  <2>1. CASE q = r
    BY <2>1
  <2>2. CASE q # r
    BY <1>1, <2>2, ReadStays DEF ContextInv, OthersKeep
  <2> QED
    BY <2>1, <2>2
<1> QED
  BY <1>1, <1>2, <1>3 DEF ContextInv

-----------------------------------------------------------------------------
(* The steps *)

LEMMA OutcomeOnly ==
  ASSUME NEW outcome
  PROVE  /\ DOMAIN Without(outcome) = AnswerFields
         /\ Without(outcome).alert_refs = {} /\ Without(outcome).event_refs = {}
         /\ Without(outcome).techniques = {}
BY DEF Without, AnswerFields

LEMMA KeptFields ==
  ASSUME NEW given
  PROVE  DOMAIN Kept(given) = AnswerFields
BY DEF Kept, Without, AnswerFields

LEMMA NothingRead == <<>> \in Seq(Alerts) /\ ToSet(<<>>) = {}
BY EmptySeq DEF ToSet

LEMMA ContextInit == PanelInit => ContextInv
<1> SUFFICES ASSUME PanelInit PROVE ContextInv
  OBVIOUS
<1>1. /\ provider \in {"mock", "anthropic"} /\ generate_error = FALSE
      /\ linked = <<>> /\ trail = <<>>
      /\ alerts = [r \in Requests |-> <<>>] /\ audits = [r \in Requests |-> <<>>]
  BY DEF PanelInit, Init
<1>2. LinksAreTold
  BY <1>1, NothingRead, EmptySeq DEF LinksAreTold
<1>3. ASSUME NEW r \in Requests PROVE ReadInv(r)
  <2>1. pc[r] = "idle" /\ call[r] = NoCall /\ lost[r] = FALSE /\ answer[r] = Without("none")
        /\ alerts[r] = <<>>
    BY DEF PanelInit, Init
  <2> QED
    BY <2>1, NothingRead, OutcomeOnly DEF ReadInv, FocusIsRead
<1> QED
  BY <1>1, <1>2, <1>3 DEF ContextInv

LEMMA TrailInserted ==
  ASSUME LinksAreTold, NEW action \in {"CASE_ALERT_LINKED", "CASE_ALERT_UNLINKED"},
         NEW a \in Alerts, NEW behind \in BOOLEAN, behind => trail # <<>>,
         trail' = Insert(trail, Row(action, a), behind)
  PROVE  trail' \in Seq(TrailRows) /\ ToSet(trail') = ToSet(trail) \cup {Row(action, a)}
<1> DEFINE row == Row(action, a)
<1>1. row \in TrailRows
  BY DEF Row, TrailRows
<1> HIDE DEF row
<1>2. /\ Insert(trail, row, behind) \in Seq(TrailRows)
      /\ ToSet(Insert(trail, row, behind)) = ToSet(trail) \cup {row}
  BY <1>1, InsertedItem DEF LinksAreTold
<1> QED
  BY <1>2 DEF row

LEMMA MovesContext ==
  ASSUME ContextInv, NEW a \in Alerts, NEW behind \in BOOLEAN,
         LinkAlert(a, behind) \/ UnlinkAlert(a, behind), UNCHANGED panel
  PROVE  ContextInv'
<1>1. /\ UNCHANGED <<provider, generate_error, pc, call, alerts, audits, answer, lost>>
      /\ behind => trail # <<>>
  BY DEF LinkAlert, UnlinkAlert, progress, panel
<1>2. LinksAreTold /\ linked \in Seq(Alerts)
  BY DEF ContextInv, LinksAreTold
<1>3. LinksAreTold' /\ ToSet(trail) \subseteq ToSet(trail')
  <2>1. CASE LinkAlert(a, behind)
    <3> DEFINE second == behind /\ linked # <<>> /\ trail[1] = Row("CASE_ALERT_LINKED", linked[1])
    <3>1. second \in BOOLEAN /\ (second => linked # <<>>)
      OBVIOUS
    <3>2. linked' = Insert(linked, a, second) /\ trail' = Insert(trail, LinkRow(a), behind)
      BY <2>1 DEF LinkAlert, LinkRow
    <3> HIDE DEF second
    <3>3. linked' \in Seq(Alerts) /\ ToSet(linked') = ToSet(linked) \cup {a}
      <4>1. ASSUME NEW b \in BOOLEAN, b => linked # <<>>
            PROVE  /\ Insert(linked, a, b) \in Seq(Alerts)
                   /\ ToSet(Insert(linked, a, b)) = ToSet(linked) \cup {a}
        BY <1>2, <4>1, InsertedItem
      <4> QED
        BY <3>1, <3>2, <4>1
    <3>4. trail' \in Seq(TrailRows) /\ ToSet(trail') = ToSet(trail) \cup {LinkRow(a)}
      BY <1>1, <1>2, <3>2, TrailInserted DEF LinkRow
    <3> QED
      BY <1>2, <3>3, <3>4 DEF LinksAreTold
  <2>2. CASE UnlinkAlert(a, behind)
    <3>1. PICK i \in 1..Len(linked) : linked' = RemoveAt(linked, i)
      BY <2>2 DEF UnlinkAlert
    <3>2. linked' \in Seq(Alerts) /\ ToSet(linked') \subseteq ToSet(linked)
      BY <1>2, <3>1, RemovedItem
    <3>3. trail' \in Seq(TrailRows) /\ ToSet(trail) \subseteq ToSet(trail')
      BY <1>1, <1>2, <2>2, TrailInserted DEF UnlinkAlert
    <3> QED
      BY <1>2, <3>2, <3>3 DEF LinksAreTold
  <2> QED
    BY <2>1, <2>2
<1>4. ASSUME NEW r \in Requests PROVE ReadInv(r)'
  BY <1>1, <1>3, ReadStays DEF ContextInv
<1> QED
  BY <1>1, <1>3, <1>4 DEF ContextInv

LEMMA ArriveContext ==
  ASSUME PanelInv, ContextInv, NEW r \in Requests, NEW type, NEW alert, NEW question, NEW history,
         Arrive(r, type, alert, question, history), generate_error' \in BOOLEAN,
         type \in CaseTypes \/ (type \in AlertTypes /\ alert \in Alerts),
         question \in Nat, Len(history) \in Nat, OthersKeep(r)
  PROVE  ContextInv'
<1> DEFINE c == [type |-> type, alert |-> alert, question |-> question, history |-> history]
<1>1. /\ call' = [call EXCEPT ![r] = c]
      /\ UNCHANGED <<provider, case, alerts, audits, lost>>
      /\ \/ pc' = [pc EXCEPT ![r] = "alerts"] /\ answer' = answer
         \/ pc' = [pc EXCEPT ![r] = "reply"] /\ answer' = [answer EXCEPT ![r] = Without("refused")]
  BY DEF Arrive
<1>2. Sent(c)
  BY DEF Sent, RequestType, AlertTypes, CaseTypes
<1> HIDE DEF c
<1>3. DOMAIN call = Requests /\ DOMAIN answer = Requests /\ DOMAIN pc = Requests
  BY DEF PanelInv, ServerInv, ServerTyped
<1>4. /\ call'[r] = c /\ pc'[r] \in {"alerts", "reply"}
      /\ answer'[r] = answer[r] \/ answer'[r] = Without("refused")
  BY <1>1, <1>3
<1>5. ReadInv(r)'
  BY <1>1, <1>2, <1>4, OutcomeOnly DEF ContextInv, ReadInv, FocusIsRead, case
<1> QED
  BY <1>1, <1>5, ReadStep DEF ContextInv

LEMMA GenerateGrounds ==
  ASSUME PanelInv, ContextInv, NEW r \in Requests, Generate(r)
  PROVE  Grounded(r)' /\ DOMAIN answer'[r] = AnswerFields
<1> DEFINE type == call[r].type
           context == Context(r)
           Given(provided) ==
             [outcome    |-> "answered",
              text       |-> Quoted(type, provided[1]),
              alert_refs |-> AlertRefsCited(type, provided[1]),
              event_refs |-> EventRefsCited(type, provided[1]),
              techniques |-> TechniquesNamed(type, provided[1]),
              actions    |-> ActionsNamed(type, provided[1])]
<1>1. PICK provided : answer' = [answer EXCEPT ![r] =
        IF Outcome(type, provided, context) = "answered" THEN Given(provided)
        ELSE Without(Outcome(type, provided, context))]
  BY DEF Generate
<1>2. /\ UNCHANGED <<call, alerts, case>> /\ pc[r] = "generate"
  BY DEF Generate
<1>3. answer'[r] = IF Outcome(type, provided, context) = "answered" THEN Given(provided)
                   ELSE Without(Outcome(type, provided, context))
  <2> DEFINE value == IF Outcome(type, provided, context) = "answered" THEN Given(provided)
                      ELSE Without(Outcome(type, provided, context))
  <2>1. answer' = [answer EXCEPT ![r] = value] /\ DOMAIN answer = Requests
    BY <1>1 DEF PanelInv, ServerInv, ServerTyped
  <2> HIDE DEF value
  <2>2. answer'[r] = value
    BY <2>1
  <2> QED
    BY <2>2 DEF value
<1>4. type \in RequestType /\ ReadInv(r)
  BY <1>2 DEF PanelInv, ServerInv, RequestInv, CallKnown, ContextInv
<1>5. type \in AlertTypes => call[r].alert \in Alerts
  BY <1>4 DEF ReadInv, Sent, NoCall, AlertTypes
<1> DEFINE n == IF call[r].alert = NoAlert THEN 0
                ELSE Cardinality(AlertRow[call[r].alert].security_events)
<1>6. /\ n \in Nat
      /\ Len(Timeline(type, context)) = n
      /\ KnownAlertRefs(type, context) \subseteq 1..Len(alerts[r])
      /\ \A t \in Candidates(type, context) : \E a \in About(r) :
           \E technique \in ToSet(TechniquesOf(a)) : technique.technique_id = t
  <2>1. CASE type \in AlertTypes
    <3>1. context = AIContext(call[r].alert) /\ About(r) = {call[r].alert}
      BY <2>1 DEF Context, AboutAlert, About
    <3>2. call[r].alert # NoAlert
      BY <1>5, <2>1, ContextConstants
    <3>3. /\ Len(Timeline(type, context)) = n /\ n \in Nat
      BY <1>5, <2>1, <3>1, <3>2, AlertContext, TimelineLength
    <3> QED
      BY <1>5, <2>1, <3>1, <3>3, AlertContext
  <2>2. CASE type \in CaseTypes
    <3>1. context = AICaseContext(alerts[r], call[r].alert) /\ About(r) = ToSet(alerts[r])
      BY <2>2 DEF Context, AboutAlert, About, AlertTypes, CaseTypes
    <3>2. alerts[r] \in Seq(Alerts)
      BY <1>4 DEF ReadInv
    <3>3. Timeline(type, context) =
            IF call[r].alert = NoAlert THEN <<>> ELSE _build_timeline(call[r].alert)
      BY <2>2, <3>1, <3>2, CaseContext
    <3>4. Len(Timeline(type, context)) = n /\ n \in Nat
      <4>1. CASE call[r].alert = NoAlert
        BY <3>3, <4>1, EmptySeq
      <4>2. CASE call[r].alert # NoAlert
        <5>1. call[r].alert \in ToSet(alerts[r])
          BY <1>2, <1>4, <2>2, <4>2 DEF ReadInv, FocusIsRead
        <5>2. call[r].alert \in Alerts
          BY <3>2, <5>1, ElementOfSeq, LenProperties DEF ToSet
        <5> QED
          BY <3>3, <4>2, <5>2, TimelineLength
      <4> QED
        BY <4>1, <4>2
    <3> QED
      BY <2>2, <3>1, <3>2, <3>4, CaseContext
  <2> QED
    BY <1>4, <2>1, <2>2 DEF RequestType
<1>7. About(r)' = About(r)
  BY <1>2 DEF About, AboutAlert
<1> HIDE DEF n, context
<1>8. CASE Outcome(type, provided, context) = "answered"
  <2>1. /\ answer'[r].alert_refs = AlertRefsCited(type, provided[1])
        /\ answer'[r].event_refs = EventRefsCited(type, provided[1])
        /\ answer'[r].techniques = TechniquesNamed(type, provided[1])
        /\ DOMAIN answer'[r] = AnswerFields
    BY <1>3, <1>8 DEF AnswerFields
  <2>2. /\ AlertRefsCited(type, provided[1]) \subseteq KnownAlertRefs(type, context)
        /\ Cardinality(EventRefsCited(type, provided[1])) <= n
        /\ TechniquesNamed(type, provided[1]) \subseteq Candidates(type, context)
    BY <1>6, <1>8, AcceptedStaysInContext
  <2>3. Grounded(r)'
    BY <1>2, <1>6, <1>7, <2>1, <2>2 DEF Grounded, n
  <2> QED
    BY <2>1, <2>3
<1>9. CASE Outcome(type, provided, context) # "answered"
  <2>1. /\ answer'[r].alert_refs = {} /\ answer'[r].event_refs = {}
        /\ answer'[r].techniques = {} /\ DOMAIN answer'[r] = AnswerFields
    BY <1>3, <1>9, OutcomeOnly
  <2>2. Cardinality({}) = 0
    BY FS_EmptySet
  <2>3. Grounded(r)'
    BY <1>2, <1>6, <2>1, <2>2 DEF Grounded, n
  <2> QED
    BY <2>1, <2>3
<1> QED
  BY <1>8, <1>9

LEMMA NothingUnquotable ==
  ASSUME NEW a \in Alerts, ~CannotBeQuoted(a)
  PROVE  Quotable(AIContext(a))
<1> DEFINE context == AIContext(a)
           title == AlertRow[a].title
           users == Joined(Column(a, "username"))
           hosts == Joined(Column(a, "hostname"))
<1>1. Told(context)
  BY AlertIsTold
<1>2. /\ context.title = title /\ context.entities.usernames = Column(a, "username")
      /\ context.entities.hostnames = Column(a, "hostname")
  BY DEF AIContext, _extract_entities
<1> HIDE DEF context
<1>3. title \in 1..500 /\ users \in Nat /\ hosts \in Nat
  BY <1>1, <1>2, ToldNumbers
<1>4. /\ ~(title > 300) /\ ~(users > 240) /\ ~(hosts > 440)
      /\ \A item \in ToSet(AlertRow[a].evidence) : 0 \notin {item.key, item.value}
  BY DEF CannotBeQuoted
<1> HIDE DEF title, users, hosts
<1>5. title <= 300 /\ users <= 240 /\ hosts <= 440
  BY <1>3, <1>4
<1> QED
  BY <1>4, <1>5, AlertIsQuotable DEF title, users, hosts

LEMMA NothingUnlistable ==
  ASSUME NEW s \in Seq(Alerts), NEW focus, focus = NoAlert \/ focus \in ToSet(s),
         ~CannotBeListed(s)
  PROVE  Listable(AICaseContext(s, focus))
<1> DEFINE rules == Joined(Sorted(RulesOf(s), Precedes))
<1>1. /\ ~(rules > 440)
      /\ \A a \in ToSet(s) : \A item \in ToSet(AlertRow[a].evidence) : item.key # 0
  BY DEF CannotBeListed, RulesOf
<1>2. rules \in Nat
  BY RulesInOrder
<1> HIDE DEF rules
<1>3. rules <= 440
  BY <1>1, <1>2
<1> QED
  BY <1>1, <1>3, CaseIsTold DEF rules

\* The offline provider has an answer whose references are all there, unless a text of
\* the alerts does not fit.
LEMMA GenerateIsValid ==
  ASSUME PanelInv, ContextInv, NEW r \in Requests, Generate(r), provider = "mock"
  PROVE  MockAnswered(r)'
<1> DEFINE type == call[r].type
           alert == call[r].alert
           question == call[r].question
           turn == Len(call[r].history)
           context == Context(r)
           provided == MockGenerate(type, context, question, turn)
           outcome == Outcome(type, provided, context)
           Given ==
             [outcome    |-> "answered",
              text       |-> Quoted(type, provided[1]),
              alert_refs |-> AlertRefsCited(type, provided[1]),
              event_refs |-> EventRefsCited(type, provided[1]),
              techniques |-> TechniquesNamed(type, provided[1]),
              actions    |-> ActionsNamed(type, provided[1])]
           value == IF outcome = "answered" THEN Given ELSE Without(outcome)
<1>1. answer' = [answer EXCEPT ![r] = value] /\ call' = call /\ alerts' = alerts
      /\ pc[r] = "generate"
  BY DEF Generate
<1>2. DOMAIN answer = Requests
  BY DEF PanelInv, ServerInv, ServerTyped
<1>3. answer'[r].outcome = outcome
  <2>1. value.outcome = outcome
    <3> HIDE DEF outcome
    <3> QED
      BY DEF Without
  <2> HIDE DEF value
  <2> QED
    BY <1>1, <1>2, <2>1
<1>4. type \in RequestType /\ ReadInv(r)
  BY <1>1 DEF PanelInv, ServerInv, RequestInv, CallKnown, ContextInv
<1>5. Sent(call[r])
  BY <1>4 DEF ReadInv, NoCall, RequestType, AlertTypes, CaseTypes
<1>6. question \in Nat /\ turn \in Nat /\ (type \in AlertTypes => alert \in Alerts)
  BY <1>5 DEF Sent
<1>7. alerts[r] \in Seq(Alerts)
      /\ (type \in CaseTypes => alert = NoAlert \/ alert \in ToSet(alerts[r]))
  BY <1>1, <1>4 DEF ReadInv, FocusIsRead
<1>8. /\ type \in AlertTypes => context = AIContext(alert)
      /\ type \in CaseTypes => context = AICaseContext(alerts[r], alert)
  BY DEF Context, AboutAlert, AlertTypes, CaseTypes
<1>9. outcome = Outcome(type, MockGenerate(type, context, question, turn), context)
  OBVIOUS
<1> HIDE DEF type, alert, question, turn, context, provided, outcome
<1>10. CASE type = "ask"
  <2>1. alert \in Alerts /\ context = AIContext(alert)
    BY <1>6, <1>8, <1>10 DEF AlertTypes
  <2>2. Told(context)
    BY <2>1, AlertIsTold
  <2>3. outcome \in {"answered", "transport"} /\ (Quotable(context) => outcome = "answered")
    BY <1>9, <1>10, <2>2, AskIsValid
  <2>4. ~CannotBeQuoted(alert) => Quotable(context)
    BY <2>1, NothingUnquotable
  <2> QED
    BY <1>1, <1>3, <1>10, <2>3, <2>4 DEF MockAnswered, type, alert
<1>11. CASE type = "follow_up"
  <2>1. alert \in Alerts /\ context = AIContext(alert)
    BY <1>6, <1>8, <1>11 DEF AlertTypes
  <2>2. Told(context)
    BY <2>1, AlertIsTold
  <2>3. outcome = "answered"
    BY <1>6, <1>9, <1>11, <2>2, FollowUpIsValid
  <2> QED
    BY <1>3, <2>3 DEF MockAnswered
<1>12. CASE type = "case_brief"
  <2>1. context = AICaseContext(alerts[r], alert)
        /\ (alert = NoAlert \/ alert \in ToSet(alerts[r]))
    BY <1>7, <1>8, <1>12 DEF CaseTypes
  <2>2. ToldCase(context)
    BY <1>7, <2>1, CaseIsTold
  <2>3. outcome \in {"answered", "transport"} /\ (Listable(context) => outcome = "answered")
    BY <1>6, <1>9, <1>12, <2>2, BriefIsValid
  <2>4. ~CannotBeListed(alerts[r]) => Listable(context)
    BY <1>7, <2>1, NothingUnlistable
  <2> QED
    BY <1>1, <1>3, <1>12, <2>3, <2>4 DEF MockAnswered, type
<1>13. CASE type = "case_follow_up"
  <2>1. context = AICaseContext(alerts[r], alert)
        /\ (alert = NoAlert \/ alert \in ToSet(alerts[r]))
    BY <1>7, <1>8, <1>13 DEF CaseTypes
  <2>2. ToldCase(context)
    BY <1>7, <2>1, CaseIsTold
  <2>3. outcome = "answered"
    BY <1>6, <1>9, <1>13, <2>2, CaseFollowUpIsValid
  <2> QED
    BY <1>3, <2>3 DEF MockAnswered
<1> QED
  BY <1>4, <1>10, <1>11, <1>12, <1>13 DEF RequestType, AlertTypes, CaseTypes, type

LEMMA ServeKeeps ==
  ASSUME ServerTyped, NEW r \in Requests, Serve(r)
  PROVE  OthersKeep(r)
<1> SUFFICES ASSUME NEW q \in Requests \ {r}
             PROVE  /\ pc'[q] = pc[q] /\ call'[q] = call[q] /\ answer'[q] = answer[q]
                    /\ copilot_audits'[q] = copilot_audits[q] /\ lost'[q] = lost[q]
  BY DEF OthersKeep
<1>1. CASE ReadAlert(r) \/ ReadAlerts(r)
  BY <1>1 DEF ReadAlert, ReadAlerts, ServerTyped
<1>2. CASE ReadAudits(r)
  BY <1>2 DEF ReadAudits, ServerTyped
<1>3. CASE Generate(r)
  BY <1>3 DEF Generate, ServerTyped
<1>4. CASE Record(r) \/ RecordFails(r)
  BY <1>4 DEF Record, RecordFails, ServerTyped
<1>5. CASE Fail(r)
  BY <1>5 DEF Fail, ServerTyped
<1> QED
  BY <1>1, <1>2, <1>3, <1>4, <1>5 DEF Serve

LEMMA ServeContext ==
  ASSUME PanelInv, ContextInv, NEW r \in Requests, Serve(r), UNCHANGED panel,
         OthersKeep(r)
  PROVE  ContextInv'
<1>1. /\ DOMAIN pc = Requests /\ DOMAIN answer = Requests /\ DOMAIN lost = Requests
      /\ DOMAIN alerts = Requests /\ DOMAIN audits = Requests /\ ReadInv(r) /\ LinksAreTold
  BY DEF PanelInv, ServerInv, ServerTyped, ContextInv
<1>2. generate_error' \in BOOLEAN
  BY DEF ContextInv, panel
<1>3. CASE ReadAlert(r)
  <2>1. /\ pc' = [pc EXCEPT ![r] = "generate"] /\ call[r].type \in AlertTypes
        /\ UNCHANGED <<provider, case, call, alerts, audits, answer, lost>>
    BY <1>3 DEF ReadAlert, AboutAlert
  <2>2. ReadInv(r)'
    BY <1>1, <2>1 DEF ReadInv, FocusIsRead, AlertTypes, CaseTypes, case
  <2> QED
    BY <1>1, <1>2, <2>1, <2>2, ReadStep
<1>4. CASE ReadAlerts(r)
  <2>1. /\ pc' = [pc EXCEPT ![r] = "audits"]
        /\ alerts' = [alerts EXCEPT ![r] = First(linked, MAX_CASE_ALERTS_IN_CONTEXT)]
        /\ UNCHANGED <<provider, case, call, audits, answer, lost>>
    BY <1>4 DEF ReadAlerts
  <2>2. /\ alerts'[r] \in Seq(Alerts)
        /\ \A a \in ToSet(alerts'[r]) : LinkRow(a) \in ToSet(trail)
    BY <1>1, <2>1, FirstItems, ContextConstants DEF LinksAreTold
  <2>3. ReadInv(r)'
    BY <1>1, <2>1, <2>2 DEF ReadInv, FocusIsRead, case
  <2> QED
    BY <1>1, <1>2, <2>1, <2>3, ReadStep
<1>5. CASE ReadAudits(r)
  <2>1. /\ audits' = [audits EXCEPT ![r] = First(trail, MAX_CASE_AUDIT_IN_CONTEXT)]
        /\ UNCHANGED <<provider, case, call, alerts, lost>>
    BY <1>5 DEF ReadAudits
  <2>2. CASE call[r].alert = NoAlert \/ \E i \in 1..Len(alerts[r]) : alerts[r][i] = call[r].alert
    <3>1. pc' = [pc EXCEPT ![r] = "generate"] /\ answer' = answer
      BY <1>5, <2>2 DEF ReadAudits
    <3>2. call[r].alert = NoAlert \/ call[r].alert \in ToSet(alerts[r])
      BY <1>1, <2>2, LenProperties DEF ReadInv, ToSet
    <3>3. ReadInv(r)'
      BY <1>1, <2>1, <3>1, <3>2 DEF ReadInv, FocusIsRead, case
    <3> QED
      BY <1>1, <1>2, <2>1, <3>1, <3>3, ReadStep
  <2>3. CASE ~(call[r].alert = NoAlert
               \/ \E i \in 1..Len(alerts[r]) : alerts[r][i] = call[r].alert)
    <3>1. /\ pc' = [pc EXCEPT ![r] = "reply"]
          /\ answer' = [answer EXCEPT ![r] = Without("not_linked")]
      BY <1>5, <2>3 DEF ReadAudits
    <3>2. pc'[r] = "reply" /\ answer'[r] = Without("not_linked")
      BY <1>1, <3>1
    <3>3. ReadInv(r)'
      BY <1>1, <2>1, <3>2, OutcomeOnly DEF ReadInv, FocusIsRead, case
    <3> QED
      BY <1>1, <1>2, <2>1, <3>3, ReadStep
  <2> QED
    BY <2>2, <2>3
<1>6. CASE Generate(r)
  <2>1. /\ pc[r] = "generate" /\ pc' = [pc EXCEPT ![r] = "record"]
        /\ audits' = [audits EXCEPT ![r] = <<>>]
        /\ UNCHANGED <<provider, case, call, alerts, lost>>
    BY <1>6 DEF Generate
  <2>2. Grounded(r)' /\ DOMAIN answer'[r] = AnswerFields
    BY <1>6, GenerateGrounds
  <2>3. provider' = "mock" => MockAnswered(r)'
    BY <1>6, <2>1, GenerateIsValid
  <2>4. ReadInv(r)'
    BY <1>1, <2>1, <2>2, <2>3 DEF ReadInv, FocusIsRead, case
  <2> QED
    BY <1>1, <1>2, <2>1, <2>4, ReadStep
<1>7. CASE Record(r) \/ RecordFails(r)
  <2>1. /\ pc' = [pc EXCEPT ![r] = "reply"]
        /\ answer' = [answer EXCEPT ![r] = Kept(@)]
        /\ alerts' = [alerts EXCEPT ![r] = <<>>]
        /\ lost' = lost \/ lost' = [lost EXCEPT ![r] = TRUE]
        /\ UNCHANGED <<provider, case, call, audits>>
    BY <1>7 DEF Record, RecordFails
  <2>2. pc'[r] = "reply" /\ alerts'[r] = <<>> /\ DOMAIN answer'[r] = AnswerFields
        /\ lost'[r] \in BOOLEAN
    BY <1>1, <2>1, KeptFields DEF ReadInv
  <2>3. ReadInv(r)'
    BY <1>1, <2>1, <2>2, NothingRead DEF ReadInv, FocusIsRead, case
  <2> QED
    BY <1>1, <1>2, <2>1, <2>3, ReadStep
<1>8. CASE Fail(r)
  <2>1. /\ pc' = [pc EXCEPT ![r] = "reply"]
        /\ answer' = [answer EXCEPT ![r] = Without("error")]
        /\ alerts' = [alerts EXCEPT ![r] = <<>>]
        /\ audits' = [audits EXCEPT ![r] = <<>>]
        /\ UNCHANGED <<provider, case, call, lost>>
    BY <1>8 DEF Fail
  <2>2. pc'[r] = "reply" /\ alerts'[r] = <<>> /\ answer'[r] = Without("error")
    BY <1>1, <2>1
  <2>3. ReadInv(r)'
    BY <1>1, <2>1, <2>2, NothingRead, OutcomeOnly DEF ReadInv, FocusIsRead, case
  <2> QED
    BY <1>1, <1>2, <2>1, <2>3, ReadStep
<1> QED
  BY <1>3, <1>4, <1>5, <1>6, <1>7, <1>8 DEF Serve

LEMMA ReceiveContext ==
  ASSUME PanelInv, ContextInv, NEW r \in Requests, Receive(r)
  PROVE  ContextInv'
<1>1. OthersKeep(r)
  BY Received
<1>2. /\ pc' = [pc EXCEPT ![r] = "idle"] /\ call' = [call EXCEPT ![r] = NoCall]
      /\ alerts' = [alerts EXCEPT ![r] = <<>>] /\ audits' = [audits EXCEPT ![r] = <<>>]
      /\ answer' = [answer EXCEPT ![r] = Without("none")]
      /\ lost' = [lost EXCEPT ![r] = FALSE]
      /\ UNCHANGED <<provider, case>>
  BY DEF Receive, End
<1>3. generate_error' \in BOOLEAN
  BY DEF Receive, ContextInv
<1>4. /\ pc'[r] = "idle" /\ call'[r] = NoCall /\ alerts'[r] = <<>>
      /\ answer'[r] = Without("none") /\ lost'[r] = FALSE
  BY <1>2 DEF PanelInv, ServerInv, ServerTyped, ContextInv
<1>5. ReadInv(r)'
  BY <1>4, NothingRead, OutcomeOnly DEF ReadInv, FocusIsRead
<1> QED
  BY <1>1, <1>2, <1>3, <1>5, ReadStep DEF ContextInv

LEMMA QuestionIsText == QuestionLength \in Nat
BY PanelConstants DEF Text, MAX_QUESTION_LENGTH

LEMMA ContextNext == PanelInv /\ ContextInv /\ [Next]_vars => ContextInv'
<1> SUFFICES ASSUME PanelInv, ContextInv, [Next]_vars PROVE ContextInv'
  OBVIOUS
<1>1. ASSUME NEW a \in Alerts, NEW behind \in BOOLEAN,
             LinkAlert(a, behind) \/ UnlinkAlert(a, behind), UNCHANGED panel
      PROVE  ContextInv'
  BY <1>1, MovesContext
<1>2. ASSUME NEW r \in Requests, Serve(r), UNCHANGED panel
      PROVE  ContextInv'
  <2>1. OthersKeep(r)
    BY <1>2, ServeKeeps DEF PanelInv, ServerInv
  <2> QED
    BY <1>2, <2>1, ServeContext
<1>3. ASSUME NEW r \in Requests, NEW type \in {"ask", "follow_up"}, NEW a \in Alerts, NEW n \in Nat,
             type = "ask" => n = 0, AskAboutAlert(r, type, a, n)
      PROVE  ContextInv'
  <2> DEFINE history == [i \in 1..n |-> QuestionLength]
  <2>1. Arrive(r, type, a, QuestionLength, history) /\ generate_error' = generate_error
    BY <1>3 DEF AskAboutAlert, panel
  <2>2. Len(history) = n
    <3>1. history = [i \in 1..n |-> history[i]]
      OBVIOUS
    <3> HIDE DEF history
    <3> QED
      BY <3>1, LengthOf
  <2> HIDE DEF history
  <2>3. type \in RequestType /\ type \in AlertTypes /\ (type \in FirstOnes => Len(history) = 0)
    BY <1>3, <2>2 DEF RequestType, AlertTypes, FirstOnes
  <2>4. OthersKeep(r)
    BY <2>1, <2>3, ArriveStep DEF PanelInv
  <2>5. generate_error' \in BOOLEAN
    BY <2>1 DEF ContextInv
  <2> QED
    BY <1>3, <2>1, <2>2, <2>3, <2>4, <2>5, QuestionIsText, ArriveContext
<1>4. ASSUME NEW r \in Requests, NEW a, GenerateBrief(r, a)
      PROVE  ContextInv'
  <2> DEFINE none == <<>>
  <2>1. Arrive(r, "case_brief", a, QuestionLength, none) /\ generate_error' = FALSE
    BY <1>4 DEF GenerateBrief
  <2>2. Len(none) = 0
    OBVIOUS
  <2> HIDE DEF none
  <2>3. "case_brief" \in CaseTypes /\ "case_brief" \in RequestType
    BY DEF RequestType, CaseTypes
  <2>4. OthersKeep(r)
    BY <2>1, <2>2, <2>3, ArriveStep DEF PanelInv
  <2>5. Len(none) \in Nat
    BY <2>2
  <2> QED
    BY <2>1, <2>3, <2>4, <2>5, QuestionIsText, ArriveContext
<1>5. ASSUME NEW r \in Requests, AskFollowUp(r)
      PROVE  ContextInv'
  <2> DEFINE history == buildHistory(turns)
  <2>1. /\ Arrive(r, "case_follow_up", NoAlert, QuestionLength, history)
        /\ generate_error' = generate_error
    BY <1>5 DEF AskFollowUp
  <2> HIDE DEF history
  <2>2. /\ "case_follow_up" \in CaseTypes /\ "case_follow_up" \in RequestType
        /\ "case_follow_up" \notin FirstOnes
    BY DEF RequestType, CaseTypes, FirstOnes
  <2>3. OthersKeep(r)
    BY <2>1, <2>2, ArriveStep DEF PanelInv
  <2>4. generate_error' \in BOOLEAN
    BY <2>1 DEF ContextInv
  <2>5. Len(history) \in Nat
    BY HistoryLength DEF history, PanelInv
  <2> QED
    BY <2>1, <2>2, <2>3, <2>4, <2>5, QuestionIsText, ArriveContext
<1>6. ASSUME NEW r \in Requests, Receive(r)
      PROVE  ContextInv'
  BY <1>6, ReceiveContext
<1>7. ASSUME Clear \/ UNCHANGED vars PROVE ContextInv'
  <2>1. /\ UNCHANGED <<provider, case, pc, call, alerts, audits, answer, lost>>
        /\ generate_error' \in BOOLEAN
    BY <1>7 DEF Clear, vars, server, progress, panel, ContextInv
  <2>2. linked' = linked /\ trail' = trail
    BY <2>1 DEF case
  <2>3. \A r \in Requests : ReadInv(r)'
    BY <2>1, <2>2, ReadStays DEF ContextInv
  <2> QED
    BY <2>1, <2>2, <2>3 DEF ContextInv, LinksAreTold
<1> QED
  BY <1>1, <1>2, <1>3, <1>4, <1>5, <1>6, <1>7, HistoryBounds DEF Next

-----------------------------------------------------------------------------
(* The theorems about what is read and cited *)

LEMMA ContextHolds == Spec => [](PanelInv /\ ContextInv)
<1>1. PanelInit => PanelInv /\ ContextInv
  BY PanelInvInit, ContextInit
<1>2. PanelInv /\ ContextInv /\ [Next]_vars => (PanelInv /\ ContextInv)'
  BY PanelInvNext, ContextNext
<1> QED
  BY <1>1, <1>2, PTL DEF Spec

\* Every variable has its type; the panel shows no call that is not under way.
THEOREM Typed == Spec => []TypeOK
<1>1. ASSUME PanelInv, ContextInv PROVE TypeOK
  <2>1. \A r \in Requests :
          /\ pc[r] \in Stages \cup {"idle"}
          /\ call[r] = NoCall \/ call[r].type \in RequestType
          /\ alerts[r] \in Seq(Alerts)
          /\ DOMAIN answer[r] = AnswerFields
          /\ lost[r] \in BOOLEAN
    BY <1>1 DEF PanelInv, ContextInv, ServerInv, ServerTyped, ReadInv, Sent
  <2>2. \A r \in {generating, asking} \ {NoRequest} : r \in Requests /\ pc[r] # "idle"
    BY <1>1 DEF PanelInv, PendingIsKnown
  <2>3. let_go \in SUBSET Requests
    BY <1>1 DEF PanelInv, PendingIsKnown
  <2> QED
    BY <1>1, <2>1, <2>2, <2>3 DEF TypeOK, ContextInv, LinksAreTold, TrailRows, AnswerFields
<1> QED
  BY <1>1, ContextHolds, PTL

\* Whatever any provider replies, and whatever is linked and unlinked between the reads
\* of a request, an answer that passes the checks cites only alerts that were read,
\* no more events than the alert it is about has, and techniques of the rules that
\* raised these alerts, each of which the trail has a link of.
THEOREM Grounding == Spec => []AnswersStayInContext
<1>1. ASSUME PanelInv, ContextInv PROVE AnswersStayInContext
  <2> SUFFICES ASSUME NEW r \in Requests, pc[r] = "record"
               PROVE  /\ Grounded(r)
                      /\ call[r].type \in CaseTypes =>
                           About(r) \cup ({call[r].alert} \ {NoAlert})
                             \subseteq {row.alert : row \in ToSet(trail)}
    BY DEF AnswersStayInContext, Grounded, About
  <2>1. ReadInv(r)
    BY <1>1 DEF ContextInv
  <2>2. Grounded(r)
    BY <2>1 DEF ReadInv
  <2>3. ASSUME call[r].type \in CaseTypes
        PROVE  About(r) \cup ({call[r].alert} \ {NoAlert})
                 \subseteq {row.alert : row \in ToSet(trail)}
    <3>1. About(r) \cup ({call[r].alert} \ {NoAlert}) \subseteq ToSet(alerts[r])
      BY <2>1, <2>3 DEF ReadInv, FocusIsRead, About, AboutAlert, AlertTypes, CaseTypes
    <3>2. ASSUME NEW a \in ToSet(alerts[r]) PROVE a \in {row.alert : row \in ToSet(trail)}
      <4>1. LinkRow(a) \in ToSet(trail) /\ LinkRow(a).alert = a
        BY <2>1 DEF ReadInv, LinkRow, Row
      <4> QED
        BY <4>1
    <3> QED
      BY <3>1, <3>2
  <2> QED
    BY <2>2, <2>3
<1> QED
  BY <1>1, ContextHolds, PTL

\* Links and rows are read by two statements with commits in between; for every limit
\* on the rows, what the model is told of an alert includes the row of its newest link,
\* unless so many rows are newer.
THEOREM TrailIsComplete == Spec => TrailExplainsAlerts
<1> DEFINE Explained(r) ==
             \A a \in ToSet(alerts[r]) :
               \/ Row("CASE_ALERT_LINKED", a) \in ToSet(audits'[r])
               \/ \E i \in MAX_CASE_AUDIT_IN_CONTEXT + 1..Len(trail) :
                    /\ trail[i] = Row("CASE_ALERT_LINKED", a)
                    /\ \A j \in 1..i - 1 : trail[j] # trail[i]
           Explains == \A r \in Requests :
                         pc[r] = "audits" /\ pc'[r] = "generate" => Explained(r)
<1>1. ASSUME PanelInv, ContextInv, [Next]_vars, NEW r \in Requests,
             pc[r] = "audits", pc'[r] = "generate"
      PROVE  audits'[r] = First(trail, MAX_CASE_AUDIT_IN_CONTEXT)
  <2>1. PICK q \in Requests : Serve(q)
    <3>1. pc' # pc
      BY <1>1
    <3>2. ASSUME NEW q \in Requests, Receive(q) PROVE FALSE
      BY <1>1, <3>2 DEF Receive, End, PanelInv, ServerInv, ServerTyped
    <3>3. ASSUME NEW q \in Requests, NEW type, NEW alert, NEW question, NEW history,
                 Arrive(q, type, alert, question, history)
          PROVE  FALSE
      BY <1>1, <3>3 DEF Arrive, PanelInv, ServerInv, ServerTyped
    <3>4. ~Clear /\ ~UNCHANGED vars
      BY <3>1 DEF Clear, vars, server, progress
    <3>5. \A a \in Alerts, behind \in BOOLEAN : ~LinkAlert(a, behind) /\ ~UnlinkAlert(a, behind)
      BY <3>1 DEF LinkAlert, UnlinkAlert, progress
    <3>6. \A q \in Requests : \A type, a, n : ~AskAboutAlert(q, type, a, n)
      BY <3>3 DEF AskAboutAlert
    <3>7. \A q \in Requests : \A a : ~GenerateBrief(q, a) /\ ~AskFollowUp(q)
      BY <3>3 DEF GenerateBrief, AskFollowUp
    <3> QED
      BY <1>1, <3>2, <3>4, <3>5, <3>6, <3>7 DEF Next
  <2>2. q = r
    BY <1>1, <2>1, ServeKeeps DEF OthersKeep, PanelInv, ServerInv
  <2>3. ReadAudits(r)
    BY <1>1, <2>1, <2>2 DEF Serve, ReadAlert, ReadAlerts, Generate, Record, RecordFails, Fail,
                            PanelInv, ServerInv, ServerTyped
  <2> QED
    BY <1>1, <2>3 DEF ReadAudits, ContextInv
<1>2. ASSUME PanelInv, ContextInv, [Next]_vars PROVE Explains
  <2> SUFFICES ASSUME NEW r \in Requests, pc[r] = "audits", pc'[r] = "generate",
                      NEW a \in ToSet(alerts[r])
               PROVE  \/ LinkRow(a) \in ToSet(audits'[r])
                      \/ \E i \in MAX_CASE_AUDIT_IN_CONTEXT + 1..Len(trail) :
                           /\ trail[i] = LinkRow(a)
                           /\ \A j \in 1..i - 1 : trail[j] # trail[i]
    BY DEF LinkRow
  <2> DEFINE max == MAX_CASE_AUDIT_IN_CONTEXT
             row == LinkRow(a)
             T == {i \in 1..Len(trail) : trail[i] = row}
  <2>1. trail \in Seq(TrailRows) /\ row \in ToSet(trail) /\ max \in Nat
    BY <1>2, ContextConstants DEF ContextInv, LinksAreTold, ReadInv
  <2>2. Len(trail) \in Nat /\ DOMAIN trail = 1..Len(trail)
    BY <2>1, LenProperties
  <2>3. audits'[r] = First(trail, max)
    BY <1>1, <1>2
  <2> HIDE DEF row, max
  <2>4. T \in SUBSET Nat /\ T # {}
    BY <2>1, <2>2 DEF ToSet
  <2>5. PICK i \in T : \A m \in T : i <= m
    BY <2>4, Smallest
  <2>6. i \in 1..Len(trail) /\ trail[i] = row /\ \A j \in 1..i - 1 : trail[j] # trail[i]
    BY <2>2, <2>5
  <2>7. CASE i <= max
    BY <2>1, <2>3, <2>6, <2>7, FirstItems DEF row
  <2>8. CASE ~(i <= max)
    <3>1. i \in max + 1..Len(trail)
      BY <2>1, <2>2, <2>6, <2>8
    <3> QED
      BY <2>6, <3>1 DEF row, max
  <2> QED
    BY <2>7, <2>8
<1>3. PanelInv /\ ContextInv /\ [Next]_vars => [Explains]_vars
  BY <1>2
<1>4. Spec => [][Explains]_vars
  <2> HIDE DEF Explains
  <2> QED
    BY <1>3, ContextHolds, PTL DEF Spec
<1> QED
  BY <1>4 DEF TrailExplainsAlerts

\* The offline provider's answer passes every check of the pipeline: for any contents
\* of the alerts' columns that the schema allows, any limits and any conversation,
\* what it cannot answer is a first question or a brief about alerts with a text for
\* which the answer's schema has no place.
THEOREM MockIsValid == Spec => []MockAnswersAreValid
<1>1. PanelInv /\ ContextInv => MockAnswersAreValid
  BY DEF ContextInv, ReadInv, MockAnswered, MockAnswersAreValid
<1> QED
  BY <1>1, ContextHolds, PTL
=============================================================================
