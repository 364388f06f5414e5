-------------------------- MODULE CaseCopilotPanel --------------------------
(***************************************************************************)
(* An analyst's conversation about a case: CaseCopilotPanel.tsx and the    *)
(* hook useCaseCopilot.ts over the requests of CopilotRequests.            *)
(*                                                                         *)
(* The hook keeps two mutations, one that generates the brief and one that *)
(* asks follow-ups.  Each shows the state of the last call it started, but *)
(* the onSuccess of every call runs, also of one that Clear has let go.    *)
(*                                                                         *)
(* Conversations about an alert do not depend on the case: they are        *)
(* questions with a history of any length, one at a time.                  *)
(***************************************************************************)
EXTENDS CopilotRequests

CONSTANTS
  NoRequest,
  QuestionLength    \* every question of this instance is that long

ASSUME PanelConstants ==
  NoRequest \notin Requests /\ Text(QuestionLength, MAX_QUESTION_LENGTH)

VARIABLES
  turns,           \* the conversation on the screen
  generating,      \* the call generateMutation shows, while it is pending
  asking,          \* the call followUpMutation shows, while it is pending
  generate_error,  \* generateMutation.error is set
  let_go           \* history: the calls in flight when the panel was last cleared

panel == <<turns, generating, asking, generate_error, let_go>>
vars  == <<server, panel>>

-----------------------------------------------------------------------------
hasGenerated == turns # <<>>

\* buildHistory: the messages of a conversation, as lengths.
buildHistory(conversation) ==
  [i \in 1..2 * Len(conversation) |->
     IF i % 2 = 1 THEN conversation[(i + 1) \div 2].question ELSE conversation[i \div 2].text]

PanelInit ==
  /\ Init
  /\ turns = <<>>
  /\ generating = NoRequest
  /\ asking = NoRequest
  /\ generate_error = FALSE
  /\ let_go = {}

\* Fault: the button stays enabled while a brief is being generated.
GenerateAgain(r, focus) ==
  /\ ~hasGenerated
  /\ focus = NoAlert \/ \E i \in 1..Len(trail) : trail[i].alert = focus
  /\ Arrive(r, "case_brief", focus, QuestionLength, <<>>)
  /\ generating' = r
  /\ generate_error' = FALSE
  /\ UNCHANGED <<turns, asking, let_go>>

\* submitGenerate and retryGenerate; the choice of an alert outlives the list it was
\* made from.
GenerateBrief(r, focus) ==
  /\ ~hasGenerated /\ generating = NoRequest
  /\ focus = NoAlert \/ \E i \in 1..Len(trail) : trail[i].alert = focus
  /\ Arrive(r, "case_brief", focus, QuestionLength, <<>>)
  /\ generating' = r
  /\ generate_error' = FALSE
  /\ UNCHANGED <<turns, asking, let_go>>

\* Fault: the button stays enabled while an answer is awaited.
AskAgain(r) ==
  /\ hasGenerated
  /\ Arrive(r, "case_follow_up", NoAlert, QuestionLength, buildHistory(turns))
  /\ asking' = r
  /\ UNCHANGED <<turns, generating, generate_error, let_go>>

\* submitFollowUp and retryAsk.
AskFollowUp(r) ==
  /\ hasGenerated /\ asking = NoRequest
  /\ Arrive(r, "case_follow_up", NoAlert, QuestionLength, buildHistory(turns))
  /\ asking' = r
  /\ UNCHANGED <<turns, generating, generate_error, let_go>>

\* A question on the page of an alert, after some turns about it.  To bound the
\* instance, it is asked while nothing else is, before anything is linked.
AskAboutAlert(r, type, alert, n) ==
  /\ \A q \in Requests : pc[q] = "idle"
  /\ trail = <<>> /\ turns = <<>>
  /\ Arrive(r, type, alert, QuestionLength, [i \in 1..n |-> QuestionLength])
  /\ UNCHANGED panel

\* Fault: a follow-up that fails stays pending.
ReceiveAnswers(r) ==
  /\ pc[r] = "reply"
  /\ turns' = IF ~AboutAlert(r) /\ answer[r].outcome = "answered"
              THEN Append(turns, [kind     |-> IF IsFollowUp(r) THEN "followUp" ELSE "initial",
                                  question |-> call[r].question,
                                  text     |-> answer[r].text,
                                  stray    |-> r \in let_go])
              ELSE turns
  /\ generating' = IF generating = r THEN NoRequest ELSE generating
  /\ asking' = IF asking = r /\ answer[r].outcome = "answered" THEN NoRequest ELSE asking
  /\ generate_error' = IF generating = r THEN answer[r].outcome # "answered" ELSE generate_error
  /\ End(r)
  /\ let_go' = let_go \ {r}
  /\ UNCHANGED <<provider, case>>

\* The response arrives.
Receive(r) ==
  /\ pc[r] = "reply"
  /\ turns' = IF ~AboutAlert(r) /\ answer[r].outcome = "answered"
              THEN Append(turns, [kind     |-> IF IsFollowUp(r) THEN "followUp" ELSE "initial",
                                  question |-> call[r].question,
                                  text     |-> answer[r].text,
                                  stray    |-> r \in let_go])
              ELSE turns
  /\ generating' = IF generating = r THEN NoRequest ELSE generating
  /\ asking' = IF asking = r THEN NoRequest ELSE asking
  /\ generate_error' = IF generating = r THEN answer[r].outcome # "answered" ELSE generate_error
  /\ End(r)
  /\ let_go' = let_go \ {r}
  /\ UNCHANGED <<provider, case>>

\* clear and the hook's reset, which forgets the calls in flight but not their answers.
Clear ==
  /\ hasGenerated \/ generate_error
  /\ turns' = <<>>
  /\ generating' = NoRequest
  /\ asking' = NoRequest
  /\ generate_error' = FALSE
  /\ let_go' = {r \in Requests : pc[r] # "idle" /\ ~AboutAlert(r)}
  /\ UNCHANGED server

Next ==
  \/ \E a \in Alerts : \E behind \in BOOLEAN : LinkAlert(a, behind) /\ UNCHANGED panel
  \/ \E a \in Alerts : \E behind \in BOOLEAN : UnlinkAlert(a, behind) /\ UNCHANGED panel
  \/ \E r \in Requests : Serve(r) /\ UNCHANGED panel
  \/ \E r \in Requests : \E a \in Alerts : AskAboutAlert(r, "ask", a, 0)
  \/ \E r \in Requests : \E a \in Alerts : \E n \in 0..MAX_HISTORY_MESSAGES :
       AskAboutAlert(r, "follow_up", a, n)
  \/ \E r \in Requests : \E a \in Alerts \cup {NoAlert} : GenerateBrief(r, a)
  \/ \E r \in Requests : AskFollowUp(r) \/ Receive(r)
  \/ Clear

Spec == PanelInit /\ [][Next]_vars
-----------------------------------------------------------------------------
(* Properties *)

\* Every variable has its type: the panel never shows a call that is not under way
\* on the server, and a call holds only what its stage has given it.
TypeOK ==
  /\ provider \in {"mock", "anthropic"}
  /\ linked \in Seq(Alerts)
  /\ trail \in Seq([action : {"CASE_ALERT_LINKED", "CASE_ALERT_UNLINKED"}, alert : Alerts])
  /\ \A r \in Requests :
       /\ pc[r] \in Stages \cup {"idle"}
       /\ call[r] = NoCall \/ call[r].type \in RequestType
       /\ alerts[r] \in Seq(Alerts)
       /\ DOMAIN answer[r] = {"outcome", "text", "alert_refs", "event_refs", "techniques",
                              "actions"}
       /\ lost[r] \in BOOLEAN
  /\ \A r \in {generating, asking} \ {NoRequest} : r \in Requests /\ pc[r] # "idle"
  /\ generate_error \in BOOLEAN
  /\ let_go \in SUBSET Requests

\* When a call answers the client, the trail tells what happened: one row, with the
\* status the client sees and "failed" if and only if the reply was not acceptable;
\* without a row only calls that were refused, that ended in a server error, or whose
\* row could not be written.
AuditTellsEachCall ==
  \A r \in Requests :
    LET rows == copilot_audits[r]
    IN  pc[r] = "reply" =>
          /\ rows = <<>> => lost[r] \/ HttpStatus(r) \in {422, 500}
          /\ Len(rows) <= 1
          /\ rows # <<>> /\ HttpStatus(r) # 500 =>
               /\ rows[1].http_status = HttpStatus(r)
               /\ rows[1].outcome = "success" <=> answer[r].outcome = "answered"
               /\ rows[1].validation_status = "failed" <=> answer[r].outcome = "validation"

\* Whatever a provider replies and whatever is linked or unlinked meanwhile, the
\* answer that reaches the analyst cites nothing he could not look up: its alerts are
\* among those read, its events are those of the alert the call is about, and every
\* technique belongs to a rule that raised one of these alerts, which the trail
\* knows to have been linked.
AnswersStayInContext ==
  \A r \in Requests :
    pc[r] = "record" =>
      LET about == IF AboutAlert(r) THEN {call[r].alert} ELSE ToSet(alerts[r])
      IN  /\ answer[r].alert_refs \subseteq 1..Len(alerts[r])
          /\ Cardinality(answer[r].event_refs) <=
               IF call[r].alert = NoAlert THEN 0
               ELSE Cardinality(AlertRow[call[r].alert].security_events)
          /\ \A t \in answer[r].techniques : \E a \in about :
               \E technique \in ToSet(TechniquesOf(a)) : technique.technique_id = t
          /\ call[r].type \in CaseTypes =>
               about \cup ({call[r].alert} \ {NoAlert}) \subseteq {row.alert : row \in ToSet(trail)}

\* The alerts and the trail are read by two statements, with commits between them and
\* rows sorted by the time their transactions began: still, what the model is told
\* about an alert includes the row of its link, unless MAX_CASE_AUDIT_IN_CONTEXT other
\* rows are newer.
TrailExplainsAlerts ==
  [][\A r \in Requests :
       pc[r] = "audits" /\ pc'[r] = "generate" =>
         \A a \in ToSet(alerts[r]) :
           \/ Row("CASE_ALERT_LINKED", a) \in ToSet(audits'[r])
           \/ \E i \in MAX_CASE_AUDIT_IN_CONTEXT + 1..Len(trail) :
                /\ trail[i] = Row("CASE_ALERT_LINKED", a)
                /\ \A j \in 1..i - 1 : trail[j] # trail[i]]_vars

\* An alert whose texts are too long, or too short, to be quoted in an assessment, and
\* alerts whose rules and evidence are, in a brief.
CannotBeQuoted(a) ==
  \/ AlertRow[a].title > 300
  \/ Joined(Column(a, "username")) > 240
  \/ Joined(Column(a, "hostname")) > 440
  \/ \E item \in ToSet(AlertRow[a].evidence) : 0 \in {item.key, item.value}

CannotBeListed(as) ==
  \/ Joined(Sorted({AlertRow[a].rule_id : a \in ToSet(as)}, Precedes)) > 440
  \/ \E a \in ToSet(as) : \E item \in ToSet(AlertRow[a].evidence) : item.key = 0

\* The offline provider never fails a check: its references count up to what the
\* context has, and it is never more certain than its evidence.  What it cannot answer
\* is a first question about alerts with a text for which the schema has no place; it
\* answers every follow-up, whatever the columns hold.
MockAnswersAreValid ==
  \A r \in Requests :
    provider = "mock" /\ pc[r] = "record" =>
      \/ answer[r].outcome = "answered"
      \/ /\ answer[r].outcome = "transport"
         /\ \/ call[r].type = "ask" /\ CannotBeQuoted(call[r].alert)
            \/ call[r].type = "case_brief" /\ CannotBeListed(alerts[r])

\* No answer on the screen is to a call that a Clear has let go.
NoStray == \A i \in 1..Len(turns) : ~turns[i].stray

\* A conversation is one brief and the questions that followed it.
ConversationStartsWithBrief ==
  NoStray => \A i \in 1..Len(turns) : turns[i].kind = "initial" <=> i = 1

\* The answer awaited is to a question that was sent with the conversation on the
\* screen, so that appending it keeps question, history and answer in step.
AnswerFollowsItsHistory ==
  asking # NoRequest /\ NoStray => call[asking].history = buildHistory(turns)

\* The history a request may carry bounds the conversation: it never grows past the
\* one answer that makes it too long, after which every question is refused until
\* the panel is cleared.
ConversationIsBounded ==
  NoStray => 2 * (Len(turns) - 1) <= MAX_HISTORY_MESSAGES
=============================================================================
