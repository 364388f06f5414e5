# AMNIX in TLA+

AMNIX is a SOC (security operations) backend in FastAPI, SQLAlchemy and
PostgreSQL, with a React front end. This directory specifies the parts of it
whose correctness depends on what several requests do at once, checks them with
TLC on small instances, and proves their main properties with TLAPS for every
instance. Paths below are relative to `src/backend/app/` unless they begin
with `src/`.

## 1. The system

Every HTTP request is served by a thread of its own with a database session of
its own (`core/database.py`, `get_db`), under PostgreSQL's default READ
COMMITTED isolation. Sessions share nothing but the database, a Redis server
used for one counter, and an AI provider. Only one query in the program takes a
row lock (`RefreshTokenRepository.get_by_token_hash_for_update`); every other
operation reads, decides, and commits, and other requests commit in between.

| Component | State | Operations | Interacts with | What makes it correct | Hard part |
|---|---|---|---|---|---|
| Refresh-token sessions: `services/token_service.py`, `repositories/refresh_token.py`, `services/auth_service.py` | table `refresh_tokens`: user, family, successor, revoked and expiry times | login, refresh (rotate), reuse detection (revoke the family) | accounts (`is_active`), the browser's token store | one live token per family; linear chains; dead families stay dead; deactivated users get nothing | row locks, statement snapshots, crashes after the commit |
| Case management: `services/case_service.py`, `case_lifecycle.py`, `repositories/case*.py` | `cases`, `case_alerts`, `case_audits`, `case_notes` | create, edit fields, change status, change owner, link and unlink alerts, add a note | accounts, alerts, case copilot | the audit trail tells what the row is; closure columns follow the status; owners are active | no lock and no version column: stale reads, column-wise UPDATEs |
| Account administration: `services/admin_audit_service.py`, `user_service.py` | `users.is_active`, `admin_audits` | enable or disable an account | every authenticated request | flag and audit row in one commit; somebody can still administer | authorization read once per request |
| Authentication and roles: `api/dependencies.py`, `core/tokens.py` | none (signed access tokens) | load the active user, check the role | all routes | only active users, with the current role | tokens outlive a deactivation |
| Registration: `AuthService.register` | `users` | look up, insert | login | whoever is answered 201 has the account | lookup and insert apart; the unique index decides |
| Login rate limit: `core/rate_limit.py` | a Redis counter with expiry per address | count, allow or refuse | login | bounded attempts per window; nobody is refused for ever | lost EXPIRE, Redis failing open, window edges |
| Event ingestion and alert generation: `api/events.py`, `services/alert_generation_service.py` | `security_events`, `alerts`, their join table | ingest, correlate, detect, create alerts | detection rules, alerts | every qualifying window raises an alert, once; ingestion never fails because of it | check-then-create race, candidate cap, session state after an error |
| Detection rules: `detections/` | none | evaluate a batch of events | alert generation | the window found is the earliest one that qualifies | boundaries, missing fields |
| Alert lifecycle: `services/alert_service.py`, `alert_lifecycle.py` | `alerts.status` | create, change status | cases, investigation | only transitions of the table; RESOLVED is terminal | stale reads |
| Investigation: `services/investigation_service.py`, `mitre/`, `investigation_actions/` | none | derive timeline, entities, techniques, actions | alerts, events, copilot | the references of the copilot's answers count into what it derives | order of equal timestamps, limits |
| AI copilot: `services/copilot_service.py`, `case_copilot_service.py`, `ai/` | none | ask, follow up | provider, alerts, cases, audit | nothing fabricated reaches the analyst; each answered question is audited once | failure at each stage, torn reads |
| Copilot audit: `services/copilot_audit_service.py` | `copilot_audits` | record, list | copilot | outcome and validation status agree | swallowed failures |
| HTTP boundary: `middleware/`, `main.py` | a byte counter per request | refuse large bodies, add headers | all routes | limit at exactly `max_bytes` | - |
| Browser session: `src/frontend/src/services/httpClient.ts`, `tokenStore.ts`, `features/auth/AuthContext.tsx` | the token pair, the refresh in flight | request, retry after refresh, login, logout | login, refresh routes | one refresh at a time; logout is final | promises resolving after the state they were started in |
| Front-end features and pages: `src/frontend/src/features`, `pages` | query cache, conversation turns | render, ask, reset | browser session | answers belong to the conversation shown | late answers |

`PROJECT.json` lists the components with their sources, and under `hazards`
each place in the code where one of the hard parts bites, with the properties
about it.

## 2. Modules

| Module | Role |
|---|---|
| `SessionChain` | abstract specification: sessions as chains of tokens, each operation one step |
| `RefreshTokens` | login and rotation as transactions on `refresh_tokens`; implements `SessionChain` |
| `RefreshTokensProofs` | TLAPS proofs about `RefreshTokens` |
| `CaseWorkflow` | one case, its links and its audit trail under concurrent requests |
| `CaseWorkflowProofs` | TLAPS proofs about `CaseWorkflow` |
| `AccountAdministration` | enabling and disabling accounts |
| `LoginRateLimit` | the counter of login attempts in Redis |
| `Registration` | overlapping registrations of an address |
| `AccountProofs` | TLAPS proofs about `AccountAdministration`, `LoginRateLimit` and `Registration` |
| `Selections` | filtered and sorted lists |
| `Induction` | induction, recursive functions, selections of sequences and ranks in an order, as lemmas |
| `BruteForceWindow` | the scan of the brute-force rule, and what its docstring says of it |
| `AlertPipeline` | ingestion of events and the alerts it raises, over `BruteForceWindow` |
| `AlertTriage` | status changes of an alert by overlapping requests |
| `AlertProofs` | TLAPS proofs about `BruteForceWindow`, `AlertPipeline` and `AlertTriage` |
| `CopilotSchemas` | the schemas of questions, histories and answers: which lengths and counts they accept |
| `CopilotContext` | what the provider is told: investigation, registries, context builders |
| `MockProvider` | the answers of the offline provider, from the context |
| `CopilotPipeline` | what both services do with a reply: schema, references, techniques, actions, calibration, audit row |
| `CopilotPipelineProofs` | TLAPS lemmas about contexts, the mock's answers and what the checks leave of a reply |
| `CopilotRequests` | the requests of the two services, statement by statement, over these |
| `CaseCopilotPanel` | the conversation in the browser, over `CopilotRequests` |
| `CaseCopilotPanelProofs` | TLAPS proofs about `CaseCopilotPanel` and the requests under it |
| `BrowserSession` | one browser tab, its calls and their shared refresh, over `SessionChain` |
| `BrowserSessionProofs` | TLAPS proofs about `BrowserSession` |
| `MCRefreshTokens`, `MCCaseWorkflow`, `MCAccountAdministration`, `MCAlertPipeline`, `MCAlertTriage`, `MCBrowserSession`, `MCCaseCopilotPanel` | instances for TLC |

In each module `Requests` are the server threads and `pc[r]` says where thread
`r` is in the request it serves. One action is one SQL statement or one commit,
with the Python that decides on its result. `End(r)` is the closing of the
session in `get_db`: locks go, and so does what was not committed. A request can
end that way from any point (`Crash`, `Fail`): a lost connection, a dead
worker, or an exception. History variables (`overtaken`, `orphaned`) record
that something has happened and guard nothing. Definitions commented "Fault" are
faulty variants of the definition below them. No action uses them; each is there
to confirm that some property notices the mistake.

### RefreshTokens

- `issued`, `user_id`, `family_id`, `replaced_by`, `revoked`, `expired` are the
  columns of the committed rows; a token is named by its row, a family (a fresh
  UUID in the code) by its first token. `lock` holds the FOR UPDATE locks.
- `LoginVerify` and `LoginCommit` are `AuthService.login` and
  `issue_new_login_tokens`. The row is committed before the access token is
  signed (`Mint`), which can fail and leave a row nobody holds.
- `RefreshStart`, `RefreshUnknown`, `RefreshLock`, `RefreshReadUser` and
  `Rotate` are `TokenService.refresh`, in its order: locked lookup, revoked,
  expired, user, rotation. `Rotate` is one commit for the successor's insert,
  the old row's `revoked_at` and its `replaced_by_id`.
- Reuse detection is two steps. `RevokeSnapshot` takes the snapshot of
  `revoke_family`'s UPDATE (the rows it can match) and `RevokeCommit` waits for
  the locked ones and commits. A row revoked meanwhile by its rotation is
  revoked anyway, so checking WHERE again changes nothing the model keeps.
- `RowLeft` is the bound of the instance: a request that could insert a row
  begins only while a free one is left for it. It is not a guard of the code.
- `Expire` and `SetActive` are the environment: time, and account
  administration.

### CaseWorkflow

- `case` is one row of `cases`, column by column; cases never affect each other.
  `trail` keeps, of the append-only audit table, the value the last change
  reported for each column, and `told_links` the same for the links.
- A request that prepares a change holds its `update` (the columns the UPDATE
  will name), its audit `rows`, and its `link`. `Dirty` is SQLAlchemy's rule: a
  column is written only if the value assigned differs from the one loaded. It
  decides which columns an overtaken request overwrites.
- `UpdateCase`, `ChangeStatus`, `ChangeOwner` with `CheckOwner`, `LinkAlert` and
  `UnlinkAlert` are the methods of `CaseService` up to their commit, and
  `Commit` is `_commit`. `CreateCase` is one step: nothing can see the new row
  before its commit. Requests refused (404, 403, 409, 422) leave no trace and
  are not steps.
- `CaseCreate` to `CaseAlertLink` are the bodies that `schemas/case.py` lets
  through: the fields a client may name, with null and missing taken alike.
- `Duplicate` is the composite primary key of `case_alerts`. Deleting a link
  that is already gone matches no row, which SQLAlchemy only warns about, so
  that commit succeeds.
- Audit rows are ordered by commit. The listing orders them by `created_at`, the
  start of the transaction; that difference is noted as a hazard and is not
  modelled.
- `closed_at` is NULL or a stamp. A closing row's `new_value` is the reason
  rather than the status; the trail keeps the status its action implies.

### AccountAdministration

- `Authorize` is `get_current_user` followed by `require_admin`, `Prepare` is
  `prepare_active_status_change`, `Commit` the single commit of
  `change_user_status`. Between any two of them other requests commit.
- `told` is the flag the last audit row reporting a change gives.
- Users and roles are constant: no route changes a role or deletes an account,
  and registration only adds analysts.

### BruteForceWindow and AlertPipeline

- `Left` and `FindQualifyingWindow` follow the two-pointer loop of
  `_find_qualifying_window`; `FindsEarliest` is its docstring.
- `events` is the append-only table in the order of the commits, `alerts`
  likewise; an alert's evidence is a set of indices of events. `seen`, in a
  request and in an alert, is how many alerts there were at the duplicate
  check; only properties read it in an alert.
- `Ingest`, `Detect`, `Check`, `Create` and `Respond` are the statements of a
  POST /events in its order. `Orders` leaves the order of equal timestamps
  open, as the query does. `Sortable` says when sorting the (username,
  source_ip) pairs raises; `Pairs` gives the order in which Python puts those
  it can sort.
- `Normalized` is the parameter for what `strip().lower()` makes of an event
  type. The rules compare types by it (`Correlatable`), the candidate query
  does not (`Recent`), and ingestion only strips.
- `Refuse` is a detection that `AlertCreate` does not accept: its evidence holds
  the event's whole command line and may be larger than `MAX_EVIDENCE_BYTES`
  (`oversized`). It is logged and the next detection has its turn; the response
  is still 201.
- `loaded` is what the session remembers of the ingested event. A commit
  expires it, so does a failed flush. `Caught` is what becomes of a request
  whose exception is caught and logged with `event.id`: harmless if the event
  is loaded, otherwise a query on a session nobody has rolled back.
- The single-event rules are reduced to `matches`. The response of a request
  whose event is expired is taken to succeed; a failure there is the same as
  `Crash`. An event whose row cannot be read back after its commit is `Crash` too.
- Alerts that analysts post by hand (POST /alerts) are outside `AlertPipeline`:
  they may have any evidence, and nothing looks for duplicates of them.
  `EvidenceJustifies` and `DuplicatesOverlapped` speak of generated alerts.
- `AtBound` lets the instance idle once its events are used up.

### AlertTriage

- `UpdateStatus` is `AlertService.update_status` from the read to the
  assignment, `Save` the commit. Nothing locks the row or compares at the
  commit, so the value read (`was`) may have been replaced.
- `been` is a history variable: the statuses the alert has had.
- A request the table refuses changes nothing and is no step.

### The copilot: CopilotSchemas to CaseCopilotPanel

- A text is its length, a reference `event-3` or `alert-2` is its number, and a
  technique or an action is its identifier, since that is all the schemas and
  the checks look at. An optional reference that is missing is `NoRef`.
- `CopilotSchemas` has one operator per schema: the set of the values it
  accepts, as a predicate. The numbers are the constants of the source.
- `CopilotContext` is read-only code: `_build_timeline` (sorted by timestamp,
  then by id), `_extract_entities`, the two registries with their entries, and
  the two context builders with their limits. Case notes enter as their number.
- Wherever the code sorts texts, `Precedes` is the order by code point, which
  `TextsAreOrdered` takes to be a total order of the texts sorted.
- `MockProvider` follows the mock's builders one by one; each text is its length
  and each list its references. `CharsAreLengths` says what the columns hold:
  rule names of at most 100 characters, titles of 1 to 500, one of the four severities
  (`models/alert.py`), user and host names of at most 255 and addresses of at
  most 45 (`models/security_event.py`). Of evidence keys and values, which are
  JSON, it says only that they have a length, possibly 0. `CopilotPipeline` checks what it yields with the
  same schemas as the answers of Anthropic, of which nothing is assumed: the
  instance gives `Replies`, grounded, invented, malformed and none.
- `CopilotPipeline` is pure: which replies are accepted, as what outcome, which
  references, techniques and actions the accepted one names after
  normalisation, and which audit row `record` and the constraints of the table
  accept.
- `CopilotRequests` has one action per statement: `ReadAlerts` and `ReadAudits`
  with links and unlinks in between, `Generate` (all of the pipeline, which
  reads and writes nothing shared), `Record`, and the failures: `RecordFails`
  is swallowed after an error in the log, `Fail` is not. `behind` in `LinkAlert`
  and `UnlinkAlert` is the order by `now()`, the start of a transaction: one
  that commits later may sort earlier.
- `CaseCopilotPanel` has the hook's state: the turns and, of each mutation, the
  call it shows as pending. `Receive` is `onSuccess` or `onError`, which runs
  for every call, also for one that `Clear` has let go of; `let_go` remembers
  those. `AskAboutAlert` stands for `useCopilotConversation`, whose
  conversation has no bearing on the case; it asks with histories of any
  length, while nothing else is asked and before anything is linked, which
  bounds the instance.

### LoginRateLimit, Registration, BrowserSession

- `Incr`, `Expire` and `Decide` are the three commands of
  `check_and_increment`, and `FailOpen` is the `except RedisError` of the
  dependency, at any of them. Redis runs one command at a time. A `Tick` is the
  unit of the window; a key goes when its time is up. `recent` and `unlimited`
  are history variables.
- `Check` and `Create` are the two statements of a registration; what
  `normalize_email` does to a spelling is a parameter. `Created` is the 201:
  between the commit and the response the worker may die, so an account can
  exist that nobody was told of.
- `BrowserSession` has the variables of the three files: `current` is the token
  store, `presented` the refresh in flight, `user` what `AuthContext` shows. A
  pair of tokens is named by its refresh token; `sent[c]` says which pair's
  access token a call carries. JavaScript runs to the next `await`, so the
  answer to a refresh, the store, the listener of the store and the calls that
  waited are one step (`RefreshReturns`).
- The server's steps are those of `SessionChain` (`Server!Begin`,
  `Server!Exchange`, `Server!Kill`), the specification that `RefreshTokens` is
  shown to implement. The two modules together are the path from a 401 in the
  browser to the rows of the table.
- A response can be lost after the server has acted: `ServerRefresh` may leave
  `Failed`, `LoginFails` may drop a pair.
- Several tabs are several instances: the store is a variable of the page and
  tabs share no token.

## 3. Runs

| Run | Instance | Shows |
|---|---|---|
| `refresh_tokens` | 1 user, 4 tokens, 3 requests; symmetry on tokens and requests | type, `OneLiveTokenPerFamily`, `RotationChain`, `NoCircularWait`, `DeadFamilyStaysDead`, `SurvivorWasRotatedMeanwhile`, `InactiveUserGetsNoToken`, and that the transactions implement `SessionChain` |
| `refresh_tokens_live` | 1 user, 3 tokens, 2 requests, no symmetry | `EveryRequestEnds` |
| `refresh_family_survivor` | as `refresh_tokens` | counterexample to `ReuseRevokesEntireFamily` |
| `case_workflow` | 1 admin, 1 analyst, 1 alert, 2 requests, field `priority` with 2 values, 1 reason; symmetry on requests | type, `TrailTellsTheRow`, `TrailTellsTheLinks`, `ClosedIsStamped`, `ClosureMatchesStatus`, `InactiveUserGetsNoCase` |
| `case_stale` | same | counterexample to `StaleRequestsFail` |
| `account_administration` | 2 admins, 1 analyst, 3 requests; symmetry on admins and on requests | type, `TrailTellsTheFlag`, `AdminRemains` |
| `account_last_admin` | same | counterexample to `SomeAdminIsActive` |
| `alert_pipeline` | 2 requests, 3 events out of 8 (a user at instants 0 to 2 and once in another spelling of the type, another user, no user name, two matching processes at 0, one of them refused), threshold 2, window 1; scan over ascending sequences of at most 5 of the instants 0 to 4; symmetry on requests | type, `ScanFindsEarliest`, `EvidenceJustifies`, `DuplicatesOverlapped`, `NothingSlipsThrough`; 3 analysts on one alert: `ResolvedWasEngaged`, `ResolvedIsLeftByTheOvertaken` |
| `alert_blind` | same | counterexample to `EveryBurstIsNoticed` |
| `alert_isolation` | same | counterexample to `IngestionIsIsolated` |
| `copilot` | 2 requests, 2 alerts with 3 events (one alert with an empty evidence key and an overlong title), 2 links or unlinks, both providers, 3 to 5 replies for each type of call, 2 alerts and 1 audit row in a context, 2 messages in a history; symmetry on requests | type, `AuditTellsEachCall`, `AnswersStayInContext`, `TrailExplainsAlerts`, `MockAnswersAreValid`, `ConversationStartsWithBrief`, `AnswerFollowsItsHistory`, `ConversationIsBounded` |
| `browser_session` | tab: 2 users, 3 pairs of tokens, 2 calls; limiter: 2 requests, limit 1, window of 2 ticks, counter to 4; registration: 2 requests, 2 spellings of one address, 2 passwords | type, `NeverKillsItsFamily`, `ShowsItsOwner`, `AtMostTwiceTheLimit`, `KeyWillExpire`, `WinnerHasTheAccount`, `EveryCallEnds` |

**Why the bounds are enough.** Three requests are a rotation, a reuse detection
and a third one that overtakes either, or three revocations in a circle; four
rows are a family of three generations, or two families. Users never meet in
`refresh_tokens`, so one stands for all. Two requests on a case already produce
every overtaking of one read-decide-commit by another; longer chains come from
the requests ending and beginning again. The fields a request edits are
independent columns, so one is enough. Two admins are the smallest number for the last-admin question, and
three requests let a third thread act between the two. The proofs hold for any
numbers.

Three events are a burst and one
event that precedes, follows or disturbs it, in any order of arrival; two
requests are a check and the commit that overtakes it. The two processes have the
same timestamp, so either order of an accepted and a refused alert occurs. The scan depends only on
differences of timestamps, and five of them hold windows that overlap and
windows too short to count. The candidate cap never bites in the instance.

In `copilot` two requests are an answer let go of and the one asked after it.
Two links or unlinks in any order of their timestamps are what two reads can
miss of each other, with an audit limit of one that bites: `TrailExplainsAlerts`
is about the one step between those reads. The limit on alerts
is the number of alerts, since cutting a list at the end changes no position in
it. A history limit of two messages is reached after the second turn. In the
instance the histories' total length stays below its limit.

In `browser_session` three pairs are a login, a refresh and a second login or
refresh; two calls are the one that starts a refresh and the one that joins it,
or comes after it with the older token. A limit of one attempt, four attempts
and a window of two ticks have bursts on both sides of a window's end.

`MCAlertTriage` and `MCBrowserSession` put systems that share no variable into
one instance. Their next-state relation lets each move only while the others
are in their initial state, so that TLC explores the sum of the state spaces
rather than the product. No property relates variables of two of them, hence
none is lost.

**Deadlock** is checked by TLC in `refresh_tokens`, `refresh_tokens_live`,
`case_workflow`, `copilot` and `alert_pipeline` (where triage may stop at a
resolved alert). In `browser_session` it is not, because a registered address
and a counter at its bound leave that part of the instance nothing to do, nor in
`account_administration`: once no admin is active nobody can be authorized and
the model stops, as the program's administration does.

**Fairness** is assumed in `refresh_tokens_live` and in `browser_session`. In
the first, each thread that can take
its next step does (weak fairness; the server keeps running its threads), and a
request waiting for a row lock that becomes free again and again gets it (strong
fairness of `RefreshLock` and `RevokeCommit`; PostgreSQL queues the waiters of a
row). No fairness is assumed of callers, crashes, expiry or administrators. In
`browser_session`, a call that has been sent is answered or fails, the server
answers a refresh or is not reached, and the answer is handled (weak fairness
of `Deliver`, `ServerAnswers` and `RefreshReturns`): `fetch` settles its promise
one way or the other, and the event loop runs what is due. Analysts are assumed
to do nothing.

### What the counterexamples say

1. `refresh_family_survivor`. The documentation says that reuse revokes the
   entire family. `revoke_family` locks nothing but the presented row, so a
   rotation in progress can commit after the statement's snapshot and its
   successor survives. `SurvivorWasRotatedMeanwhile` says that a family is
   survived only where a token the statement had matched was rotated meanwhile.
2. `case_stale`. A stale status or owner request does not "naturally fail" when
   both requests read before either commits; the later commit wins, and the
   status can move along a transition the table forbids.
3. `account_last_admin`. Two admins can disable each other at the same time.
   `AdminRemains` proves that self-targeting being refused is enough as long as
   no commit is made for an admin disabled meanwhile.
4. `alert_blind`. The brute-force rule sorts tuples in which a missing user
   name or address is `None`. One failure without a user name among those that
   have one makes the sort raise; the engine logs it and the rule reports
   nothing, for as long as that failure is in the window.
   `NothingSlipsThrough` says that such a mixture, more than one spelling of the
   type within the burst (see below), the failure of a request, and the cap are
   the only ways to miss a burst, however ingestions overlap and whatever the
   order of arrival. A match of a single-event rule is
   lost only to the last two, or to evidence too large for an alert; it takes no
   other detection with it.
5. `alert_isolation`. An alert that cannot be inserted makes the ingestion of a
   committed event answer 500. Both handlers log `event.id`, which the failed
   flush has expired, on a session that is never rolled back.

### Where the text and the code part without a run of their own

- `models/case.py:135-137` says that a closed case has a reason.
  `services/case_service.py:361` assigns it, but SQLAlchemy writes only columns
  that differ from the value loaded: a closing request that loaded a stale
  reason and gives the same one does not write it, and a reopening that commits
  in between has cleared it. `ClosureMatchesStatus` therefore holds only until a
  stale status change commits (`overtaken`), which is the same root as
  `case_stale`.
- `detections/rules/brute_force.py:6-8` expects ingestion to normalize
  `event_type`, and the rule itself (line 57) is indifferent to upper and lower
  case. `schemas/security_event.py:67-73` only strips the value, and the candidate
  query (`repositories/security_event.py:48`) compares it exactly: failures that
  the rule would take for one burst are never fetched together when their
  sources spell the type differently, and no alert is raised. `Alike` excludes
  such bursts from `NothingSlipsThrough` and `EveryBurstIsNoticed`.
- An alert that `AlertCreate` refuses (`schemas/alert.py:99-104`, evidence over
  256 KiB) is logged and skipped, and the ingestion is answered 201 although the
  rule matched. `NothingSlipsThrough` excludes it as `oversized`.
- `services/alert_lifecycle.py:28` calls RESOLVED "fully terminal". Two analysts
  who read before either commits can move an alert out of it;
  `ResolvedIsLeftByTheOvertaken` says, and TLAPS proves, that nobody else can.
- `core/rate_limit.py:23-27` counts on the window to end. If the connection is
  lost between INCR and EXPIRE the key stays for ever, which is the exception
  in `KeyWillExpire`.
- `services/case_copilot_service.py:116` says that every call that resolves a
  case produces exactly one audit row. A focused alert that is not among the
  alerts read (lines 128-129) is refused before there is one; it is the 422 in
  `AuditTellsEachCall`, with the row whose writing fails.
- `schemas/ai.py:71-72` says that the mock's output stays within the limits.
  `MockAnswersAreValid` names the exceptions, and TLAPS proves that there is no
  other. A first question about an alert fails if its title has more than 300
  characters, its user names more than 240 or its host names more than 440
  together (`", ".join`), or if a key or value of its evidence is empty
  (`CannotBeQuoted`). A brief fails if the names of the rules have more than 440
  characters together or an evidence key is empty (`CannotBeListed`). Each of
  these flows into a field that may refuse it. Follow-ups never fail.
- `useCaseCopilot.ts` forgets the calls in flight on reset, but their
  `onSuccess` still appends to the new conversation. The three properties of the
  conversation hold as long as no such answer is on the screen (`NoStray`).
- `httpClient.ts` cannot recall a refresh at logout: its answer puts the
  session back, even over somebody else's. That is `crossed` in
  `ShowsItsOwner`.
- `main.py:27-34` and `middleware/security_headers.py:6-8` say that every
  response has the security headers, those of the other middleware included.
  SecurityHeadersMiddleware is the innermost, so refusals by the body limit, the
  host check and CORS lack them. Nothing is modelled of it (section 5).

## 4. Proofs

All theorems hold for any values of the constants that satisfy the assumptions
(`NullsAreDistinct`, `CaseConstants`, `AccountConstants`, `WindowConstants`,
`PipelineConstants`, `RateLimitConstants`, `RegistrationConstants`,
`BrowserConstants`, `HistoryBounds`, `ContextConstants`, `TextsAreOrdered`,
`CharsAreLengths`, `PanelConstants`): nulls differ from real values, admins are
users, there is an admin, telemetry is well formed (of spellings nothing is
assumed, and only processes match single-event rules), texts have a total order,
and columns hold what their types and constraints let in. TLC evaluates these assumptions in
the passing runs.

**RefreshTokens.** The inductive invariant `IInv` is the type invariant and

- `Columns`: what the columns of issued, live and replaced rows say together;
- `LockHolder`, `WaitsForARow`: a row is locked exactly by the request that has
  found it, and a waiting request waits for a row that was issued;
- `DecisionIsCurrent`: between lookup and commit a request's row is still what
  it saw, because of the lock. A row about to be rotated is live, and a row
  whose reuse was detected is revoked;
- `SnapshotCoversLive`: a live token a pending revocation has not matched
  succeeds a matched one;
- `OneLiveTokenPerFamily`, `RotationChain` and `NoCircularWait`.

`OneLiveTokenPerFamily` is not inductive by itself: a rotation keeps it only
because the row it replaces is the live one, which is `DecisionIsCurrent`, which
needs `LockHolder`. `NoCircularWait` holds because a revoking request holds a
revoked row and waits for rows that were live at its snapshot. A family has at
most one live row at a time, so the rows waited for are ordered by succession.
The action properties and the refinement (`Implements`) follow from `IInv`, one
step of the proof per action.

**CaseWorkflow.** `IInv` is the type invariant and `RowsMatchUpdate` (a request
audits exactly the columns it writes, or a change that is none), `StatusRows`
and `ClosureWrites` (a prepared status change carries the closure columns that
go with it), with the four invariants. `TrailTellsTheRow` needs
`RowsMatchUpdate`, `ClosedIsStamped` and `ClosureMatchesStatus` need the other
two. `InactiveUserGetsNoCase` is an action property proved from `IInv` and
from idle requests holding nothing.

**AccountAdministration.** `AdminRemains` needs `NeverOneself`: the request
about to commit targets somebody else than its admin, who therefore survives.

**Induction.** The library states induction for a predicate given as an
operator, which no backend here can instantiate. `Induction` states it for
sets: a set of naturals that is not empty has a smallest member (`Smallest`,
from the well-foundedness of strict inclusion on finite sets), so a set that
contains 0 and with each number the next one contains them all (`UpTo`).
`Recursion` gives from it that a function defined by recursion over `1..n`
satisfies its equations, and `FlattenItems`, `FlattenLength`, `SelectedPicks` and
`SelectedLength` what the lists of `FlattenSeq` and `Selected` contain, in which
order, and how long they are. `Ranked` says that a finite set with a total order
has a member with exactly n - 1 before it, so that there is something for the CHOOSE of
`Sorted` to choose. All that is proved of
the model's recursive functions rests on these.

**BruteForceWindow** (the first section of `AlertProofs`). `ScanIsEarliest` holds for any ascending timestamps, any
threshold and any window. The argument is that of the two pointers: `left`
never moves back, everything left of it is too old for the current event, and
the event it stands at is not. So the events from `left` to `right` are all
those within the window of `right`, and the first `right` with enough of them
ends the earliest qualifying window. `SmallestWindow` adds that this
window has exactly `threshold` events, since otherwise the one before would
have qualified.

**AlertPipeline.** `DuplicatesOverlapped` needs `NoneSeen`: no alert a request
about to commit has seen is the same as its own. That proof does not look into
the rules. The others do:

- `DetectionsAre` says what the engine reports on a list of rows: a match
  for each matching event, and the scan's window of each pair if the pairs can
  be sorted. `WindowIsABurst` and `BurstHasAWindow` connect the window of a
  pair with `Burst`, by `ScanIsEarliest` and `SmallestWindow`.
- `EvidenceInv` (for `EvidenceJustifies`) says that the detections a request
  still has in hand are justified too. Events never change, so a detection
  stays justified while other requests commit.
- `SlipInv` (for `NothingSlipsThrough`) says that whatever a rule should report
  when event `e` is ingested is an alert, or in the hands of a request (`Due`),
  unless a failure has been recorded (`missed`) or the cap bites. It is
  inductive because a request that drops a detection as a duplicate leaves the
  alert it is a duplicate of, because one that drops a refused detection goes on
  with the others (`DueStays`), and because the last event of a burst to be
  committed is correlated with all the others in its spelling (`BurstIsRecent`),
  whichever request the earlier ones came with. It says nothing of matches whose
  evidence is refused, nor of bursts in several spellings; a burst's own evidence
  is never refused (`BurstIsAccepted`).

**AlertTriage.** `TriageInv` says that the status is one the alert has had, and
that a request about to commit has read a status the alert has had and writes
one the table allows after it (`Grounded`). The strengthening that carries
`ResolvedWasEngaged` is about the past: RESOLVED among `been` implies an
engagement among `been`. The status alone would not do, because an overtaken
request may take a resolved alert back to ACKNOWLEDGED.

**Registration.** `RegistrationInv` adds `Inserted`, that a request whose row is
committed has the account before it is told, and that a request past its check has an
address and a password.

**LoginRateLimit.** `KeyWillExpire` is inductive with the type of the
variables: the only request that could leave a key without expiry is the one
whose INCR returned 1. `AtMostTwiceTheLimit` needs `WindowInv`: the attempts of
the last `window_seconds` split into those the present key has counted, at most
`max_attempts`, and those the key before it has, at most as many and none of
them more recent than the present key. A tick that ends the key makes the
present ones the old ones; what the old ones were has by then left the window.

**CaseCopilotPanel.** `PanelInv` has two parts. `ServerInv` holds of each request
by itself, whatever replies come and whatever fails:

- `RowComesLast`: no row exists before the reply has been judged, and then the
  outcome is one that `AuditRow` knows;
- `RowTellsCall`: when the client is answered, the rows tell it (`RowsTell`), which
  is `AuditTellsEachCall`. It needs `CallKnown`, that a first question carries
  no history, since the table refuses a row with turns for it
  (`RowsAreRecorded`: no other row is refused);
- `HistoryFits`: a follow-up that gets past the schema fits the limit.

The rest is about the panel: `PendingIsKnown`, that every call about the case
under way is the one a mutation shows or was let go by `Clear`, and
`BriefComesFirst`, that a brief is awaited only while there is no conversation.
None of `ConversationStartsWithBrief`, `AnswerFollowsItsHistory` and
`ConversationIsBounded` is inductive without these: an answer from a call nobody
remembers would be taken for one of the conversation. `ConversationIsBounded`
joins both parts: the answer appended is to a question whose history is the
conversation (`AnswerFollowsItsHistory`) and fitted (`HistoryFits`).

`ContextInv` says of each request what it has read and answered:

- `LinksAreTold`, `ReadInv`: every alert linked, and every alert a request has
  read, has the row of its link in the trail. It stays true when the alert is
  unlinked meanwhile, since the trail only grows;
- `FocusIsRead`: past the reads, the alert a call is about is among those read;
- `Grounded`: an answer about to be recorded cites what its context has.

`GenerateGrounds` is the step that makes `Grounded` true. It needs what the
checks leave of any reply (`AcceptedStaysInContext`), and what the contexts
contain: as many timeline entries as the alert has events (`TimelineLength`),
and only techniques of rules of the alerts read (`UnionOfTechniques`).
`AnswersStayInContext` follows. `TrailExplainsAlerts` is an action property: of
the rows that name the link, the first is either within the rows read or
preceded by `MAX_CASE_AUDIT_IN_CONTEXT` others, and the linked alert has one by
`ReadInv`.

**The offline provider.** `MockAnswersAreValid` is a property of some thirty sums
and lists, each of which has to fit a field. `CopilotPipelineProofs` proves it in
four stages, for any alerts and events:

- `AlertIsTold` and `CaseIsTold` say of a context, once, what the rest needs
  (`Told`, `ToldCase`): the timeline lists events and is not empty, the names
  listed fit their columns, there are at most three techniques (`FewTechniques`:
  the rules have three between them, however many alerts there are), and the
  candidate actions are of the catalogue;
- one lemma for each builder says that its text or list fits the field it goes
  to and cites only what the context has (`SummaryFits`, `KeyFindings`,
  `AlertEvidence`, `AlertTechniques`, ..., `CaseTexts`). Where a text has no bound
  the lemma has the hypothesis it needs (`Quotable`, `Listable`);
- `AskIsValid`, `FollowUpIsValid`, `BriefIsValid` and `CaseFollowUpIsValid` put the
  parts together: an answer the schema takes passes the checks of references,
  techniques, actions and calibration, hence is answered, and one the schema
  refuses is a failure of the provider (`OutcomeOfValid`);
- `NothingUnquotable` and `NothingUnlistable` relate the hypotheses to the columns,
  and `GenerateIsValid` is the step of the state machine. `ReadInv` carries the result
  from there to the row (`MockAnswered`).

Of texts joined by `", "`, a recursive function, `JoinedTexts` gives what the others
need: their length is a number, at least that of the first text, and the first few take
no more than all of them.

**BrowserSession.** `TabInv` is the type invariant and

- `GrantedIsNew`, `GrantedToAccount`: the pair of a login under way is live,
  nobody else has it, and it is the account's;
- `RefreshIsSound`: a token presented is live until the server answers, and the
  answer is its live successor, of the same user;
- `StoreIsLive`: the store holds a dead token only while the answer that
  replaces it is on its way;
- `NothingCrosses`, `ShowsItsOwner`: unless a logout left one behind, a refresh
  is the store's own.

`NeverKillsItsFamily` is part of `RefreshIsSound`. It is not inductive without
`StoreIsLive`, since the next refresh presents what the store holds, and that
needs the single flight. As a consequence `ServerReuse` is never enabled. No
lost response breaks it, because a failed refresh empties the store.
`ImplementsChain` shows that the server's part of every step is a step of
`SessionChain` or none, so that what is proved of chains holds under this
client.

Every invariant and action property of the passing runs is thus a theorem. Only
model-checked are the liveness properties `EveryRequestEnds` and
`EveryCallEnds`: ENABLED, and with it fairness, is outside what TLAPS 1.4 proves.

The properties of the runs that expect a violation are refuted by TLC and have
nothing to prove.

## 5. What is abstracted or left out

- Passwords, hashes and secrets: a token is its row; a password matches or not.
- Access tokens: signing is the step `Mint`; their contents and expiry are not
  modelled, since authorization always reads the account again.
- `Session.get` could return an account already loaded by the same request. The
  authenticated `User` is not kept by `get_current_user`, and the models read
  the account anew. The properties about deactivated users speak only of
  requests that begin their check later, so they do not depend on it.
- Wording, logging, pagination, response schemas.
- Notes (one insert, of which the copilot's context only has the number).
- The HTTP boundary (`middleware/`, `main.py`): a byte counter per request,
  constant headers and a list of hosts. No state is shared and nothing
  interleaves; a model would restate the comparison. What its comments get
  wrong is noted in section 3.
- The texts of the prompts (`ai/prompts.py`): what the Anthropic provider
  replies is any reply, whatever it was told.
- The security event log (`core/security_events.py`): structured logging.
- The text matching of the two PowerShell rules: whether an event matches is a
  parameter of `AlertPipeline`.
- Configuration, migrations, and the rendering part of the front end.
- That `alert-2` on the screen is turned into the second alert of the list the
  page has, rather than the server's list at the time of the answer.

## 6. Plan

The order is by how much depends on the behaviour and how badly tests reach it.

Done: every module of section 2 with its runs, and the proofs of section 4. Left:

1. Liveness of ingestion: what is ingested is eventually alerted if the request
   for it is not interrupted.
2. The alert list of the page beside the conversation, to relate `alert-N` on
   the screen to the server's.
