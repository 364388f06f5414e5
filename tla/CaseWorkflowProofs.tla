------------------------- MODULE CaseWorkflowProofs -------------------------
(***************************************************************************)
(* Proofs about CaseWorkflow, for any numbers of users, alerts, requests   *)
(* and values.                                                             *)
(*                                                                         *)
(* The invariants relate the row to its audit trail, but it is the commits *)
(* still to come that could break them: the inductive invariant says what  *)
(* the UPDATE and the audit rows held by each request have in common.      *)
(***************************************************************************)
EXTENDS CaseWorkflow, TLAPS

\* The type invariant in the form the proofs use: what a request holds is a
\* function on some of the columns.
Typed ==
  /\ active \subseteq Users
  /\ case \in [Columns -> Values] /\ \A c \in Columns : case[c] \in Domain(c)
  /\ linked \subseteq Alerts /\ told_links \subseteq Alerts
  /\ trail \in [Audited -> Values]
  /\ pc \in [Requests -> {"idle", "owner", "commit"}]
  /\ update \in [Requests -> UNION {[D -> Values] : D \in SUBSET Columns}]
  /\ \A r \in Requests : \A c \in DOMAIN update[r] : update[r][c] \in Domain(c)
  /\ rows \in [Requests -> UNION {[D -> [previous : Values, new : Values]] : D \in SUBSET Audited}]
  /\ link \in [Requests -> {Null} \cup [alert : Alerts,
                  action : {"CASE_ALERT_LINKED", "CASE_ALERT_UNLINKED"}]]
  /\ overtaken \in BOOLEAN

\* The audit rows a request holds report exactly the changes of its UPDATE.
RowsMatchUpdate ==
  \A r \in Requests :
    /\ \A c \in DOMAIN rows[r] :
         rows[r][c].previous # rows[r][c].new => c \in DOMAIN update[r]
    /\ \A c \in DOMAIN update[r] \cap Audited :
         /\ c \in DOMAIN rows[r]
         /\ rows[r][c].new = update[r][c]
         /\ rows[r][c].previous # rows[r][c].new

\* A status change follows the transition table from the status it has read,
\* and only a status change writes the closure columns.
StatusRows ==
  \A r \in Requests :
    /\ "status" \in DOMAIN rows[r] =>
         /\ rows[r]["status"].previous \in Statuses
         /\ rows[r]["status"].new \in CASE_STATUS_TRANSITIONS[rows[r]["status"].previous]
         /\ rows[r]["status"].new = "CLOSED" =>
              "closed_at" \in DOMAIN update[r] /\ update[r]["closed_at"] = "stamp"
    /\ {"closed_at", "closure_reason"} \cap DOMAIN update[r] # {} =>
         "status" \in DOMAIN rows[r]

\* Until a request is overtaken, the closure columns a status change writes
\* are those its two statuses call for.
ClosureWrites ==
  ~overtaken => \A r \in Requests : "status" \in DOMAIN rows[r] =>
    LET before == rows[r]["status"].previous
        after  == rows[r]["status"].new
    IN /\ after = "CLOSED" =>
            "closure_reason" \in DOMAIN update[r] /\ update[r]["closure_reason"] # Null
       /\ before = "CLOSED" =>
            /\ {"closed_at", "closure_reason"} \subseteq DOMAIN update[r]
            /\ update[r]["closed_at"] = Null
            /\ update[r]["closure_reason"] = Null
       /\ before # "CLOSED" /\ after # "CLOSED" =>
            {"closed_at", "closure_reason"} \cap DOMAIN update[r] = {}

IInv ==
  /\ Typed
  /\ RowsMatchUpdate
  /\ StatusRows
  /\ ClosureWrites
  /\ TrailTellsTheRow
  /\ TrailTellsTheLinks
  /\ ClosedIsStamped
  /\ ClosureMatchesStatus

-----------------------------------------------------------------------------
(* Columns and their domains *)

LEMMA ColumnNames ==
  /\ "status" \in Audited /\ "owner_id" \in Audited
  /\ "closed_at" \notin Audited /\ "closure_reason" \notin Audited
  /\ "closed_at" \in Columns /\ "closure_reason" \in Columns
  /\ Audited \subseteq Columns /\ Fields \subseteq Audited
  /\ \A f \in Fields : f \notin {"status", "owner_id", "closed_at", "closure_reason"}
BY CaseConstants DEF Audited, Columns

LEMMA Domains ==
  /\ Domain("status") = Statuses \cup {Null}
  /\ Domain("owner_id") = Users \cup {Null}
  /\ Domain("closed_at") = {"stamp", Null}
  /\ Domain("closure_reason") = Reasons \cup {Null}
  /\ \A f \in Fields : Domain(f) = Texts \cup {Null}
  /\ \A c \in Columns : Domain(c) \subseteq Values
<1>1. \A f \in Fields : Domain(f) = Texts \cup {Null}
  BY ColumnNames DEF Domain
<1>2. \A c \in Columns : Domain(c) \subseteq Values
  BY DEF Values
<1>3. Domain("status") = Statuses \cup {Null}
  BY ColumnNames DEF Domain
<1>4. Domain("owner_id") = Users \cup {Null}
  BY ColumnNames DEF Domain
<1>5. Domain("closed_at") = {"stamp", Null}
  BY ColumnNames DEF Domain
<1>6. Domain("closure_reason") = Reasons \cup {Null}
  BY ColumnNames DEF Domain
<1>7. QED
  BY <1>1, <1>2, <1>3, <1>4, <1>5, <1>6

\* Only closed_at can hold a stamp.
LEMMA StampIsClosedAt ==
  ASSUME NEW c \in Audited, "stamp" \in Domain(c) PROVE FALSE
BY CaseConstants, Domains DEF Audited, Statuses

LEMMA TransitionTypes ==
  \A s \in Statuses : CASE_STATUS_TRANSITIONS[s] \subseteq Statuses \ {s}
BY DEF Statuses, CASE_STATUS_TRANSITIONS

-----------------------------------------------------------------------------
(* The two ways the unit of work of a request changes *)

\* What a handler prepares is well typed, and its rows match its UPDATE.
LEMMA Prepared ==
  ASSUME Typed, NEW r \in Requests, NEW a,
         DOMAIN a \subseteq Columns, \A c \in DOMAIN a : a[c] \in Domain(c),
         Prepare(r, a)
  PROVE  /\ update' = [update EXCEPT ![r] = Dirty(a)]
         /\ DOMAIN update'[r] \subseteq DOMAIN a
         /\ DOMAIN rows'[r] = DOMAIN a \cap Audited
         /\ \A c \in DOMAIN update'[r] : update'[r][c] = a[c]
         /\ \A c \in DOMAIN a : a[c] # case[c] \/ a[c] = "stamp" => c \in DOMAIN update'[r]
         /\ \A c \in DOMAIN a : a[c] = case[c] /\ a[c] # "stamp" => c \notin DOMAIN update'[r]
         /\ \A c \in DOMAIN rows'[r] : rows'[r][c].previous = case[c] /\ rows'[r][c].new = a[c]
         /\ \A q \in Requests \ {r} : update'[q] = update[q] /\ rows'[q] = rows[q]
         /\ update' \in [Requests -> UNION {[D -> Values] : D \in SUBSET Columns}]
         /\ rows' \in [Requests -> UNION {[D -> [previous : Values, new : Values]] :
                                           D \in SUBSET Audited}]
         /\ \A q \in Requests : \A c \in DOMAIN update'[q] : update'[q][c] \in Domain(c)
<1> DEFINE written == {c \in DOMAIN a : a[c] # case[c] \/ a[c] = "stamp"}
           row     == [c \in DOMAIN a \cap Audited |-> [previous |-> case[c], new |-> a[c]]]
<1>1. Dirty(a) = [c \in written |-> a[c]]
  BY DEF Dirty
<1>2. /\ update' = [update EXCEPT ![r] = Dirty(a)]
      /\ rows' = [rows EXCEPT ![r] = row]
  BY DEF Prepare
<1>3. Dirty(a) \in UNION {[D -> Values] : D \in SUBSET Columns}
  <2>1. Dirty(a) \in [written -> Values]
    BY <1>1, Domains
  <2>2. written \in SUBSET Columns
    OBVIOUS
  <2>3. QED
    BY <2>1, <2>2
<1>4. row \in UNION {[D -> [previous : Values, new : Values]] : D \in SUBSET Audited}
  <2>1. row \in [DOMAIN a \cap Audited -> [previous : Values, new : Values]]
    BY Domains, ColumnNames DEF Typed
  <2>2. QED
    BY <2>1
<1>5. update'[r] = Dirty(a) /\ rows'[r] = row
  BY <1>2 DEF Typed
<1>6. \A q \in Requests \ {r} : update'[q] = update[q] /\ rows'[q] = rows[q]
  BY <1>2 DEF Typed
<1>7. /\ update' \in [Requests -> UNION {[D -> Values] : D \in SUBSET Columns}]
      /\ rows' \in [Requests -> UNION {[D -> [previous : Values, new : Values]] :
                                        D \in SUBSET Audited}]
  BY <1>2, <1>3, <1>4 DEF Typed
<1>8. \A q \in Requests : \A c \in DOMAIN update'[q] : update'[q][c] \in Domain(c)
  <2>1. \A c \in DOMAIN update'[r] : update'[r][c] \in Domain(c)
    BY <1>1, <1>5
  <2>2. \A q \in Requests \ {r} : \A c \in DOMAIN update'[q] : update'[q][c] \in Domain(c)
    BY <1>6 DEF Typed
  <2>3. QED
    BY <2>1, <2>2
<1>9. QED
  BY <1>1, <1>2, <1>5, <1>6, <1>7, <1>8

\* A request that is over holds nothing, the others what they held.
LEMMA Ended ==
  ASSUME Typed, NEW r \in Requests, End(r)
  PROVE  /\ DOMAIN update'[r] = {} /\ DOMAIN rows'[r] = {}
         /\ \A q \in Requests \ {r} : update'[q] = update[q] /\ rows'[q] = rows[q]
         /\ pc' \in [Requests -> {"idle", "owner", "commit"}]
         /\ update' \in [Requests -> UNION {[D -> Values] : D \in SUBSET Columns}]
         /\ rows' \in [Requests -> UNION {[D -> [previous : Values, new : Values]] :
                                           D \in SUBSET Audited}]
         /\ link' \in [Requests -> {Null} \cup [alert : Alerts,
                         action : {"CASE_ALERT_LINKED", "CASE_ALERT_UNLINKED"}]]
         /\ \A q \in Requests : \A c \in DOMAIN update'[q] : update'[q][c] \in Domain(c)
<1>1. /\ Nothing \in UNION {[D -> Values] : D \in SUBSET Columns}
      /\ Nothing \in UNION {[D -> [previous : Values, new : Values]] : D \in SUBSET Audited}
  <2>1. Nothing \in [{} -> Values] /\ Nothing \in [{} -> [previous : Values, new : Values]]
    BY DEF Nothing
  <2>2. QED
    BY <2>1
<1>2. update'[r] = Nothing /\ rows'[r] = Nothing
  BY DEF End, Typed
<1>3. \A q \in Requests \ {r} : update'[q] = update[q] /\ rows'[q] = rows[q]
  BY DEF End, Typed
<1>4. QED
  BY <1>1, <1>2, <1>3 DEF End, Typed, Nothing

\* A step that leaves the table alone and ends a request, or changes nothing
\* that a request holds, keeps the invariant.
LEMMA EndStep ==
  ASSUME IInv, NEW r \in Requests, End(r), UNCHANGED <<active, table>>
  PROVE  IInv'
<1> Typed
  BY DEF IInv
<1>1. Typed'
  BY Ended DEF Typed, table
<1>2. RowsMatchUpdate'
  BY Ended DEF IInv, RowsMatchUpdate
<1>3. StatusRows'
  BY Ended DEF IInv, StatusRows
<1>4. ClosureWrites'
  BY Ended DEF IInv, ClosureWrites, table
<1>5. QED
  BY <1>1, <1>2, <1>3, <1>4
     DEF IInv, TrailTellsTheRow, TrailTellsTheLinks, ClosedIsStamped, ClosureMatchesStatus, table

\* A step that touches neither the table nor what any request has prepared.
LEMMA QuietStep ==
  ASSUME IInv, UNCHANGED <<table, update, rows>>, Typed'
  PROVE  IInv'
BY DEF IInv, RowsMatchUpdate, StatusRows, ClosureWrites, TrailTellsTheRow,
       TrailTellsTheLinks, ClosedIsStamped, ClosureMatchesStatus, table

-----------------------------------------------------------------------------
(* The operations *)

LEMMA InitIInv == Init => IInv
<1> SUFFICES ASSUME Init PROVE IInv
  OBVIOUS
<1>1. Nothing \in UNION {[D -> Values] : D \in SUBSET Columns}
  <2>1. Nothing \in [{} -> Values]
    BY DEF Nothing
  <2>2. QED
    BY <2>1
<1>2. Nothing \in UNION {[D -> [previous : Values, new : Values]] : D \in SUBSET Audited}
  <2>1. Nothing \in [{} -> [previous : Values, new : Values]]
    BY DEF Nothing
  <2>2. QED
    BY <2>1
<1>3. \A c \in Columns : Null \in Domain(c)
  BY ColumnNames, Domains DEF Columns, Audited
<1>4. DOMAIN Nothing = {}
  BY DEF Nothing
<1>5. Typed
  BY <1>1, <1>2, <1>3, <1>4, Domains, ColumnNames DEF Init, Typed
<1>6. RowsMatchUpdate /\ StatusRows /\ ClosureWrites
  BY <1>4 DEF Init, RowsMatchUpdate, StatusRows, ClosureWrites
<1>7. QED
  BY <1>5, <1>6, ColumnNames, CaseConstants
     DEF IInv, Init, TrailTellsTheRow, TrailTellsTheLinks, ClosedIsStamped, ClosureMatchesStatus

LEMMA CreateCaseStep ==
  ASSUME IInv, NEW u \in Users, NEW given \in [Fields -> Texts], CreateCase(u, given)
  PROVE  IInv'
<1> Typed
  BY DEF IInv
<1>1. \A c \in Columns : case'[c] \in Domain(c)
  <2>1. \A f \in Fields : case'[f] = given[f]
    BY ColumnNames DEF CreateCase
  <2>2. /\ case'["status"] = "OPEN" /\ case'["owner_id"] = Null
        /\ case'["closed_at"] = Null /\ case'["closure_reason"] = Null
    BY ColumnNames DEF CreateCase
  <2>3. QED
    BY <2>1, <2>2, Domains DEF Columns, Audited, Statuses
<1>2. case' \in [Columns -> Values] /\ trail' \in [Audited -> Values]
  BY <1>1, Domains, ColumnNames DEF CreateCase
<1>3. Typed'
  BY <1>1, <1>2 DEF CreateCase, Typed, control
<1>4. RowsMatchUpdate' /\ StatusRows' /\ ClosureWrites'
  BY DEF IInv, CreateCase, RowsMatchUpdate, StatusRows, ClosureWrites, control
<1>5. QED
  BY <1>3, <1>4, ColumnNames, CaseConstants
     DEF IInv, CreateCase, TrailTellsTheRow, TrailTellsTheLinks, ClosedIsStamped, ClosureMatchesStatus

\* Preparing well-typed attributes keeps the types and what rows and UPDATE
\* have in common.
LEMMA PrepareStep ==
  ASSUME IInv, NEW r \in Requests, NEW a,
         DOMAIN a \subseteq Columns, \A c \in DOMAIN a : a[c] \in Domain(c),
         Prepare(r, a),
         pc' \in [Requests -> {"idle", "owner", "commit"}],
         UNCHANGED <<active, table, link>>
  PROVE  Typed' /\ RowsMatchUpdate'
<1> Typed
  BY DEF IInv
<1>1. Typed'
  BY Prepared DEF Typed, table
<1>2. ASSUME NEW q \in Requests \ {r}
      PROVE  update'[q] = update[q] /\ rows'[q] = rows[q]
  BY <1>2, Prepared
<1>3. ASSUME NEW c \in DOMAIN rows'[r], rows'[r][c].previous # rows'[r][c].new
      PROVE  c \in DOMAIN update'[r]
  BY <1>3, Prepared
<1>4. ASSUME NEW c \in DOMAIN update'[r] \cap Audited
      PROVE  /\ c \in DOMAIN rows'[r]
             /\ rows'[r][c].new = update'[r][c]
             /\ rows'[r][c].previous # rows'[r][c].new
  BY <1>4, Prepared, StampIsClosedAt
<1>5. RowsMatchUpdate'
  BY <1>2, <1>3, <1>4 DEF IInv, RowsMatchUpdate
<1>6. QED
  BY <1>1, <1>5

\* Attributes that are no status leave what status changes rest on alone.
LEMMA PlainPrepareStep ==
  ASSUME IInv, NEW r \in Requests, NEW a,
         DOMAIN a \subseteq Audited \ {"status"}, \A c \in DOMAIN a : a[c] \in Domain(c),
         Prepare(r, a),
         pc' \in [Requests -> {"idle", "owner", "commit"}],
         UNCHANGED <<active, table, link>>
  PROVE  IInv'
<1> Typed
  BY DEF IInv
<1> DOMAIN a \subseteq Columns
  BY ColumnNames
<1>1. Typed' /\ RowsMatchUpdate'
  BY PrepareStep
<1>2. /\ "status" \notin DOMAIN rows'[r]
      /\ {"closed_at", "closure_reason"} \cap DOMAIN update'[r] = {}
      /\ \A q \in Requests \ {r} : update'[q] = update[q] /\ rows'[q] = rows[q]
  BY Prepared, ColumnNames
<1>3. StatusRows'
  BY <1>2 DEF IInv, StatusRows
<1>4. ClosureWrites'
  BY <1>2 DEF IInv, ClosureWrites, table
<1>5. QED
  BY <1>1, <1>3, <1>4
     DEF IInv, TrailTellsTheRow, TrailTellsTheLinks, ClosedIsStamped, ClosureMatchesStatus, table

LEMMA UpdateCaseStep ==
  ASSUME IInv, NEW r \in Requests, NEW u \in Users, NEW D \in SUBSET Fields,
         NEW given \in [D -> Texts], UpdateCase(r, u, given)
  PROVE  IInv'
<1> DEFINE changed == {f \in DOMAIN given : given[f] # case[f]}
           a == [f \in changed |-> given[f]]
<1>1. DOMAIN a \subseteq Audited \ {"status"} /\ \A c \in DOMAIN a : a[c] \in Domain(c)
  BY ColumnNames, Domains
<1>2. Prepare(r, a) /\ UNCHANGED <<active, table, link>>
  BY DEF UpdateCase
<1>3. pc' \in [Requests -> {"idle", "owner", "commit"}]
  BY DEF UpdateCase, IInv, Typed
<1> HIDE DEF a
<1>4. QED
  BY <1>1, <1>2, <1>3, PlainPrepareStep

LEMMA ChangeOwnerStep ==
  ASSUME IInv, NEW r \in Requests, NEW u \in Users, NEW owner \in Users \cup {Null},
         ChangeOwner(r, u, owner)
  PROVE  IInv'
<1> DEFINE a == [owner_id |-> owner]
<1>1. DOMAIN a \subseteq Audited \ {"status"} /\ \A c \in DOMAIN a : a[c] \in Domain(c)
  BY ColumnNames, Domains
<1>2. Prepare(r, a) /\ UNCHANGED <<active, table, link>>
  BY DEF ChangeOwner
<1>3. pc' \in [Requests -> {"idle", "owner", "commit"}]
  BY DEF ChangeOwner, IInv, Typed
<1> HIDE DEF a
<1>4. QED
  BY <1>1, <1>2, <1>3, PlainPrepareStep

\* What change_status assigns, whatever the closure columns hold already.
LEMMA ChangeStatusStep ==
  ASSUME IInv, NEW r \in Requests, NEW u \in Users, NEW status \in Statuses,
         NEW reason \in Reasons \cup {Null}, ChangeStatus(r, u, status, reason)
  PROVE  IInv'
<1> Typed
  BY DEF IInv
<1> DEFINE a == StatusAttributes(status, reason)
<1>1. case["status"] \in Statuses
  BY Domains, ColumnNames DEF ChangeStatus, Finds, Typed
<1>2. status # case["status"]
  BY <1>1, TransitionTypes DEF ChangeStatus
<1>3. /\ status = "CLOSED" => a = [status |-> status, closed_at |-> "stamp", closure_reason |-> reason]
      /\ case["status"] = "CLOSED" =>
           a = [status |-> status, closed_at |-> Null, closure_reason |-> Null]
      /\ status # "CLOSED" /\ case["status"] # "CLOSED" => a = [status |-> status]
  BY <1>2 DEF StatusAttributes
<1>4. /\ DOMAIN a \subseteq Columns
      /\ \A c \in DOMAIN a : a[c] \in Domain(c)
      /\ a["status"] = status /\ "status" \in DOMAIN a
      /\ DOMAIN a \subseteq {"status", "closed_at", "closure_reason"}
  BY <1>3, ColumnNames, Domains
<1>5. Prepare(r, a) /\ UNCHANGED <<active, table, link>>
  BY DEF ChangeStatus
<1>6. pc' \in [Requests -> {"idle", "owner", "commit"}]
  BY DEF ChangeStatus, Typed
<1> HIDE DEF a
<1>7. Typed' /\ RowsMatchUpdate'
  BY <1>4, <1>5, <1>6, PrepareStep
<1>8. /\ DOMAIN update'[r] \subseteq DOMAIN a
      /\ DOMAIN rows'[r] = DOMAIN a \cap Audited
      /\ \A c \in DOMAIN update'[r] : update'[r][c] = a[c]
      /\ \A c \in DOMAIN a : a[c] # case[c] \/ a[c] = "stamp" => c \in DOMAIN update'[r]
      /\ \A c \in DOMAIN rows'[r] : rows'[r][c].previous = case[c] /\ rows'[r][c].new = a[c]
      /\ \A q \in Requests \ {r} : update'[q] = update[q] /\ rows'[q] = rows[q]
  BY <1>4, <1>5, Prepared
<1>9. /\ "status" \in DOMAIN rows'[r]
      /\ rows'[r]["status"].previous = case["status"]
      /\ rows'[r]["status"].new = status
  BY <1>4, <1>8, ColumnNames
<1>10. StatusRows'
  <2>1. status = "CLOSED" => "closed_at" \in DOMAIN update'[r] /\ update'[r]["closed_at"] = "stamp"
    BY <1>3, <1>8
  <2>2. status \in CASE_STATUS_TRANSITIONS[case["status"]]
    BY DEF ChangeStatus
  <2>3. QED
    BY <1>1, <1>8, <1>9, <2>1, <2>2 DEF IInv, StatusRows
<1>11. ClosureWrites'
  <2>1. SUFFICES ASSUME ~overtaken PROVE ClosureWrites'
    BY DEF ClosureWrites, ChangeStatus, table
  <2>2. /\ case["status"] = "CLOSED" <=> case["closed_at"] # Null
        /\ case["status"] = "CLOSED" <=> case["closure_reason"] # Null
    BY <2>1 DEF IInv, ClosureMatchesStatus
  <2>3. status = "CLOSED" =>
          "closure_reason" \in DOMAIN update'[r] /\ update'[r]["closure_reason"] # Null
    BY <1>2, <1>3, <1>8, <2>2 DEF ChangeStatus
  <2>4. case["status"] = "CLOSED" =>
          /\ {"closed_at", "closure_reason"} \subseteq DOMAIN update'[r]
          /\ update'[r]["closed_at"] = Null
          /\ update'[r]["closure_reason"] = Null
    BY <1>3, <1>8, <2>2
  <2>5. case["status"] # "CLOSED" /\ status # "CLOSED" =>
          {"closed_at", "closure_reason"} \cap DOMAIN update'[r] = {}
    BY <1>3, <1>8
  <2>6. \A q \in Requests \ {r} : update'[q] = update[q] /\ rows'[q] = rows[q]
    BY <1>8
  <2>7. QED
    BY <1>9, <2>1, <2>3, <2>4, <2>5, <2>6 DEF IInv, ClosureWrites
<1>12. QED
  BY <1>7, <1>10, <1>11
     DEF IInv, ChangeStatus, table, TrailTellsTheRow, TrailTellsTheLinks, ClosedIsStamped, ClosureMatchesStatus

LEMMA LinkStep ==
  ASSUME IInv, NEW r \in Requests, NEW u \in Users, NEW a \in Alerts,
         LinkAlert(r, u, a) \/ UnlinkAlert(r, u, a)
  PROVE  IInv'
<1>1. Typed'
  BY DEF IInv, Typed, LinkAlert, UnlinkAlert, table
<1>2. QED
  BY <1>1, QuietStep DEF LinkAlert, UnlinkAlert

LEMMA CheckOwnerStep ==
  ASSUME IInv, NEW r \in Requests, CheckOwner(r)
  PROVE  IInv'
<1>1. CASE End(r)
  BY <1>1, EndStep DEF CheckOwner
<1>2. CASE pc' = [pc EXCEPT ![r] = "commit"] /\ UNCHANGED <<update, rows, link>>
  <2>1. Typed'
    BY <1>2 DEF IInv, Typed, CheckOwner, table
  <2>2. QED
    BY <1>2, <2>1, QuietStep DEF CheckOwner
<1>3. QED
  BY <1>1, <1>2 DEF CheckOwner

LEMMA CommitStep ==
  ASSUME IInv, NEW r \in Requests, Commit(r)
  PROVE  IInv'
<1> Typed
  BY DEF IInv
<1> End(r)
  BY DEF Commit
<1>1. \A c \in Columns :
        case'[c] = IF c \in DOMAIN update[r] THEN update[r][c] ELSE case[c]
  BY DEF Commit
<1>2. TrailTellsTheRow'
  BY <1>1, ColumnNames DEF IInv, Commit, TrailTellsTheRow, RowsMatchUpdate
<1>3. TrailTellsTheLinks'
  BY DEF IInv, Commit, TrailTellsTheLinks
<1>4. Typed'
  <2>1. \A c \in Columns : case'[c] \in Domain(c)
    BY <1>1 DEF Typed
  <2>2. case' \in [Columns -> Values]
    BY <2>1, Domains DEF Commit
  <2>3. trail' \in [Audited -> Values]
    BY <1>2, <2>1, Domains, ColumnNames DEF Commit, TrailTellsTheRow
  <2>4. linked' \subseteq Alerts /\ told_links' \subseteq Alerts
    <3>1. link[r] # Null => link[r].alert \in Alerts
                            /\ link[r].action \in {"CASE_ALERT_LINKED", "CASE_ALERT_UNLINKED"}
      BY DEF Typed
    <3>2. \A S \in SUBSET Alerts : AfterLink(r, S) \subseteq Alerts
      BY <3>1 DEF AfterLink
    <3>3. QED
      BY <3>2 DEF Commit, Typed
  <2>5. overtaken' \in BOOLEAN
    BY DEF Commit, Typed, Stale
  <2>6. QED
    BY <2>1, <2>2, <2>3, <2>4, <2>5, Ended DEF Commit, Typed
<1>5. RowsMatchUpdate'
  BY Ended DEF IInv, RowsMatchUpdate
<1>6. StatusRows'
  BY Ended DEF IInv, StatusRows
<1>7. overtaken => overtaken'
  BY DEF Commit
<1>8. ClosureWrites'
  BY <1>7, Ended DEF IInv, ClosureWrites
<1>9. "status" \notin DOMAIN rows[r] =>
        UNCHANGED <<case["status"], case["closed_at"], case["closure_reason"]>>
  BY <1>1, ColumnNames DEF IInv, StatusRows, RowsMatchUpdate
<1>10. "status" \in DOMAIN rows[r] => case'["status"] = rows[r]["status"].new
  BY <1>1, ColumnNames, TransitionTypes DEF IInv, StatusRows, RowsMatchUpdate
<1>11. ClosedIsStamped'
  <2>1. CASE "status" \notin DOMAIN rows[r]
    BY <2>1, <1>9 DEF IInv, ClosedIsStamped
  <2>2. CASE "status" \in DOMAIN rows[r]
    BY <2>2, <1>1, <1>10, ColumnNames, CaseConstants DEF IInv, StatusRows, ClosedIsStamped
  <2>3. QED
    BY <2>1, <2>2
<1>12. ClosureMatchesStatus'
  <2>1. SUFFICES ASSUME ~overtaken'
                 PROVE  /\ case'["status"] = "CLOSED" <=> case'["closed_at"] # Null
                        /\ case'["status"] = "CLOSED" <=> case'["closure_reason"] # Null
    BY DEF ClosureMatchesStatus
  <2>2. ~overtaken /\ ~Stale(r, "status")
    BY <2>1 DEF Commit
  <2>3. /\ case["status"] = "CLOSED" <=> case["closed_at"] # Null
        /\ case["status"] = "CLOSED" <=> case["closure_reason"] # Null
    BY <2>2 DEF IInv, ClosureMatchesStatus
  <2>4. CASE "status" \notin DOMAIN rows[r]
    BY <2>3, <2>4, <1>9
  <2>5. CASE "status" \in DOMAIN rows[r]
    <3> DEFINE before == rows[r]["status"].previous
               after  == rows[r]["status"].new
    <3>1. before = case["status"]
      BY <2>2, <2>5 DEF Stale
    <3>2. /\ after = "CLOSED" =>
               /\ "closure_reason" \in DOMAIN update[r] /\ update[r]["closure_reason"] # Null
               /\ "closed_at" \in DOMAIN update[r] /\ update[r]["closed_at"] = "stamp"
          /\ before = "CLOSED" =>
               /\ {"closed_at", "closure_reason"} \subseteq DOMAIN update[r]
               /\ update[r]["closed_at"] = Null
               /\ update[r]["closure_reason"] = Null
          /\ before # "CLOSED" /\ after # "CLOSED" =>
               {"closed_at", "closure_reason"} \cap DOMAIN update[r] = {}
      BY <2>2, <2>5 DEF IInv, ClosureWrites, StatusRows
    <3>3. before = "CLOSED" => after # "CLOSED"
      BY <2>5, TransitionTypes DEF IInv, StatusRows
    <3> HIDE DEF before, after
    <3>4. case'["status"] = after
      BY <2>5, <1>10 DEF after
    <3>5. QED
      BY <1>1, <2>3, <3>1, <3>2, <3>3, <3>4, ColumnNames, CaseConstants
  <2>6. QED
    BY <2>4, <2>5
<1>13. QED
  BY <1>2, <1>3, <1>4, <1>5, <1>6, <1>8, <1>11, <1>12 DEF IInv

LEMMA SetActiveStep ==
  ASSUME IInv, NEW u \in Users, NEW is_active \in BOOLEAN, SetActive(u, is_active)
  PROVE  IInv'
<1>1. Typed'
  BY DEF IInv, Typed, SetActive, table, control
<1>2. QED
  BY <1>1, QuietStep DEF SetActive, control

-----------------------------------------------------------------------------
(* The theorems *)

\* Next with the bodies of the requests spelled out.
LEMMA Steps ==
  ASSUME Next
  PROVE
    \/ \E u \in Users, given \in [Fields -> Texts] : CreateCase(u, given)
    \/ \E r \in Requests, u \in Users :
         \/ \E D \in SUBSET Fields : \E given \in [D -> Texts] : UpdateCase(r, u, given)
         \/ \E status \in Statuses, reason \in Reasons \cup {Null} :
              ChangeStatus(r, u, status, reason)
         \/ \E owner \in Users \cup {Null} : ChangeOwner(r, u, owner)
         \/ \E a \in Alerts : LinkAlert(r, u, a) \/ UnlinkAlert(r, u, a)
    \/ \E r \in Requests : CheckOwner(r) \/ Commit(r) \/ Fail(r)
    \/ \E u \in Users, is_active \in BOOLEAN : SetActive(u, is_active)
<1>1. CASE \E u \in Users, given \in CaseCreate : CreateCase(u, given)
  BY <1>1 DEF CaseCreate
<1>2. ASSUME NEW r \in Requests, NEW u \in Users, NEW given \in CaseUpdate,
             UpdateCase(r, u, given)
      PROVE  \E D \in SUBSET Fields : \E g \in [D -> Texts] : UpdateCase(r, u, g)
  BY <1>2 DEF CaseUpdate
<1>3. ASSUME NEW r \in Requests, NEW u \in Users, NEW body \in CaseStatusUpdate,
             ChangeStatus(r, u, body.status, body.closure_reason)
      PROVE  \E status \in Statuses, reason \in Reasons \cup {Null} :
               ChangeStatus(r, u, status, reason)
  <2>1. body.status \in Statuses /\ body.closure_reason \in Reasons \cup {Null}
    BY DEF CaseStatusUpdate
  <2>2. QED
    BY <1>3, <2>1
<1>4. QED
  BY <1>1, <1>2, <1>3 DEF Next, CaseOwnerUpdate, CaseAlertLink

THEOREM Invariant == Spec => []IInv
<1>1. IInv /\ [Next]_vars => IInv'
  <2> SUFFICES ASSUME IInv, [Next]_vars PROVE IInv'
    OBVIOUS
  <2>1. CASE UNCHANGED vars
    <3>1. Typed'
      BY <2>1 DEF IInv, Typed, vars, table, control
    <3>2. QED
      BY <2>1, <3>1, QuietStep DEF vars, control
  <2>2. ASSUME NEW r \in Requests, Fail(r) PROVE IInv'
    BY <2>2, EndStep DEF Fail
  <2>3. QED
    BY <2>1, <2>2, CreateCaseStep, UpdateCaseStep, ChangeStatusStep, ChangeOwnerStep,
       LinkStep, CheckOwnerStep, CommitStep, SetActiveStep, Steps
<1>2. QED
  BY InitIInv, <1>1, PTL DEF Spec

\* A function on some of the columns is a partial assignment of them: the two
\* forms of the type invariant say the same of what a request holds.
LEMMA TypedIsTypeOK == Typed => TypeOK
<1> SUFFICES ASSUME Typed PROVE TypeOK
  OBVIOUS
<1>1. ASSUME NEW r \in Requests
      PROVE  /\ IsPartial(update[r], Columns, Values)
             /\ IsPartial(rows[r], Audited, [previous : Values, new : Values])
  <2>1. PICK D \in SUBSET Columns : update[r] \in [D -> Values]
    BY DEF Typed
  <2>2. PICK E \in SUBSET Audited : rows[r] \in [E -> [previous : Values, new : Values]]
    BY DEF Typed
  <2>3. IsPartial(update[r], Columns, Values)
    BY <2>1 DEF IsPartial
  <2>4. IsPartial(rows[r], Audited, [previous : Values, new : Values])
    BY <2>2 DEF IsPartial
  <2>5. QED
    BY <2>3, <2>4
<1>2. QED
  BY <1>1 DEF Typed, TypeOK

\* Every column, and every value about to be written, is in its domain.
THEOREM TypeCorrect == Spec => []TypeOK
BY Invariant, TypedIsTypeOK, PTL DEF IInv

\* The trail ends at the row, whatever overtakes what.
THEOREM RowAudited == Spec => []TrailTellsTheRow
BY Invariant, PTL DEF IInv

\* The last audit row of an alert says whether it is linked.
THEOREM LinksAudited == Spec => []TrailTellsTheLinks
BY Invariant, PTL DEF IInv

\* A closed case carries its time of closure.
THEOREM Stamped == Spec => []ClosedIsStamped
BY Invariant, PTL DEF IInv

\* Without an overtaken status change the closure columns follow the status.
THEOREM ClosureFollows == Spec => []ClosureMatchesStatus
BY Invariant, PTL DEF IInv

-----------------------------------------------------------------------------
(* Deactivated owners *)

\* A request that serves nobody has nothing to write.
IdleHoldsNothing == \A r \in Requests : pc[r] = "idle" => DOMAIN update[r] = {}

\* What a request holds when it is about to commit: what it held, or what it
\* has just prepared.
LEMMA IdleStep == IInv /\ IdleHoldsNothing /\ [Next]_vars => IdleHoldsNothing'
<1> SUFFICES ASSUME IInv, IdleHoldsNothing, [Next]_vars PROVE IdleHoldsNothing'
  OBVIOUS
<1> Typed
  BY DEF IInv
<1> USE DEF IdleHoldsNothing
<1>1. ASSUME NEW r \in Requests, End(r) PROVE IdleHoldsNothing'
  BY <1>1, Ended DEF End, Typed
<1>2. ASSUME NEW r \in Requests, NEW a, Prepare(r, a), pc'[r] # "idle",
             \A q \in Requests \ {r} : pc'[q] = pc[q]
      PROVE  IdleHoldsNothing'
  BY <1>2 DEF Prepare, Typed
<1>3. ASSUME NEW r \in Requests, NEW u \in Users, NEW D \in SUBSET Fields,
             NEW given \in [D -> Texts], UpdateCase(r, u, given)
      PROVE  IdleHoldsNothing'
  BY <1>2, <1>3 DEF UpdateCase, Typed
<1>4. ASSUME NEW r \in Requests, NEW u \in Users, NEW status \in Statuses,
             NEW reason \in Reasons \cup {Null}, ChangeStatus(r, u, status, reason)
      PROVE  IdleHoldsNothing'
  BY <1>2, <1>4 DEF ChangeStatus, Typed
<1>5. ASSUME NEW r \in Requests, NEW u \in Users, NEW owner \in Users \cup {Null},
             ChangeOwner(r, u, owner)
      PROVE  IdleHoldsNothing'
  BY <1>2, <1>5 DEF ChangeOwner, Typed
<1>6. ASSUME NEW r \in Requests, NEW u \in Users, NEW a \in Alerts,
             LinkAlert(r, u, a) \/ UnlinkAlert(r, u, a)
      PROVE  IdleHoldsNothing'
  BY <1>6 DEF LinkAlert, UnlinkAlert, Typed
<1>7. ASSUME NEW r \in Requests, CheckOwner(r) PROVE IdleHoldsNothing'
  BY <1>1, <1>7 DEF CheckOwner, Typed
<1>8. CASE UNCHANGED control
  BY <1>8 DEF control
<1>9. QED
  BY <1>1, <1>3, <1>4, <1>5, <1>6, <1>7, <1>8, Steps DEF Commit, Fail, CreateCase, SetActive, vars

\* Whoever is cut off stays so until activated again, and gets no case: only
\* CheckOwner lets an owner through to the commit.
LEMMA CutOffStep ==
  ASSUME IInv, IdleHoldsNothing, [Next]_vars, NEW u \in Users, CutOff(u)
  PROVE  /\ u \in active' \/ CutOff(u)'
         /\ case'["owner_id"] = u => case["owner_id"] = u
<1> Typed /\ RowsMatchUpdate
  BY DEF IInv
<1> USE DEF CutOff
<1>1. ASSUME NEW r \in Requests, End(r), active' = active PROVE CutOff(u)'
  BY <1>1, Ended DEF End, Typed, Assigning
<1>2. ASSUME NEW r \in Requests, NEW a,
             DOMAIN a \subseteq Columns, \A c \in DOMAIN a : a[c] \in Domain(c),
             Prepare(r, a), active' = active,
             \A q \in Requests \ {r} : pc'[q] = pc[q],
             pc'[r] = "commit" /\ "owner_id" \in DOMAIN a => a["owner_id"] # u
      PROVE  CutOff(u)'
  BY <1>2, Prepared DEF Assigning
<1>3. ASSUME NEW r \in Requests, NEW v \in Users, NEW D \in SUBSET Fields,
             NEW given \in [D -> Texts], UpdateCase(r, v, given)
      PROVE  CutOff(u)'
  <2> DEFINE changed == {f \in DOMAIN given : given[f] # case[f]}
             a == [f \in changed |-> given[f]]
  <2>1. /\ DOMAIN a \subseteq Columns /\ "owner_id" \notin DOMAIN a
        /\ \A c \in DOMAIN a : a[c] \in Domain(c)
    BY ColumnNames, Domains
  <2>2. Prepare(r, a) /\ active' = active /\ \A q \in Requests \ {r} : pc'[q] = pc[q]
    BY <1>3 DEF UpdateCase, Typed
  <2> HIDE DEF a
  <2>3. QED
    BY <1>2, <2>1, <2>2
<1>4. ASSUME NEW r \in Requests, NEW v \in Users, NEW status \in Statuses,
             NEW reason \in Reasons \cup {Null}, ChangeStatus(r, v, status, reason)
      PROVE  CutOff(u)'
  <2> DEFINE a == StatusAttributes(status, reason)
  <2>1. /\ DOMAIN a \subseteq Columns /\ "owner_id" \notin DOMAIN a
        /\ \A c \in DOMAIN a : a[c] \in Domain(c)
    BY ColumnNames, Domains DEF StatusAttributes
  <2>2. Prepare(r, a) /\ active' = active /\ \A q \in Requests \ {r} : pc'[q] = pc[q]
    BY <1>4 DEF ChangeStatus, Typed
  <2> HIDE DEF a
  <2>3. QED
    BY <1>2, <2>1, <2>2
<1>5. ASSUME NEW r \in Requests, NEW v \in Users, NEW owner \in Users \cup {Null},
             ChangeOwner(r, v, owner)
      PROVE  CutOff(u)'
  <2> DEFINE a == [owner_id |-> owner]
  <2>1. DOMAIN a \subseteq Columns /\ \A c \in DOMAIN a : a[c] \in Domain(c)
    BY ColumnNames, Domains
  <2>2. /\ Prepare(r, a) /\ active' = active
        /\ \A q \in Requests \ {r} : pc'[q] = pc[q]
        /\ pc'[r] = "commit" => owner = Null
    BY <1>5 DEF ChangeOwner, Typed
  <2>3. a["owner_id"] = owner
    OBVIOUS
  <2> HIDE DEF a
  <2>4. QED
    BY <1>2, <2>1, <2>2, <2>3, CaseConstants
<1>6. ASSUME NEW r \in Requests, NEW v \in Users, NEW a \in Alerts,
             LinkAlert(r, v, a) \/ UnlinkAlert(r, v, a)
      PROVE  CutOff(u)'
  BY <1>6 DEF LinkAlert, UnlinkAlert, Finds, Typed, IdleHoldsNothing, Assigning
<1>7. ASSUME NEW r \in Requests, CheckOwner(r) PROVE CutOff(u)'
  <2>1. CASE End(r)
    BY <1>1, <1>7, <2>1 DEF CheckOwner
  <2>2. CASE /\ rows[r]["owner_id"].new \in active
             /\ pc' = [pc EXCEPT ![r] = "commit"]
             /\ UNCHANGED <<update, rows, link>>
    <3>1. "owner_id" \in DOMAIN update[r] => update[r]["owner_id"] # u
      BY <2>2, ColumnNames DEF RowsMatchUpdate
    <3>2. QED
      BY <1>7, <2>2, <3>1 DEF CheckOwner, Typed, Assigning
  <2>3. QED
    BY <1>7, <2>1, <2>2 DEF CheckOwner
<1>8. ASSUME UNCHANGED control PROVE u \in active' \/ CutOff(u)'
  BY <1>8 DEF control, Assigning
<1>9. u \in active' \/ CutOff(u)'
  BY <1>1, <1>3, <1>4, <1>5, <1>6, <1>7, <1>8, Steps
     DEF Commit, Fail, CreateCase, SetActive, vars
<1>10. ASSUME NEW r \in Requests, Commit(r), case'["owner_id"] = u
       PROVE  case["owner_id"] = u
  BY <1>10, ColumnNames DEF Commit, Assigning
<1>11. ASSUME NEW v \in Users, NEW given \in [Fields -> Texts], CreateCase(v, given)
       PROVE  case'["owner_id"] = Null
  BY <1>11, ColumnNames DEF CreateCase
<1>12. case'["owner_id"] = u => case["owner_id"] = u
  <2>1. CASE UNCHANGED case
    BY <2>1
  <2>2. QED
    BY <1>10, <1>11, <2>1, CaseConstants, Steps
       DEF UpdateCase, ChangeStatus, ChangeOwner, LinkAlert, UnlinkAlert, CheckOwner,
           Fail, SetActive, table, vars
<1>13. QED
  BY <1>9, <1>12

\* After a deactivation, and once the checks made before it are spent, the
\* user becomes the owner of no case.
THEOREM InactiveGetsNoCase == Spec => InactiveUserGetsNoCase
<1>1. Init => IdleHoldsNothing
  BY DEF Init, IdleHoldsNothing, Nothing
<1>2. IInv /\ IdleHoldsNothing /\ [Next]_vars =>
        [\A u \in Users : CutOff(u) =>
           /\ u \in active' \/ CutOff(u)'
           /\ case'["owner_id"] = u => case["owner_id"] = u]_vars
  BY CutOffStep
<1>3. QED
  BY Invariant, IdleStep, <1>1, <1>2, PTL DEF Spec, InactiveUserGetsNoCase
=============================================================================
