--------------------------- MODULE MCCaseWorkflow ---------------------------
(* Instances of CaseWorkflow for TLC. *)
EXTENDS CaseWorkflow, TLC

CONSTANTS admin, analyst, alert, r1, r2

Two       == {r1, r2}
Staff     == {admin, analyst}
OneAdmin  == {admin}
OneAlert  == {alert}
Editable  == {"priority"}
TwoTexts  == {"low", "high"}
OneReason == {"false positive"}

\* Threads are interchangeable.
Symmetry == Permutations(Requests)
=============================================================================
