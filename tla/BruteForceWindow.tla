-------------------------- MODULE BruteForceWindow --------------------------
(***************************************************************************)
(* The scan of detections/rules/brute_force.py for a burst of failures:    *)
(* two indices that only move forward over timestamps in ascending order.  *)
(*                                                                         *)
(* The definitions below follow the loop; FindsEarliest compares them with *)
(* what the docstring promises.                                            *)
(***************************************************************************)
EXTENDS Integers, Sequences, FiniteSetsExt

CONSTANTS
  threshold, window_seconds  \* of the rule; from the settings in the program

ASSUME WindowConstants ==
  /\ threshold \in Nat \ {0}
  /\ window_seconds \in Nat

\* Fault: left skips an event that is exactly window_seconds old.
LeftStrict(t) ==
  LET left[right \in DOMAIN t] ==
        LET from == IF right = 1 THEN 1 ELSE left[right - 1]
        IN  Min({l \in from..right : t[right] - t[l] < window_seconds \/ l = right})
  IN  left

\* The value of left after the inner loop, for each right: it moves on from
\* where it was to the first event not more than window_seconds before right.
Left(t) ==
  LET left[right \in DOMAIN t] ==
        LET from == IF right = 1 THEN 1 ELSE left[right - 1]
        IN  Min({l \in from..right : t[right] - t[l] <= window_seconds})
  IN  left

\* Fault: everything up to the event that completes the window is evidence.
FromTheStart(t) ==
  LET left    == Left(t)
      returns == {right \in DOMAIN t : right - left[right] + 1 >= threshold}
  IN  IF returns = {} THEN {} ELSE 1..Min(returns)

\* _find_qualifying_window: the scan returns at the first right that is far
\* enough from its left, with the indices between them, or finds nothing.
FindQualifyingWindow(t) ==
  LET left    == Left(t)
      returns == {right \in DOMAIN t : right - left[right] + 1 >= threshold}
      right   == Min(returns)
  IN  IF returns = {} THEN {} ELSE left[right]..right

-----------------------------------------------------------------------------
(* What the docstring says of it *)

\* Windows of at least threshold consecutive events whose span does not
\* exceed window_seconds.
Qualifying(t) ==
  {w \in {l..r : l \in DOMAIN t, r \in DOMAIN t} :
     /\ Cardinality(w) >= threshold
     /\ \A i, j \in w : t[i] - t[j] <= window_seconds}

\* Of two windows, the one that is complete first; of those complete at the
\* same event, the one with most events.
Earlier(v, w) == \/ \E i \in w : \A j \in v : j < i
                 \/ w \subseteq v

Ascending(t) == \A i, j \in DOMAIN t : i <= j => t[i] <= t[j]

\* The scan finds a window in t if and only if one qualifies, and the earliest.
FindsEarliest(t) ==
  LET w == FindQualifyingWindow(t)
  IN  IF Qualifying(t) = {} THEN w = {}
      ELSE w \in Qualifying(t) /\ \A v \in Qualifying(t) : Earlier(w, v)
=============================================================================
