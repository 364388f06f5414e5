-------------------------- MODULE MCRefreshTokens --------------------------
(* Instances of RefreshTokens for TLC. *)
EXTENDS RefreshTokens, TLC

CONSTANTS u1, u2, t1, t2, t3, t4, r1, r2, r3

OneUser       == {u1}
TwoUsers      == {u1, u2}
ThreeTokens   == {t1, t2, t3}
FourTokens    == {t1, t2, t3, t4}
TwoRequests   == {r1, r2}
ThreeRequests == {r1, r2, r3}

\* Rows and threads are interchangeable.
Symmetry == Permutations(Tokens) \cup Permutations(Requests) \cup Permutations(Users)
=============================================================================
