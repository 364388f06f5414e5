----------------------- MODULE MCAccountAdministration -----------------------
(* Instances of AccountAdministration for TLC. *)
EXTENDS AccountAdministration, TLC

CONSTANTS admin1, admin2, analyst, r1, r2, r3

Everybody == {admin1, admin2, analyst}
TwoAdmins == {admin1, admin2}
Threads   == {r1, r2, r3}

\* Threads are interchangeable, and so are the admins.
Symmetry == Permutations(Requests) \cup Permutations(Admins)
=============================================================================
