-------------------------- MODULE MCAlertPipeline --------------------------
(* Instances of AlertPipeline for TLC. *)
EXTENDS AlertPipeline

CONSTANTS r1, r2, user, other, address, encoded

Threads     == {r1, r2}
OnePattern  == <<encoded>>
ThePairs    == <<<<Null, Null>>, <<Null, address>>, <<user, address>>, <<other, address>>>>
Instants    == 0..2
ScanRange   == 0..4

\* Some source begins the type with a capital letter.
Spelled           == "Authentication_failure"
InLowerCase(type) == IF type = Spelled THEN AuthFailure ELSE type

Failure(type, u, t) ==
  [event_type |-> type, username |-> u, source_ip |-> address, at |-> t,
   matches |-> {}, oversized |-> {}]
Process(refused) ==
  [event_type |-> ProcessCreation, username |-> Null, source_ip |-> Null, at |-> 0,
   matches |-> {encoded}, oversized |-> refused]

\* Failures of one user at any instant and once in another spelling, of another user
\* and without a user name; and two processes that the pattern matches, at the same
\* instant, one of them with more evidence than an alert may hold.
Sources ==
  {Failure(AuthFailure, user, t) : t \in Instants}
  \cup {Failure(Spelled, user, 1), Failure(AuthFailure, other, 1), Failure(AuthFailure, Null, 1)}
  \cup {Process({}), Process({encoded})}

\* Threads are interchangeable.
Symmetry == Permutations(Requests)
=============================================================================
