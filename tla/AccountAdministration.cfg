SPECIFICATION Spec
CONSTANTS
  admin1 = admin1  admin2 = admin2  analyst = analyst
  r1 = r1  r2 = r2  r3 = r3
  Users <- Everybody
  Admins <- TwoAdmins
  Requests <- Threads
  NoUser = NoUser
SYMMETRY Symmetry
INVARIANTS
  TypeOK
  TrailTellsTheFlag
  AdminRemains
\* no admin is left to make a request: see Spec
CHECK_DEADLOCK FALSE
