---------------------------- MODULE Registration ----------------------------
(***************************************************************************)
(* Registering an account: POST /auth/register, AuthService.register and   *)
(* the unique index on the e-mail address of table users.                  *)
(*                                                                         *)
(* The address is looked up, the password hashed, and the row inserted in  *)
(* a statement of its own: others register in between.                     *)
(***************************************************************************)
CONSTANTS
  Registrants,     \* server threads; each serves one registration at a time
  Spellings,       \* e-mail addresses as they are written
  normalize_email, \* to lower case and without surrounding blanks
  Passwords,
  NoPassword

ASSUME RegistrationConstants ==
  NoPassword \notin Passwords /\ \A e \in Spellings : e \in DOMAIN normalize_email

VARIABLES
  password_of,     \* table users: the password of an address, if it is registered
  stage,           \* where each request is
  email,           \* the normalized address and the password it has
  password,
  winner           \* history: the password of the request that was told 201

registration == <<password_of, stage, email, password, winner>>

-----------------------------------------------------------------------------
Addresses == {normalize_email[e] : e \in Spellings}

NoAddress == "none"

RegistrationInit ==
  /\ password_of = [a \in Addresses |-> NoPassword]
  /\ stage = [r \in Registrants |-> "idle"]
  /\ email = [r \in Registrants |-> NoAddress]
  /\ password = [r \in Registrants |-> NoPassword]
  /\ winner = [a \in Addresses |-> NoPassword]

Close(r) ==
  /\ stage' = [stage EXCEPT ![r] = "idle"]
  /\ email' = [email EXCEPT ![r] = NoAddress]
  /\ password' = [password EXCEPT ![r] = NoPassword]

\* The password is long enough and get_by_email finds nobody.
Check(r, e, p) ==
  /\ stage[r] = "idle"
  /\ password_of[normalize_email[e]] = NoPassword
  /\ stage' = [stage EXCEPT ![r] = "create"]
  /\ email' = [email EXCEPT ![r] = normalize_email[e]]
  /\ password' = [password EXCEPT ![r] = p]
  /\ UNCHANGED <<password_of, winner>>

\* Fault: the table has no unique index and the later row is found first.
CreateAnyway(r) ==
  /\ stage[r] = "create"
  /\ password_of' = [password_of EXCEPT ![email[r]] = password[r]]
  /\ stage' = [stage EXCEPT ![r] = "created"]
  /\ UNCHANGED <<email, password, winner>>

\* UserRepository.create; an IntegrityError is the same 409 as a failed check.
Create(r) ==
  /\ stage[r] = "create"
  /\ IF password_of[email[r]] = NoPassword
     THEN /\ password_of' = [password_of EXCEPT ![email[r]] = password[r]]
          /\ stage' = [stage EXCEPT ![r] = "created"]
          /\ UNCHANGED <<email, password>>
     ELSE Close(r) /\ UNCHANGED password_of
  /\ UNCHANGED winner

\* The 201.
Created(r) ==
  /\ stage[r] = "created"
  /\ winner' = [winner EXCEPT ![email[r]] = password[r]]
  /\ Close(r)
  /\ UNCHANGED password_of

\* The statement or the worker fails, before or after the commit.
RegistrationFails(r) ==
  /\ stage[r] # "idle"
  /\ Close(r)
  /\ UNCHANGED <<password_of, winner>>

RegistrationNext ==
  \E r \in Registrants :
    \/ \E e \in Spellings, p \in Passwords : Check(r, e, p)
    \/ Create(r) \/ Created(r) \/ RegistrationFails(r)

RegistrationSpec == RegistrationInit /\ [][RegistrationNext]_registration
-----------------------------------------------------------------------------
\* Of overlapping registrations of one address, in whatever spelling, the one that is
\* told 201 has the account: its password is the one that logs in, from then on.
WinnerHasTheAccount ==
  \A a \in Addresses : winner[a] # NoPassword => password_of[a] = winner[a]
=============================================================================
