SPECIFICATION MCSpec
CONSTANTS
  ann = ann  bob = bob
  t1 = t1  t2 = t2  t3 = t3
  c1 = c1  c2 = c2
  Users <- TwoUsers
  Tokens <- ThreeTokens
  Calls <- TwoCalls
  NoUser = NoUser
  NoToken = NoToken
  Clients = {l1, l2}
  max_attempts = 1
  window_seconds = 2
  MaxCount = 4
  Registrants = {g1, g2}
  Spellings <- TwoSpellings
  normalize_email <- LowerCase
  Passwords = {p1, p2}
  NoPassword = NoPassword
INVARIANTS
  TypeOK
  NeverKillsItsFamily
  ShowsItsOwner
  AtMostTwiceTheLimit
  KeyWillExpire
  WinnerHasTheAccount
PROPERTIES
  EveryCallEnds
\* the address is registered, or the counter at its bound: nothing is left to explore
CHECK_DEADLOCK FALSE
