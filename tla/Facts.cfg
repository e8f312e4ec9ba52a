SPECIFICATION PageSpec
CONSTANTS
  Peers = {p1}
  Browser = p1
  Pages = {v1}
  Tokens = {t1, t2, t3}
  Commands = {c1, c2, c3}
  Loads <- MC_Loads
  SessionOf <- MC_SessionOf
  MaxPending = 2
  TTL = 0
  MaxClock = 1
  MaxEpoch = 2
SYMMETRY MC_Symmetry
INVARIANTS
  CountsPending
  SingleUse
  PermitsFollowConsent
  NothingFromBeforeWithdrawal
  OneOpenPerPage
CHECK_DEADLOCK FALSE
