CONSTANTS
  Request = {r1, r2}
  Scope = {admin, demo}
  InitialScope = admin
  None = None
  MaxSwitches = 1
  MaxRestarts = 1
SPECIFICATION FairSpec
INVARIANTS
  RequestsAndSwitchesFitKey
  InitialKeyIsInitial
  RefreshNotRepeated
PROPERTIES
  EveryRequestAnswered
CHECK_DEADLOCK FALSE
