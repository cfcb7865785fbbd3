CONSTANTS
  Request = {r1}
  Scope = {admin, demo}
  InitialScope = admin
  None = None
  MaxSwitches = 3
  MaxRestarts = 0
SPECIFICATION Spec
INVARIANTS
  GrantedFitsKey
CHECK_DEADLOCK FALSE
