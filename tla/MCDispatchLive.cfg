CONSTANTS
  Scope = {admin, demo}
  InitialScope = admin
  None = None
  Slot = {s1}
  MaxInFlight = 2
  MaxMutations = 1
  MaxSwitches = 1
SPECIFICATION FairSpec
INVARIANTS
  AcceptableIsInForce
PROPERTIES
  ListConverges
