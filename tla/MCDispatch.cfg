CONSTANTS
  Scope = {admin, demo}
  InitialScope = admin
  None = None
  Slot = {s1, s2}
  MaxInFlight = 2
  MaxMutations = 0
  MaxSwitches = 2
SPECIFICATION Spec
SYMMETRY Symmetry
INVARIANTS
  DataNotOlderThanScreen
  KeyIsHeldByOneFetch
