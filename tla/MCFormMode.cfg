SPECIFICATION Spec
CONSTANTS
  Kinds <- MCKinds
  MaxScope = 2
  None = None
  ServerStatuses <- MCServerStatuses
INVARIANT
  FormModeHasForm
CHECK_DEADLOCK FALSE
