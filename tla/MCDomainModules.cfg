SPECIFICATION Spec
CONSTANTS
  Kinds <- MCKinds
  MaxScope = 2
  None = None
  ServerStatuses <- MCServerStatuses
INVARIANTS
  QuestionFitsScope
  FormHasKeys
  SubnetsFitDetail
  PortFitsServer
  SwitchedThenTyped
CHECK_DEADLOCK FALSE
