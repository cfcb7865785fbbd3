CONSTANTS
  Task = {t1, t2}
  Scope = {admin, demo, other}
  InitialScope = admin
  None = None
SPECIFICATION NoticesFairSpec
INVARIANTS
  ShownIsInForce
  SingleSwitch
  ActiveHasToken
  HistoryOlder
  SessionFollowsMachine
PROPERTIES
  ImplementsNotices
  LastCommitShown
  EverySwitchAnswers
CHECK_DEADLOCK FALSE
