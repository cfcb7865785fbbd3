SPECIFICATION FairSpec
CONSTANTS
  Server = {v1}
  None = None
  Asked <- MCAsked
  MaxAsked = 2
  MaxPolls = 1
  MaxSwitches = 1
INVARIANTS
  PolledByOneTask
  ProgressIsFollowed
  ProgressFitsContext
  EveryOutcomeTold
  EveryChangeAudited
PROPERTIES
  EveryTaskEnds
CHECK_DEADLOCK FALSE
