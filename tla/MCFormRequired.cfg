CONSTANTS
  None = None
  Server = {s1, s2}
  MaxConcurrent = 1
  Refusable = TRUE
  MaxSwitches = 2
  MaxRuns = 2
  MaxElsewhere = 1
  MaxHistory = 1
  MaxCommands = 1
  Option = {o1, o2}
  Layouts <- MCLayouts
  p1 = p1
  p2 = p2
  d1 = d1
  d2 = d2
  n1 = n1
  n2 = n2
  n3 = n3
  Project <- MCProject
  Domain <- MCDomain
  DomainOf <- MCDomainOf
  DomainName <- MCDomainName
  AskedFor <- MCAskedFor
  DirToken = {t1, t2}
  Ttl = 2
  MaxChanges = 1
  Nothing = None
  Tenant <- MCTenant
  NoTenant = None
  Home = p1
  Rows <- MCRows
  MaxMoves = 2
  MaxQueued = 2
  MaxEntries = 2
  ShortTime = 1
  LongTime = 2
  MaxOutcomes = 4
  MaxToasts = 3
  NormalTicks = 3
  FastTicks = 1
  MaxBackoff = 4
  MaxRotated = 3
  MaxGenerations = 6
  nova = nova
  cinder = cinder
  HttpRequest = {r1, r2}
  Scope = {admin, demo}
  InitialScope = admin
  NoScope = None
  Caches <- MCCaches
  MaxActivations = 1
SPECIFICATION PartsSpec
INVARIANT
  SubmittedIsValid
CHECK_DEADLOCK FALSE
