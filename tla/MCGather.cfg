SPECIFICATION FairSpec
CONSTANTS
  h = h  g = g  s = s  x = x  y = y  f1 = f1  f2 = f2  f3 = f3
  app = app  dep = dep  route = route  key = key
  None = None  NotFound = NotFound
  Chunks <- MCChunks
  Cost <- MCCost
  FileOf <- MCFileOf
  RepoOf <- MCRepoOf
  Refs <- MCRefs
  Far <- MCFar
  Property = {y}
  Config = {y}
  Defined <- MCDefined
  TokenBudget = 20
  MaxHops = 2
  CrossingReserve = 6
  GapReserve = 12
  LocateReserve = 8
  MaxCalls = 2
  MaxLandings = 2
  Rounds = 2
  MaxHits = 2
  MaxAsked = 3
CHECK_DEADLOCK FALSE
INVARIANTS
  Budgeted
  SourcesHonest
  EveryCallAnswered
PROPERTIES
  NothingEvicted
  GatherEnds
