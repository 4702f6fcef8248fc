SPECIFICATION FairSpec
CONSTANTS
  c1 = c1  c2 = c2  c3 = c3
  Calls <- MCCalls
  TurnMaxTokens = 2
  CallMax = 1
CHECK_DEADLOCK FALSE
INVARIANTS
  RetriesHonest
  SpendBounded
PROPERTIES
  CallEnds
