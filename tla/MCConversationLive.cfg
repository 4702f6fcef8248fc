SPECIFICATION FairSpec
CONSTANTS
  th1 = th1  th2 = th2  t1 = t1  t2 = t2  s1 = s1
  Threads <- OneThread
  Turns <- TwoTurns
  Sharers <- OneSharer
  MaxRows = 2
  MaxFaults = 1
  MaxCrashes = 1
CHECK_DEADLOCK FALSE
INVARIANTS
  RecordFrozen
PROPERTIES
  TurnsFinish
