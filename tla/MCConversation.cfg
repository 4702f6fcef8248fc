SPECIFICATION Spec
CONSTANTS
  th1 = th1  th2 = th2  t1 = t1  t2 = t2  s1 = s1
  Threads <- TwoThreads
  Turns <- TwoTurns
  Sharers <- NoSharer
  MaxRows = 3
  MaxFaults = 1
  MaxCrashes = 0
CHECK_DEADLOCK FALSE
SYMMETRY Symmetry
INVARIANTS
  TurnsSound
PROPERTIES
  KeepsRecord
