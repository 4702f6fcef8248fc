SPECIFICATION Spec
CONSTANTS
  shop = shop  billing = billing  commons = commons
  ann = ann  bob = bob  x = x  y = y  None = None
  Names <- MCNames
  Readers <- MCReaders
  Texts <- MCTexts
  Scoped <- MCScoped
  Groupings <- MCGroupings
  t1 = t1  t2 = t2  t3 = t3
  Turns <- MCTurns
  MaxRows = 2
  MaxId = 3
  MaxRestarts = 1
CHECK_DEADLOCK FALSE
SYMMETRY Symmetry
INVARIANTS
  RulesStand
  TableSound
  ScopesHonest
