SPECIFICATION Spec
CONSTANTS
  shop = shop  ui = ui  be = be  crm = crm  lib = lib  q1 = q1  q2 = q2
  None = None
  Names <- MCNames
  Groupings <- MCGroupings
  Questions = {q1, q2}
  Mentioned <- MCMentioned
  MaxRepoCandidates = 2
  MaxNarrowRepos = 2
  MaxGuess = 1
  MaxRows = 2
  MaxEdits = 1
CHECK_DEADLOCK FALSE
INVARIANTS
  Funnel
  SourcesAsRecorded
  AskedFirst
  FoldsAgree
