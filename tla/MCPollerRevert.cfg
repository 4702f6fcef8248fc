SPECIFICATION Spec
CONSTANTS
  r1 = r1  r2 = r2  u1 = u1  u2 = u2  main = main  master = master
  p1 = p1  p2 = p2  b1 = b1  b2 = b2
  Link = Link  None = None  Drop = Drop
  Archives <- NoArchive
  Paths <- MCPaths
  Blobs <- MCBlobs
  Repos <- OneRepo
  Urls <- OneUrl
  Branches <- OneBranch
  Default <- OnMain
  Lists <- SteadyList
  Trees <- SmallTrees
  Stage <- NoStage
  MaxDepth = 3
  MaxEvents = 3
CHECK_DEADLOCK FALSE
INVARIANTS
  PollLandsTree
