SPECIFICATION FairSpec
CONSTANTS
  r1 = r1  r2 = r2  u1 = u1  u2 = u2  main = main  master = master
  p1 = p1  p2 = p2  b1 = b1  b2 = b2
  Link = Link  None = None  Drop = Drop
  Archives <- OneArchive
  Paths <- MCPaths
  Blobs <- MCBlobs
  Repos <- TwoRepos
  Urls <- TwoUrls
  Branches <- BothBranches
  Default <- Mixed
  Lists <- EditedLists
  Trees <- OneTree
  Stage <- NoStage
  MaxDepth = 2
  MaxEvents = 2
CHECK_DEADLOCK FALSE
INVARIANTS
  OneRemote
PROPERTIES
  CatchesUp
  RequestServed
