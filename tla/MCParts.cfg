SPECIFICATION PartsSpec
CONSTANTS
  r1 = r1  r2 = r2  p1 = p1  p2 = p2  h1 = h1  h2 = h2
  NoJob = NoJob
  Repos <- MCRepos
  Paths <- MCPaths
  Hashes <- MCHashes
  Sizes <- MCSizes
  Rulings <- MCRulings
  MaxFileChunks = 2  MaxId = 3  MaxHits = 1
  ChunkCases <- MCChunkCases
  SelectPaths <- MCSelectPaths
  SelectBodies <- MCSelectBodies
  ExcludeLists <- MCExcludeLists
  MaxBytes = 6  MaxDataBytes = 2  MaxSchemaBytes = 4
  Trees <- MCTrees
  UnitSets <- MCUnitSets
  MinChunks = 3  MaxChunks = 3
  VecValues = {"v", "w"}
  SlotsPerChunk = 2  CompactBatch = 1  MaxRowid = 7  MaxBoots = 2
  Corpora <- MCCorpora
  Queries <- MCQueries
  LaneCandidates = 2  Pool = 3
  HubFloor = 4  HubNum = 3  HubDen = 4
  Picks <- MCPicks
  MaxReindexes = 1  MaxParks = 1
  Asked <- MCAsked
  Stopwords = {"der"}
  WordRunes <- MCWordRunes
  MaxTerms = 3  MinPrefixRunes = 5  MinSubstringRunes = 8
  MaxSubstringTerms = 4  MaxSubstringCodeTerms = 2
  Indexes <- MCIndexes
  Readings <- MCReadings
  Singular <- MCSingular
  Brief = {"ui", "be", "how"}
  Common <- MCCommon
  OneEdit <- MCOneEdit
  Names = {"shop-be", "shop-ui", "loom", "lib", "peeq", "shop"}
  None = None
  Asking <- MCAsking
  Corpus <- MCCorpus
  FloorNum = 2  FloorDen = 5  MarginNum = 1  MarginDen = 4
  MaxCandidates = 3  MaxRepoCandidates = 2
  TokenTables <- MCTables
  SpreadCeiling = 2
  EnabledSets <- MCEnabled
  TailOf <- MCTail
  Answers <- MCAnswers
  MaxToken = 2
CHECK_DEADLOCK FALSE
SYMMETRY Symmetry
INVARIANTS
  TablesAgree
  HitsStayTrue
  CacheCovers
  SweptClean
  PassagesWhole
  VerdictsAgree
  CutSound
  RebuildKeeps
  OrderFromAddresses
  ListsComplete
  QuestionServed
  NamesRead
  CardSound
  CrossingsSound
  StreamIsWhole
  NumbersCount
