\* The SDK's calls: two callers, one retry each, a threshold of two; and the other tools.
SPECIFICATION FairToolkit
CONSTANTS
  Never = Never
  c1 = c1
  c2 = c2
  Calls = {c1, c2}
  Sentences = 2
  MaxRetries = 1
  Threshold = 2
  Recovery = 2
  MaxTime = 4
  MaxPosts = 2
  Numbers <- MCNumbers
  Short = {"jo", "in", "zz"}
  Parts <- MCParts
  CodeLimit = 2
  NameLimit = 2
  OptionLimit = 2
  Tables <- MCTables
  Asked <- MCAsked
  Errors <- MCErrors
  Catalog <- MCCatalog
  Lexicon <- MCLexicon
  Lessons <- MCLessons
  Overrides <- MCOverrides
  Documents <- MCDocuments
  SecretKeys = {"key"}
  Placeholders = {"${SET}", "${UNSET}"}
  Environment <- MCEnvironment
  MaxSteps = 2
  MaxLayers = 2
  MaxEntries = 3
  Stocks <- MCStocks
  Tests <- MCTests
  Defects = {"none", "free", "thin", "again", "phantom", "blind", "rash", "lost"}
  Fresh <- MCFresh
  nothing = nothing
  Absent = nothing
  Ids = {1, 2, 3, 4}
  Sessions <- MCSessions
  Abilities <- MCAbilities
  Stores <- MCStores
  Domains = {"automation", "graph"}
  Ontology = {"cycle"}
  Served = {"contacts"}
  DefaultLimit = 3
  ChangeLimit = 2
  EdgeLimit = 3
  CapRows = 2
  MaxFaults = 1
  MaxDrifts = 1
  Gone <- MCGone
  Null <- MCNull
  None = "none"
CHECK_DEADLOCK FALSE
INVARIANTS
  BreakerHolds
  ChoicesAreKept
  ManifestsAreKept
  TestIsTelling
  IntentsAreKept
PROPERTIES
  CallsEnd
