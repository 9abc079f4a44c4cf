SPECIFICATION WatchSpec
CONSTANTS
  a = a
  b = b
  good = good
  bad = bad
  Sources <- One
  Rank <- OneRank
  Texts = {good, good2}
  Broken = {}
  Tagged = {}
  Unlisted = {}
  Runs = {r1, r2}
  Kinds = {"test"}
  MaxActive = 2
  Faults = {}
  NoText = NoText
  Target <- TheTree
  TheTree = TheTree
  NewDir = {}
  Formatted <- AsTheyAre
  Torn = {}
  MaxEdits = 2
INVARIANTS NothingLeftBehind
CHECK_DEADLOCK FALSE
