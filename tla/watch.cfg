SPECIFICATION WatchSpec
CONSTANTS
  a = a
  b = b
  good = good
  bad = bad
  Sources <- Two
  Rank <- TwoRank
  Texts = {good, bad, neat}
  Broken = {bad}
  Tagged = {}
  Unlisted = {}
  Runs = {r1, r2}
  Kinds = {"test"}
  MaxActive = 2
  Faults = {"interrupt"}
  NoText = NoText
  Target <- TheTree
  TheTree = TheTree
  NewDir <- OnlyB
  Formatted <- Tidied
  Torn = {bad}
  MaxEdits = 2
INVARIANTS SettledMeansServed
PROPERTIES EverySaveIsRead
CHECK_DEADLOCK FALSE
