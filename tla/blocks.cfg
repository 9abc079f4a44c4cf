SPECIFICATION BlocksSpec
CONSTANTS
  Types = {"bdd", "each", "before", "after", "stmt"}
  MaxNodes = 5
  Windows = {0, 1, 12}
  MaxExpects = 2
  Gap = 2
  Lag = 1
  Buffers = {0, 1, 2}
  Durations = {0, 1, 2}
  Awaits = {w1, w2, w3}
  Sends = 3
  b1 = b1
  b2 = b2
  b3 = b3
  b4 = b4
  n1 = n1
  n2 = n2
  v1 = v1
  Snapshots = {b1, b2, b3, b4}
  Name <- Shared
  Values = {v1, v2}
  Modes = {"compare", "update"}
  Parallel = {b2, b3, b4}
  Faults = {"read", "write", "interrupt"}
  Missing = Missing
  Partial = Partial
INVARIANTS HooksReachLeaves HooksStayInScope EventuallySees PassesAreFresh
  ConsistentlyNotices AwaitsTakeInOrder RunsRecord DriftFails
PROPERTIES WaitsEnd OnlyUpdatesOverwrite
CHECK_DEADLOCK FALSE
