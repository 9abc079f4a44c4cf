SPECIFICATION DiagnosticsSpec
CONSTANTS
  MaxSize = 3
  Shapes = {"verbatim", "fields"}
INVARIANTS AcceptedDropsNothing
CHECK_DEADLOCK FALSE
