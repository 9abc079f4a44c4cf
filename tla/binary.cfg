SPECIFICATION Spec
CONSTANTS
  N = 3
  Plans <- Mixed
  Rows = 2
  MaxParallel = 2
  MaxLate = 2
INVARIANTS SerialAlone TeardownLast SerialRowsAreSeen LeakReportsTrue
PROPERTIES TestsEnd
