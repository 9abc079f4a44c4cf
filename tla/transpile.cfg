SPECIFICATION MCSpec
CONSTANTS
  Types = {"test", "benchmark", "fuzz", "load", "go", "then", "exec", "eventually", "property",
           "profile", "process", "stop", "setup", "expect", "bare", "return", "run", "clause", "mock", "flaw"}
  MaxNodes = 4
  MaxGrammar = 2
  MaxCompiler = 1
  Reverts = FALSE
  Partial = Partial
INVARIANTS FlagsMatchBlocks ExpectationsCount DeclarationsOnce LoadsOwnGrammar
CHECK_DEADLOCK FALSE
