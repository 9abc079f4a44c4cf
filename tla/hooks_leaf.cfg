SPECIFICATION Spec
CONSTANTS
  Types = {"bdd", "each", "before", "after", "stmt"}
  MaxNodes = 4
INVARIANTS LeafHooksKept
CHECK_DEADLOCK FALSE
