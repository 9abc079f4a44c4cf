SPECIFICATION Spec
CONSTANTS
  Fields <- FactoryFields
  Files <- FilesWritten
  KeyNames <- SomeKeys
  Values <- SomeValues
  Blocks <- BlocksWritten
  Missing = Missing
  RowsWritten <- CellRows
  GoReading <- Readings
  Width = 4
  Precision = 2
  Calls <- CallsMade
  MaxSize = 1
  Shapes = {"block", "checked", "verbatim", "fields", "error", "missing"}
INVARIANTS MatrixIsProduct
CHECK_DEADLOCK FALSE
