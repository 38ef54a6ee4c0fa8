\* Four keys in a table that starts with one cell and doubles twice.
CONSTANTS
  Keys = {1, 2, 3, 4}
  Values = {a, b}
  Initial = 1
  MaxCells = 4
  None = None
SPECIFICATION MapSpec
PROPERTY
  IsMultimap
CHECK_DEADLOCK FALSE
