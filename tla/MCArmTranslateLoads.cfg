\* Fields of a struct.
CONSTANTS
  Locals = 3
  MaxSteps = 4
  MaxWord = 1
  BinOps = {"sub", "or"}
  Conds = {"sge", "ne"}
SPECIFICATION Spec
PROPERTY FieldLoadsSimulate
CHECK_DEADLOCK FALSE
