CONSTANTS
  Locals = 3
  MaxSteps = 4
  MaxWord = 1
  BinOps = {"sub", "sdiv", "or"}
  Conds = {"eq", "ne", "sgt", "sge", "slt", "sle"}
SPECIFICATION Spec
INVARIANTS
  CoveredSimulates
  RegistersExist
CHECK_DEADLOCK FALSE
