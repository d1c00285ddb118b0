SPECIFICATION Spec
CONSTANTS
  Ids = {"a", "b"}
  StructNames = {"S", "string"}
  BasicTypes = {"int"}
  FunctionNames = {"f"}
  Registers <- MCRegisters
  MaxDeclared = 4
  MaxUses = 2
INVARIANTS
  TypeOK
  AcceptsTheLegalPrograms
  UsesReachTheirStorage
