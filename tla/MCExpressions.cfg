CONSTANTS
  Ops = {"-", "/", "<", "==", "&&", "||"}
  MaxNodes = 5
SPECIFICATION Spec
INVARIANT TypeOK
INVARIANT TypedIsAccepted
INVARIANT AcceptedIsTyped
INVARIANT ComputesTheStatement
INVARIANT AssignedOnce
INVARIANT AgreesOnPointersAndInts
CHECK_DEADLOCK FALSE
