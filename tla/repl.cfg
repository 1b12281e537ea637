SPECIFICATION Spec
CONSTANTS
  Mode = "REPLMode"
  Sessions <- MCSessions
INVARIANTS
  TypeOK
  ParsedAsWritten
  FsmRestored
  NilFree
  LocalsKept
  LinesInOrder
PROPERTIES
  ImplementsPrompt
  Answered
CHECK_DEADLOCK FALSE
