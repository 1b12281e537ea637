CONSTANTS
  A = A
  B = B
  M = M
  Names = {A, B, M}
  ModuleNames = {M}
  MethodNames = {"f"}
  MaxClasses = 3
  MaxCopies = 2
  MaxDefs = 2
  MaxAliases = 1
  MaxParts = 4
  MaxStack = 2
SPECIFICATION Spec
INVARIANTS TypeOK AnswersFromAncestors LookupsEnd RelationsAgree
PROPERTIES ImplementsHierarchy SuperclassAsNamed
SYMMETRY Symmetry
CHECK_DEADLOCK FALSE
