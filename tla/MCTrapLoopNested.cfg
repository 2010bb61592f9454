SPECIFICATION Spec
CONSTANTS
  MaxDepth = 4
  MaxElems = 1
  ExitCodes <- NaturalCodes
  Nested = TRUE
INVARIANT ControlMatchesStack
