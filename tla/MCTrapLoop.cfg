SPECIFICATION Spec
CONSTANTS
  MaxDepth = 3
  MaxElems = 4
  ExitCodes <- NaturalCodes
  Nested = FALSE
INVARIANT TypeOK
INVARIANT ControlMatchesStack
INVARIANT CallsAnswered
INVARIANT ExitHonoured
PROPERTY CallsAreSynchronous
PROPERTY QuietGuestEnds
