SPECIFICATION Spec
CHECK_DEADLOCK FALSE
CONSTANTS
  FDMAP_BASE = 6
  FDMAP_SIZE = 2
  MaxHost = 4
  StreamSlots = 1
  MaxMade = 6
  Guests <- BothKinds
INVARIANT DescriptorsOwned
INVARIANT NeverAnother
PROPERTY NotGivenTwice
