SPECIFICATION Spec
CHECK_DEADLOCK FALSE
CONSTANTS
  ADDRESSES <- Addresses
  PAGE = 64
  PAGES = 17
  WINDOW <- Window
  Stub <- StubAt
  Misc <- MiscAt
  Rune <- RuneAt
  SF <- SFAt
  Heap <- HeapAt
  Shim <- ShimAt
  Traps <- TrapsAt
  HINT = 3
  STACK_TOP = 960
  STACK_SIZE = 128
  Images <- SomeImages
  Commands <- SomeCommands
  MaxPages = 2
  Habits = {}
INVARIANT TrapsFault
INVARIANT HostMemoryIsOwn
INVARIANT ArgumentsPlaced
