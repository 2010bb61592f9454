SPECIFICATION Spec
CONSTANTS
  StreamSlots = 5
  HostMax = 3
  Files <- TwoLines
  Input <- Typed
  ReadSizes = {1, 2}
  LineSizes = {3}
  Habits <- AnyFourth
INVARIANT SlotsMatchHost
INVARIANT OnlyTailsLost
INVARIANT FlagsTrue
