SPECIFICATION CallsSpec
CHECK_DEADLOCK FALSE
CONSTANTS
  Word = 65536
  MaxIo = 2
  StreamLen = 3
  MaxOutput = 4
  InputLen = 3
  Sizes = {0, 1, 3}
  HostErrors <- SomeErrors
  Habits <- Guests
INVARIANT StreamSound
INVARIANT PositionKnown
PROPERTY ErrnoOnlyByFailure
PROPERTY WritesEnd
