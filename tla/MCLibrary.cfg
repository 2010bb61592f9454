SPECIFICATION LibrarySpec
CHECK_DEADLOCK FALSE
CONSTANTS
  CopyCap = 2
  BlockCap = 2
  StrCap = 3
  SetCap = 2
  ByteBits = 1
  FdBits = 8
  FirstSocket = 3
  SocketSlots = 4
  Top = 4
  Letters = {0, 1, 2}
  Lengths = {0, 1, 2, 3}
  Memories <- SomeMemories
  SlotMaps <- SomeMaps
  AskedSets <- SomeAsked
INVARIANT AgreesWithC
INVARIANT SelectAnswersAsked
