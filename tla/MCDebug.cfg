SPECIFICATION DebugSpec
CONSTANTS
  Code = {1, 2}
  MinDepth = 2
  MaxDepth = 4
  Depths = {1, 2, 4}
  Listed = 3
  BreakLists <- MCBreakLists
  Limits = {0, 1}
  DefaultLimit = 3
  StackTop = 24
  FrameSizes = {4, 12}
  MaxJump = 8
  MaxFrames = 3
  MaxSteps = 5
  MaxCalls = 4
  MaxLoads = 2
INVARIANT ListsLatest
INVARIANT CountsSound
INVARIANT TracesCallers
CHECK_DEADLOCK FALSE
