SPECIFICATION FormatSpec
CHECK_DEADLOCK FALSE
CONSTANTS
  Formats <- SomeFormats
  Firsts = {1, 2}
  RegWords = 3
  FloatRegs = 1
  Obuf = 4
  TmpLen = 2
  Octet = 2
  Caps = {0, 3, 6}
  MaxPieces = 3
INVARIANT ArgumentsMatch
INVARIANT BufferHoldsText
INVARIANT BufferSafe
