SPECIFICATION BindSpec
CHECK_DEADLOCK FALSE
CONSTANTS
  hle_table <- Table
  Unknown <- NotInTable
  Pointers = 5
  TrapSlots = 9
  PTHREAD_RET = 7
  BSEARCH_RET = 8
  HEADER_TRAP = 1
  NAME_TRAP = 0
INVARIANT TrapsWhole
INVARIANT ImportsRunTheirOwn
PROPERTY AllBound
