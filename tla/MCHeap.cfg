SPECIFICATION Spec
CONSTANTS
  Word = 512
  HeapBase = 128
  HeapSize = 120
  CopyMax = 64
  Requests <- ModestRequests
  Arrays <- ModestArrays
INVARIANT HeapWhole
INVARIANT BlocksApart
INVARIANT ReallocKeepsData
PROPERTY ImplementsArena
