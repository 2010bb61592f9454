SPECIFICATION ImageSpec
CONSTANTS
  Word <- MCWord
  MaxSects = 3
  Files <- MCFiles
  SymbolTables <- MCSymbolTables
  Addresses <- MCAddresses
INVARIANT ReadsInFile
INVARIANT ParsedWhole
INVARIANT SymtabAgrees
INVARIANT SearchSound
INVARIANT NamedAfterNearest
PROPERTY LookupEnds
CHECK_DEADLOCK FALSE
