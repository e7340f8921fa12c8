SPECIFICATION Spec
CONSTANTS
  nomemory = nomemory
  NoMemory = nomemory
  AddrSpace = 16
  Bits = 2
  Families <- FirstSearches
  MaxResults = 3
INVARIANT NoCellMissed
