SPECIFICATION Spec
CONSTANTS
  p1 = p1
  none = none
  noparse = noparse
  Procs <- MCProcs
  NoTask = none
  Addrs <- MCAddrs
  Byte <- MCByte
  Names <- MCNames
  Tokens <- MCTokens
  AddrOf <- MCAddrOf
  DecOf <- MCDecOf
  NoParse = noparse
  Requests <- MCRequests
  CopyRequests = {}
  InitialMem <- MCInitialMem
  TargetBytes = {}
  Pages = {}
  MaxRegions = 3
INVARIANTS TypeOK TablesConsistent WritesAreFrozen
PROPERTIES TableImplemented
