SPECIFICATION FairSpec
CONSTANTS
  p1 = p1
  none = none
  noparse = noparse
  Procs <- MCProcs
  NoTask = none
  Addrs <- MCAddrs
  Byte <- MCByte
  Names <- MCNames
  Tokens <- MCTokens
  AddrOf <- MCParse
  DecOf <- MCParse
  NoParse = noparse
  Requests <- MCRequests
  CopyRequests <- MCCopies
  InitialMem <- MCInitialMem
  TargetBytes = {0}
  Pages <- MCPages
  MaxRegions = 2
PROPERTIES EventuallyWritten ShutdownCompletes NoStrayWrite LiveEntriesKept
