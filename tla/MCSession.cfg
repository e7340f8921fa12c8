SPECIFICATION Spec
CONSTANTS
  nomemory = nomemory
  first = first
  NoMemory = nomemory
  AddrSpace = 8
  Bits = 1
  Names <- OneName
  Unnamed = unnamed
  Types = {"u8"}
  Requests <- MCRequests
  Values = {1}
  Pages <- MCPages
  Rams <- MCRams
  DeleteEnds = {2, 7}
  MaxResults = 3
  MaxIterations = 2
  MaxTotal = 3
INVARIANTS TypeOK ResultsInSnapshot ResultsSound UnknownSearchComplete  IterationsNarrow
