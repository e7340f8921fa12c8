SPECIFICATION Spec
CONSTANTS
  nomemory = nomemory
  first = first
  NoMemory = nomemory
  AddrSpace = 8
  Bits = 1
  Names <- OneName
  Unnamed = unnamed
  Types = {"data"}
  Requests <- DataRequests
  Values = {1}
  Pages <- MCPages
  Rams <- FallingRams
  DeleteEnds = {}
  MaxResults = 3
  MaxIterations = 3
  MaxTotal = 3
INVARIANT DataResultsSound
