SPECIFICATION Spec
CONSTANTS
  nomemory = nomemory
  NoMemory = nomemory
  AddrSpace = 16
  Bits = 2
  Families <- MCFamilies
  MaxResults = 3
INVARIANTS ComputesUpdate AscendingSoFar IntegersReadInside 
PROPERTY Terminates
