SPECIFICATION Spec
CONSTANTS
  NBytes = 8
  Byte = {1, 2, 3}
  Blocks <- MCBlocks
  GetLengths = {1, 3, 7}
INVARIANTS
  TypeOK
  CopiesInBounds
PROPERTIES
  ImplementsFifo
