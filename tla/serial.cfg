SPECIFICATION FairSpec
CONSTANTS
  NBytes = 4
  UART_RX_FIFO_SIZE = 2
  Reader = reader
  Writer = writer
  Higher = {reader}
  ReadLengths = {2}
  WriteLengths = {4}
  LineFast = FALSE
INVARIANTS
  TypeOK
  RxInOrder
  TakesWhatIsThere
  NoStaleEvent
PROPERTIES
  TxInOrder
  TxDrains
CHECK_DEADLOCK FALSE
