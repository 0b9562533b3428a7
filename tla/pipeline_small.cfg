CONSTANTS
  RxLimit = 4
  BURST_SIZE = 3
  RX_RING_SIZE = 4
  TX_RING_SIZE = 4
SPECIFICATION Spec
INVARIANTS Custody CountersAgree ReportIsFinal
PROPERTY ImplementsLossyFifo
