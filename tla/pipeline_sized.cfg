CONSTANTS
  RxLimit = 5
  BURST_SIZE = 3
  RX_RING_SIZE = 8
  TX_RING_SIZE = 8
SPECIFICATION FairSpec
INVARIANT SizedRingsLoseNothing
PROPERTY Termination
