CONSTANTS
  Numbers = 7
  RING_SIZE = 8
  SocketDepth = 2
SPECIFICATION FairSpec
INVARIANT DeliveredInOrder
PROPERTY AllConsumed
