CONSTANTS
  Requests = 20
  RING_SIZE = 2
SPECIFICATION FairSpec
INVARIANT OneMessage
PROPERTIES OnlyPutBacksDelay ImplementsRequestReply
