CONSTANTS
  Requests = 20
  RING_SIZE = 2
SPECIFICATION FairSpec
INVARIANT PingPong
PROPERTIES BothFinish ImplementsRequestReply
