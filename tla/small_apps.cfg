CONSTANTS
  Lcores = 2
  MaxLoops = 2
  RING_SIZE = 4
  Messages = 6
  MaxBlocks = 6
  Events = 4
  LIMIT = 4
  CQ_DEPTH = 3
  EV_MBUFS = 6
  RX_QUEUES = 3
  MaxWorkers = 3
  MaxQueues = 3
  RX_RING = 2
  RSS_BURST = 1
  RSS_MBUFS = 5
  SEQ_MOD = 64
  BURST = 8
  Numbered = 10
  Features = {"Firewall", "NAT", "QoS"}
  MAX_FEATURES = 8
  NULL = NULL
  Macs = {mac1, mac2, mac3}
  HASH_ENTRIES = 2
  MAX_PORTS = 3
SPECIFICATION FairSpec
INVARIANTS SummaryNeverAhead RingCustody EventsConserved FlowsInOrder QueuesCovered
  DrainedInOrder ChainIsEnabled ForwardsWhereLastSeen
PROPERTIES StuckFlowDrainsPool SmallAppsEnd
