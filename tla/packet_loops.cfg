CONSTANTS
  Apps <- MCApps
  NUM_MBUFS = 5
  BURST_SIZE = 3
  TX_DESC = 2
  Frames <- MCFrames
SPECIFICATION FairSpec
INVARIANTS MbufsConserved NatRoundTrip AclForwardsTheRule
PROPERTIES OnlyFullQueueLoses PoolRecovers
