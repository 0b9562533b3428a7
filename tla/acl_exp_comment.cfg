CONSTANTS
  Apps = {"acl_exp"}
  NUM_MBUFS = 4
  BURST_SIZE = 2
  TX_DESC = 2
  Frames <- MCFrames
SPECIFICATION Spec
INVARIANT ExpMatchesSsdp
