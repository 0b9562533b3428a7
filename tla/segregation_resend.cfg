CONSTANTS
  BURST_SIZE = 2
  RING_SIZES = {4}
  MaxPackets = 4
  Frames <- TwoFrames
  Traffic <- TwoFrames
SPECIFICATION Spec
INVARIANT DrainedPacketsAreSent
