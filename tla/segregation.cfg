CONSTANTS
  BURST_SIZE = 3
  RING_SIZES = {3, 8}
  MaxPackets = 6
  Frames <- AllFrames
  Traffic <- TwoFrames
SPECIFICATION Spec
INVARIANTS Custody RingsEmptyAtLoopHead OnlyControlOvertakes ReadsInBounds VlanTransparent
