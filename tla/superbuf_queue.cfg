CONSTANTS
  NumStreams = 2
  NumBufs = 3
  NotifyModes = {"BURST", "CONTINUOUS"}
  WaterMark = 1
  LookBack = 0
  PostFrameSkip = 2
  MaxFrame = 5
  Requests = {2}
  MaxRequests = 1
  MaxFaults = 1
SPECIFICATION Spec
CHECK_DEADLOCK FALSE
INVARIANT TypeOK
INVARIANT SuperBufsInStep
INVARIANT BuffersAccountedFor
INVARIANT NeverSpins
INVARIANT IdleHalLeavesBuffers
