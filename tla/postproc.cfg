CONSTANTS
  NumSnapshots = 1
  JpegOpens = {FALSE, TRUE}
  MaxPictures = 3
SPECIFICATION Spec
CHECK_DEADLOCK FALSE
INVARIANT TypeOK
INVARIANT FramesAccountedFor
INVARIANT NothingStranded
PROPERTY StopEnds
PROPERTY NotifiesPictures
