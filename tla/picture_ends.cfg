CONSTANTS
  NumSnapshots = 1
  JpegOpens = {FALSE}
  MaxPictures = 2
SPECIFICATION Spec
CHECK_DEADLOCK FALSE
PROPERTY PictureEnds
