CONSTANTS
  ZslModes = {FALSE}
  HintStores = {FALSE}
  NeedRestarts = {FALSE}
  Faults = {}
  MaxPictures = 2
SPECIFICATION Spec
CHECK_DEADLOCK TRUE
INVARIANT NoOrphanedChannel
