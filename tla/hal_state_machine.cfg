CONSTANTS
  ZslModes = {FALSE, TRUE}
  HintStores = {FALSE, TRUE}
  NeedRestarts = {FALSE, TRUE}
  Faults = {"add", "start", "request", "params"}
  MaxPictures = 3
SPECIFICATION Spec
CHECK_DEADLOCK TRUE
INVARIANT TypeOK
INVARIANT StreamsFitTheState
INVARIANT PictureHasPostprocessor
PROPERTY NotifiesPictures
INVARIANT PreviewSurvives
INVARIANT PostprocessorStoppedOutsidePictures
