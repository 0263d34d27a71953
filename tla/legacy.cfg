CONSTANTS
    Bufs = {b1}
    MaxEvents = 2
    Faults = {"prepare", "initRaw", "start", "stop", "thread", "genlock", "timeout"}
SPECIFICATION FairSpec
CHECK_DEADLOCK FALSE
INVARIANT TypeOK
INVARIANT PreviewsDoNotOverlap
INVARIANT RecordBuffersHaveOneOwner
INVARIANT CaptureHasItsThread
PROPERTY CallsReturn
