CONSTANTS
    Cameras = {"back", "front"}
    Busy = {"back"}
    MaxOpens = 2
    MaxChannels = 1
    MaxEvents = 1
    Faults = {"open", "sub", "send", "start"}
SPECIFICATION Spec
CHECK_DEADLOCK FALSE
INVARIANT TypeOK
INVARIANT NobodyUsesAFreedObject
INVARIANT AnswerIsForThisRequest
INVARIANT NobodyWaitsInACircle
