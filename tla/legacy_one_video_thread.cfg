CONSTANTS
    Bufs = {b1}
    MaxEvents = 2
    Faults = {}
SPECIFICATION Spec
CHECK_DEADLOCK FALSE
INVARIANT OneVideoThread
