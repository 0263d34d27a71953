CONSTANTS
    MaxStreams = 2
    Kinds = {"zsl", "video"}
    Bufs = {1, 2}
    BundleBufs = {1}
    InitialReg = {{1, 2}, {2}}
    MaxStarts = 2
    Faults = {"add", "get", "reg", "on", "put"}
SPECIFICATION FairSpec
CHECK_DEADLOCK FALSE
INVARIANT TypeOK
INVARIANT BuffersAccountedFor
INVARIANT StackLetsGo
INVARIANT NothingLeftBehind
PROPERTY CallsReturn
PROPERTY FramesComeBack
