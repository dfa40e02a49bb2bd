\* Two screencasts and a request over two connections, with one fault.
SPECIFICATION FairSpec
CONSTANTS
    Streams <- TwoStreams
    Sockets <- TwoSockets
    PagesOf <- SameOrOther
    Requests = {1}
    AuthBudget = 2
    GiveUp = 1
    MaxFaults = 1
INVARIANTS TypeOK OneConnection FailedWasNotRun FramesReachOwnStream NoOrphanCast
PROPERTIES StreamsResume
CHECK_DEADLOCK FALSE
