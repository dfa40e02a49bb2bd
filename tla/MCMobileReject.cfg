\* Two requests on one connection whose token the desktop disowns.
SPECIFICATION Spec
CONSTANTS
    Streams = {}
    Sockets <- TwoSockets
    PagesOf <- SameOrOther
    Requests = {1, 2}
    AuthBudget = 2
    GiveUp = 1
    MaxFaults = 1
INVARIANTS UnmarkedWasNotRun
CHECK_DEADLOCK FALSE
