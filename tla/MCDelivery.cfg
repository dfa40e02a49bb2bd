\* Long polls of check --wait and ask, which compete for two slots, and push-on-idle delivery beside them: filters, limits, timers, disconnects, failing writes, late Enter keys and exits.
SPECIFICATION Spec
CONSTANTS
    lead = lead  w1 = w1
    Handles = {lead, w1}
    Calls = {c1, c2}
    c1 = c1  c2 = c2
    NoFilter = NoFilter
    HandleBytes <- TwoHandleBytes
    maxWaiters = 2
    maxWaitersPerHandle = 2
    maxHandleBytes = 3
    maxRetainedHandleBytes = 4
    MaxMessages = 2
    MaxTimers = 2
    Coord = lead
    SendTypes = {"status", "worker_done", "heartbeat"}
    SendThreads = {0}
    FilterChoices <- WorkFilter
    Modes = {"unread"}
    Asks = TRUE
    Groups = TRUE
    Agents = {lead, w1}
    UserOwned = {lead}
    WriteFaults = TRUE
INVARIANTS TypeOK SlotsAreExact NoLostWakeup DeliveredWasShown ReadWasSeen
SYMMETRY CallSymmetry
CHECK_DEADLOCK FALSE
