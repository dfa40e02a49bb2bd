\* Long polls end, and mail for an agent that keeps taking turns is shown to it.
SPECIFICATION PushSpec
CONSTANTS
    lead = lead  w1 = w1  c1 = c1  c2 = c2
    Handles = {lead, w1}
    Calls = {c1}
    NoFilter = NoFilter
    HandleBytes <- TwoHandleBytes
    maxWaiters = 1
    maxWaitersPerHandle = 1
    maxHandleBytes = 3
    maxRetainedHandleBytes = 3
    MaxMessages = 2
    MaxTimers = 1
    Coord = lead
    SendTypes = {"status"}
    SendThreads = {0}
    FilterChoices <- AnyFilter
    Modes = {"unread"}
    Asks = TRUE
    Groups = FALSE
    Agents = {w1}
    UserOwned = {}
    WriteFaults = FALSE
PROPERTIES MailIsPushed WaitEnds
CHECK_DEADLOCK FALSE
