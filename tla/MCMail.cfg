\* Lifecycle mail from two handles of one pane and from a stranger, read by the loop and by orchestration.check.
SPECIFICATION Spec
CONSTANTS
    lead = lead  w1 = w1  w2 = w2  w3 = w3
    p1 = p1  p1moved = p1moved  p2 = p2  leaf1 = leaf1
    NoPane = NoPane  NoLeaf = NoLeaf
    Handles = {lead, w1, w2, w3}
    Panes = {p1, p1moved}
    LeafOf <- TwinLeafOf
    PaneOf <- TwinPaneOf
    Coord = lead
    InitialTerminals = {lead, w1, w2, w3}
    MaxTasks = 1
    MaxDispatches = 2
    MaxMessages = 2
    MaxGates = 0
    MaxRuns = 1
    MaxConcurrent = 1
    DepChoices <- NoDeps
    SentTypes = {"worker_done", "heartbeat", "status"}
    Senders = {w1, w2, w3}
    CheckFilters <- MailFilters
    ManualStatuses = {}
    Clients = {}
    ResetScopes = {"messages", "all"}
    PromptOutcomes = {"ok"}
    DriftOutcomes = {"fresh", "stale"}
    TerminalFaults = TRUE
    MaxExits = 1
    MaxCrashes = 1
INVARIANTS LifecycleAuthority EarlierHeartbeatsAreRead
CHECK_DEADLOCK FALSE
