\* The handlers beside the loop: manual dispatches, status overrides, task resets and an exit, over two handles of one pane.
SPECIFICATION Spec
CONSTANTS
    lead = lead  w1 = w1  w2 = w2  w3 = w3
    p1 = p1  p1moved = p1moved  p2 = p2  leaf1 = leaf1
    NoPane = NoPane  NoLeaf = NoLeaf
    Handles = {lead, w1, w2}
    Panes = {p1, p1moved}
    LeafOf <- TwinLeafOf
    PaneOf <- TwinPaneOf
    Coord = lead
    InitialTerminals = {w1, w2}
    MaxTasks = 2
    MaxDispatches = 2
    MaxMessages = 1
    MaxGates = 0
    MaxRuns = 1
    MaxConcurrent = 1
    DepChoices <- NoDeps
    SentTypes = {}
    Senders = {}
    CheckFilters <- NoFilters
    ManualStatuses = {"ready", "completed"}
    Clients = {"cli"}
    ResetScopes = {"tasks"}
    PromptOutcomes = {"ok"}
    DriftOutcomes = {"fresh"}
    TerminalFaults = FALSE
    MaxExits = 1
    MaxCrashes = 0
INVARIANTS TypeOK DispatchLock DispatchedIsAssigned
CHECK_DEADLOCK FALSE
