\* One coordinator drives a DAG: agents report, escalate and exit, prompts fail.
SPECIFICATION Spec
CONSTANTS
    lead = lead  w1 = w1  w2 = w2  w3 = w3
    p1 = p1  p1moved = p1moved  p2 = p2  leaf1 = leaf1
    NoPane = NoPane  NoLeaf = NoLeaf
    Handles = {lead, w1, w2}
    Panes = {p1, p2}
    LeafOf <- PairLeafOf
    PaneOf <- PairPaneOf
    Coord = lead
    InitialTerminals = {lead, w1}
    MaxTasks = 3
    MaxDispatches = 3
    MaxMessages = 2
    MaxGates = 0
    MaxRuns = 1
    MaxConcurrent = 1
    DepChoices <- JoinDeps
    SentTypes = {"worker_done", "escalation"}
    Senders = {w1, w2}
    CheckFilters <- AnyFilter
    ManualStatuses = {}
    Clients = {}
    ResetScopes = {}
    PromptOutcomes = {"ok", "error"}
    DriftOutcomes = {"fresh"}
    TerminalFaults = FALSE
    MaxExits = 1
    MaxCrashes = 0
INVARIANTS OneActiveDispatchPerTask DependenciesFirst ConcurrencyBound BreakerIsFinal
PROPERTIES CompletedIsFinal ImplementsBoard
CHECK_DEADLOCK FALSE
