\* A gate raised by mail or by hand, failing prompts, stale trees and escalations on a chain of two tasks; workers that report end the run.
SPECIFICATION LoopSpec
CONSTANTS
    lead = lead  w1 = w1  w2 = w2  w3 = w3
    p1 = p1  p1moved = p1moved  p2 = p2  leaf1 = leaf1
    NoPane = NoPane  NoLeaf = NoLeaf
    Handles = {lead, w1, w2}
    Panes = {p1, p2}
    LeafOf <- PairLeafOf
    PaneOf <- PairPaneOf
    Coord = lead
    InitialTerminals = {lead, w1}
    MaxTasks = 2
    MaxDispatches = 2
    MaxMessages = 2
    MaxGates = 1
    MaxRuns = 1
    MaxConcurrent = 1
    DepChoices <- ChainDeps
    SentTypes = {"worker_done", "decision_gate", "escalation"}
    Senders = {w1}
    CheckFilters <- NoFilters
    ManualStatuses = {}
    Clients = {}
    ResetScopes = {}
    PromptOutcomes = {"ok", "error"}
    DriftOutcomes = {"fresh", "stale"}
    TerminalFaults = FALSE
    MaxExits = 0
    MaxCrashes = 0
INVARIANTS GateBlocks
PROPERTIES StopIsHonoured RunEnds
CHECK_DEADLOCK FALSE
