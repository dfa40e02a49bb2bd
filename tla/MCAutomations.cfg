\* Two automations, served headless or by a window: two runs, one edit, restart or reload.
SPECIFICATION FairSpec
CONSTANTS
    Occurrences <- OneSchedule
    Count = 2
    MaxRuns = 2
    MaxTime = 2
    MaxUpsets = 1
    Grace = 0
    MaxKept = 1
INVARIANTS TypeOK OneRunPerOccurrence DispatchedOnce LateResultsLand SkippedNeverRan
PROPERTIES FinalIsKept DueIsServed RequestSettles
CHECK_DEADLOCK FALSE
