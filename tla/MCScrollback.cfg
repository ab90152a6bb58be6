\* Three runs of one session, with crashes, saves, clears and a changed limit.
SPECIFICATION ScrollbackSpec
CONSTANTS
    Limits <- TwoLimits
    MaxLines = 5
    MaxRuns = 3
INVARIANTS RecentKept ClearedStaysCleared
CHECK_DEADLOCK FALSE
