\* A save just after the second segment has filled up.
SPECIFICATION ScrollbackSpec
CONSTANTS
    Limits <- OneLimit
    MaxLines = 4
    MaxRuns = 1
INVARIANT SavedHistoryStays
CHECK_DEADLOCK FALSE
