CONSTANTS
    maxLines_ = 3
    ptyLineWidth_ = 4
    Cols = 2
    Rows = 2
    marginRight = 1
    Wraps = {FALSE, TRUE}
    Restored = {0}
    Widths = {1}
    MaxCells = 2
    MaxLength = 4
    MaxCount = 2
    MaxOps = 3
    MaxLooks = 1
SPECIFICATION ScreenSpec
INVARIANTS ShownIsCurrent ReadingStays
CHECK_DEADLOCK FALSE
