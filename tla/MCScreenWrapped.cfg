CONSTANTS
    maxLines_ = 3
    ptyLineWidth_ = 4
    Cols = 2
    Rows = 2
    marginRight = 1
    Wraps = {TRUE}
    Restored = {0}
    Widths = {1}
    MaxCells = 3
    MaxLength = 4
    MaxCount = 2
    MaxOps = 4
    MaxLooks = 0
SPECIFICATION ScreenSpec
INVARIANTS WrappedIsCurrent
CHECK_DEADLOCK FALSE
