CONSTANTS
    Sizes <- MCSizes
    First <- MCFirst
    ptyLineWidth_ = 9
    Wraps = {FALSE}
    MaxCount = 2
    MaxHeard = 1
SPECIFICATION Spec
INVARIANT GridFillsView
PROPERTY MarginsHold
