\* A save made after the connection was lost.
SPECIFICATION FairSpec
CONSTANTS
    Edits = {1}
    Filesystems = {f1}
    NoFs = none
    Errors = {"lost"}
    Lost = "lost"
    MaxSaves <- OneSave
    Torn = torn
    Unread = unread
PROPERTY NoSilentLoss
CHECK_DEADLOCK FALSE
