\* Two edits on the same connection or on two, one saved up to three times,
\* two kinds of failure, and connections that are lost, replaced and closed.
SPECIFICATION FairSpec
CONSTANTS
    Edits = {1, 2}
    Filesystems = {f1, f2}
    NoFs = none
    Errors = {"lost", "full"}
    Lost = "lost"
    MaxSaves <- ThreeAndNone
    Torn = torn
    Unread = unread
INVARIANT SilenceMeansSaved
PROPERTIES EndedIsOver SavesAreAnswered
CHECK_DEADLOCK FALSE
