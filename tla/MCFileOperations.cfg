CONSTANTS
    Folders = {"top", "sub", "low", "other"}
    Shown = "top"
    Sorted <- MCSorted
    FirstTree <- MCFirstTree
    kMaxDeleteDepth = 2
    Destinations <- MCDestinations
    Targets = {"other"}
    MaxOps = 2
    MaxChanges = 1
    Nil = Nil
SPECIFICATION FilesSpec
INVARIANT DoneMeansGone
PROPERTIES NothingReplaced LinksAreNotWalked
CHECK_DEADLOCK FALSE
