SPECIFICATION FairSpec
CONSTANTS
    Ids <- McIds
    Profiles <- McProfiles
    Kinds = {"ssh", "pty", "serial"}
    MaxConns = 1
    MaxRequests = 2
    MaxPosts = 1
    MaxOutput = 1
INVARIANTS EngineFollowsSession PanelHasLatest
PROPERTIES LinkContract StopReturns LossNoticed
CHECK_DEADLOCK FALSE
