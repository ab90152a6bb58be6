\* Sessions that drop and close under queued, running and cancelled jobs.
SPECIFICATION Spec
CONSTANTS
    Local = Local
    A = A
    B = B
    NoFs = NoFs
    Remotes = {A, B}
    Mortal = {A}
    Routes <- ThreeWays
    MaxJobs = 2
    MaxDirs = 0
    MaxLeaves = 1
    MaxSubdirs = 1
    MaxTreeDepth = 3
    MaxRenameAttempts = 1
    MaxSpaceProbes = 1
    RelayRoots = {TRUE, FALSE}
INVARIANTS QueuedIsAddressed InFlightIsAwaited
PROPERTY SessionTakesItsJobs
CHECK_DEADLOCK FALSE
