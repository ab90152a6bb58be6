\* Two jobs and a tree, both prompts, every cancel, and a server whose link
\* drops and whose session closes at every moment of them.
SPECIFICATION Spec
CONSTANTS
    Local = Local
    A = A
    B = B
    NoFs = NoFs
    Remotes = {A, B}
    Mortal = {A}
    Routes <- Across
    MaxJobs = 2
    MaxDirs = 1
    MaxLeaves = 1
    MaxSubdirs = 1
    MaxTreeDepth = 3
    MaxRenameAttempts = 1
    MaxSpaceProbes = 1
    RelayRoots = {TRUE}
INVARIANTS NeverStalled OneCheckOut WeighedBeforeStart CancelLeavesNothing
    InFlightIsAwaited
PROPERTY SessionTakesItsJobs
CHECK_DEADLOCK FALSE
