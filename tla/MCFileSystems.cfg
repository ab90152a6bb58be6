\* Pairs of operations in every interleaving, and the end of the session.
SPECIFICATION BothSpec
CONSTANTS
    Tasks = {1, 2}
    NoTask = 0
    Kinds <- Pairs
    Copies = {1, 2}
    Paths = {"a", "alias", "b", "new"}
    Files = {"A", "B", "C"}
    AtFirst <- McAtFirst
    Size = 2
    None = None
    Dir = Dir
INVARIANT CopyKeepsItsSource
PROPERTIES Contract SuccessMeansDone SmallOperationsAnswered
CHECK_DEADLOCK FALSE
