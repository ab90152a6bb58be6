\* Two stats end up waiting on one reply.
SPECIFICATION BothSpec
CONSTANTS
    Tasks = {1, 2}
    NoTask = 0
    Kinds <- TwoStats
    Copies = {1, 2}
    Paths = {"a", "alias", "b", "new"}
    Files = {"A", "B", "C"}
    AtFirst <- McAtFirst
    Size = 2
    None = None
    Dir = Dir
INVARIANT OwnReplies
CHECK_DEADLOCK FALSE
