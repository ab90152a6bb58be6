\* Two sessions, two windows, one reconnect.
SPECIFICATION Spec
CONSTANTS
    Ids = {1, 2}
    NoSession = 0
    Kinds <- LineAndLocal
    Movable = {1}
    Windows = {"a", "b"}
    First = "a"
    NoWindow = "none"
    MaxLinks = 2
INVARIANTS NoticeIsAboutTheLink PointersAgree EndsAreHeard
CHECK_DEADLOCK FALSE
