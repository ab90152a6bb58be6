CONSTANTS
    Machines = {there}
    Remote = {there}
    Dirs = {"a", "b"}
    Home = "a"
    Raw = "raw"
    Rows <- MCRows
    Content <- MCContent
    Under <- MCUnder
    MaxNav = 3
    MaxBinds = 1
    MaxWrites = 1
    None = None
SPECIFICATION FairSpec
INVARIANTS RestsWhereAsked DoorsLeadSomewhere
PROPERTY LoadingEnds
CHECK_DEADLOCK FALSE
