SPECIFICATION TilesSpec
CONSTANTS
    s1 = s1
    s2 = s2
    s3 = s3
    w1 = w1
    w2 = w2
    t1 = t1
    t2 = t2
    t3 = t3
    noSession = noSession
    noTile = noTile
    Ids = {s1, s2, s3}
    Windows = {w1, w2}
    Tiles = {t1, t2, t3}
    Size <- Sizes
    MaxSize <- Room
    Gap = 1
    Noisy = {s1}
    Chosen = {s1}
    Movable = {s1}
    NoSession = noSession
    NoTile = noTile
SYMMETRY Alike
INVARIANTS InputIsShown UnreadIsKept TabsKeepTheirPlace FitIsLayout
CHECK_DEADLOCK FALSE
