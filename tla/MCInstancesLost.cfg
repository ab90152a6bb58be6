CONSTANTS
    Pids = {p, q}
    MaxSlots = 2
    Uuids = {u}
    Refused = {}
    Names = {n}
    Unwritable = {}
    MaxAsked = 1
    AtOnce = 1
    AutoSave = FALSE
    Nobody = Nobody
SPECIFICATION Spec
INVARIANTS OpenIsSaved
