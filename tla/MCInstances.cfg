CONSTANTS
    Pids = {p, q}
    MaxSlots = 2
    Uuids = {u}
    Refused = {}
    Names = {n}
    Unwritable = {}
    MaxAsked = 1
    AtOnce = 2
    AutoSave = TRUE
    Nobody = Nobody
SPECIFICATION Spec
SYMMETRY Alike
VIEW Seen
INVARIANTS SlotsAreOwned NumbersAreClean
PROPERTY SweepsSpareTheLiving
