CONSTANTS
    Keys = {a1, a2, a3, a4}
    NoKey = NoKey
    Samples = {1, 2, 3, 4, 5}
    NoSample = 0
    MaxThings = 5
    MaxActive = 2
    Capacity = 2
SPECIFICATION Spec
INVARIANTS
    HistoryIsRight
    OneSlotPerKey
    RequestsTracked
SYMMETRY MCSymmetry
CHECK_DEADLOCK FALSE
