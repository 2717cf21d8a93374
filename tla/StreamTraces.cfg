SPECIFICATION Spec
CONSTANTS
    runner = runner
    api = api
    Writers = {runner, api}
    PageSize = 2
    MaxEntries = 4
    MaxMarks = 0
    MaxLosses = 1
SYMMETRY WriterSymmetry
INVARIANTS
    ShownInOrder
    NoSilentGaps
CHECK_DEADLOCK FALSE
