SPECIFICATION FairSpec
CONSTANTS
    runner = runner
    api = api
    Writers = {runner}
    PageSize = 2
    MaxEntries = 1
    MaxMarks = 3
    MaxLosses = 1
INVARIANTS
    EndIsTold
    TimersEndWithStream
PROPERTIES
    EndedJobEndsStream
CHECK_DEADLOCK FALSE
