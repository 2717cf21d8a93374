SPECIFICATION FairSpec
CONSTANTS
    Workers = {w1}
    NoWorker = NoWorker
    Cancels = {c1, c2}
    Readers = {r1}
    MaxAttempts = 3
    MaxStalled = 1
    Faults = {"crash"}
INVARIANTS
    CancelReachesRun
    RemovedStaysCancelled
    RecordOutlivesRuns
PROPERTIES
    TerminalIsFinal
    ImplementsJobSpec
    EveryJobEnds
CHECK_DEADLOCK FALSE
