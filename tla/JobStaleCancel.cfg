SPECIFICATION Spec
CONSTANTS
    Workers = {w1}
    NoWorker = NoWorker
    Cancels = {c1}
    Readers = {}
    MaxAttempts = 1
    MaxStalled = 1
    Faults = {}
INVARIANT AnsweredCancelInterrupts
CHECK_DEADLOCK FALSE
