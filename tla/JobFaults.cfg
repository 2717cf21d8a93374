SPECIFICATION Spec
CONSTANTS
    Workers = {w1, w2}
    NoWorker = NoWorker
    Cancels = {c1}
    Readers = {r1}
    MaxAttempts = 2
    MaxStalled = 1
    Faults = {"crash", "lock_loss", "api_crash", "expiry", "key_expiry"}
SYMMETRY Interchangeable
INVARIANT NoStuckRecord
CHECK_DEADLOCK FALSE
