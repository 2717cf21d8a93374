SPECIFICATION FairSpec
CONSTANTS
    good = good
    near = near
    far = far
    Texts = {good, near, far}
    Score <- Penalty
    Attempts = 3
    Rounds = 3
    ItemRepair = TRUE
    None = None
INVARIANTS
    ReturnedIsValid
    ValidIsNotLost
    StoppedSoon
PROPERTIES
    ImplementsCandidate
    CandidateEnds
CHECK_DEADLOCK FALSE
