SPECIFICATION FairSpec
CONSTANTS
    title = title
    bullets = bullets
    terms = terms
    Sections = {title, bullets, terms}
    GroupOf <- TwoGroups
    Groups = 2
    Derived = {terms}
    CandidateCount <- TwoCandidates
    MaxCandidates = 2
    ItemRepair = {bullets}
    Tries = 2
    MaxRuns = 3
    None = None
INVARIANTS
    NoOrphans
    SuccessesAreSaved
    BlamedIsMissing
PROPERTIES
    ImplementsSectionRun
    EveryRunEnds
CHECK_DEADLOCK FALSE
