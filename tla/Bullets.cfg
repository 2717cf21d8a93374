SPECIFICATION FairSpec
CONSTANTS
    LineTexts <- Texts
    Nothing = Nothing
    Answers <- OneOrNone
    Excess <- ExcessOf
    Words <- WordsOf
    Branded <- BrandNames
    LineCount = 2
    Keywords = 3
    MaxRounds = 3
INVARIANTS
    AcceptedIsValid
PROPERTIES
    RepairsDoNotHarm
    RepairEnds
CHECK_DEADLOCK FALSE
