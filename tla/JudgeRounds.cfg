SPECIFICATION FairSpec
CONSTANTS
    title = title
    bullets = bullets
    terms = terms
    translation = translation
    Sections = {title, bullets, terms}
    Unslotted = {translation}
    Ignored = {terms}
    Texts = {A, B}
    MaxRounds = 2
    None = None
INVARIANTS
    TranslationsFit
    IssuesAreCurrent
PROPERTIES
    RepairsAreAskedFor
    PipelineEnds
CHECK_DEADLOCK FALSE
