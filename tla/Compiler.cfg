SPECIFICATION CompilerSpec
CONSTANTS
    title = title
    bullets = bullets
    description = description
    terms = terms
    faq = faq
    Translation = translation
    Sections = {title, bullets, description, terms, faq}
    Derived = {terms}
    TemplateNames = {"strict", "light"}
    Profiles = {"fast", "default", "strict", "ghost"}
    Registered = {"fast", "default", "strict"}
    Limit <- Writers
    Reviewable = {title, bullets}
    DefaultOverride <- RegistryOverride
    DefaultTemplate <- RegistryTemplate
    DefaultProfile <- RegistryProfile
    DefaultConcurrency = 4
    Parts = 2
    Rules <- SomeRules
    None = None
INVARIANTS
    GroupsInOrder
    PlansCanRun
    OwnWordsCount
CHECK_DEADLOCK FALSE
