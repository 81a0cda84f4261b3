SPECIFICATION FairSpec
CONSTANTS
    Order <- TwoDaemons
    TriggerRequests = {t1}
    RestartRequests = {q1}
    WatchResets = TRUE
    AskedWhenReady = TRUE
    MaxInstances = 3
    None = None
    Langs = {en, fr, be}
    en = en
    fr = fr
    be = be
    English = en
    Sections <- ThreeSections
    Unnoted = {"pwr"}
    Sources <- CommonFirst
    Names = {"a", "b"}
    Plurals = {"p"}
    Directories <- Both
    FileSets <- SomeFiles
    NoFile = NoFile
    NoLang = NoLang
    NotLoaded = NotLoaded
    Empty = Empty
INVARIANTS LanguagesAreComplete FilesTakePrecedence
PROPERTIES InstancesAreApart 
CHECK_DEADLOCK FALSE
