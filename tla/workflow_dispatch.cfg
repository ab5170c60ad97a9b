SPECIFICATION DispatchedSpec
CONSTANTS
    Versions = {10000, 10001, 10002}
    Commits = {0, 1, 2}
    Ancestry <- MCAncestry
    Metas <- MCMetas
    Taggers = {"app"}
    Legacy = Legacy  Lightweight = Lightweight
    NoTag = NoTag
    None = None
    Runs = {1, 2, 3}
    Fixes = {1, 2}  Features = {}
    RequiredBump <- MCRequiredBump
    ManualTags = {10000}
    Editable = {}  Edited = Edited
    InitialTags <- FirstRelease
PROPERTIES LaterRunEvaluates
CHECK_DEADLOCK FALSE
