SPECIFICATION Spec
CONSTANTS
    Versions = {10000, 10001}
    Commits = {0, 1}
    Ancestry <- MCAncestry
    Metas <- MCMetas
    Taggers = {"app"}
    Legacy = Legacy  Lightweight = Lightweight
    NoTag = NoTag
    None = None
    Runs = {1, 2}
    Fixes = {1}  Features = {}
    RequiredBump <- MCRequiredBump
    ManualTags = {10000}
    Editable = {}  Edited = Edited
    InitialTags <- FirstRelease
INVARIANTS PromotionIsBlamedRightly
CHECK_DEADLOCK FALSE
