SPECIFICATION QuietSpec
CONSTANTS
    Versions = {10000, 10001, 10100, 10101}
    Commits = {0, 1, 2, 3}
    Ancestry <- MCAncestry
    Metas <- MCMetas
    Taggers = {"app"}
    Legacy = Legacy  Lightweight = Lightweight
    NoTag = NoTag
    None = None
    Runs = {1, 2, 3}
    Fixes = {3}  Features = {1}
    RequiredBump <- MCRequiredBump
    ManualTags = {}
    Editable = {}  Edited = Edited
    InitialTags <- LegacyRelease
PROPERTIES EveryCommitReleased
CHECK_DEADLOCK FALSE
