SPECIFICATION Spec
CONSTANTS
    Versions = {10000, 10001, 10100}
    Commits = {0, 1, 2}
    Ancestry <- MCAncestry
    Metas <- MCMetas
    Taggers = {"app"}
    Legacy = Legacy  Lightweight = Lightweight
    NoTag = NoTag
    None = None
    Runs = {1, 2, 3}
    Fixes = {1}  Features = {2}
    RequiredBump <- MCRequiredBump
    ManualTags = {10001}
    Editable = {10001}  Edited = Edited
    InitialTags <- FirstRelease
INVARIANTS TypeOK HighestReleaseIsLatest ReleasesAgreeWithTags PublishedAfterCi ReconciledTagStands
PROPERTIES LatestNeverGoesBack VerifiedAsBound
CHECK_DEADLOCK FALSE
