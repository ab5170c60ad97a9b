SPECIFICATION MCSpec
CONSTANTS
    Names = {"n"}
    Values = {"a"}
    Runtimes = {"composite"}
    Pythons = {"3.13", "3.14"}
    Packages = {"0.1"}
    None = None
    History <- MCHistory
    MaxComponent = 1
    MaxReleases = 3
    Revisions <- MCRevisions
    Messages <- MCMessages
    Limit = 2
    ManualVersions <- MCVersions
    Runs = {r1, r2}
    MaxCommits = 3
    MaxTags = 3
    MaxChecks = 3
    MaxLines = 6
INVARIANTS PlannerPartsTypeOK PromiseKept
INVARIANTS PromiseSurvivesStaleChecks AccountedSomewhere RefusalsStayRight
INVARIANT CleanMessagesAsDocumented
PROPERTY TrailersAddNothing
SYMMETRY MCSymmetry
CHECK_DEADLOCK FALSE
