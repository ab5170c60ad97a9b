SPECIFICATION MCSpec
CONSTANTS
    ArgLists <- MCArgLists
    Total = 3
    None = None
    MaxCount = 2
    MaxMembers = 4
    Delimiters <- MCDelimiters
    Pythons = {p1, p2}
    Tests = {help, csaf}
    Wheels = {w1, w2}
    Broken = Broken
    MaxAttempts = 3
    NoWheel = NoWheel
INVARIANT StepPartsTypeOK
INVARIANTS AllOrNothing PublishedIffEarned CallersWordsKept
INVARIANTS OutputsAreTheReport RunnerReadsOutputs
INVARIANT OneOfferedWheel
SYMMETRY MCSymmetry
CHECK_DEADLOCK FALSE
