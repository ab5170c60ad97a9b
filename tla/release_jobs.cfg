SPECIFICATION MCSpec
CONSTANTS
    Gates = {g}
    MaxEdits = 2
    None = None
    Notes = {n1, n2}
    Garbled = Garbled
    MaxAttempts = 3
    NoNotes = NoNotes
    MaxSymbols = 7
INVARIANT JobPartsTypeOK
INVARIANTS PassedWhileProtected UneditedIsAccepted UneditedTagIsOurs
PROPERTY GreenIsForever
INVARIANTS NotesAreBound MissedMeansExpired
INVARIANT SubjectsAreData
CHECK_DEADLOCK FALSE
