SPECIFICATION NotesSpec
CONSTANTS
    MaxRuns = 2
    MaxNotes = 2
    MaxRecords = 3
    Texts = {t1, t2}
    Nothing = Nothing
INVARIANTS
    NotesAreOfTheRun
CHECK_DEADLOCK FALSE
