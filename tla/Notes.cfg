SPECIFICATION NotesFairSpec
CONSTANTS
    LegacyNotes <- MCLegacyNotes
    NewNotes <- MCNewNotes
    Requests <- MCRequests
    None = None
    MaxEpochs = 2
    MaxFailures = 3
    MaxLosses = 1
INVARIANTS NotesInv UpdatesAreSerial WatermarkIsFinal WritesUnderOwnEpoch AnswersAreTrue
PROPERTIES RetryIsAnswered
CHECK_DEADLOCK FALSE
