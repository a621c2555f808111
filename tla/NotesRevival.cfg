SPECIFICATION NotesSpec
CONSTANTS
    LegacyNotes <- MCLegacyNotes
    NewNotes <- MCNewNotes
    Requests <- MCRequests
    None = None
    MaxEpochs = 1
    MaxFailures = 1
    MaxLosses = 0
INVARIANTS LegacyStaysRetired
CHECK_DEADLOCK FALSE
