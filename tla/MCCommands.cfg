CONSTANTS
    None = None
    Beeps = 4
    Savers = {"handler", "updates"}
    NumFields = 2
    Disabled = {"unlock"}
    MaxAlarms = 3
    Loads <- MCLoads
SPECIFICATION Spec
INVARIANTS
    TypeOK
    QuietWhenDone
    KeycardAnswerMatches
PROPERTIES
    FileNeverGoesBack
    StopEndsAlarms
CHECK_DEADLOCK FALSE
