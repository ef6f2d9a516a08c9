SPECIFICATION FaultySpec
CONSTANTS
    Command = {c}
    Unreadable = Unreadable
    MaxTerm = 3
    MaxIndex = 3
    MaxLines = 4
PROPERTIES SurvivesFailedWrites
CHECK_DEADLOCK FALSE
