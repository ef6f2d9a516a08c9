SPECIFICATION Spec
CONSTANTS
    Command = {c}
    Unreadable = Unreadable
    MaxTerm = 3
    MaxIndex = 3
    MaxLines = 4
INVARIANTS ReadableUnlessCut
PROPERTIES ImplementsDurableLog
CHECK_DEADLOCK FALSE
