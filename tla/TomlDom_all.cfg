SPECIFICATION Spec
CONSTANTS
    a = a
    b = b
    Keys = {a, b}
    Paths <- SomePaths
    Values <- SomeValues
    MaxStatements = 4
CHECK_DEADLOCK FALSE
INVARIANTS
    ValidIsAccepted
    InvalidIsRecorded
    TreeIsTheDocument
    PathsLeadBack
