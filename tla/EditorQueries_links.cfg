SPECIFICATION Spec
CONSTANTS
    a = a
    b = b
    c = c
    NewName = new
    Lines <- SomeLines
    MaxLines = 2
CHECK_DEADLOCK FALSE
INVARIANTS
    LinksAreExact
