SPECIFICATION Spec
CONSTANTS
    a = a
    b = b
    c = c
    NewName = new
    Lines <- SomeLines
    MaxLines = 3
CHECK_DEADLOCK FALSE
INVARIANTS
    RenameRenames
    HoverFindsItsKey
    OutlineHoldsItsKeys
