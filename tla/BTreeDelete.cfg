SPECIFICATION Spec
CONSTANTS
    Slots = 3
    RowIds <- NaturalIds
    Values = {a, b}
    Empty = Empty
    NoRow = NoRow
    MaxPins = 1
PROPERTY DeleteKeepsOthers
CHECK_DEADLOCK FALSE
