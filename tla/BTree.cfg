SPECIFICATION Spec
CONSTANTS
    Slots = 3
    RowIds <- IdsWithTombstone
    Values = {a, b}
    Empty = Empty
    NoRow = NoRow
    MaxPins = 1
INVARIANTS
    TypeOK
    UniqueKeys
    SortedKeys
PROPERTIES
    ImplementsLossyTable
CHECK_DEADLOCK FALSE
