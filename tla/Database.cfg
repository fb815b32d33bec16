SPECIFICATION Spec
CONSTANTS
    a = a
    b = b
    c = c
    Slots = 5
    RowIds <- TwoRows
    Values = {a, b, g}
    Empty = Empty
    NoRow = NoRow
    Texts = {a, b}
    TextBytes <- MCTextBytes
    Garbled = g
    Blank = Empty
    UnsetKey = 0
    Statements = {"INSERT", "UPDATE", "DELETE"}
    UpdateTexts = {b}
    Pads = {7}
    PageSize = 136
    ValueSize = 20
    CatalogPages <- MCCatalogPages
    TornRecords = TRUE
    Sessions = 1
    MaxTx = 2
    MaxLog = 150
INVARIANTS
    TypeOK
    RowsAreLogged
    ReplaysCommitted
PROPERTIES
    RecoveryRestores
