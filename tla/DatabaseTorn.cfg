SPECIFICATION Spec
CONSTANTS
    a = a
    b = b
    c = c
    Slots = 5
    RowIds <- TwoRows
    Values = {a, c, g}
    Empty = Empty
    NoRow = NoRow
    Texts = {a, c}
    TextBytes <- MCTextBytes
    Garbled = g
    Blank = Empty
    UnsetKey = 0
    Statements = {"INSERT"}
    UpdateTexts = {}
    Pads = {7}
    PageSize = 136
    ValueSize = 20
    CatalogPages <- MCCatalogPages
    TornRecords = TRUE
    Sessions = 2
    MaxTx = 2
    MaxLog = 150
INVARIANTS
    CommittedIsReplayed
