SPECIFICATION FairSpec
CONSTANTS
    Slots = 3
    RowIds <- MCRowIds
    Values <- MCValues
    Empty = Empty
    NoRow = NoRow
    Texts <- MCTexts
    TextBytes <- MCTextBytes
    Garbled = Garbled
    Blank = Empty
    UnsetKey = 0
    Ids <- SmallIds
    Numbers <- HeaderNumbers
    NoNumber = NoNumber
    Pads = {7}
    OldPages <- MCOldPages
    MaxIndexes = 1
    Sessions = 1
    MaxTx = 1
    MaxLog = 80
    MaxPages = 2
    PageSize = 64
    ValueSize = 8
    CatalogPages <- MCCatalogPages
PROPERTY RollbackEnds
