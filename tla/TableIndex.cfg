SPECIFICATION FairSpec
CONSTANTS
    Slots = 3
    RowIds <- MCRowIds
    Values <- MCValues
    Empty = Empty
    NoRow = NoRow
    Texts <- MCTexts
    TextBytes <- MCTextBytes
    Garbled = Garbled
    Blank = Empty
    UnsetKey = 0
    Ids <- SmallIds
    Numbers <- SmallNumbers
    NoNumber = NoNumber
    Pads = {7}
    OldPages <- MCOldPages
    MaxIndexes = 2
    Sessions = 1
    MaxTx = 2
    MaxLog = 85
    MaxPages = 3
    PageSize = 64
    ValueSize = 8
    CatalogPages <- MCCatalogPages
INVARIANTS
    TypeOK
    EntriesLeadToRows
    LookupsAgree
    OneRecordInThreePages
PROPERTIES
    CreatedIndexIsComplete
    TableStaysLegible
    ScanEnds
