CONSTANTS
    UnsetIds = {0, 1, 2, 5}
    MaxIndexes = 2
    MaxTables = 2
    MaxPages = 8
SPECIFICATION Spec
INVARIANTS TypeOK RootsAreDistinct RootsBehindCatalog OneTableIsSaved
PROPERTIES TablesStay
