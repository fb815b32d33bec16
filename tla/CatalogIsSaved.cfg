CONSTANTS
    UnsetIds = {0, 1, 2, 5}
    MaxIndexes = 2
    MaxTables = 2
    MaxPages = 8
SPECIFICATION Spec
INVARIANTS CatalogIsSaved
