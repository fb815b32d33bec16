SPECIFICATION Spec
CONSTANTS
    NumFrames = 4
    LastPage = 2
    Contents = {a, b}
    Junk = Junk
    Zero = Zero
    None = None
    CatalogPage = 1
    Overrun = 1
    MaxPins = 2
INVARIANTS
    TypeOK
    OneFramePerPage
    HeldPagesStay
    OverrunHitsNoPage
    CachedIsStored
    NothingToFlush
    FileHasAllPages
PROPERTIES
    ImplementsPageStore
