SPECIFICATION FairSpec
CONSTANTS
    Viewings = {v1, v2}
    Rows = 3
    Runs = {r1, r2}
    Watermark = 1
    Overlap = 1
    Limit = 2
    None = None
INVARIANTS
    TypeOK
    NothingSkipped
PROPERTIES
    ImplementsImport
    RowsAreImported
