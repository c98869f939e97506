CONSTANTS
    Books = {b1}
    Files = {f1, f2, f3}
    Calls = {c1, c2}
    Entries <- MCEntries
    MaxBatch = 2
    Faults = TRUE
    None = None
SPECIFICATION Spec
SYMMETRY Symmetry
INVARIANTS
    TypeOK
    RowsAreBacked
    DiskIsAccounted
    OnlyWholeFilesServed
    AnsweredUploadsExist
PROPERTY
    ImplementsFileStore
