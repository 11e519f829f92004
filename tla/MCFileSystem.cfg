CONSTANTS
    a = a
    b = b
    u = u
    SECTORS = 9
    SECTOR_SIZE = 2
    FILE_TABLE_ENTRIES = 4
    FILE_TABLE_SECTORS = 1
    COUNT_MOD = 256
    WORD = 65536
    Names = {a, b}
    Stored <- Whole
    Paths <- Tree
    Data = {u}
    Sizes = {1, 3}
SPECIFICATION Spec
VIEW OwnedView
INVARIANTS
    EachListedOnce
PROPERTIES
    OtherFilesKept
    ReadBack
CHECK_DEADLOCK FALSE
