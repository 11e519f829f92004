CONSTANTS
    a = a
    b = b
    u = u
    SECTORS = 8
    SECTOR_SIZE = 2
    FILE_TABLE_ENTRIES = 4
    FILE_TABLE_SECTORS = 1
    COUNT_MOD = 256
    WORD = 65536
    Names = {a, b}
    Stored <- Whole
    Paths <- Below
    Data = {u}
    Sizes = {1}
SPECIFICATION FailureSpec
VIEW DiskView
INVARIANTS
    ExtentsApart
    
CHECK_DEADLOCK FALSE
