CONSTANTS
    block_size = 2
    Blocks = 3
    UNINSTALL_DATA_MAX = 2
    Ranges <- SmallRanges
    MaxRequests = 3
SPECIFICATION Spec
INVARIANTS
    InstalledIsDurable
    UndoRestores
PROPERTIES
    ImplementsDisk
    UndoEnds
CHECK_DEADLOCK FALSE
