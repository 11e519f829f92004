CONSTANTS
    Disks <- SmallDisks
    lb_guesses <- Guesses
    ARRAY = 2
    GPT_MAX_ARRAY_SIZE = 4
    MBR_ENTRIES = 2
    SECTOR_MAX = 100
    GAP = 6
    ISO = 7
    MIN_PART = 4
    Stage2Sizes = {4, 6}
    PartIndexes = {0, 1, 3}
    CYLINDERS = 2
    HEADS = 2
    SECTORS = 2
    Files <- SmallFiles
    SIGNATURE <- SmallSignature
    SUM = 2
SPECIFICATION LimineSpec
INVARIANTS
    PartitionsKept
    InstallationComplete
    OneTableLeft
    LocatesGenuine
    ConversionStands
    RefusedLeavesDisk
    FindsFirst
CHECK_DEADLOCK FALSE
