CONSTANTS
    SECTORS = 9
    SECTOR_SIZE = 4
    FILE_TABLE_ENTRIES = 4
    FILE_TABLE_SECTORS = 1
    COUNT_MOD = 256
    WORD = 65536
    Names = {"a", "b"}
    Stored <- Whole
    Paths = {}
    Data = {"nul", "short", "long"}
    Sizes = {1}
    Spelling <- SpelledA
    Lines <- SmallLines
    LINE = 12
    WORKING_DIR = 6
    STACK = 2
    CAPACITY = 2
    ENTRY = 3
    FILE_NAME_LENGTH = 1
    FRAMES = 4
    COMMANDS = 4
    NUL = "0"
SPECIFICATION Spec
INVARIANTS
    LineMeant
    PathsMeant
    FindComplete
    
    
