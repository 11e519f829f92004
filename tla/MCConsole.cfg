CONSTANTS
    Characters = {"a", "c"}
    BUFFER_SIZE = 5
    TAB = 2
    LINE = 3
    Prompt <- SmallPrompt
    Message <- SmallMessage
    Outputs <- SmallOutputs
    KEYS = 5
SPECIFICATION Spec
INVARIANTS
    AtMostOneBehind
    LineIsTyped
    
CHECK_DEADLOCK FALSE
