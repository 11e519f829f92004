CONSTANTS
    HEAP_SIZE = 44
    HEADER = 4
    ALIGN = 2
    WORD = 64
    Requests = {0, 1, 3, 6, 40}
SPECIFICATION Spec
INVARIANTS
    HeapTiled
    WholeAgain
PROPERTY ImplementsHeap
