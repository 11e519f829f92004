CONSTANTS
    FRAME_SIZE = 4
    MemoryMap <- TwoRegions
    ENTRIES = 4
    LIMINE = 4
    KernelRanges <- KernelPages
    Segments <- SegmentPages
    Heaps <- HeapPages
    MaxSpaces = 2
SPECIFICATION Spec
INVARIANTS
    
    OneOwner
    KernelHalfShared
    BitmapKept
PROPERTIES
    FailedAllocRestores
    OtherPagesKept
CHECK_DEADLOCK FALSE
