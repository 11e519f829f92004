CONSTANTS
    k = k
    p1 = p1
    p2 = p2
    p3 = p3
    Procs = {k, p1, p2, p3}
    Kernel = k
SPECIFICATION Spec
SYMMETRY UserSymmetry
INVARIANTS
    RingIsOneCycle
    LoadedSpaceIsLive
    SuccessKept
PROPERTIES
    OnlyAskedAreReaped
    SwitchKeepsRegisters
CHECK_DEADLOCK FALSE
