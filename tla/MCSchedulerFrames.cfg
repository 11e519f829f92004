CONSTANTS
    k = k
    p1 = p1
    p2 = p2
    p3 = p3
    Procs = {k, p1, p2}
    Kernel = k
SPECIFICATION Spec
INVARIANT FramesIntact
CHECK_DEADLOCK FALSE
