CONSTANTS
    Threads = {t1, t2}
    InitialBlocks = 1
    HeapBlocks = 2
    MaxHeld = 1
    MaxOps = 8
    Width = 8
SPECIFICATION Spec
INVARIANT PeakWithinBlocks
