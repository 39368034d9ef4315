CONSTANTS
    Threads = {t1, t2}
    Domains = {d1, d2}
    Nodes = {n1, n2, n3}
    Threshold = 2
    MaxOps = 3
SPECIFICATION Spec
INVARIANT TypeOK
INVARIANT NoUseAfterReclaim
INVARIANT RetiredTracked
PROPERTY NoDoubleReclaim
PROPERTY CallsReturn
