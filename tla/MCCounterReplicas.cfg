\* Two replicas, two updates each (+1, -1 or -2), every buffer ever sent
\* deliverable any number of times in any order.  A u64 is kept at 5 bits,
\* wide enough that no sum of these updates wraps.
CONSTANTS
    MaxNodes = 2
    Width = 5
    Replicas <- MCReplicas
    NumNodes = 2
    Deltas <- MCDeltas
    MaxOps = 2

SPECIFICATION Spec

INVARIANT TypeOK
INVARIANT CountsMatchSomePrefix
INVARIANT CompareAgreesWithMerge
INVARIANT AddShiftsValue
INVARIANT ValueIsSeenSum
PROPERTY CounterRefinement
PROPERTY Monotonic
PROPERTY EventuallyConverged
