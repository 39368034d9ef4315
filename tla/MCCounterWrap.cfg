\* A u64 at 3 bits and pncounter_add with the largest i64 delta: the third
\* add overflows the replica's own positive entry.
CONSTANTS
    MaxNodes = 2
    Width = 3
    Replicas <- MCReplicas
    NumNodes = 2
    Deltas <- MCWrapDeltas
    MaxOps = 3

SPECIFICATION Spec

PROPERTY Monotonic
