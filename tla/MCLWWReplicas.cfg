\* Two replicas writing at the same two timestamps: concurrent writes with
\* equal stamps (settled by node_id), empty writes (value_size 0) and, with
\* a ceiling of 1, writes that are refused as Full.
CONSTANTS
    Vals = {a, b}
    NoValue = NoValue
    MaxValueSize = 1
    NodeIds = {1, 2}
    Stamps = {1, 2}
    Replicas <- MCReplicas

SPECIFICATION Spec

INVARIANT TypeOK
INVARIANT RegisterIsSomeWrite
PROPERTY StampNeverRegresses
PROPERTY EventuallyConverged
