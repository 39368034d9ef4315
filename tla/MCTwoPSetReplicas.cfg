\* Two replicas over two payloads: a remove at one replica racing an add
\* of the same payload at the other, and merges failing in either half.
CONSTANTS
    Elems = {x, y}
    Replicas <- MCReplicas

SPECIFICATION Spec

INVARIANT TypeOK
INVARIANT CountsAccurate
INVARIANT RemovedWereAdded
INVARIANT GSetIterYieldsAll
PROPERTY NoResurrection
PROPERTY EventuallyConverged
