\* Two replicas, two payloads, two adds per replica: enough for a remove
\* racing a concurrent add of the same payload, for a payload added twice
\* by one replica, and for merges that fail half-way.
CONSTANTS
    Elems = {x, y}
    NodeIds = {1, 2}
    MaxStamp = 2
    Replicas <- MCReplicas

SPECIFICATION Spec

INVARIANT TypeOK
INVARIANT ActiveCountAccurate
INVARIANT TagsUnique
INVARIANT AddWins
INVARIANT IterYieldsActive
PROPERTY TombstonesPermanent
PROPERTY EventuallyConsistent
