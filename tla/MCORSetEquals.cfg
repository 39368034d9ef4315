\* The same model, checking what cauchy_orset_equals answers.
CONSTANTS
    Elems = {x, y}
    NodeIds = {1, 2}
    MaxStamp = 2
    Replicas <- MCReplicas

SPECIFICATION Spec

INVARIANT EqualsMeansSameElements
