------------------------------ MODULE TwoPSet -------------------------------
(***************************************************************************)
(* The two-phase set of src/src/crdt/2p_set.c: a pair of G-Sets, added and *)
(* removed, as pure operators on a set value.                              *)
(***************************************************************************)
EXTENDS GSet

TwoPSetValues == [added : GSetValues, removed : GSetValues]

\* cauchy_2pset_init
TwoPInit == [added |-> GSetInit, removed |-> GSetInit]

\* cauchy_2pset_add: ignored (OK) once removed, otherwise added.
TwoPAdd(s, x) ==
    IF GSetContains(s.removed, x) THEN s
    ELSE [s EXCEPT !.added = GSetAdd(@, x)]

\* A remove that does not ask whether the payload was ever added.
TwoPRemoveUnchecked(s, x) ==
    <<"OK", [s EXCEPT !.removed = GSetAdd(@, x)]>>

\* cauchy_2pset_remove: NotFound unless added; then the tombstone is added.
\* Result <<code, set>>.
TwoPRemove(s, x) ==
    IF ~GSetContains(s.added, x) THEN <<"NotFound", s>>
    ELSE <<"OK", [s EXCEPT !.removed = GSetAdd(@, x)]>>

\* cauchy_2pset_contains
TwoPContains(s, x) == GSetContains(s.added, x) /\ ~GSetContains(s.removed, x)

\* A merge that unions the added halves only.
TwoPMergeAddedOnly(d, src) ==
    [d EXCEPT !.added = GSetMergeElems(@, src.added.elems)]

\* cauchy_2pset_merge returning OK: the added halves, then the removed ones.
TwoPMerge(d, src) ==
    [added   |-> GSetMergeElems(d.added, src.added.elems),
     removed |-> GSetMergeElems(d.removed, src.removed.elems)]

\* cauchy_2pset_merge returning NoMem from the merge of the added halves,
\* after the payloads in P: the removed half is never merged.
TwoPMergeFailAdded(d, P) == [d EXCEPT !.added = GSetMergeElems(@, P)]

\* cauchy_2pset_merge returning NoMem from the merge of the removed halves,
\* after the whole added half and the removed payloads in P.
TwoPMergeFailRemoved(d, src, P) ==
    [added   |-> GSetMergeElems(d.added, src.added.elems),
     removed |-> GSetMergeElems(d.removed, P)]

\* cauchy_2pset_equals
TwoPEquals(a, b) ==
    GSetEquals(a.added, b.added) /\ GSetEquals(a.removed, b.removed)

=============================================================================
