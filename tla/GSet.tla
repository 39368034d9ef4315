------------------------------- MODULE GSet --------------------------------
(***************************************************************************)
(* The grow-only set of src/src/crdt/g_set.c as pure operators on a set    *)
(* value.  Buckets and hashing are abstracted: an element is its payload   *)
(* (equal bytes, equal element), and bucket order only decides the order   *)
(* in which merge visits the source, which the operators leave open.  The  *)
(* value keeps the hand-maintained count beside the elements.              *)
(***************************************************************************)
EXTENDS Naturals, FiniteSets, FiniteSetsExt, Sequences

CONSTANTS Elems       \* payloads

GSetValues == [elems : SUBSET Elems, count : 0 .. Cardinality(Elems)]

\* cauchy_gset_init
GSetInit == [elems |-> {}, count |-> 0]

\* An add that does not look for the payload first.
GSetAddNoLookup(s, x) == [elems |-> s.elems \cup {x}, count |-> s.count + 1]

\* cauchy_gset_add returning OK: an existing payload is left alone, a new
\* one is linked in and counted.
GSetAdd(s, x) ==
    IF x \in s.elems THEN s
    ELSE [elems |-> s.elems \cup {x}, count |-> s.count + 1]

\* cauchy_gset_contains
GSetContains(s, x) == x \in s.elems

\* A merge that copies the source payloads over the destination's.
GSetMergeReplace(d, P) == [elems |-> P, count |-> Cardinality(P)]

\* A merge that counts every source payload, new or not.
GSetMergeCountAll(d, P) == [elems |-> d.elems \cup P, count |-> d.count + Cardinality(P)]

\* cauchy_gset_merge over the source payloads in P: all of them when it
\* returns OK, those visited before an add failed when it returns NoMem.
GSetMergeElems(d, P) == FoldSet(LAMBDA x, acc : GSetAdd(acc, x), d, P)

\* The payloads whose add allocates, the only ones that can fail.
GSetNeedsAlloc(d, P) == P \ d.elems

\* cauchy_gset_subset
GSetSubset(a, b) == \A x \in a.elems : GSetContains(b, x)

\* cauchy_gset_equals: equal counts and mutual subsets.
GSetEquals(a, b) ==
    /\ a.count = b.count
    /\ GSetSubset(a, b)
    /\ GSetSubset(b, a)

-----------------------------------------------------------------------------
(***************************************************************************)
(* cauchy_gset_iter_init / cauchy_gset_iter_next over the bucket array.    *)
(* nb is num_buckets and B[x] the bucket hash_data(x) % nb gives payload   *)
(* x.  A chain is abstracted to one fixed order of the payloads (add       *)
(* pushes at the head); what the iterator yields, as a set, does not       *)
(* depend on it.  An iterator is [bucket_idx, current], current being <<>> *)
(* for NULL or <<x>> for the element of payload x.                         *)
(***************************************************************************)
LOCAL Seqs == INSTANCE SequencesExt

\* The order of payloads along every chain.
GChainOrder == Seqs!SetToSeq(Elems)

\* The chain of bucket b, from set->buckets[b] along elem->next.
GChain(s, B, b) == SelectSeq(GChainOrder, LAMBDA x : x \in s.elems /\ B[x] = b)

\* set->buckets[b]
GChainHead(s, B, b) == IF GChain(s, B, b) = <<>> THEN <<>> ELSE <<GChain(s, B, b)[1]>>

\* elem->next
GChainNext(s, B, x) ==
    LET c == GChain(s, B, B[x])
        i == CHOOSE i \in 1 .. Len(c) : c[i] = x
    IN IF i = Len(c) THEN <<>> ELSE <<c[i + 1]>>

\* A skip over empty buckets that stops one bucket short of the last.
RECURSIVE GSkipEmptyShort(_, _, _, _)
GSkipEmptyShort(s, B, nb, it) ==
    IF it.current = <<>> /\ it.bucket_idx < nb - 2
    THEN GSkipEmptyShort(s, B, nb, [bucket_idx |-> it.bucket_idx + 1,
                                    current |-> GChainHead(s, B, it.bucket_idx + 1)])
    ELSE it

\* while (!current && bucket_idx < num_buckets - 1)
\*     current = buckets[++bucket_idx];
RECURSIVE GSkipEmpty(_, _, _, _)
GSkipEmpty(s, B, nb, it) ==
    IF it.current = <<>> /\ it.bucket_idx < nb - 1
    THEN GSkipEmpty(s, B, nb, [bucket_idx |-> it.bucket_idx + 1,
                               current |-> GChainHead(s, B, it.bucket_idx + 1)])
    ELSE it

\* cauchy_gset_iter_init
GSetIterInit(s, B, nb) ==
    GSkipEmpty(s, B, nb, [bucket_idx |-> 0, current |-> GChainHead(s, B, 0)])

\* cauchy_gset_iter_next as <<returned, iterator, element handed out>>.
GSetIterNext(s, B, nb, it) ==
    IF it.current = <<>> THEN <<FALSE, it, <<>>>>
    ELSE <<TRUE,
           GSkipEmpty(s, B, nb, [it EXCEPT !.current = GChainNext(s, B, it.current[1])]),
           it.current>>

\* iter_next called until it returns false: the payloads handed out.
RECURSIVE GSetIterDrain(_, _, _, _, _)
GSetIterDrain(s, B, nb, it, out) ==
    LET r == GSetIterNext(s, B, nb, it) IN
    IF r[1] THEN GSetIterDrain(s, B, nb, r[2], out \o r[3]) ELSE out

\* A loop over the set with cauchy_gset_iter_init and iter_next.
GSetIterate(s, B, nb) == GSetIterDrain(s, B, nb, GSetIterInit(s, B, nb), <<>>)

=============================================================================
