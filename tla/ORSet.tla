------------------------------- MODULE ORSet -------------------------------
(***************************************************************************)
(* The observed-remove set of src/src/crdt/or_set.c as pure operators on a *)
(* set value.  The bucket array is abstracted away: an entry is found by   *)
(* its payload (hash, size and bytes compare equal exactly when payloads   *)
(* are equal, hash collisions between different payloads aside) and the    *)
(* order of a bucket chain only decides in which order merge visits        *)
(* entries, which the operators leave open.                                *)
(***************************************************************************)
EXTENDS Naturals, FiniteSets, FiniteSetsExt, Sequences, Uid

CONSTANTS Elems,      \* payloads
          NodeIds,    \* node_id values an OR-Set can be created with
          MaxStamp    \* largest per-set timestamp a tag can carry

\* The cauchy_uid_t values a tag can be.
Tags == {UidCreate(n, t) : n \in NodeIds, t \in 1 .. MaxStamp}

\* cauchy_orset_entry_t without its payload copy and chain link.
Entries == [data : Elems, tag : Tags, removed : BOOLEAN]

ORSetValues == [entries : SUBSET Entries, entry_count : Nat,
                active_count : Nat, node_id : NodeIds, timestamp : 0 .. MaxStamp]

\* cauchy_orset_init
ORInit(node) == [entries |-> {}, entry_count |-> 0, active_count |-> 0,
                 node_id |-> node, timestamp |-> 0]

\* An add that tags with the current timestamp and never advances it.
ORAddNoBump(s, x) ==
    [s EXCEPT !.entries = @ \cup {[data |-> x, tag |-> UidCreate(s.node_id, s.timestamp),
                                   removed |-> FALSE]},
              !.entry_count = @ + 1, !.active_count = @ + 1]

\* cauchy_orset_add: a fresh entry tagged (node_id, ++timestamp), pushed on
\* its bucket; both counters grow.
ORAdd(s, x) ==
    [s EXCEPT !.entries = @ \cup {[data |-> x, tag |-> UidCreate(s.node_id, s.timestamp + 1),
                                   removed |-> FALSE]},
              !.entry_count = @ + 1, !.active_count = @ + 1,
              !.timestamp = @ + 1]

\* The entries cauchy_orset_remove and cauchy_orset_contains match.
Visible(s, x) == {e \in s.entries : ~e.removed /\ e.data = x}

\* cauchy_orset_remove: every visible entry of x is tombstoned and
\* active_count drops once per entry.  NotFound when there is none.
ORRemove(s, x) ==
    LET V == Visible(s, x) IN
    IF V = {} THEN <<"NotFound", s>>
    ELSE <<"OK", [s EXCEPT !.entries = (@ \ V) \cup {[e EXCEPT !.removed = TRUE] : e \in V},
                           !.active_count = @ - Cardinality(V)]>>

\* cauchy_orset_contains
ORContains(s, x) == Visible(s, x) # {}

\* cauchy_orset_count
ORCount(s) == s.active_count

\* find_entry_by_tag: same hash (payload) and same tag.
FindByTag(s, x, tag) == {e \in s.entries : e.data = x /\ UidEquals(e.tag, tag)}

\* A merge step that looks entries up by payload alone.
MergeEntryByData(se, d) ==
    LET ex == {e \in d.entries : e.data = se.data} IN
    IF ex # {}
    THEN LET e == CHOOSE e \in ex : TRUE IN
         IF se.removed /\ ~e.removed
         THEN [d EXCEPT !.entries = (@ \ {e}) \cup {[e EXCEPT !.removed = TRUE]},
                        !.active_count = @ - 1]
         ELSE d
    ELSE [d EXCEPT !.entries = @ \cup {se}, !.entry_count = @ + 1,
                   !.active_count = IF se.removed THEN @ ELSE @ + 1]

\* A merge step that takes over the source's tombstone flag as it is.
MergeEntryCopyFlag(se, d) ==
    LET ex == FindByTag(d, se.data, se.tag) IN
    IF ex # {}
    THEN LET e == CHOOSE e \in ex : TRUE IN
         IF se.removed # e.removed
         THEN [d EXCEPT !.entries = (@ \ {e}) \cup {[e EXCEPT !.removed = se.removed]},
                        !.active_count = IF se.removed THEN @ - 1 ELSE @ + 1]
         ELSE d
    ELSE [d EXCEPT !.entries = @ \cup {se}, !.entry_count = @ + 1,
                   !.active_count = IF se.removed THEN @ ELSE @ + 1]

\* A merge step that tombstones without looking at the destination's flag.
MergeEntryNoFlagCheck(se, d) ==
    LET ex == FindByTag(d, se.data, se.tag) IN
    IF ex # {}
    THEN LET e == CHOOSE e \in ex : TRUE IN
         IF se.removed
         THEN [d EXCEPT !.entries = (@ \ {e}) \cup {[e EXCEPT !.removed = TRUE]},
                        !.active_count = @ - 1]
         ELSE d
    ELSE [d EXCEPT !.entries = @ \cup {se}, !.entry_count = @ + 1,
                   !.active_count = IF se.removed THEN @ ELSE @ + 1]

\* A merge step that looks an entry up by the whole entry, flag included.
MergeEntryByRecord(se, d) ==
    IF se \in d.entries THEN d
    ELSE [d EXCEPT !.entries = @ \cup {se}, !.entry_count = @ + 1,
                   !.active_count = IF se.removed THEN @ ELSE @ + 1]

\* A merge step that does not copy tombstoned entries it does not know.
MergeEntrySkipRemoved(se, d) ==
    LET ex == FindByTag(d, se.data, se.tag) IN
    IF ex # {}
    THEN LET e == CHOOSE e \in ex : TRUE IN
         IF se.removed /\ ~e.removed
         THEN [d EXCEPT !.entries = (@ \ {e}) \cup {[e EXCEPT !.removed = TRUE]},
                        !.active_count = @ - 1]
         ELSE d
    ELSE IF se.removed THEN d
    ELSE [d EXCEPT !.entries = @ \cup {se}, !.entry_count = @ + 1,
                   !.active_count = @ + 1]

\* The body of the loop of cauchy_orset_merge for one source entry: an entry
\* known by tag is tombstoned when the source's is (never un-removed); an
\* unknown one is copied in with the source's flag.
MergeEntry(se, d) ==
    LET ex == FindByTag(d, se.data, se.tag) IN
    IF ex # {}
    THEN LET e == CHOOSE e \in ex : TRUE IN
         IF se.removed /\ ~e.removed
         THEN [d EXCEPT !.entries = (@ \ {e}) \cup {[e EXCEPT !.removed = TRUE]},
                        !.active_count = @ - 1]
         ELSE d
    ELSE [d EXCEPT !.entries = @ \cup {se}, !.entry_count = @ + 1,
                   !.active_count = IF se.removed THEN @ ELSE @ + 1]

\* cauchy_orset_merge run over the source entries in P (all of them when it
\* returns OK; those visited before an allocation failed on NoMem).
ORMergeEntries(d, P) == FoldSet(MergeEntry, d, P)

\* Source entries that a merge into d must allocate for.
NeedsAlloc(d, P) == {se \in P : FindByTag(d, se.data, se.tag) = {}}

\* cauchy_orset_equals: same active_count, and every active payload of a is
\* contained in b.
OREquals(a, b) ==
    /\ a.active_count = b.active_count
    /\ \A e \in a.entries : ~e.removed => ORContains(b, e.data)

\* The payloads cauchy_orset_contains reports.
Elements(s) == {x \in Elems : ORContains(s, x)}

-----------------------------------------------------------------------------
(***************************************************************************)
(* cauchy_orset_iter_init / cauchy_orset_iter_next over the bucket array.  *)
(* nb is num_buckets and B[x] the bucket hash_data(x) % nb gives payload  *)
(* x.  A chain is abstracted to descending cauchy_uid_compare order of its *)
(* tags (add and merge push at the head, so a replica's own adds are      *)
(* newest first); what the iterator yields, as a set, does not depend on   *)
(* that order.  An iterator is [bucket_idx, current], current being <<>>   *)
(* for NULL or <<e>> for entry e.                                          *)
(***************************************************************************)

InBucket(s, B, b) == {e \in s.entries : B[e.data] = b}

\* The first entry of es in chain order.
Newest(es) == CHOOSE f \in es : \A g \in es : UidCompare(g.tag, f.tag) <= 0

\* set->buckets[b]
ChainHead(s, B, b) == IF InBucket(s, B, b) = {} THEN <<>> ELSE <<Newest(InBucket(s, B, b))>>

\* entry->next
ChainNext(s, B, e) ==
    LET later == {f \in InBucket(s, B, B[e.data]) : UidCompare(f.tag, e.tag) = -1} IN
    IF later = {} THEN <<>> ELSE <<Newest(later)>>

\* while (current && current->removed) current = current->next;
RECURSIVE SkipRemoved(_, _, _)
SkipRemoved(s, B, c) ==
    IF c # <<>> /\ c[1].removed THEN SkipRemoved(s, B, ChainNext(s, B, c[1])) ELSE c

\* The loop of iter_init: stop on the first live entry, or at bucket nb.
RECURSIVE InitScan(_, _, _, _)
InitScan(s, B, nb, it) ==
    IF it.bucket_idx >= nb THEN it
    ELSE LET c == SkipRemoved(s, B, it.current) IN
         IF c # <<>> THEN [it EXCEPT !.current = c]
         ELSE InitScan(s, B, nb,
                  [bucket_idx |-> it.bucket_idx + 1,
                   current |-> IF it.bucket_idx + 1 < nb THEN ChainHead(s, B, it.bucket_idx + 1) ELSE c])

\* cauchy_orset_iter_init
IterInit(s, B, nb) == InitScan(s, B, nb, [bucket_idx |-> 0, current |-> ChainHead(s, B, 0)])

\* The while (++bucket_idx < num_buckets) loop after the last entry of a
\* bucket was handed out: the first live entry of bucket b or a later one.
RECURSIVE NextBucket(_, _, _, _)
NextBucket(s, B, nb, b) ==
    IF b >= nb THEN [bucket_idx |-> b, current |-> <<>>]
    ELSE LET c == SkipRemoved(s, B, ChainHead(s, B, b)) IN
         IF c # <<>> THEN [bucket_idx |-> b, current |-> c] ELSE NextBucket(s, B, nb, b + 1)

\* An advance past the handed-out entry that does not skip tombstones.
SuccessorNoSkip(s, B, e) == ChainNext(s, B, e)

\* do current = current->next; while (current && current->removed);
Successor(s, B, e) == SkipRemoved(s, B, ChainNext(s, B, e))

\* cauchy_orset_iter_next as <<outcome, iterator, entry>>: "yield" hands out
\* an entry, "end" is the false return, and "spins" is a current entry
\* tombstoned since the last call with no bucket left: ++bucket_idx never
\* again passes num_buckets and current is never moved, so the loop does
\* not end.
RECURSIVE IterNext(_, _, _, _)
IterNext(s, B, nb, it) ==
    CASE ~(it.current # <<>> \/ it.bucket_idx < nb - 1) -> <<"end", it, <<>>>>
      [] it.current # <<>> /\ ~it.current[1].removed ->
            LET c == Successor(s, B, it.current[1]) IN
            <<"yield",
              IF c # <<>> THEN [it EXCEPT !.current = c]
              ELSE NextBucket(s, B, nb, it.bucket_idx + 1),
              it.current>>
      [] it.current # <<>> /\ it.bucket_idx + 1 >= nb -> <<"spins", it, <<>>>>
      [] OTHER ->
            IterNext(s, B, nb,
                [bucket_idx |-> it.bucket_idx + 1,
                 current |-> IF it.bucket_idx + 1 < nb
                             THEN ChainHead(s, B, it.bucket_idx + 1) ELSE it.current])

\* iter_next called until it returns false: <<outcome, entries handed out>>.
RECURSIVE IterDrain(_, _, _, _, _)
IterDrain(s, B, nb, it, out) ==
    LET r == IterNext(s, B, nb, it) IN
    IF r[1] = "yield" THEN IterDrain(s, B, nb, r[2], out \o r[3]) ELSE <<r[1], out>>

\* A loop over the set with cauchy_orset_iter_init and iter_next.
Iterate(s, B, nb) == IterDrain(s, B, nb, IterInit(s, B, nb), <<>>)

=============================================================================
