------------------------------ MODULE GCounter ------------------------------
(***************************************************************************)
(* The grow-only counter of src/src/crdt/g_counter.c as pure operators on  *)
(* a counter value.  A value is the C struct cauchy_gcounter_t: an array   *)
(* counts[CAUCHY_MAX_NODES] of u64 and the u32 num_nodes.  A u64 is kept   *)
(* at Width bits so that the wrap-around of `+=` stays in the model.       *)
(* The wire format of cauchy_gcounter_serialize is a sequence of words:    *)
(* the num_nodes header followed by counts[0 .. num_nodes-1].              *)
(***************************************************************************)
EXTENDS Integers, Sequences

CONSTANTS MaxNodes,   \* CAUCHY_MAX_NODES
          Width       \* bits of a u64 counter entry

Slots == 0 .. MaxNodes - 1
Word == 0 .. 2^Width - 1
Wrap(x) == x % 2^Width

GCounterValues == [num_nodes : 0 .. MaxNodes, counts : [Slots -> Word]]

\* cauchy_gcounter_init: zero every slot, clamp num_nodes to the array size.
GInit(n) == [num_nodes |-> IF n <= MaxNodes THEN n ELSE MaxNodes,
             counts    |-> [i \in Slots |-> 0]]

\* cauchy_gcounter_increment: an out-of-range node is silently ignored.
GIncrement(gc, node) ==
    IF node >= gc.num_nodes THEN gc
    ELSE [gc EXCEPT !.counts[node] = Wrap(@ + 1)]

\* cauchy_gcounter_add: counts[node] += delta, modulo 2^64.
GAdd(gc, node, delta) ==
    IF node >= gc.num_nodes THEN gc
    ELSE [gc EXCEPT !.counts[node] = Wrap(@ + delta)]

\* cauchy_gcounter_value: the u64 sum of the first num_nodes entries.
RECURSIVE SumTo(_, _)
SumTo(f, n) == IF n = 0 THEN 0 ELSE Wrap(f[n - 1] + SumTo(f, n - 1))

GValue(gc) == SumTo(gc.counts, gc.num_nodes)

\* cauchy_gcounter_get
GGet(gc, node) == IF node >= gc.num_nodes THEN 0 ELSE gc.counts[node]

\* A merge that adds the two entries instead of taking their maximum.
GMergeSum(dst, src) ==
    [num_nodes |-> IF src.num_nodes > dst.num_nodes THEN src.num_nodes
                                                    ELSE dst.num_nodes,
     counts    |-> [i \in Slots |-> IF i < src.num_nodes
                                    THEN dst.counts[i] + src.counts[i]
                                    ELSE dst.counts[i]]]

\* A merge that copies the source entry whenever it differs.
GMergeCopy(dst, src) ==
    [num_nodes |-> IF src.num_nodes > dst.num_nodes THEN src.num_nodes
                                                    ELSE dst.num_nodes,
     counts    |-> [i \in Slots |-> IF i < src.num_nodes
                                    THEN src.counts[i]
                                    ELSE dst.counts[i]]]

\* cauchy_gcounter_merge: entry-wise maximum over the source's slots; the
\* destination's num_nodes grows to the source's.
GMerge(dst, src) ==
    [num_nodes |-> IF src.num_nodes > dst.num_nodes THEN src.num_nodes
                                                    ELSE dst.num_nodes,
     counts    |-> [i \in Slots |->
                      IF i < src.num_nodes /\ src.counts[i] > dst.counts[i]
                      THEN src.counts[i] ELSE dst.counts[i]]]

\* cauchy_gcounter_equals: same num_nodes and same first num_nodes entries.
GEquals(a, b) ==
    /\ a.num_nodes = b.num_nodes
    /\ \A i \in 0 .. a.num_nodes - 1 : a.counts[i] = b.counts[i]

\* Entry i of gc as compare reads it: 0 past num_nodes.
GEntry(gc, i) == IF i < gc.num_nodes THEN gc.counts[i] ELSE 0

\* A compare whose two flags are set the wrong way round.
GCompareSwapped(a, b) ==
    LET width == IF a.num_nodes > b.num_nodes THEN a.num_nodes ELSE b.num_nodes
        less == \E i \in 0 .. width - 1 : GEntry(a, i) > GEntry(b, i)
        greater == \E i \in 0 .. width - 1 : GEntry(a, i) < GEntry(b, i)
    IN CASE ~less /\ ~greater -> "EQUAL"
         [] less /\ ~greater -> "HAPPENS_BEFORE"
         [] ~less /\ greater -> "HAPPENS_AFTER"
         [] OTHER -> "CONCURRENT"

\* cauchy_gcounter_compare: over the larger num_nodes, a missing entry
\* read as 0.
GCompare(a, b) ==
    LET width == IF a.num_nodes > b.num_nodes THEN a.num_nodes ELSE b.num_nodes
        less == \E i \in 0 .. width - 1 : GEntry(a, i) < GEntry(b, i)
        greater == \E i \in 0 .. width - 1 : GEntry(a, i) > GEntry(b, i)
    IN CASE ~less /\ ~greater -> "EQUAL"
         [] less /\ ~greater -> "HAPPENS_BEFORE"
         [] ~less /\ greater -> "HAPPENS_AFTER"
         [] OTHER -> "CONCURRENT"

\* cauchy_gcounter_serialize: <<num_nodes>> followed by the live entries.
GSerialize(gc) ==
    <<gc.num_nodes>> \o [k \in 1 .. gc.num_nodes |-> gc.counts[k - 1]]

GSerializedSize(gc) == 1 + gc.num_nodes

\* cauchy_gcounter_deserialize: "Invalid" for a short buffer or a header
\* above CAUCHY_MAX_NODES, otherwise init(num_nodes) then copy the entries.
GDeserializeOk(buf) ==
    /\ Len(buf) >= 1
    /\ buf[1] <= MaxNodes
    /\ Len(buf) >= 1 + buf[1]

GDeserialize(buf) ==
    [GInit(buf[1]) EXCEPT !.counts =
        [i \in Slots |-> IF i < buf[1] THEN buf[i + 2] ELSE 0]]

=============================================================================
