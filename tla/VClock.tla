------------------------------- MODULE VClock -------------------------------
(***************************************************************************)
(* The vector clock of src/src/core/vclock.c as pure operators on a value  *)
(* [entries, num_nodes].  entries always has MaxNodes slots, as the C      *)
(* array has CAUCHY_MAX_NODES; slots at or above num_nodes hold zero,      *)
(* since init clears the whole array and nothing writes past num_nodes.   *)
(* The wire format is a word sequence: <<num_nodes>> then the live slots.  *)
(***************************************************************************)
EXTENDS Naturals, Sequences

CONSTANTS MaxNodes    \* CAUCHY_MAX_NODES

Slots == 0 .. MaxNodes - 1
Larger(a, b) == IF a > b THEN a ELSE b

\* cauchy_vclock_init: all slots zero, num_nodes capped at MaxNodes.
VCInit(n) == [entries |-> [i \in Slots |-> 0],
              num_nodes |-> IF n <= MaxNodes THEN n ELSE MaxNodes]

\* cauchy_vclock_increment: a node outside num_nodes is ignored.
VCIncrement(vc, id) ==
    IF id >= vc.num_nodes THEN vc ELSE [vc EXCEPT !.entries[id] = @ + 1]

\* cauchy_vclock_get
VCGet(vc, id) == IF id >= vc.num_nodes THEN 0 ELSE vc.entries[id]

\* A merge that adds the source's slots instead of taking the larger, and
\* adds the widths.
VCMergeSum(dst, src) ==
    [entries |-> [i \in Slots |-> dst.entries[i] + src.entries[i]],
     num_nodes |-> dst.num_nodes + src.num_nodes]

\* cauchy_vclock_merge: slotwise maximum below the larger width, which
\* dst then takes.
VCMerge(dst, src) ==
    LET width == Larger(dst.num_nodes, src.num_nodes) IN
    [entries |-> [i \in Slots |->
        IF i < width THEN Larger(dst.entries[i], src.entries[i])
        ELSE dst.entries[i]],
     num_nodes |-> width]

\* A slot read as the loop of cauchy_vclock_compare reads it: zero past
\* the clock's width.
Padded(vc, i) == IF i < vc.num_nodes THEN vc.entries[i] ELSE 0

\* A compare that reports HAPPENS_BEFORE whenever a_less is set.
VCCompareLessOnly(a, b) ==
    LET width == Larger(a.num_nodes, b.num_nodes)
        less == \E i \in 0 .. width - 1 : Padded(a, i) < Padded(b, i)
        greater == \E i \in 0 .. width - 1 : Padded(a, i) > Padded(b, i)
    IN CASE ~less /\ ~greater -> "EQUAL"
         [] less -> "HAPPENS_BEFORE"
         [] OTHER -> "HAPPENS_AFTER"

\* cauchy_vclock_compare: the flags a_less and a_greater set by the loop.
VCCompare(a, b) ==
    LET width == Larger(a.num_nodes, b.num_nodes)
        less == \E i \in 0 .. width - 1 : Padded(a, i) < Padded(b, i)
        greater == \E i \in 0 .. width - 1 : Padded(a, i) > Padded(b, i)
    IN CASE ~less /\ ~greater -> "EQUAL"
         [] less /\ ~greater -> "HAPPENS_BEFORE"
         [] ~less /\ greater -> "HAPPENS_AFTER"
         [] OTHER -> "CONCURRENT"

\* cauchy_vclock_sum
RECURSIVE SumBelow(_, _)
SumBelow(vc, n) == IF n = 0 THEN 0 ELSE vc.entries[n - 1] + SumBelow(vc, n - 1)
VCSum(vc) == SumBelow(vc, vc.num_nodes)

\* cauchy_vclock_serialize into a large enough buffer.
VCSerialize(vc) == <<vc.num_nodes>> \o [k \in 1 .. vc.num_nodes |-> vc.entries[k - 1]]

\* cauchy_vclock_deserialize: <<result, clock>>; the clock is re-initialised
\* and filled only when the header and length check out.
VCDeserialize(vc, buf) ==
    IF Len(buf) < 1 \/ buf[1] > MaxNodes \/ Len(buf) < 1 + buf[1]
    THEN <<"INVALID", vc>>
    ELSE <<"OK", [entries |-> [i \in Slots |-> IF i < buf[1] THEN buf[i + 2] ELSE 0],
                  num_nodes |-> buf[1]]>>

=============================================================================
