----------------------------- MODULE PNCounter -----------------------------
(***************************************************************************)
(* The positive-negative counter of src/src/crdt/pn_counter.c: a pair of   *)
(* G-Counters.  Operators on a counter value, built on those of GCounter.  *)
(***************************************************************************)
EXTENDS GCounter

PNCounterValues == [positive : GCounterValues, negative : GCounterValues]

\* The i64 reading of a u64 (the casts in cauchy_pncounter_value).
ToSigned(x) == IF x >= 2^(Width - 1) THEN x - 2^Width ELSE x

\* The values of an i64 at Width bits.
I64 == -(2^(Width - 1)) .. 2^(Width - 1) - 1

\* cauchy_pncounter_init
PNInit(n) == [positive |-> GInit(n), negative |-> GInit(n)]

\* cauchy_pncounter_increment
PNIncrement(pn, node) == [pn EXCEPT !.positive = GIncrement(@, node)]

\* A decrement that counts into the positive half.
PNDecrementPositive(pn, node) == [pn EXCEPT !.positive = GIncrement(@, node)]

\* cauchy_pncounter_decrement
PNDecrement(pn, node) == [pn EXCEPT !.negative = GIncrement(@, node)]

\* An add that avoids negating INT64_MIN by counting INT64_MAX instead.
PNAddClampMin(pn, node, delta) ==
    IF delta >= 0 THEN [pn EXCEPT !.positive = GAdd(@, node, delta)]
    ELSE [pn EXCEPT !.negative =
            GAdd(@, node, IF delta = -(2^(Width - 1)) THEN 2^(Width - 1) - 1 ELSE -delta)]

\* cauchy_pncounter_add: the sign of the i64 delta picks the half; the
\* negative half receives (u64)(-delta), which for INT64_MIN is 2^63.
PNAdd(pn, node, delta) ==
    IF delta >= 0 THEN [pn EXCEPT !.positive = GAdd(@, node, delta)]
    ELSE [pn EXCEPT !.negative = GAdd(@, node, Wrap(-delta))]

\* A value that subtracts the u64 sums without the (i64) casts.
PNValueUnsigned(pn) == Wrap(GValue(pn.positive) - GValue(pn.negative))

\* cauchy_pncounter_value: (i64)sum(positive) - (i64)sum(negative).  An
\* i64 subtraction that overflows is undefined in C; the builds wrap it in
\* two's complement, which is what this computes.
PNValue(pn) == ToSigned(Wrap(ToSigned(GValue(pn.positive)) - ToSigned(GValue(pn.negative))))

\* A merge that forgets the negative half.
PNMergePositiveOnly(dst, src) ==
    [dst EXCEPT !.positive = GMerge(dst.positive, src.positive)]

\* cauchy_pncounter_merge: component-wise G-Counter merge.
PNMerge(dst, src) ==
    [positive |-> GMerge(dst.positive, src.positive),
     negative |-> GMerge(dst.negative, src.negative)]

\* cauchy_pncounter_equals
PNEquals(a, b) ==
    GEquals(a.positive, b.positive) /\ GEquals(a.negative, b.negative)

\* cauchy_pncounter_serialize: positive half, then negative half.
PNSerialize(pn) == GSerialize(pn.positive) \o GSerialize(pn.negative)

\* cauchy_pncounter_deserialize: the positive half is decoded into the
\* target first; the negative half from what follows it.  The result is
\* <<code, value>>: on a failure of the second half the target keeps the
\* new positive half, as the C code leaves it.
PNDeserialize(pn, buf) ==
    IF Len(buf) < 2 \/ ~GDeserializeOk(buf) THEN <<"Invalid", pn>>
    ELSE LET pos  == GDeserialize(buf)
             rest == SubSeq(buf, GSerializedSize(pos) + 1, Len(buf))
         IN IF GDeserializeOk(rest)
            THEN <<"OK", [positive |-> pos, negative |-> GDeserialize(rest)]>>
            ELSE <<"Invalid", [pn EXCEPT !.positive = pos]>>

=============================================================================
