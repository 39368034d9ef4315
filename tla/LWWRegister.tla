---------------------------- MODULE LWWRegister ----------------------------
(***************************************************************************)
(* The last-writer-wins register of src/src/crdt/lww_register.c as pure    *)
(* operators on a register value.  The inline value buffer is abstracted   *)
(* to the write whose bytes it holds (a model value, NoValue for the zero  *)
(* bytes of a fresh register) and value_size is kept as a number, in       *)
(* abstract bytes.  A serialized register is its three header fields, the  *)
(* value it carries, and the number of bytes actually present: the header  *)
(* counts HeaderLen bytes, the payload value_size more.                    *)
(***************************************************************************)
EXTENDS Naturals

CONSTANTS Vals,          \* values written by cauchy_lww_set
          NoValue,       \* the zeroed value buffer of a fresh register
          MaxValueSize,  \* CAUCHY_LWW_MAX_VALUE_SIZE
          NodeIds,       \* node_id arguments
          Stamps         \* timestamp arguments

\* sizeof(timestamp) + sizeof(node_id) + sizeof(value_size), in the units
\* value_size counts.
HeaderLen == 3

Registers == [value : Vals \cup {NoValue}, value_size : 0 .. MaxValueSize,
              timestamp : Stamps \cup {0}, node_id : NodeIds \cup {0}]

Buffers == [timestamp : Stamps \cup {0}, node_id : NodeIds \cup {0},
            value_size : Nat, value : Vals \cup {NoValue}, len : Nat]

\* cauchy_lww_init: all bytes zero.
LWWInit == [value |-> NoValue, value_size |-> 0, timestamp |-> 0, node_id |-> 0]

\* The accept rule of set and merge: (timestamp, node_id) is greater.
Newer(ts, node, reg) ==
    \/ ts > reg.timestamp
    \/ ts = reg.timestamp /\ node > reg.node_id

\* A set that does not check the size ceiling.
LWWSetNoCeiling(reg, v, size, ts, node) ==
    IF ~Newer(ts, node, reg) THEN <<"OK", reg>>
    ELSE <<"OK", [value      |-> IF size > 0 THEN v ELSE reg.value,
                  value_size |-> size, timestamp |-> ts, node_id |-> node]>>

\* cauchy_lww_set: Full above the size ceiling; otherwise the write replaces
\* the register when newer, and its bytes are copied only when there are
\* some (value_size 0 keeps the old bytes).  Result <<code, register>>.
LWWSet(reg, v, size, ts, node) ==
    IF size > MaxValueSize THEN <<"Full", reg>>
    ELSE IF ~Newer(ts, node, reg) THEN <<"OK", reg>>
    ELSE <<"OK", [value      |-> IF size > 0 THEN v ELSE reg.value,
                  value_size |-> size, timestamp |-> ts, node_id |-> node]>>

\* A merge that only looks at timestamps.
LWWMergeNoTieBreak(dst, src) ==
    IF src.timestamp > dst.timestamp THEN src ELSE dst

\* A merge that takes over the winner's stamp but keeps its own bytes.
LWWMergeStampOnly(dst, src) ==
    IF Newer(src.timestamp, src.node_id, dst)
    THEN [dst EXCEPT !.timestamp = src.timestamp, !.node_id = src.node_id]
    ELSE dst

\* A merge that lets an equal timestamp win whatever the node.
LWWMergeTieTakesSource(dst, src) ==
    IF src.timestamp >= dst.timestamp THEN src ELSE dst

\* cauchy_lww_merge: copy the whole source register when it is newer.
LWWMerge(dst, src) ==
    IF Newer(src.timestamp, src.node_id, dst) THEN src ELSE dst

\* cauchy_lww_equals: stamps, sizes and the first value_size bytes.
LWWEquals(a, b) ==
    /\ a.timestamp = b.timestamp
    /\ a.node_id = b.node_id
    /\ a.value_size = b.value_size
    /\ a.value_size > 0 => a.value = b.value

\* cauchy_lww_serialize: the header, then value_size bytes of the value
\* (none at all when value_size is 0).
LWWSerialize(reg) ==
    [timestamp  |-> reg.timestamp, node_id |-> reg.node_id,
     value_size |-> reg.value_size,
     value      |-> IF reg.value_size > 0 THEN reg.value ELSE NoValue,
     len        |-> HeaderLen + reg.value_size]

\* cauchy_lww_deserialize: Invalid on a short header with the target
\* untouched; otherwise the three header fields are written into the target
\* first, and only then value_size is checked against the ceiling and the
\* bytes present.  Result <<code, register>>.
LWWDeserialize(reg, buf) ==
    IF buf.len < HeaderLen THEN <<"Invalid", reg>>
    ELSE LET hdr == [reg EXCEPT !.timestamp = buf.timestamp,
                                !.node_id = buf.node_id,
                                !.value_size = buf.value_size]
         IN IF buf.value_size > MaxValueSize \/ buf.len < HeaderLen + buf.value_size
            THEN <<"Invalid", hdr>>
            ELSE <<"OK", IF buf.value_size > 0 THEN [hdr EXCEPT !.value = buf.value]
                                               ELSE hdr>>

=============================================================================
