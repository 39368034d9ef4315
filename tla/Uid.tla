-------------------------------- MODULE Uid --------------------------------
(***************************************************************************)
(* The cauchy_uid_t helpers of src/include/cauchy/types.h: a uid is a     *)
(* (node_id, timestamp) pair, ordered by timestamp first and node_id       *)
(* second.                                                                 *)
(***************************************************************************)
EXTENDS Integers

\* cauchy_uid_create
UidCreate(node, ts) == [node_id |-> node, timestamp |-> ts]

\* cauchy_uid_compare: -1, 0 or 1.
UidCompare(a, b) ==
    CASE a.timestamp # b.timestamp -> IF a.timestamp < b.timestamp THEN -1 ELSE 1
      [] a.node_id # b.node_id -> IF a.node_id < b.node_id THEN -1 ELSE 1
      [] OTHER -> 0

\* cauchy_uid_equals
UidEquals(a, b) == a.node_id = b.node_id /\ a.timestamp = b.timestamp

=============================================================================
