---------------------------- MODULE LWWReplicas ----------------------------
(***************************************************************************)
(* Replicas each holding one LWW-Register (lww_register.c) and writing     *)
(* with their own node id.  A replica ships cauchy_lww_serialize output;   *)
(* a peer decodes a received buffer with cauchy_lww_deserialize into a     *)
(* fresh register and, when that returns OK, merges it with                *)
(* cauchy_lww_merge.  The network is the set of buffers ever sent: a       *)
(* buffer may be lost, delivered again or out of order, and a delivery may *)
(* be short (any prefix of the buffer).  The ghost variable writes holds   *)
(* the registers that accepted calls of cauchy_lww_set produced.           *)
(***************************************************************************)
EXTENDS LWWRegister

CONSTANTS Replicas    \* node ids of the replicas

ASSUME Replicas \subseteq NodeIds

VARIABLES reg,        \* reg[r]: the cauchy_lww_register_t of replica r
          net,        \* serialized buffers handed to the transport
          writes      \* ghost: registers produced by cauchy_lww_set

vars == <<reg, net, writes>>

Init ==
    /\ reg = [r \in Replicas |-> LWWInit]
    /\ net = {}
    /\ writes = {}

\* cauchy_lww_set(reg, v, size, ts, self).  Full and a stale stamp leave
\* the register as it is.
Set(r, v, size, ts) ==
    LET res == LWWSet(reg[r], v, size, ts, r) IN
    /\ reg' = [reg EXCEPT ![r] = res[2]]
    /\ writes' = IF res[2] # reg[r] THEN writes \cup {res[2]} ELSE writes
    /\ UNCHANGED net

\* cauchy_lww_serialize, handed to the transport.
Send(r) ==
    /\ net' = net \cup {LWWSerialize(reg[r])}
    /\ UNCHANGED <<reg, writes>>

\* The first n bytes of a buffer, as a short read delivers them.
Prefix(b, n) == [b EXCEPT !.len = n]

\* cauchy_lww_deserialize of what arrived into a fresh register, then
\* cauchy_lww_merge when it returned OK; an Invalid buffer is dropped.
Receive(r, b, n) ==
    LET d == LWWDeserialize(LWWInit, Prefix(b, n)) IN
    /\ d[1] = "OK"
    /\ reg' = [reg EXCEPT ![r] = LWWMerge(@, d[2])]
    /\ UNCHANGED <<net, writes>>

Gossip ==
    \E r \in Replicas :
        \/ Send(r)
        \/ \E b \in net, n \in 0 .. HeaderLen + MaxValueSize : n <= b.len /\ Receive(r, b, n)

Next ==
    \/ \E r \in Replicas, v \in Vals, size \in 0 .. MaxValueSize + 1, ts \in Stamps :
          Set(r, v, size, ts)
    \/ Gossip

\* Anti-entropy keeps running while it can still change some replica.
Fairness == WF_vars(Gossip)

Spec == Init /\ [][Next]_vars /\ Fairness

-----------------------------------------------------------------------------
TypeOK ==
    /\ reg \in [Replicas -> Registers]
    /\ net \subseteq Buffers
    /\ writes \subseteq Registers

\* Whatever was lost, duplicated, reordered or cut short on the way, every
\* replica holds, stamp and live bytes together, the register that one
\* accepted set produced (or the fresh one), as cauchy_lww_equals sees it:
\* merge never pairs one write's stamp with another write's value.
RegisterIsSomeWrite ==
    \A r \in Replicas : \E w \in writes \cup {LWWInit} : LWWEquals(reg[r], w)

\* The spec's invariant of the register: the (timestamp, node_id) a replica
\* holds never goes back, under set or merge.
StampNeverRegresses ==
    [][\A r \in Replicas :
          reg'[r] = reg[r] \/ Newer(reg'[r].timestamp, reg'[r].node_id, reg[r])]_reg

\* Once writes stop, fair anti-entropy leaves every replica equal
\* (cauchy_lww_equals) to every other.
EventuallyConverged ==
    <>[](\A r, s \in Replicas : LWWEquals(reg[r], reg[s]))

\* The spec's error rule (partial work is rolled back before an error is
\* returned) for cauchy_lww_deserialize: decoding any prefix of a buffer in
\* flight either succeeds or leaves the target register as it was.
FailedDecodeLeavesTarget ==
    \A b \in net, n \in 0 .. HeaderLen + MaxValueSize :
        LET d == LWWDeserialize(LWWInit, Prefix(b, n)) IN
        n <= b.len /\ d[1] = "Invalid" => d[2] = LWWInit

=============================================================================
