-------------------------- MODULE TwoPSetReplicas --------------------------
(***************************************************************************)
(* Replicas each holding one 2P-Set (2p_set.c over g_set.c).  A replica    *)
(* adds and removes payloads locally, ships a copy of its set, and a peer  *)
(* applies cauchy_2pset_merge to a copy it received.  The network is the   *)
(* set of copies ever sent: any may be lost, delivered again or out of     *)
(* order.  A merge may stop on NoMem inside either of its two G-Set        *)
(* merges, with what it merged before the failure kept.                    *)
(***************************************************************************)
EXTENDS TwoPSet

CONSTANTS Replicas

VARIABLES sets,       \* sets[r]: the cauchy_2pset_t of replica r
          net         \* copies handed to the transport

vars == <<sets, net>>

Init ==
    /\ sets = [r \in Replicas |-> TwoPInit]
    /\ net = {}

\* cauchy_2pset_add(set, x)
Add(r, x) ==
    /\ sets' = [sets EXCEPT ![r] = TwoPAdd(@, x)]
    /\ UNCHANGED net

\* cauchy_2pset_remove(set, x); NotFound leaves the set as it is.
Remove(r, x) ==
    /\ sets' = [sets EXCEPT ![r] = TwoPRemove(@, x)[2]]
    /\ UNCHANGED net

Send(r) ==
    /\ net' = net \cup {sets[r]}
    /\ UNCHANGED sets

\* cauchy_2pset_merge(dst, copy) returning OK.
Receive(r, src) ==
    /\ sets' = [sets EXCEPT ![r] = TwoPMerge(@, src)]
    /\ UNCHANGED net

\* cauchy_2pset_merge(dst, copy) returning NoMem: the add of payload f
\* failed after the payloads in P were merged, in the added half (the
\* removed half is then skipped) or in the removed half.
ReceiveNoMem(r, src) ==
    LET d == sets[r] IN
    /\ \/ \E P \in SUBSET src.added.elems, f \in src.added.elems :
             /\ f \in GSetNeedsAlloc(GSetMergeElems(d.added, P), {f} \ P)
             /\ sets' = [sets EXCEPT ![r] = TwoPMergeFailAdded(d, P)]
       \/ \E P \in SUBSET src.removed.elems, f \in src.removed.elems :
             /\ f \in GSetNeedsAlloc(GSetMergeElems(d.removed, P), {f} \ P)
             /\ sets' = [sets EXCEPT ![r] = TwoPMergeFailRemoved(d, src, P)]
    /\ UNCHANGED net

Gossip ==
    \E r \in Replicas : Send(r) \/ \E src \in net : Receive(r, src)

Next ==
    \/ \E r \in Replicas, x \in Elems : Add(r, x) \/ Remove(r, x)
    \/ \E r \in Replicas, src \in net : ReceiveNoMem(r, src)
    \/ Gossip

\* Anti-entropy keeps running; a merge eventually gets its memory.
Fairness == WF_vars(Gossip)

Spec == Init /\ [][Next]_vars /\ Fairness

-----------------------------------------------------------------------------
TypeOK ==
    /\ sets \in [Replicas -> TwoPSetValues]
    /\ net \subseteq TwoPSetValues

\* The count each G-Set keeps by hand equals its number of payloads, after
\* any mix of duplicate, stale and half-done merges (count and equals rely
\* on it).
CountsAccurate ==
    \A r \in Replicas, half \in {"added", "removed"} :
        sets[r][half].count = Cardinality(sets[r][half].elems)

\* A tombstone only exists for a payload that was added, at every replica,
\* even when a merge stopped between the added and the removed half.
RemovedWereAdded ==
    \A r \in Replicas : sets[r].removed.elems \subseteq sets[r].added.elems

\* Remove is final: a payload once added or removed at a replica stays so,
\* so a removed payload is never reported present there again.
NoResurrection ==
    [][\A r \in Replicas :
          /\ sets[r].added.elems \subseteq sets'[r].added.elems
          /\ sets[r].removed.elems \subseteq sets'[r].removed.elems]_sets

\* Bucket layouts the G-Set iterator is checked with: num_buckets of 1, 2
\* and 3 (at 1 the loop bound num_buckets - 1 is 0), every way of spreading
\* the payloads over them.
GIterLayouts == UNION {{<<nb, B>> : B \in [Elems -> 0 .. nb - 1]} : nb \in 1 .. 3}

\* The payload sets a loop of cauchy_gset_iter_init and iter_next walks
\* correctly in every layout: each payload handed out exactly once.
GIterSafeElems ==
    {S \in SUBSET Elems :
        \A layout \in GIterLayouts :
            LET out == GSetIterate([elems |-> S, count |-> Cardinality(S)], layout[2], layout[1])
            IN /\ {out[i] : i \in 1 .. Len(out)} = S
               /\ Len(out) = Cardinality(S)}

\* Iterating either G-Set of any replica with cauchy_gset_iter_init and
\* iter_next, whatever buckets hash_data spreads the payloads over, hands
\* out each payload exactly once, past empty buckets before, between and
\* after them.
GSetIterYieldsAll ==
    \A r \in Replicas, half \in {"added", "removed"} : sets[r][half].elems \in GIterSafeElems

\* Once updates stop, fair anti-entropy makes all replicas equal
\* (cauchy_2pset_equals).
EventuallyConverged ==
    <>[](\A r, s \in Replicas : TwoPEquals(sets[r], sets[s]))

=============================================================================
