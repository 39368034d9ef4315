--------------------------- MODULE ORSetReplicas ---------------------------
(***************************************************************************)
(* Replicas each holding one OR-Set (or_set.c), created with the replica's *)
(* own node_id.  A replica adds and removes payloads locally, ships a copy *)
(* of its set, and a peer applies cauchy_orset_merge to a copy it has      *)
(* received.  The transport keeps the last copy each replica shipped: a    *)
(* newer copy replaces (loses) an undelivered one, and a copy may be       *)
(* delivered any number of times, also after the receiver has moved on.    *)
(* A merge may stop on NoMem after having applied part of the source.      *)
(***************************************************************************)
EXTENDS ORSet

CONSTANTS Replicas    \* node_id of each replica's set

ASSUME Replicas \subseteq NodeIds

VARIABLES sets,       \* sets[r]: the cauchy_orset_t of replica r
          net,        \* net[r]: entries of the last copy replica r shipped
          observed    \* ghost: tags some remove has tombstoned where it ran

vars == <<sets, net, observed>>

Init ==
    /\ sets = [r \in Replicas |-> ORInit(r)]
    /\ net = [r \in Replicas |-> {}]
    /\ observed = {}

\* cauchy_orset_add(set, x) returning OK; the tag counter is bounded.
Add(r, x) ==
    /\ sets[r].timestamp < MaxStamp
    /\ sets' = [sets EXCEPT ![r] = ORAdd(sets[r], x)]
    /\ UNCHANGED <<net, observed>>

\* cauchy_orset_remove(set, x) returning OK (NotFound changes nothing).
Remove(r, x) ==
    LET res == ORRemove(sets[r], x) IN
    /\ res[1] = "OK"
    /\ sets' = [sets EXCEPT ![r] = res[2]]
    /\ observed' = observed \cup {e.tag : e \in Visible(sets[r], x)}
    /\ UNCHANGED net

\* A copy of the replica's entries goes to the transport.
Send(r) ==
    /\ net' = [net EXCEPT ![r] = sets[r].entries]
    /\ UNCHANGED <<sets, observed>>

\* cauchy_orset_merge(dst, copy) returning OK.
Receive(r, src) ==
    /\ sets' = [sets EXCEPT ![r] = ORMergeEntries(@, src)]
    /\ UNCHANGED <<net, observed>>

\* cauchy_orset_merge(dst, copy) returning NoMem: the entries visited before
\* the failing allocation stay merged, the failing one and the rest do not.
ReceiveNoMem(r, src) ==
    \E P \in SUBSET src, f \in src :
        /\ f \notin P
        /\ f \in NeedsAlloc(ORMergeEntries(sets[r], P), {f})
        /\ sets' = [sets EXCEPT ![r] = ORMergeEntries(@, P)]
        /\ UNCHANGED <<net, observed>>

Gossip ==
    \E r \in Replicas : Send(r) \/ \E s \in Replicas \ {r} : Receive(r, net[s])

Next ==
    \/ \E r \in Replicas, x \in Elems :
        \/ Add(r, x)
        \/ Remove(r, x)
    \/ \E r \in Replicas : \E s \in Replicas \ {r} : ReceiveNoMem(r, net[s])
    \/ Gossip

\* Anti-entropy keeps running, and a merge eventually gets its memory.
Fairness == WF_vars(Gossip)

Spec == Init /\ [][Next]_vars /\ Fairness

-----------------------------------------------------------------------------
TypeOK ==
    /\ sets \in [Replicas -> ORSetValues]
    /\ net \in [Replicas -> SUBSET Entries]
    /\ observed \subseteq Tags

\* The counters kept by hand in add, remove and both branches of merge agree
\* with the entries, after any mix of duplicated, reordered and partial
\* merges: entry_count counts entries, active_count the untombstoned ones.
ActiveCountAccurate ==
    \A r \in Replicas :
        /\ sets[r].entry_count = Cardinality(sets[r].entries)
        /\ sets[r].active_count = Cardinality({e \in sets[r].entries : ~e.removed})

\* A tag names one add: within a replica no two entries share a tag, so a
\* merge never duplicates an entry it already has.
TagsUnique ==
    \A r \in Replicas : \A e1, e2 \in sets[r].entries :
        e1.tag = e2.tag => e1 = e2

\* Add wins: an entry is tombstoned, anywhere, only if some remove saw that
\* very tag visible; an add concurrent with (unseen by) every remove of its
\* payload stays visible at every replica it reaches.
AddWins ==
    \A r \in Replicas : \A e \in sets[r].entries :
        e.removed => e.tag \in observed

\* No step loses an entry or revives a tombstone (merge never un-removes).
TombstonesPermanent ==
    [][\A r \in Replicas : \A e \in sets[r].entries :
          \E e2 \in sets'[r].entries :
             /\ e2.tag = e.tag /\ e2.data = e.data
             /\ e.removed => e2.removed]_sets

\* Once updates stop, fair anti-entropy leaves all replicas with the same
\* entries, hence the same answers to contains and count.
EventuallyConsistent ==
    <>[](\A r, s \in Replicas : sets[r].entries = sets[s].entries)

\* Every OR-Set value over Elems and Tags whose entries have unique tags
\* and whose counters match them: each set a replica can hold, and more.
TagUniqueSets ==
    UNION {{LET es == {[data |-> c[t][1], tag |-> t, removed |-> c[t][2]] : t \in P}
            IN [entries |-> es, entry_count |-> Cardinality(es),
                active_count |-> Cardinality({e \in es : ~e.removed}),
                node_id |-> CHOOSE n \in NodeIds : TRUE, timestamp |-> MaxStamp]
            : c \in [P -> Elems \X BOOLEAN]} : P \in SUBSET Tags}

\* Bucket layouts the iterator is checked with: num_buckets of 1 (the loop
\* bound num_buckets - 1 is 0), 2 and 3, and every way of spreading the
\* payloads over them, so that payloads share a bucket or lie apart, with
\* empty buckets before, between and after them.
IterLayouts == UNION {{<<nb, B>> : B \in [Elems -> 0 .. nb - 1]} : nb \in 1 .. 3}

\* A loop of cauchy_orset_iter_init and iter_next over s, for every bucket
\* layout, ends and hands out each untombstoned entry exactly once.
IterWalks(s) ==
    \A layout \in IterLayouts :
        LET out == Iterate(s, layout[2], layout[1])
            handed == {out[2][i] : i \in 1 .. Len(out[2])}
        IN /\ out[1] = "end"
           /\ \A i, j \in 1 .. Len(out[2]) : i # j => out[2][i] # out[2][j]
           /\ \A e \in handed : ~e.removed
           /\ {e.data : e \in handed} = Elements(s)

\* The entry sets the iterator walks correctly.
IterSafeEntries == {s.entries : s \in {s \in TagUniqueSets : IterWalks(s)}}

\* Iterating any replica's set with cauchy_orset_iter_init and iter_next
\* ends, never hands out a tombstoned entry or the same entry twice, and
\* hands out every active element (or_set.h: "iterator for active
\* elements"), whatever buckets hash_data spreads the payloads over, with
\* tombstones at the head, middle and end of chains and empty buckets.
IterYieldsActive == \A r \in Replicas : sets[r].entries \in IterSafeEntries

\* cauchy_orset_equals answers "equal" exactly for sets with the same
\* elements (or_set.h: count is the number of unique active elements).
EqualsMeansSameElements ==
    \A r, s \in Replicas :
        OREquals(sets[r], sets[s]) <=> Elements(sets[r]) = Elements(sets[s])

=============================================================================
