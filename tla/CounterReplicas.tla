-------------------------- MODULE CounterReplicas --------------------------
(***************************************************************************)
(* A cluster of replicas, each holding one PN-Counter (pn_counter.c over   *)
(* g_counter.c).  A replica updates its own counter with its own node id,  *)
(* ships cauchy_pncounter_serialize output to the network, and a peer      *)
(* applies cauchy_pncounter_deserialize then cauchy_pncounter_merge.       *)
(* The network is the set of buffers ever sent: a buffer may be delivered  *)
(* never (lost), many times (duplicated) and in any order (reordered).     *)
(* The ghost variable hist records the updates each replica has issued,    *)
(* and each buffer is paired with the ghost count of every node's updates  *)
(* the shipped counter holds; neither exists in the code.                  *)
(***************************************************************************)
EXTENDS PNCounter, FiniteSets, SequencesExt

CONSTANTS Replicas,   \* node ids of the replicas, a subset of Slots
          NumNodes,   \* num_nodes every replica passes to cauchy_pncounter_init
          Deltas,     \* the i64 deltas given to cauchy_pncounter_add
          MaxOps      \* updates one replica issues, at most

ASSUME Replicas \subseteq Slots
ASSUME Deltas \subseteq -(2^(Width - 1)) .. 2^(Width - 1) - 1

VARIABLES pn,       \* pn[r]: the cauchy_pncounter_t of replica r
          net,      \* serialized buffers handed to the transport
          hist      \* ghost: the deltas replica r has issued, in order

vars == <<pn, net, hist>>

Init ==
    /\ pn = [r \in Replicas |-> PNInit(NumNodes)]
    /\ net = {}
    /\ hist = [r \in Replicas |-> <<>>]

\* Every local update goes through this: apply `new` to the replica's
\* counter and record the delta it stands for.
LocalUpdate(r, new, delta) ==
    /\ Len(hist[r]) < MaxOps
    /\ pn' = [pn EXCEPT ![r] = new]
    /\ hist' = [hist EXCEPT ![r] = Append(@, delta)]
    /\ UNCHANGED net

\* cauchy_pncounter_increment(pn, self)
Increment(r) == LocalUpdate(r, PNIncrement(pn[r], r), 1)

\* cauchy_pncounter_decrement(pn, self)
Decrement(r) == LocalUpdate(r, PNDecrement(pn[r], r), -1)

\* cauchy_pncounter_add(pn, self, d)
Add(r, d) == LocalUpdate(r, PNAdd(pn[r], r, d), d)

\* What the first k deltas of h add to the half of sign sgn.
RECURSIVE HalfOf(_, _, _)
HalfOf(h, k, sgn) ==
    IF k = 0 THEN 0
    ELSE HalfOf(h, k - 1, sgn) + (IF sgn * h[k] > 0 THEN sgn * h[k] ELSE 0)

\* What the first k updates of replica i add to each half.
PositiveOf(i, k) == HalfOf(hist[i], k, 1)
NegativeOf(i, k) == HalfOf(hist[i], k, -1)

\* How many of node i's updates counter c holds: the prefix of hist[i]
\* whose positive and negative parts are c's two entries for i (every
\* update raises one of them, so at most one prefix fits), or -1.
PrefixOf(c, i) ==
    LET Fits(k) == /\ c.positive.counts[i] = PositiveOf(i, k)
                   /\ c.negative.counts[i] = NegativeOf(i, k)
    IN IF \E k \in 0 .. Len(hist[i]) : Fits(k)
       THEN CHOOSE k \in 0 .. Len(hist[i]) : Fits(k) ELSE -1

\* cauchy_pncounter_serialize, handed to the transport, with the ghost
\* prefix of every node's updates the shipped counter holds.
Send(r) ==
    /\ net' = net \cup {[buf  |-> PNSerialize(pn[r]),
                          seen |-> [i \in Replicas |-> PrefixOf(pn[r], i)]]}
    /\ UNCHANGED <<pn, hist>>

\* The transport decodes a buffer into a fresh counter and merges it; a
\* buffer that fails to decode is dropped.
Receive(r, m) ==
    LET d == PNDeserialize(PNInit(0), m.buf) IN
    /\ d[1] = "OK"
    /\ pn' = [pn EXCEPT ![r] = PNMerge(@, d[2])]
    /\ UNCHANGED <<net, hist>>

\* One round of anti-entropy: some replica ships its state or some replica
\* applies a buffer in flight.
Gossip ==
    \E r \in Replicas : Send(r) \/ \E m \in net : Receive(r, m)

Next ==
    \/ \E r \in Replicas :
        \/ Increment(r)
        \/ Decrement(r)
        \/ \E d \in Deltas : Add(r, d)
    \/ Gossip

\* Anti-entropy (outside the library) keeps running while it can still
\* change some replica's state.  Updates are not required to happen.
Fairness == WF_vars(Gossip)

Spec == Init /\ [][Next]_vars /\ Fairness

-----------------------------------------------------------------------------
TypeOK ==
    /\ pn \in [Replicas -> PNCounterValues]
    /\ \A r \in Replicas, half \in {"positive", "negative"} :
          \A i \in Slots : i >= pn[r][half].num_nodes => pn[r][half].counts[i] = 0
    /\ \A m \in net : m.buf \in Seq(Word)
    /\ hist \in [Replicas -> Seq(Int)]

\* Whatever sequence of lost, duplicated and reordered deliveries a replica
\* has seen, its two entries for node i are what one prefix of i's updates
\* adds up to: no update is counted twice or lost by a merge, none lands in
\* the wrong half, and the two halves never come from different moments.
CountsMatchSomePrefix ==
    \A r, i \in Replicas :
        \E k \in 0 .. Len(hist[i]) :
            /\ pn[r].positive.counts[i] = PositiveOf(i, k)
            /\ pn[r].negative.counts[i] = NegativeOf(i, k)

\* The spec's invariant of a G-Counter: no step (update, decode or merge)
\* ever lowers an entry of either half.
Monotonic ==
    [][\A r \in Replicas, half \in {"positive", "negative"}, i \in Slots :
          pn'[r][half].counts[i] >= pn[r][half].counts[i]]_pn

\* cauchy_gcounter_compare orders any two replicas' halves the way merge
\* joins them: it answers HAPPENS_BEFORE or EQUAL for r's half against s's
\* exactly when cauchy_gcounter_merge of r's half into s's changes nothing,
\* in every state lost, duplicated and reordered deliveries leave behind.
CompareAgreesWithMerge ==
    \A r, s \in Replicas, half \in {"positive", "negative"} :
        LET a == pn[r][half]
            b == pn[s][half]
        IN GCompare(a, b) \in {"HAPPENS_BEFORE", "EQUAL"} <=> GMerge(b, a) = b

\* cauchy_pncounter_add moves cauchy_pncounter_value by exactly delta in
\* i64 two's-complement arithmetic: for every delta, INT64_MIN included
\* (whose negation the code stores as the u64 2^63), and from every counter
\* state that updates and lost, duplicated or reordered merges reach.
AddShiftsValue ==
    \A r \in Replicas, d \in I64 :
        PNValue(PNAdd(pn[r], r, d)) = ToSigned(Wrap(PNValue(pn[r]) + d))

Abs == INSTANCE AbstractCounter
          WITH Deltas <- Deltas \cup {1, -1},
               seen <- [r \in Replicas |-> [i \in Replicas |-> PrefixOf(pn[r], i)]],
               sent <- {m.seen : m \in net}

\* The replicas implement the abstract counter: every update is seen by its
\* issuer at once, a counter never forgets a seen update, and a receive
\* (deserialize, then merge) joins with a state some replica really shipped,
\* however late or often it arrives.
CounterRefinement == Abs!Spec

\* At every moment, cauchy_pncounter_value of a replica is the sum of the
\* updates it has seen, through the u64 halves and the (i64) casts.
ValueIsSeenSum ==
    \A r \in Replicas : PNValue(pn[r]) = ToSigned(Wrap(Abs!Value(r)))

\* Sum of all updates ever issued.
IssuedTotal ==
    FoldFunction(LAMBDA h, acc : acc + FoldLeft(+, 0, h), 0, hist)

\* Once updates stop, fair anti-entropy brings every replica to the same
\* state (cauchy_pncounter_equals), whose value is the sum of all updates.
EventuallyConverged ==
    <>[](\A r, s \in Replicas :
            /\ PNEquals(pn[r], pn[s])
            /\ PNValue(pn[r]) = IssuedTotal)

=============================================================================
