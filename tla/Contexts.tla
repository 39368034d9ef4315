------------------------------ MODULE Contexts ------------------------------
(***************************************************************************)
(* Nodes each owning a cauchy_context_t (src/src/core/cauchy.c): its      *)
(* node_id, its local vector clock of width CAUCHY_MAX_NODES and its       *)
(* op_counter.  A node issues uids and ticks, ships its serialized clock,  *)
(* and applies cauchy_context_merge_clock to a clock it received.  The     *)
(* network is the set of buffers ever sent.  Ghost state records, per      *)
(* event, the clock it left and its causal past, so the clocks can be      *)
(* checked against happened-before.                                        *)
(***************************************************************************)
EXTENDS VClock, FiniteSets, Uid

CONSTANTS Nodes,      \* the node_id of each context
          MaxEvents   \* events per node (bound)

VARIABLES clock,      \* clock[n]: ctx->local_clock
          opCounter,  \* opCounter[n]: ctx->op_counter
          net,        \* [buf, past]: serialized clocks sent, with the ghost past
          known,      \* known[n]: ghost, the events in n's causal past
          events,     \* ghost, [id, clock, past] of every event so far
          issued      \* issued[n]: ghost, the last uid n issued

vars == <<clock, opCounter, net, known, events, issued>>

NoUid == [node_id |-> 0, timestamp |-> 0]

\* cauchy_context_create
Init ==
    /\ clock = [n \in Nodes |-> VCInit(MaxNodes)]
    /\ opCounter = [n \in Nodes |-> 0]
    /\ net = {}
    /\ known = [n \in Nodes |-> {}]
    /\ events = {}
    /\ issued = [n \in Nodes |-> NoUid]

EventsAt(n) == {e \in events : e.id[1] = n}

\* The ghost bookkeeping of an event at n that leaves clock c and has
\* also seen the events in seen.
Occur(n, c, seen) ==
    LET id == <<n, Cardinality(EventsAt(n)) + 1>>
        past == known[n] \cup seen \cup {id}
    IN /\ Cardinality(EventsAt(n)) < MaxEvents
       /\ clock' = [clock EXCEPT ![n] = c]
       /\ known' = [known EXCEPT ![n] = past]
       /\ events' = events \cup {[id |-> id, clock |-> c, past |-> past]}

\* A gen_uid that returns the own slot without bumping it.
GenUidNoIncrement(n) ==
    /\ Occur(n, clock[n], {})
    /\ opCounter' = [opCounter EXCEPT ![n] = @ + 1]
    /\ issued' = [issued EXCEPT ![n] = UidCreate(n, VCGet(clock[n], n))]
    /\ UNCHANGED net

\* cauchy_context_gen_uid: bump the own slot and op_counter, and return
\* (node_id, own slot).
GenUid(n) ==
    LET c == VCIncrement(clock[n], n) IN
    /\ Occur(n, c, {})
    /\ opCounter' = [opCounter EXCEPT ![n] = @ + 1]
    /\ issued' = [issued EXCEPT ![n] = UidCreate(n, VCGet(c, n))]
    /\ UNCHANGED net

\* cauchy_context_tick
Tick(n) ==
    /\ Occur(n, VCIncrement(clock[n], n), {})
    /\ UNCHANGED <<opCounter, net, issued>>

\* cauchy_vclock_serialize of the local clock, handed to the transport.
Send(n) ==
    /\ net' = net \cup {[buf |-> VCSerialize(clock[n]), past |-> known[n]]}
    /\ UNCHANGED <<clock, opCounter, known, events, issued>>

\* A merge_clock that does not count the receive as an own event.
MergeClockNoTick(n, m) ==
    LET r == VCDeserialize(VCInit(0), m.buf) IN
    /\ r[1] = "OK"
    /\ Occur(n, VCMerge(clock[n], r[2]), m.past)
    /\ UNCHANGED <<opCounter, net, issued>>

\* cauchy_vclock_deserialize of a received buffer, then
\* cauchy_context_merge_clock: merge, then bump the own slot.
MergeClock(n, m) ==
    LET r == VCDeserialize(VCInit(0), m.buf) IN
    /\ r[1] = "OK"
    /\ Occur(n, VCIncrement(VCMerge(clock[n], r[2]), n), m.past)
    /\ UNCHANGED <<opCounter, net, issued>>

Next ==
    \E n \in Nodes :
        \/ GenUid(n)
        \/ Tick(n)
        \/ Send(n)
        \/ \E m \in net : MergeClock(n, m)

Spec == Init /\ [][Next]_vars

-----------------------------------------------------------------------------
TypeOK ==
    /\ \A n \in Nodes : clock[n].num_nodes \in 0 .. MaxNodes
    /\ clock \in [Nodes -> [entries : [Slots -> Nat], num_nodes : Nat]]
    /\ opCounter \in [Nodes -> 0 .. MaxEvents]

\* cauchy_vclock_compare on the clocks two events left says
\* HAPPENS_BEFORE exactly when the first is in the causal past of the
\* second (so CONCURRENT exactly when neither is), for every pair of
\* events of uid issue, tick and merge_clock at any nodes.
ClockCharacterisesCausality ==
    \A e, f \in events :
        (VCCompare(e.clock, f.clock) = "HAPPENS_BEFORE") <=> (e.id \in f.past /\ e.id # f.id)

\* cauchy_vclock_sum of a node's clock counts the events in its causal past:
\* every event bumps exactly one slot, and merges never count one twice.
SumCountsKnownEvents ==
    \A n \in Nodes : VCSum(clock[n]) = Cardinality(known[n])

\* Each uid cauchy_context_gen_uid returns on node N (each call bumps
\* op_counter) is strictly greater, in cauchy_uid_compare order, than the
\* one N returned before (spec.md, UID): never the same uid twice, across
\* ticks and merge_clock in between.
UidsIncrease ==
    [][\A n \in Nodes :
          opCounter'[n] # opCounter[n] => UidCompare(issued'[n], issued[n]) = 1]_<<opCounter, issued>>

=============================================================================
