----------------------------- MODULE BlockPool ------------------------------
(***************************************************************************)
(* The lock-free block pool of src/src/core/memory.c, one action per       *)
(* atomic step of cauchy_pool_alloc and cauchy_pool_free, so that threads  *)
(* interleave wherever the hardware lets them.  The free list is a         *)
(* Treiber stack: head is pool->free_list and next[b] is the link word     *)
(* stored in the first bytes of block b.  Blocks 1..InitialBlocks are the  *)
(* slab cauchy_pool_create pre-seeds; the ones above it are what           *)
(* cauchy_aligned_alloc can still return.  Callers do not write into the   *)
(* blocks they hold (their payload writes would only garble next further). *)
(***************************************************************************)
EXTENDS Naturals, FiniteSets

CONSTANTS Threads,
          InitialBlocks,  \* config.initial_blocks
          HeapBlocks,     \* blocks the heap can still give (bound)
          MaxHeld,        \* blocks a caller holds at once (bound)
          MaxOps,         \* calls per thread (bound)
          Width           \* bits of a u64 counter

Null == 0
BlockIds == 1 .. InitialBlocks + HeapBlocks
Wrap(x) == x % (2 ^ Width)

VARIABLES head,       \* pool->free_list
          next,       \* next[b]: the pool_node_t link inside block b
          allocated,  \* pool->allocated
          freed,      \* pool->freed
          peak,       \* pool->peak_use
          total,      \* pool->total_allocs
          heapUsed,   \* blocks cauchy_aligned_alloc has returned
          pc,         \* pc[t]: where thread t is
          node,       \* node[t]: alloc's node, or free's block
          snap,       \* snap[t]: alloc's next, or free's head
          held,       \* held[t]: blocks thread t holds (caller state)
          ops         \* ops[t]: calls thread t has made

vars == <<head, next, allocated, freed, peak, total, heapUsed, pc, node, snap, held, ops>>

\* cauchy_pool_create: blocks pushed in address order, so the last is head.
Init ==
    /\ head = InitialBlocks
    /\ next = [b \in BlockIds |-> IF b <= InitialBlocks THEN b - 1 ELSE Null]
    /\ allocated = InitialBlocks
    /\ freed = 0
    /\ peak = 0
    /\ total = 0
    /\ heapUsed = 0
    /\ pc = [t \in Threads |-> "idle"]
    /\ node = [t \in Threads |-> Null]
    /\ snap = [t \in Threads |-> Null]
    /\ held = [t \in Threads |-> {}]
    /\ ops = [t \in Threads |-> 0]

shared == <<head, next, allocated, freed, peak, total, heapUsed>>

\* A caller enters cauchy_pool_alloc: total_allocs is bumped first.
StartAlloc(t) ==
    /\ pc[t] = "idle"
    /\ ops[t] < MaxOps
    /\ Cardinality(held[t]) < MaxHeld
    /\ total' = Wrap(total + 1)
    /\ pc' = [pc EXCEPT ![t] = "a_load"]
    /\ ops' = [ops EXCEPT ![t] = @ + 1]
    /\ UNCHANGED <<head, next, allocated, freed, peak, heapUsed, node, snap, held>>

\* A load that goes on to read node->next without the NULL check.
AllocLoadNoNullCheck(t) ==
    /\ pc[t] = "a_load"
    /\ node' = [node EXCEPT ![t] = head]
    /\ pc' = [pc EXCEPT ![t] = "a_next"]
    /\ UNCHANGED <<shared, snap, held, ops>>

\* node = load(free_list), with a non-empty list.
AllocLoad(t) ==
    /\ pc[t] = "a_load"
    /\ head # Null
    /\ node' = [node EXCEPT ![t] = head]
    /\ pc' = [pc EXCEPT ![t] = "a_next"]
    /\ UNCHANGED <<shared, snap, held, ops>>

\* An empty list: return cauchy_aligned_alloc's block, counting it in
\* allocated, or NULL when the heap has none.
AllocFallback(t) ==
    /\ pc[t] = "a_load"
    /\ head = Null
    /\ \/ /\ heapUsed < HeapBlocks
          /\ heapUsed' = heapUsed + 1
          /\ allocated' = Wrap(allocated + 1)
          /\ held' = [held EXCEPT ![t] = @ \cup {InitialBlocks + heapUsed + 1}]
       \/ UNCHANGED <<heapUsed, allocated, held>>
    /\ pc' = [pc EXCEPT ![t] = "idle"]
    /\ UNCHANGED <<head, next, freed, peak, total, node, snap, ops>>

\* next = node->next, read from a block another thread may own by now.
AllocNext(t) ==
    /\ pc[t] = "a_next"
    /\ snap' = [snap EXCEPT ![t] = next[node[t]]]
    /\ pc' = [pc EXCEPT ![t] = "a_cas"]
    /\ UNCHANGED <<shared, node, held, ops>>

\* cas(free_list, node, next): on success the block is the caller's, on
\* failure the loop starts over.
AllocCas(t) ==
    /\ pc[t] = "a_cas"
    /\ \/ /\ head = node[t]
          /\ head' = snap[t]
          /\ held' = [held EXCEPT ![t] = @ \cup {node[t]}]
          /\ pc' = [pc EXCEPT ![t] = "a_peak"]
       \/ /\ head # node[t]
          /\ pc' = [pc EXCEPT ![t] = "a_load"]
          /\ UNCHANGED <<head, held>>
    /\ UNCHANGED <<next, allocated, freed, peak, total, heapUsed, node, snap, ops>>

\* in_use as alloc and cauchy_pool_get_stats compute it, in u64.
StatsInUse == Wrap(allocated - freed)

\* The CAS loop that raises peak_use to in_use.
AllocPeak(t) ==
    /\ pc[t] = "a_peak"
    /\ peak' = IF StatsInUse > peak THEN StatsInUse ELSE peak
    /\ pc' = [pc EXCEPT ![t] = "idle"]
    /\ UNCHANGED <<head, next, allocated, freed, total, heapUsed, node, snap, held, ops>>

\* A caller enters cauchy_pool_free with a block it holds.
StartFree(t, b) ==
    /\ pc[t] = "idle"
    /\ ops[t] < MaxOps
    /\ b \in held[t]
    /\ node' = [node EXCEPT ![t] = b]
    /\ pc' = [pc EXCEPT ![t] = "f_load"]
    /\ ops' = [ops EXCEPT ![t] = @ + 1]
    /\ UNCHANGED <<shared, snap, held>>

\* head = load(free_list); node->next = head.
FreeLoad(t) ==
    /\ pc[t] = "f_load"
    /\ snap' = [snap EXCEPT ![t] = head]
    /\ next' = [next EXCEPT ![node[t]] = head]
    /\ pc' = [pc EXCEPT ![t] = "f_cas"]
    /\ UNCHANGED <<head, allocated, freed, peak, total, heapUsed, node, held, ops>>

\* A push whose retry repeats the CAS with the head it loaded first.
FreeCasStaleRetry(t) ==
    /\ pc[t] = "f_cas"
    /\ head = snap[t]
    /\ head' = node[t]
    /\ held' = [held EXCEPT ![t] = @ \ {node[t]}]
    /\ pc' = [pc EXCEPT ![t] = "f_count"]
    /\ UNCHANGED <<next, allocated, freed, peak, total, heapUsed, node, snap, ops>>

\* cas(free_list, head, node): on success the block is on the list.
FreeCas(t) ==
    /\ pc[t] = "f_cas"
    /\ \/ /\ head = snap[t]
          /\ head' = node[t]
          /\ held' = [held EXCEPT ![t] = @ \ {node[t]}]
          /\ pc' = [pc EXCEPT ![t] = "f_count"]
       \/ /\ head # snap[t]
          /\ pc' = [pc EXCEPT ![t] = "f_load"]
          /\ UNCHANGED <<head, held>>
    /\ UNCHANGED <<next, allocated, freed, peak, total, heapUsed, node, snap, ops>>

\* fetch_add(freed, 1)
FreeCount(t) ==
    /\ pc[t] = "f_count"
    /\ freed' = Wrap(freed + 1)
    /\ pc' = [pc EXCEPT ![t] = "idle"]
    /\ UNCHANGED <<head, next, allocated, peak, total, heapUsed, node, snap, held, ops>>

\* The steps of a call in progress; starting a call is the caller's choice.
Step(t) ==
    \/ AllocLoad(t) \/ AllocFallback(t) \/ AllocNext(t) \/ AllocCas(t)
    \/ AllocPeak(t) \/ FreeLoad(t) \/ FreeCas(t) \/ FreeCount(t)

\* Every thread has made its calls and returned.
Finished ==
    /\ \A t \in Threads : pc[t] = "idle" /\ ops[t] = MaxOps
    /\ UNCHANGED vars

Next ==
    \/ \E t \in Threads : StartAlloc(t) \/ Step(t) \/ \E b \in held[t] : StartFree(t, b)
    \/ Finished

\* The scheduler keeps running a thread that is inside a call.
Fairness == \A t \in Threads : WF_vars(Step(t))

Spec == Init /\ [][Next]_vars /\ Fairness

-----------------------------------------------------------------------------
\* The blocks on the free list: those reached from head along next.
RECURSIVE ListFrom(_, _)
ListFrom(b, n) == IF b = Null \/ n = 0 THEN {} ELSE {b} \cup ListFrom(next[b], n - 1)

FreeList == ListFrom(head, Cardinality(BlockIds))

Ptrs == BlockIds \cup {Null}
PCs == {"idle", "a_load", "a_next", "a_cas", "a_peak", "f_load", "f_cas", "f_count"}

TypeOK ==
    /\ head \in Ptrs
    /\ next \in [BlockIds -> Ptrs]
    /\ {allocated, freed, peak, total} \subseteq 0 .. 2 ^ Width - 1
    /\ pc \in [Threads -> PCs]
    /\ snap \in [Threads -> Ptrs]
    /\ \A t \in Threads : pc[t] \in {"a_next", "a_cas", "f_load", "f_cas"} => node[t] \in BlockIds
    /\ held \in [Threads -> SUBSET BlockIds]

\* Every call a thread is inside returns (the retry loops in alloc and
\* free end) once the other threads stop making calls.
OpsComplete == \A t \in Threads : pc[t] # "idle" ~> pc[t] = "idle"

\* No block is handed to two callers at once, and no block a caller holds
\* is on the free list (the ABA hazard of the pop in cauchy_pool_alloc).
NoDoubleHandOut ==
    /\ \A t, u \in Threads : t # u => held[t] \cap held[u] = {}
    /\ \A t \in Threads : held[t] \cap FreeList = {}

\* peak_use, the peak concurrent usage, never exceeds the number of blocks
\* the pool has ever owned.
PeakWithinBlocks == peak <= InitialBlocks + heapUsed

=============================================================================
