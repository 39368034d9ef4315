# TLA+ models of cauchy

This directory holds TLA+ models of the C library under `src/`. cauchy is a set
of state-based CRDTs (conflict-free replicated data types) on top of a
lock-free memory layer. The models are checked with TLC.

## The system

| Part | Source | State | Operations that change state |
|---|---|---|---|
| G-Counter | `src/src/crdt/g_counter.c` | `counts[MAX_NODES]` (u64), `num_nodes` | init, increment, add, merge, deserialize |
| PN-Counter | `src/src/crdt/pn_counter.c` | two G-Counters | init, increment, decrement, add, merge, deserialize |
| OR-Set | `src/src/crdt/or_set.c` | hash buckets of entries (payload, tag = (node_id, timestamp), removed), `entry_count`, `active_count`, `timestamp` | init, add, remove, merge |
| LWW-Register | `src/src/crdt/lww_register.c` | value, timestamp, node_id | set, merge, deserialize |
| G-Set / 2P-Set | `src/src/crdt/g_set.c`, `2p_set.c` | hash set; pair of G-Sets | add, remove, merge |
| Vector clock / context | `src/src/core/vclock.c`, `cauchy.c` | entries, num_nodes; context clock and op counter | increment, merge, gen_uid, tick, merge_clock |
| Block pool | `src/src/core/memory.c` | Treiber-stack free list, atomic statistics | alloc, free |
| Hazard domain | `src/src/core/hazard.c` | list of per-thread records (hazards, retired list) | protect, clear, retire, reclaim |

How the parts interact:
- Replicas exchange CRDT states, either serialized or as copies, and merge
  them. Transport and anti-entropy are outside the library.
- The OR-Set and the G-Set take their entries from a block pool, and fall back
  to `malloc` when the pool is empty.
- The hazard domain keeps its retired nodes in a block pool.

The hard behaviours are:
- merges applied late, twice, out of order, or stopped halfway by NoMem;
- u64 wrap-around;
- threads interleaving at every atomic step in the pool and the hazard domain.

## Modules

- **`GCounter`**: pure operators on a `cauchy_gcounter_t` value.
  - A u64 is kept at `Width` bits. `Wrap` is the C `+=` modulo 2^Width.
  - The wire format is a word sequence: `<<num_nodes>>` followed by the live
    entries.
  - `GDeserialize` checks the header and the length as the code does.
  - `GCompare` is the loop of `cauchy_gcounter_compare`: two flags over the
    slots of the wider counter, a missing slot read as 0 (`GEntry`).
- **`Uid`**: `cauchy_uid_create`, `cauchy_uid_compare` (timestamp first, then
  node id) and `cauchy_uid_equals` from `types.h`. OR-Set tags and the
  context's `gen_uid` are built with them.
- **`PNCounter`**: the PN-Counter operators.
  - `PNAdd` routes by the sign of the i64 delta and stores `(u64)(-delta)`.
  - `PNValue` applies the two `(i64)` casts. The i64 subtraction can
    overflow, which is undefined in C; the model takes the wrap the build
    produces.
  - `PNDeserialize` returns the code's partial result on failure: the new
    positive half is kept.
- **`CounterReplicas`**: replicas, each with its own node id.
  - Variables:
    - `pn`: each replica's counter;
    - `net`: the set of buffers ever sent, which models loss, duplication and
      reordering;
    - `hist`: a ghost sequence of the updates each replica issued.
  - Actions:
    - `Increment`, `Decrement` and `Add` are the library calls, made through
      `LocalUpdate`.
    - `Send` is serialize.
    - `Receive` is deserialize into a fresh counter followed by merge.
  - Each buffer in `net` carries a ghost `seen`: how many of each node's
    updates the shipped counter holds (`PrefixOf`).
  - `Abs` instantiates `AbstractCounter`: a replica's abstract `seen[r][i]`
    is the prefix of node i's updates whose positive and negative parts are
    r's two entries for i (unique, since every update raises one half).
- **`AbstractCounter`**: what a replicated counter promises, with no
  counter representation. Each node's updates form a sequence; each replica
  has seen a prefix of every node's sequence, its own in full. `Update`,
  `Ship` and `Join` (pointwise longer prefix with a state some replica
  shipped, however old). `Value(r)` is the sum of the updates r has seen.
- **`ORSet`**: the OR-Set operators on a set value.
  - Buckets are abstracted: an entry is found by its payload, and bucket order
    only decides the order in which merge visits entries. A merge is a
    `FoldSet` over any order.
  - `MergeEntry` is one iteration of the merge loop.
  - `NeedsAlloc` gives the source entries whose copy needs an allocation, which
    is where NoMem can stop the merge.
  - The iterator keeps the code's bucket chains: `InBucket` places an entry
    by a layout `B` (payload to bucket), `ChainHead`/`ChainNext` walk a chain
    newest first, as the head insertion leaves it. `IterInit` and `IterNext`
    are `cauchy_orset_iter_init` and `cauchy_orset_iter_next`, including the
    skip of tombstoned entries and the move to the next non-empty bucket.
    `IterNext` reports "spins" where the code's loop would not end.
- **`ORSetReplicas`**: replicas that add, remove and merge copies.
  - `net[r]` is the last copy replica `r` shipped. A newer copy replaces an
    undelivered one, which is a loss. A copy can be delivered any number of
    times, also after the receiver has moved on.
  - `ReceiveNoMem` applies the part `P` of a copy that the loop visited before
    an allocation for entry `f` failed.
  - `observed` is a ghost set: the tags some remove has tombstoned.
- **`LWWRegister`**: the LWW-Register operators.
  - The value buffer is abstracted to the write its bytes came from.
  - `value_size` counts abstract bytes, and a buffer records how many bytes
    are present (`len`).
  - `LWWDeserialize` writes the header fields into the target before it
    validates them, as the code does.
- **`LWWReplicas`**: replicas that write with their own node id.
  - `net` is the set of buffers ever sent. `Receive` may get any prefix of a
    buffer (a short read).
  - `Receive` decodes into a fresh register and merges it only on OK.
  - `writes` is a ghost set: the registers that accepted sets produced.
- **`GSet` and `TwoPSet`**: the G-Set and 2P-Set operators.
  - A G-Set value keeps its hand-maintained `count` beside its payloads.
  - `GSetIterInit`/`GSetIterNext` walk bucket chains under a layout, as
    `cauchy_gset_iter_init`/`_next` do (`GSkipEmpty` is the search for the
    next non-empty bucket).
  - A merge is a `FoldSet` of `GSetAdd` over the source payloads in any order.
  - `TwoPMergeFailAdded` and `TwoPMergeFailRemoved` are the two ways
    `cauchy_2pset_merge` can return NoMem. In the first, the removed half is
    never merged.
- **`TwoPSetReplicas`**: replicas that add, remove and merge copies.
  - `net` is the set of copies ever sent.
  - `ReceiveNoMem` stops a merge at the add of a payload that needs an
    allocation.
- **`BlockPool`**: `cauchy_pool_create`, `cauchy_pool_alloc` and
  `cauchy_pool_free` for concurrent threads, one action per atomic step.
  - `head` is `free_list` and `next[b]` is the link word inside block `b`.
    `pc`, `node` and `snap` are each thread's place and locals.
  - Alloc is `StartAlloc` (total_allocs), `AllocLoad` or `AllocFallback` (an
    empty list: a heap block, or NULL), `AllocNext` (read `node->next`),
    `AllocCas` (success, or retry) and `AllocPeak` (in_use and the peak CAS
    loop).
  - Free is `StartFree`, `FreeLoad` (load head, write `node->next`),
    `FreeCas` and `FreeCount` (`freed++`).
  - `held` is caller state: the blocks a thread got and has not freed.
  - `FreeList` is the set of blocks reachable from `head`.
  - Counters keep `Width` bits. TLC's integers stop at 2^31, so runs use width
    8. Only the wrap of `allocated - freed` matters, and that happens at any
    width.
- **`VClock`**: the vector-clock operators. `VCCompare` is the loop of
  `cauchy_vclock_compare`: it sets the two flags over the padded slots.
- **`Contexts`**: nodes, each with a `cauchy_context_t`.
  - Actions: `GenUid`, `Tick`, `Send` (serialize the clock) and `MergeClock`
    (deserialize, then `merge_clock`).
  - Ghost state: `known[n]` is n's causal past, `events` holds each event's
    clock and past, and `issued[n]` is n's last uid.
- **`HazardDomain`**: threads use two domains, each with its own shared
  pointer `loc[d]`, record list and retired lists. `tls[t]` is the one-entry
  thread-local cache (domain, record) of `hazard.c`; a call on the other
  domain pushes a fresh record.
  - Readers: `StartProtect`, `ProtectLoad`, `ProtectStore` (publish plus
    fence), `ProtectCheck` (re-read), then `StartClear` and `Clear`.
    `guard[t][d]` is the node the reader holds between protect and clear.
  - Writers: `StartRetire` swaps `loc` to a free node, then `RetirePush`
    runs, and it calls reclaim at `Threshold`.
  - Reclaim: `StartReclaim`, `ReclaimNext` (next retired node, snapshot of
    the record list), `ReclaimScan` (one record of `is_hazardous`) and
    `ReclaimFree` (retire_fn, unlink, `retired_count--`).
  - A thread's first call pushes its record (`GetRecordLoad`,
    `GetRecordCas`). Later calls hit the thread-local cache.
  - `state[n]` is ghost: live in `loc`, retired, or freed by retire_fn. A
    freed node can be swapped into `loc` again, as a reused address would be.
- **`MCCounterReplicas`, `MCORSetReplicas`, `MCLWWReplicas` and
  `MCTwoPSetReplicas`**: the instantiations for TLC.
  They define the constants a `.cfg` cannot write, such as negative deltas.

## Runs

| Run | Config | Expect | What it shows |
|---|---|---|---|
| counter_converge | `MCCounterReplicas.cfg` | pass | See below. |
| counter_wrap | `MCCounterWrap.cfg` | violation | `Monotonic` fails: adds of 3 at width 3 take an entry 3 → 6 → 1. The spec (§ G-Counter) says entries never decrease. |
| orset_converge | `MCORSetReplicas.cfg` | pass | See below. |
| orset_equals | `MCORSetEquals.cfg` | violation | `cauchy_orset_equals` reports a replica that added x twice unequal to one that added x once, though both hold exactly {x}: it compares `active_count`, which counts live tags, not distinct payloads. |
| lww_converge | `MCLWWReplicas.cfg` | pass | See below. |
| twopset_converge | `MCTwoPSetReplicas.cfg` | pass | See below. |
| pool_progress | `MCBlockPool.cfg` | pass | See below. |
| pool_aba | `MCPoolABA.cfg` | violation | `NoDoubleHandOut` fails: with two blocks per thread, the pop's stale `next` puts a block that another thread holds back at the head of the free list. spec.md §4.1 calls this ABA harmless. |
| pool_peak | `MCPoolPeak.cfg` | violation | `PeakWithinBlocks` fails: after alloc, free, alloc, free, alloc of the one pre-seeded block, `in_use = allocated - freed` is 1 - 2, which wraps. `peak_use` becomes 255 at width 8, which is 2^64 - 1 in the code. |
| context_causality | `MCContexts.cfg` | pass | See below. |
| hazard_reclaim | `MCHazardDomain.cfg` | pass | See below. |
| lww_decode | `MCLWWDecode.cfg` | violation | `FailedDecodeLeavesTarget` fails: a buffer cut inside the value makes `cauchy_lww_deserialize` return Invalid after it has already written the stamp and size into the target. spec.md §7 says partial work is rolled back. |

**counter_converge** uses 2 replicas, 2 slots, width 5, at most 2 updates per
replica, and deltas {+1, -1, -2}. It checks:
- `CountsMatchSomePrefix`: every replica's entries for node i are what one
  prefix of i's updates adds up to;
- `CompareAgreesWithMerge`: `cauchy_gcounter_compare` says HAPPENS_BEFORE
  or EQUAL for one half against another exactly when merging the first into
  the second changes nothing;
- `AddShiftsValue`: from every reachable counter and for every i64 delta,
  INT64_MIN included, `cauchy_pncounter_add` moves the value by exactly the
  delta in two's complement;
- `ValueIsSeenSum`: at every moment a replica's value is the wrapped sum of
  the updates it has seen;
- `CounterRefinement`: the replicas implement `AbstractCounter`;
- `Monotonic`;
- `EventuallyConverged`: all replicas become equal, and their value is the sum
  of all updates.

**orset_converge** uses 2 replicas, payloads {x, y}, and 2 adds per replica. It
checks:
- `ActiveCountAccurate`;
- `TagsUnique`;
- `AddWins`;
- `IterYieldsActive`: for every set a replica holds and every layout of its
  payloads over 1 to 3 buckets, iter_init then iter_next until false stops,
  hands out every active element, no tombstoned entry and no entry twice.
  It says nothing about how often a payload with two live tags is handed
  out (see below);
- `TombstonesPermanent`;
- `EventuallyConsistent`.

The merges it covers are duplicated, stale and partial (NoMem).

**lww_converge** uses 2 replicas, values {a, b}, timestamps {1, 2} and a
size ceiling of 1. Sizes 0 to 2 are written, so empty writes and Full are
both reached. It checks:
- `RegisterIsSomeWrite`: every register equals, by `cauchy_lww_equals`, the
  result of one accepted set;
- `StampNeverRegresses`;
- `EventuallyConverged`.

Equal timestamps from both replicas exercise the node_id tie-break.

**twopset_converge** uses 2 replicas and payloads {x, y}. It checks:
- `CountsAccurate`;
- `RemovedWereAdded`: every tombstone is in the added half, also after a merge
  that stopped between the halves;
- `GSetIterYieldsAll`: iterating either half under every bucket layout hands
  out each payload once and stops;
- `NoResurrection`: both halves only grow;
- `EventuallyConverged`.

**pool_progress** uses 2 threads, 1 pre-seeded block, 2 heap blocks, up to two
blocks held per thread, and 6 calls per thread. So the list empties, the heap
fallback and its NULL are both reached, both CAS loops fail and retry, and the
ABA interleaving that `pool_aba` reports is among the behaviours explored
(`pool_aba` finds it within these same bounds). It checks:
- `OpsComplete`: every call returns, whatever the other thread does between
  the load and the CAS.

The pool has no refinement property. The contract in `memory.h` (a block is
handed to one caller until it is freed) is exactly what the ABA pop breaks,
so a refinement of it cannot hold. `pool_aba` states the broken part as
`NoDoubleHandOut`. Eight calls per thread would take TLC well over five
minutes at two blocks per thread; six reach every action.

**context_causality** uses 3 nodes, `CAUCHY_MAX_NODES` = 3, and 2 events per
node. So causality can pass through a middle node, and clocks arrive late, twice
or stale. It checks:
- `ClockCharacterisesCausality`: for every pair of events, `VCCompare` says
  HAPPENS_BEFORE exactly when the first is in the second's causal past;
- `SumCountsKnownEvents`;
- `UidsIncrease`: the spec's rule that a node's uids strictly increase, by
  `cauchy_uid_compare`, at every gen_uid.

Node ids at or above `CAUCHY_MAX_NODES` are not enumerated. With one, gen_uid
repeats `(node, 0)` and `UidsIncrease` fails; see the hazard in `PROJECT.json`.

**hazard_reclaim** uses 2 threads, 2 domains, 3 nodes, threshold 2 and 3 calls
per thread. So a reader's protect overlaps a writer's swap, retire and
threshold-triggered reclaim, both record pushes race, and a thread that moves
to the other domain misses its cached record. The two domains start on distinct
nodes (one injective `loc` is chosen, as nodes are interchangeable); three
nodes leave a free one for a swap. It checks:
- `NoUseAfterReclaim`;
- `RetiredTracked`;
- `NoDoubleReclaim`;
- `CallsReturn`.

Why these bounds are enough:
- Two replicas with two updates each give concurrent updates on both sides,
  removes of entries that the other side has not seen, re-delivery of an old
  copy after a local remove, and partial merges.
- Width 5 keeps the pass run clear of wrap-around. Width 3 with three adds of
  3 reaches it.
- The iterator checks enumerate, as constant sets TLC computes once, every
  tag-unique set over the run's tags and every bucket layout with 1 to 3
  buckets, so chains of length 2 and empty buckets before, between and after
  entries all occur. The per-state invariant is membership in that set.
- Every mutant listed in `PROJECT.json` is found under these bounds.

The refinement and `ValueIsSeenSum` are computed from the counters, not
from ghost copies of them: a receive must leave exactly the join of two
prefixes, or no prefix fits and the mapping gives -1, which no abstract
step allows.

**Fairness.** `BlockPool` and `HazardDomain` assume weak fairness of each
thread's steps inside a call. An OS thread that is running is eventually
scheduled again. Starting a call is not fair, because callers may stop. The
liveness properties rest on the bound on calls: lock-free loops only end once
the other threads stop interfering, which is what the code guarantees.

All four replica models assume weak fairness of `Gossip`, which is
"some replica sends, or some replica merges a copy". That stands for the
external anti-entropy the spec requires for convergence. Local updates and NoMem
failures are not fair: they may stop at any time. The liveness properties
therefore state convergence after updates stop.

## Found while modelling, not given a run

- `cauchy_orset_iter_next` reads the next entry of the current chain when it
  is called, not when the previous entry was handed out. If a remove
  tombstones that entry in between, the skip loop leaves the chain, and at the
  last bucket the loop never ends (`or_set.c:242`, in `PROJECT.json`'s
  hazards). The runs check iteration over a set that does not change.
- `or_set.h` calls the iterator one "for unique active elements" and keeps a
  `last_data` field "to skip duplicate values", but `iter_next` never reads
  it: a payload added twice is handed out twice. `IterYieldsActive` leaves
  that multiplicity out, so its pass neither hides nor shows the
  disagreement; it has the same cause as the `orset_equals` finding
  (`active_count` and the iterator work per tag, not per payload), and no
  run slot is left to record it on its own.
- Hazard records are never released, so every miss of the one-entry TLS
  cache pushes another record (`hazard.c:54`): a thread that alternates
  between two domains adds a record per switch. With an ad-hoc invariant
  bounding `recordCount` by the thread count, `HazardDomain` reaches a
  second record of one thread in one domain in twelve steps.
- A thread that protects in one domain, then calls into another, then clears
  in the first, clears the record of the second: the first hazard stays
  published (`hazard.c:129`). `HazardDomain` models the cache, but no run
  states the leak, since all runs are in use.

## Not modelled yet, and the plan

spec.md §7 asks that a failed merge be rolled back. The OR-Set and 2P-Set
merges are not rolled back. The runs above only show that a half-done merge
leaves a consistent set that later merges repair. No run states the rollback
rule itself yet.

Next, in this order:
1. Composing the OR-Set with `BlockPool`: entries that came from `malloc`
   are freed into the pool.
2. Allocation failure in the hazard domain: retire calls retire_fn at once.

The following are left out:
- Atomics and the platform layer are wrappers; the 128-bit CAS has no
  caller, and `platform.h` is compile-time detection. Each atomic call is one step in
  the concurrent models, under sequential consistency. The code's
  acquire/release orders and the seq_cst fence in protect are what make that
  view sound for these algorithms.
- `vclock_set`, `vclock_min`, `is_empty` and copy/clone have no caller in the
  library. `cauchy_init` and `cauchy_shutdown` flip a flag that nothing reads.
- Pool and domain destroy only release memory. `max_blocks` is never read by
  the code. `contention` is never incremented.
- `types.c` only formats strings.
- LWW-Map and RGA have no implementation under `src/`.
- Debug printing and clone/copy are left out. Copy and clone are a
  `memcpy` of the value the models already hold.
