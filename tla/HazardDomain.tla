---------------------------- MODULE HazardDomain ----------------------------
(***************************************************************************)
(* Hazard-pointer domains of src/src/core/hazard.c used the way they are   *)
(* meant to be: in each domain d, readers get the node in the shared       *)
(* pointer loc[d] through cauchy_hazard_protect and hold it until          *)
(* cauchy_hazard_clear; a writer swaps loc[d] to a free node and retires   *)
(* the old one; cauchy_hazard_reclaim hands a retired node to retire_fn    *)
(* (frees it) when no record of the domain holds it.  One action per       *)
(* atomic step.  get_hazard_record keeps one (domain, record) pair per     *)
(* thread in thread-local storage; records are never deactivated, so its   *)
(* scan for an inactive record never claims one and every cache miss      *)
(* allocates and pushes a new record.  A record uses slot 0.  Record and   *)
(* retired-pool allocation are assumed to succeed.                         *)
(***************************************************************************)
EXTENDS Naturals, SequencesExt

CONSTANTS Threads,
          Domains,
          Nodes,      \* node addresses, reused once freed
          Threshold,  \* MAX_HAZARD_THREADS * MAX_HAZARD_POINTERS * 2, scaled
          MaxOps      \* calls per thread (bound)

Null == "null"

\* A record is named by its owner and how many records the owner had made.
RecordIds == Threads \X (1 .. MaxOps)

VARIABLES loc,        \* loc[d]: the shared cauchy_atomic_ptr_t of domain d
          state,      \* state[n]: "live" in some loc, "retired", or "free"
          recs,       \* recs[d]: domain->head list, newest record first
          recordCount,\* recordCount[d]: domain->record_count
          hazard,     \* hazard[r]: slot 0 of record r
          retired,    \* retired[r]: r's retired_list, newest first
          count,      \* count[r]: r's retired_count
          tls,        \* tls[t]: <<tls_domain, tls_hazard_record>> of thread t
          made,       \* made[t]: records thread t has allocated
          pc, after,  \* where t is, and where get_hazard_record returns to
          dom, rec,   \* the domain of t's call and the record it works with
          ptr,        \* protect's ptr, or the node being retired
          snap,       \* the head a record push or a scan loaded
          cur, pos,   \* reclaim's place in retired[rec[t]], is_hazardous's in snap
          guard,      \* guard[t][d]: the node t got from protect on d and holds
          ops

shared == <<loc, state, recs, recordCount>>
records == <<hazard, retired, count>>
locals == <<after, dom, rec, ptr, snap, cur, pos>>
vars == <<shared, records, tls, made, pc, locals, guard, ops>>

Init ==
    /\ loc = CHOOSE f \in [Domains -> Nodes] : IsInjective(f)
    /\ state = [n \in Nodes |-> IF \E d \in Domains : loc[d] = n THEN "live" ELSE "free"]
    /\ recs = [d \in Domains |-> <<>>]
    /\ recordCount = [d \in Domains |-> 0]
    /\ hazard = [r \in RecordIds |-> Null]
    /\ retired = [r \in RecordIds |-> <<>>]
    /\ count = [r \in RecordIds |-> 0]
    /\ tls = [t \in Threads |-> <<Null, Null>>]
    /\ made = [t \in Threads |-> 0]
    /\ pc = [t \in Threads |-> "idle"]
    /\ after = [t \in Threads |-> "idle"]
    /\ dom = [t \in Threads |-> Null]
    /\ rec = [t \in Threads |-> Null]
    /\ ptr = [t \in Threads |-> Null]
    /\ snap = [t \in Threads |-> <<>>]
    /\ cur = [t \in Threads |-> 1]
    /\ pos = [t \in Threads |-> 1]
    /\ guard = [t \in Threads |-> [d \in Domains |-> Null]]
    /\ ops = [t \in Threads |-> 0]

Goto(t, l) == pc' = [pc EXCEPT ![t] = l]

\* A cache hit that does not check the cached record's domain.
EnterAnyDomain(t, d, l) ==
    /\ dom' = [dom EXCEPT ![t] = d]
    /\ IF tls[t][2] # Null
       THEN /\ rec' = [rec EXCEPT ![t] = tls[t][2]]
            /\ Goto(t, l)
            /\ UNCHANGED <<after, made>>
       ELSE /\ rec' = [rec EXCEPT ![t] = <<t, made[t] + 1>>]
            /\ made' = [made EXCEPT ![t] = @ + 1]
            /\ after' = [after EXCEPT ![t] = l]
            /\ Goto(t, "g_load")

\* get_hazard_record(d) on entry to protect, clear, retire and reclaim:
\* the TLS record when the cache holds d, else (the scan claims nothing)
\* a fresh zeroed record, active, to be pushed before going on to l.
Enter(t, d, l) ==
    /\ dom' = [dom EXCEPT ![t] = d]
    /\ IF tls[t][1] = d /\ tls[t][2] # Null
       THEN /\ rec' = [rec EXCEPT ![t] = tls[t][2]]
            /\ Goto(t, l)
            /\ UNCHANGED <<after, made>>
       ELSE /\ rec' = [rec EXCEPT ![t] = <<t, made[t] + 1>>]
            /\ made' = [made EXCEPT ![t] = @ + 1]
            /\ after' = [after EXCEPT ![t] = l]
            /\ Goto(t, "g_load")

\* head = load(domain->head); rec->next = head.
GetRecordLoad(t) ==
    /\ pc[t] = "g_load"
    /\ snap' = [snap EXCEPT ![t] = recs[dom[t]]]
    /\ Goto(t, "g_cas")
    /\ UNCHANGED <<shared, records, tls, made, after, dom, rec, ptr, cur, pos, guard, ops>>

\* cas(domain->head, head, rec); then record_count++ and the TLS pair set.
GetRecordCas(t) ==
    LET d == dom[t] IN
    /\ pc[t] = "g_cas"
    /\ \/ /\ recs[d] = snap[t]
          /\ recs' = [recs EXCEPT ![d] = <<rec[t]>> \o @]
          /\ recordCount' = [recordCount EXCEPT ![d] = @ + 1]
          /\ tls' = [tls EXCEPT ![t] = <<d, rec[t]>>]
          /\ Goto(t, after[t])
       \/ /\ recs[d] # snap[t]
          /\ Goto(t, "g_load")
          /\ UNCHANGED <<recs, recordCount, tls>>
    /\ UNCHANGED <<loc, state, records, made, locals, guard, ops>>

\* A reader calls cauchy_hazard_protect(d, 0, &loc[d]).
StartProtect(t, d) ==
    /\ pc[t] = "idle"
    /\ ops[t] < MaxOps
    /\ guard[t][d] = Null
    /\ Enter(t, d, "p_load")
    /\ ops' = [ops EXCEPT ![t] = @ + 1]
    /\ UNCHANGED <<shared, records, tls, ptr, snap, cur, pos, guard>>

\* ptr = load(pptr)
ProtectLoad(t) ==
    /\ pc[t] = "p_load"
    /\ ptr' = [ptr EXCEPT ![t] = loc[dom[t]]]
    /\ Goto(t, "p_store")
    /\ UNCHANGED <<shared, records, tls, made, after, dom, rec, snap, cur, pos, guard, ops>>

\* store(hazards[0], ptr) with release, then the seq_cst fence.
ProtectStore(t) ==
    /\ pc[t] = "p_store"
    /\ hazard' = [hazard EXCEPT ![rec[t]] = ptr[t]]
    /\ Goto(t, "p_check")
    /\ UNCHANGED <<shared, retired, count, tls, made, locals, guard, ops>>

\* A protect that returns the pointer without loading it again.
ProtectNoRecheck(t) ==
    /\ pc[t] = "p_check"
    /\ guard' = [guard EXCEPT ![t][dom[t]] = ptr[t]]
    /\ Goto(t, "idle")
    /\ UNCHANGED <<shared, records, tls, made, locals, ops>>

\* while (ptr != load(pptr)): an unchanged pointer is returned and the
\* caller holds the node; a changed one restarts the loop.
ProtectCheck(t) ==
    /\ pc[t] = "p_check"
    /\ \/ /\ loc[dom[t]] = ptr[t]
          /\ guard' = [guard EXCEPT ![t][dom[t]] = ptr[t]]
          /\ Goto(t, "idle")
       \/ /\ loc[dom[t]] # ptr[t]
          /\ Goto(t, "p_load")
          /\ UNCHANGED guard
    /\ UNCHANGED <<shared, records, tls, made, locals, ops>>

\* The holder of a node calls cauchy_hazard_clear(d, 0).
StartClear(t, d) ==
    /\ pc[t] = "idle"
    /\ ops[t] < MaxOps
    /\ guard[t][d] # Null
    /\ Enter(t, d, "p_clear")
    /\ ops' = [ops EXCEPT ![t] = @ + 1]
    /\ UNCHANGED <<shared, records, tls, ptr, snap, cur, pos, guard>>

\* store(hazards[0], NULL) in the record get_hazard_record returned; the
\* caller no longer holds the node.
Clear(t) ==
    /\ pc[t] = "p_clear"
    /\ hazard' = [hazard EXCEPT ![rec[t]] = Null]
    /\ guard' = [guard EXCEPT ![t][dom[t]] = Null]
    /\ Goto(t, "idle")
    /\ UNCHANGED <<shared, retired, count, tls, made, locals, ops>>

\* A writer swaps loc[d] to a free node and calls cauchy_hazard_retire(d)
\* on the old one.
StartRetire(t, d, n) ==
    /\ pc[t] = "idle"
    /\ ops[t] < MaxOps
    /\ state[n] = "free"
    /\ loc' = [loc EXCEPT ![d] = n]
    /\ state' = [state EXCEPT ![n] = "live", ![loc[d]] = "retired"]
    /\ ptr' = [ptr EXCEPT ![t] = loc[d]]
    /\ Enter(t, d, "r_push")
    /\ ops' = [ops EXCEPT ![t] = @ + 1]
    /\ UNCHANGED <<recs, recordCount, records, tls, snap, cur, pos, guard>>

\* A retire that links the node in without counting it.
RetirePushNoCount(t) ==
    /\ pc[t] = "r_push"
    /\ retired' = [retired EXCEPT ![rec[t]] = <<ptr[t]>> \o @]
    /\ cur' = [cur EXCEPT ![t] = 1]
    /\ Goto(t, IF count[rec[t]] >= Threshold THEN "c_next" ELSE "idle")
    /\ UNCHANGED <<shared, hazard, count, tls, made, after, dom, rec, ptr, snap, pos, guard, ops>>

\* A retired_node_t from the retired pool is pushed on the record's list
\* and counted; at Threshold the call goes on into cauchy_hazard_reclaim,
\* whose get_hazard_record hits the cache just set.
RetirePush(t) ==
    /\ pc[t] = "r_push"
    /\ retired' = [retired EXCEPT ![rec[t]] = <<ptr[t]>> \o @]
    /\ count' = [count EXCEPT ![rec[t]] = @ + 1]
    /\ cur' = [cur EXCEPT ![t] = 1]
    /\ Goto(t, IF count[rec[t]] + 1 >= Threshold THEN "c_next" ELSE "idle")
    /\ UNCHANGED <<shared, hazard, tls, made, after, dom, rec, ptr, snap, pos, guard, ops>>

\* A thread calls cauchy_hazard_reclaim(d).
StartReclaim(t, d) ==
    /\ pc[t] = "idle"
    /\ ops[t] < MaxOps
    /\ cur' = [cur EXCEPT ![t] = 1]
    /\ Enter(t, d, "c_next")
    /\ ops' = [ops EXCEPT ![t] = @ + 1]
    /\ UNCHANGED <<shared, records, tls, ptr, snap, pos, guard>>

\* while (curr): the next node of the record's retired list is checked
\* by is_hazardous, which loads domain->head; past the end reclaim returns.
ReclaimNext(t) ==
    /\ pc[t] = "c_next"
    /\ \/ /\ cur[t] > Len(retired[rec[t]])
          /\ Goto(t, "idle")
          /\ UNCHANGED <<snap, pos>>
       \/ /\ cur[t] <= Len(retired[rec[t]])
          /\ snap' = [snap EXCEPT ![t] = recs[dom[t]]]
          /\ pos' = [pos EXCEPT ![t] = 1]
          /\ Goto(t, "c_scan")
    /\ UNCHANGED <<shared, records, tls, made, after, dom, rec, ptr, cur, guard, ops>>

\* A scan that stays on a record whose slot does not hold the node.
ReclaimScanNoAdvance(t) ==
    LET n == retired[rec[t]][cur[t]] IN
    /\ pc[t] = "c_scan"
    /\ pos[t] <= Len(snap[t])
    /\ hazard[snap[t][pos[t]]] = n
    /\ cur' = [cur EXCEPT ![t] = @ + 1]
    /\ Goto(t, "c_next")
    /\ UNCHANGED <<shared, records, tls, made, after, dom, rec, ptr, snap, pos, guard, ops>>

\* is_hazardous visits one record of the domain's list (every record is
\* active): a slot holding the node makes it hazardous and reclaim keeps it.
ReclaimScan(t) ==
    LET n == retired[rec[t]][cur[t]] IN
    /\ pc[t] = "c_scan"
    /\ pos[t] <= Len(snap[t])
    /\ \/ /\ hazard[snap[t][pos[t]]] = n
          /\ cur' = [cur EXCEPT ![t] = @ + 1]
          /\ Goto(t, "c_next")
          /\ UNCHANGED pos
       \/ /\ hazard[snap[t][pos[t]]] # n
          /\ pos' = [pos EXCEPT ![t] = @ + 1]
          /\ UNCHANGED <<pc, cur>>
    /\ UNCHANGED <<shared, records, tls, made, after, dom, rec, ptr, snap, guard, ops>>

\* A reclaim that frees the node but leaves it on the list.
ReclaimFreeNoUnlink(t) ==
    /\ pc[t] = "c_scan"
    /\ pos[t] > Len(snap[t])
    /\ state' = [state EXCEPT ![retired[rec[t]][cur[t]]] = "free"]
    /\ cur' = [cur EXCEPT ![t] = @ + 1]
    /\ Goto(t, "c_next")
    /\ UNCHANGED <<loc, recs, recordCount, records, tls, made, after, dom, rec, ptr, snap, pos, guard, ops>>

\* A reclaim that unlinks the node without lowering retired_count.
ReclaimFreeNoCount(t) ==
    /\ pc[t] = "c_scan"
    /\ pos[t] > Len(snap[t])
    /\ state' = [state EXCEPT ![retired[rec[t]][cur[t]]] = "free"]
    /\ retired' = [retired EXCEPT ![rec[t]] = RemoveAt(@, cur[t])]
    /\ Goto(t, "c_next")
    /\ UNCHANGED <<loc, recs, recordCount, hazard, count, tls, made, locals, guard, ops>>

\* No record holds the node: retire_fn frees it, it is unlinked, its
\* descriptor goes back to the pool and retired_count drops.
ReclaimFree(t) ==
    /\ pc[t] = "c_scan"
    /\ pos[t] > Len(snap[t])
    /\ state' = [state EXCEPT ![retired[rec[t]][cur[t]]] = "free"]
    /\ retired' = [retired EXCEPT ![rec[t]] = RemoveAt(@, cur[t])]
    /\ count' = [count EXCEPT ![rec[t]] = @ - 1]
    /\ Goto(t, "c_next")
    /\ UNCHANGED <<loc, recs, recordCount, hazard, tls, made, locals, guard, ops>>

\* The steps of a call in progress; starting a call is the caller's choice.
Step(t) ==
    \/ GetRecordLoad(t) \/ GetRecordCas(t)
    \/ ProtectLoad(t) \/ ProtectStore(t) \/ ProtectCheck(t) \/ Clear(t)
    \/ RetirePush(t) \/ ReclaimNext(t) \/ ReclaimScan(t) \/ ReclaimFree(t)

\* Every thread has made its calls and returned.
Finished ==
    /\ \A t \in Threads : pc[t] = "idle" /\ ops[t] = MaxOps
    /\ UNCHANGED vars

Next ==
    \/ \E t \in Threads : \E d \in Domains :
          \/ StartProtect(t, d) \/ StartClear(t, d) \/ StartReclaim(t, d)
          \/ \E n \in Nodes : StartRetire(t, d, n)
    \/ \E t \in Threads : Step(t)
    \/ Finished

\* The scheduler keeps running a thread that is inside a call.
Fairness == \A t \in Threads : WF_vars(Step(t))

Spec == Init /\ [][Next]_vars /\ Fairness

-----------------------------------------------------------------------------
PCs == {"idle", "g_load", "g_cas", "p_load", "p_store", "p_check",
        "p_clear", "r_push", "c_next", "c_scan"}

TypeOK ==
    /\ loc \in [Domains -> Nodes]
    /\ state \in [Nodes -> {"live", "retired", "free"}]
    /\ recs \in [Domains -> Seq(RecordIds)]
    /\ hazard \in [RecordIds -> Nodes \cup {Null}]
    /\ retired \in [RecordIds -> Seq(Nodes)]
    /\ count \in [RecordIds -> Nat]
    /\ guard \in [Threads -> [Domains -> Nodes \cup {Null}]]
    /\ pc \in [Threads -> PCs]

\* A node a thread got from cauchy_hazard_protect on a domain is not freed
\* by any thread's reclaim of that domain before the holder clears it,
\* whatever the order of the load, publish and re-check against the
\* writer's swap, retire and the record-by-record scan, and however the
\* threads move between domains through the one-entry TLS record cache.
NoUseAfterReclaim ==
    \A t \in Threads, d \in Domains : guard[t][d] # Null => state[guard[t][d]] # "free"

\* retire_fn is called once per retirement: reclaim only frees a node that
\* is retired, never one already freed or back in a loc.
NoDoubleReclaim ==
    [][\A n \in Nodes : state'[n] = "free" /\ state[n] # "free" => state[n] = "retired"]_state

\* Thread t has swapped ptr[t] out of a loc and not yet pushed it.
Retiring(t) == pc[t] = "r_push" \/ (pc[t] \in {"g_load", "g_cas"} /\ after[t] = "r_push")

\* Every retired node is on exactly one record's retired list, once, or
\* about to be pushed by the writer that swapped it out, and each record's
\* retired_count is the length of its list.
RetiredTracked ==
    /\ \A n \in Nodes :
          state[n] = "retired" <=>
              \/ \E r \in RecordIds : n \in ToSet(retired[r])
              \/ \E t \in Threads : Retiring(t) /\ ptr[t] = n
    /\ \A r, s \in RecordIds : r # s => ToSet(retired[r]) \cap ToSet(retired[s]) = {}
    /\ \A r \in RecordIds : count[r] = Len(retired[r]) /\ IsInjective(retired[r])

\* Every call a thread is inside returns (protect's retry loop, the record
\* push and the reclaim scan end) once the other threads stop calling.
CallsReturn == \A t \in Threads : pc[t] # "idle" ~> pc[t] = "idle"

=============================================================================
