-------------------------- MODULE AbstractCounter --------------------------
(***************************************************************************)
(* What a replicated PN-Counter promises (spec.md, PN-Counter and the      *)
(* algebraic laws), with no counter representation: every node's updates  *)
(* form a sequence, each replica has seen a prefix of every node's         *)
(* sequence, its own one in full, and takes in a state another replica     *)
(* shipped earlier by joining prefixes.  A replica's value is the sum of   *)
(* the updates it has seen.                                                *)
(***************************************************************************)
EXTENDS Integers, Sequences, SequencesExt

CONSTANTS Replicas, Deltas, MaxOps

VARIABLES hist,   \* hist[i]: the deltas node i has issued, in order
          seen,   \* seen[r][i]: how many of i's updates replica r has seen
          sent    \* the seen-vectors replicas have shipped

vars == <<hist, seen, sent>>

Init ==
    /\ hist = [i \in Replicas |-> <<>>]
    /\ seen = [r \in Replicas |-> [i \in Replicas |-> 0]]
    /\ sent = {}

\* A replica issues an update; it has seen it at once.
Update(r, d) ==
    /\ Len(hist[r]) < MaxOps
    /\ hist' = [hist EXCEPT ![r] = Append(@, d)]
    /\ seen' = [seen EXCEPT ![r][r] = @ + 1]
    /\ UNCHANGED sent

\* A replica ships what it has seen.
Ship(r) ==
    /\ UNCHANGED hist
    /\ sent' = sent \cup {seen[r]}
    /\ UNCHANGED seen

\* A replica takes in a shipped state, however old: it has now seen the
\* longer of the two prefixes of every node's updates.
Longer(a, b) == [i \in DOMAIN a |-> IF b[i] > a[i] THEN b[i] ELSE a[i]]

Join(r, v) ==
    /\ v \in sent
    /\ UNCHANGED <<hist, sent>>
    /\ seen' = [seen EXCEPT ![r] = Longer(@, v)]

Next ==
    \E r \in Replicas :
        \/ \E d \in Deltas : Update(r, d)
        \/ Ship(r)
        \/ \E v \in sent : Join(r, v)

Spec == Init /\ [][Next]_vars

\* The value replica r reads: the sum of the updates it has seen.
Value(r) ==
    LET SeenOf(i) == FoldLeft(+, 0, SubSeq(hist[i], 1, seen[r][i]))
    IN FoldSet(LAMBDA i, acc : acc + SeenOf(i), 0, Replicas)

=============================================================================
