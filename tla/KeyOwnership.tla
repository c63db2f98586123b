----------------------------- MODULE KeyOwnership -----------------------------
(***************************************************************************)
(* Who owns a (project, name): the inductive invariant behind the          *)
(* exclusion of jobs per key, and the scheduler as an implementation of    *)
(* ExclusiveKeys.                                                          *)
(***************************************************************************)
EXTENDS JobScheduler

-----------------------------------------------------------------------------
(* The inductive invariant *)

\* Of the products with one key, at most one is locked.
OneLockPerKey ==
  \A p, q \in Products :
    lock[p] # None /\ lock[q] # None /\ KeyOf[p] = KeyOf[q] => p = q

\* No product is locked whose key a preparation job is running for.
PrepsExcludeLocks ==
  \A j \in Jobs : \A p \in Products :
    Running(j) /\ IsPrep(j) /\ lock[p] # None => KeyOf[p] # Key(j)

OnePrepPerKey ==
  \A i, j \in Jobs :
    Running(i) /\ Running(j) /\ IsPrep(i) /\ IsPrep(j) /\ Key(i) = Key(j) => i = j

\* What claim_jobs has read still holds when it writes: the keys it wants are
\* not busy, and a job it read is deleted or unchanged but for its status.
PlanHolds ==
  /\ loop \notin {"load", "assign"} => plan = {}
  /\ \A r \in plan :
       /\ status[r.job] # "none"
       /\ Row(r.job) => product[r.job] = r.product /\ ~IsPrep(r.job)
       /\ KeyOf[r.product] \notin BusyKeys
  /\ \A r, s \in plan : KeyOf[r.product] = KeyOf[s.product] => r = s
  /\ \A r, s \in plan : r.job = s.job => r = s

\* Of the jobs of one key that are queued a claim has chosen the oldest.
PlanIsOldest ==
  \A r \in plan : \A i \in Jobs :
    status[i] = "queued" /\ ~IsPrep(i) /\ Key(i) = KeyOf[r.product] => r.job <= i

\* Nor is a key busy that claim_prep_jobs has chosen a job for, while that job's row is there.
PicksHold ==
  /\ loop # "assignPrep" => picks = {}
  /\ \A j \in picks :
       /\ status[j] # "none"
       /\ Row(j) => IsPrep(j) /\ Key(j) \notin BusyKeys
  /\ \A i, j \in picks : Row(i) /\ Row(j) /\ Key(i) = Key(j) => i = j

\* And that job is the oldest one.
PicksAreOldest ==
  \A j \in picks : \A i \in Jobs :
    Row(j) /\ status[i] = "queued" /\ IsPrep(i) /\ Key(i) = Key(j) => j <= i

KeysAreOwned == /\ RunningHoldsLock
                /\ OneLockPerKey
                /\ PrepsExcludeLocks
                /\ OnePrepPerKey
                /\ PlanHolds
                /\ PlanIsOldest
                /\ PicksHold
                /\ PicksAreOldest

-----------------------------------------------------------------------------
(* The refinement *)

RunningFor(k) == {j \in Jobs : Running(j) /\ Key(j) = k}

\* The holder of a key is the job whose row says it is running for a product
\* with that key.
keyHolder == [k \in Keys |-> IF RunningFor(k) = {} THEN None
                             ELSE CHOOSE j \in RunningFor(k) : TRUE]

Abstract == INSTANCE ExclusiveKeys WITH holder <- keyHolder

\* A key is never handed from one running job to another without being free in
\* between (claim_jobs and claim_prep_jobs only pick jobs of keys that are not busy).
ImplementsExclusiveKeys == Abstract!Spec

=============================================================================
