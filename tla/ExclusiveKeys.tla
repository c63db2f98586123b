---------------------------- MODULE ExclusiveKeys ----------------------------
(***************************************************************************)
(* What the scheduler promises, whatever happens to threads, clients and   *)
(* the server process: a (project, name) is held by at most one job at a   *)
(* time, a job holds at most one key, and a key that changes hands is free *)
(* in between.                                                             *)
(***************************************************************************)
CONSTANTS Keys, Jobs, None

VARIABLE holder   \* holder[k]: the job running for key k, or None

Init == holder = [k \in Keys |-> None]

\* Jobs start for some of the free keys, in one transaction.
Take == /\ holder' \in [Keys -> Jobs \cup {None}]
        /\ \A k \in Keys : holder[k] # None => holder'[k] = holder[k]
        /\ \A k, l \in Keys : holder'[k] = holder'[l] /\ holder'[k] # None => k = l

\* Some of the running jobs end: one that finishes, or all of them in a crash.
Leave == \E S \in SUBSET Keys :
           holder' = [k \in Keys |-> IF k \in S THEN None ELSE holder[k]]

Next == Leave \/ Take

Spec == Init /\ [][Next]_holder

=============================================================================
