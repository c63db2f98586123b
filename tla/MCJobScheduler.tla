---------------------------- MODULE MCJobScheduler ----------------------------
(* Instances of JobScheduler for TLC. *)
EXTENDS Attendance, TLC

\* All products carry the same (project, name).
OneKey == [p \in Products |-> CHOOSE k \in Keys : TRUE]

\* Every product has a (project, name) of its own.
OwnKeys == [p \in Products |-> p]

\* Workers and pool slots are interchangeable.
Interchangeable == Permutations(Workers) \cup Permutations(Threads)

\* So are products, where each has its own key and none is automatic.
AllInterchangeable == Interchangeable \cup Permutations(Products)

=============================================================================
