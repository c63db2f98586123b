--------------------------- MODULE MCAdministration ---------------------------
(* Instances of Administration for TLC. *)
EXTENDS Administration

\* The last job is a preparation job.
LastPrepares == [j \in Jobs |-> IF \A k \in Jobs : k <= j THEN "prep" ELSE "genut"]

\* One name for all products, or one for each.
SameOrOwn == {f \in [Products -> Names] :
                \/ \A p \in Products : f[p] = CHOOSE n \in Names : TRUE
                \/ /\ f[1] = CHOOSE n \in Names : TRUE
                   /\ \A p, q \in Products : p # q => f[p] # f[q]}

=============================================================================
