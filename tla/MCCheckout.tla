------------------------------ MODULE MCCheckout ------------------------------
(* Instances of Checkout for TLC. *)
EXTENDS Checkout

\* Downloads only reset: their rebase is that of the job.
JobModes == [a \in Threads |-> IF a = Job THEN {"reset", "rebase"} ELSE {"reset"}]

\* The product lists its patches or has none yet; the form of a download has them.
JobLists == [a \in Threads |-> IF a = Job THEN SUBSET Patches ELSE {Patches}]

\* Commit 2 clashes with patch 1 and commit 3 contains it; other patches fit.
Fits == [c \in 1..LastCommit |-> [p \in Patches |->
           IF p = 1 /\ c = 2 THEN "clashes" ELSE IF p = 1 /\ c = 3 THEN "contained"
           ELSE "applies"]]

=============================================================================
