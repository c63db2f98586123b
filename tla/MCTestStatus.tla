----------------------------- MODULE MCTestStatus -----------------------------
(* Instances of TestStatus for TLC. *)
EXTENDS TestStatus

\* All names belong to one project, and all products have one name to start with.
OneProject == [n \in Names |-> CHOOSE x \in Projects : TRUE]
OneName    == [p \in ProductIds |-> CHOOSE n \in Names : TRUE]

\* Every product has a checkout of its own.
OwnRoot == CHOOSE f \in [ProductIds -> Roots] : IsInjective(f)

\* All tests are of one target file.
OneStem == [f \in Files |-> CHOOSE s \in Stems : TRUE]

=============================================================================
