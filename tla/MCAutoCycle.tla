----------------------------- MODULE MCAutoCycle -----------------------------
(* Instances of AutoCycle for TLC. *)
EXTENDS AutoCycle, TLC

\* All functions are defined in one file.
OneFile == [f \in Functions |-> CHOOSE p \in Files : TRUE]

\* auto_file_list names every file twice.
ListedTwice == [p \in Files |-> 2]

=============================================================================
