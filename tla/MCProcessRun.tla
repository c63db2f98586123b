----------------------------- MODULE MCProcessRun -----------------------------
(* Instances of ProcessRun for TLC. *)
EXTENDS ProcessRun

\* A job with a probe, a tool and a git command.
ShortScript == <<"probe", "check", "tool", "stream">>

=============================================================================
